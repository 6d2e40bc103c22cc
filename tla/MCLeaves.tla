------------------------------ MODULE MCLeaves ------------------------------
(***************************************************************************)
(* Four components that call no other: the access gate (AccessGate,        *)
(* extended), the rate gate (RateLimiter, R), the attachment store         *)
(* (BlobStore, B) and the parser of the progress stream (EventStream, E).  *)
(* They share no state, so every behaviour of their composition is one of  *)
(* each, and it is enough that a behaviour here runs one of them, picked   *)
(* at the start, while the others rest.                                    *)
(*                                                                         *)
(* The access gate has workers of three processes, two senders, a private  *)
(* chat and a group.  The rate gate has the deployed gap of 1200 ms:       *)
(* twelve tenths, a second is ten.  One of the two documents is over the   *)
(* store's budget.  The stream is every response of up to MaxBytes bytes,  *)
(* in every chunking.                                                      *)
(***************************************************************************)
EXTENDS AccessGate, TLC

CONSTANTS
  Target,                                             \* RateLimiter; its Chat
  Second, Interval, MaxAttempts, BackoffBase, BackoffCap, Jitter, Pause,
  MaxJobs, MaxTime, MaxBack, CallFaults,              \* its MaxFaults
  Document, Size, Budget, StoreFaults, small, large,  \* BlobStore; its MaxFaults
  DataByte, MaxBytes                                  \* EventStream

VARIABLES
  part,  \* the component that runs
  now, back, stepped, jobs, held, start, token, refilled, last, until, sends, spoke, asked,
  callFaults,
  storePc, source, copied, staging, content, meta, stuck, storeFaults,
  response, received, buffer, frames, state

R == INSTANCE RateLimiter WITH Chat <- Target, MaxFaults <- CallFaults, faults <- callFaults

\* A worker stores one download.
B == INSTANCE BlobStore WITH
       Call <- Worker, NoCall <- Nobody, pc <- storePc,
       MaxFaults <- StoreFaults, faults <- storeFaults

E == INSTANCE EventStream

ASSUME LeavesAssumption == R!LimiterAssumption /\ B!StoreAssumption

rateVars   == <<now, back, stepped, jobs, held, start, token, refilled, last, until,
                sends, spoke, asked, callFaults>>
storeVars  == <<storePc, source, copied, staging, content, meta, stuck, storeFaults>>
streamVars == <<response, received, buffer, frames, state>>
allVars    == <<part, vars, rateVars, storeVars, streamVars>>

TwoSizes == small :> 2 @@ large :> 4

AnyChat == CHOOSE c \in Chat : TRUE

\* A component that rests does so in one of its initial states; where a worker that
\* has had no update yet was last is taken once.
MCInit ==
  /\ part \in {"access", "gate", "store", "stream"}
  /\ Init /\ R!Init /\ B!Init
  /\ part # "access" => \A s \in Sender : identity[s] = "absent"
  /\ \A w \in Worker : venue[w] = AnyChat
  /\ part # "store" => \A w \in Worker : source[w] = small
  /\ IF part = "stream" THEN E!Init
     ELSE /\ response = << >> /\ received = 0 /\ buffer = << >>
          /\ frames = << >> /\ state = "open"

\* The chats of the rate gate differ in name only, and the first job names one.
FirstJob == jobs' # << >> => jobs'[1].chat = CHOOSE c \in Target : TRUE

Entry(A)  == part = "access" /\ UNCHANGED <<part, rateVars, storeVars, streamVars>> /\ A
Gate(A)   == part = "gate" /\ UNCHANGED <<part, vars, storeVars, streamVars>> /\ A /\ FirstJob
Store(A)  == part = "store" /\ UNCHANGED <<part, vars, rateVars, streamVars>> /\ A
Stream(A) == part = "stream" /\ UNCHANGED <<part, vars, rateVars, storeVars>> /\ A

MCNext == Entry(Next) \/ Gate(R!Next) \/ Store(B!Next) \/ Stream(E!Next)

MCSpec == MCInit /\ [][MCNext]_allVars

Symmetry == Permutations(Worker)

-----------------------------------------------------------------------------
(* The properties of R, B and E, stated where they are defined *)

\* No call passes too early, and none is put off without a reason or for too short a
\* time, whatever the clock and Telegram do (try_acquire, penalize,
\* deliver_and_settle).
GateIsKept == R!GateIsKept

\* Stored bytes are whole, returned references verify, and staging files are swept
\* (store, verify).
StoreIsKept == B!StoreIsKept

\* The follower is handed exactly the frames of the bytes that came (SseParser).
StreamIsRead == E!TypeOK /\ E!FramesOfTheBytes

=============================================================================
