---------------------------- MODULE RateLimiter ----------------------------
(***************************************************************************)
(* The rate gate of a dispatcher (dispatcher/src/outbound/limiter.rs) and  *)
(* the sender that asks it before every Bot API call: one token that comes *)
(* back when the clock's second changes, a minimum gap between two sends   *)
(* to one chat, and the pauses Telegram asks for with a 429.  A denied job *)
(* goes back to the queue for the seconds the gate names, and the queue    *)
(* counts its claim as an attempt.                                         *)
(*                                                                         *)
(* `now' is real time in seconds; the sender reads a wall clock, which may *)
(* step back.  A dispatcher has one sender task and one gate.  What else   *)
(* an answer does to a job is in OutboundQueue.                            *)
(***************************************************************************)
EXTENDS Naturals, Sequences

CONSTANTS
  Chat,
  Second, Interval,     \* a second and per_chat_min_interval_ms, in one unit
  MaxAttempts,          \* dispatcher.max_attempts
  BackoffBase, BackoffCap, Jitter,  \* seconds; Jitter bounds the random share
  Pause,                \* retry_after values, in seconds
  MaxJobs, MaxTime, MaxBack, MaxFaults  \* bounds on jobs, time, the clock's steps, bad answers

\* What the constants are; powers are left to TLC.
LimiterAssumption ==
  /\ Second \in Nat \ {0} /\ Interval \in Nat \ {0} /\ MaxAttempts \in Nat \ {0}
  /\ BackoffBase \in Nat /\ BackoffCap \in Nat /\ Jitter \in Nat /\ Pause \subseteq Nat
  /\ MaxJobs \in Nat /\ MaxTime \in Nat \ {0} /\ MaxBack \in Nat /\ MaxFaults \in Nat
  /\ \A n \in 0..MaxAttempts : 2^n \in Nat

VARIABLES
  now,
  back,      \* how far the clock has stepped back
  jobs,      \* telegram.outbound_jobs, by id
  held, start,  \* the claimed job, and when its call passed the gate
  token, refilled, last, until,  \* LimiterState
  \* history
  sends,     \* calls that passed the gate
  spoke,     \* when the last call to each chat passed it
  stepped,   \* when the clock stepped back
  asked,     \* end of each chat's pause, counted from the call it refused
  faults

clockVars   == <<now, back, stepped>>
limiterVars == <<token, refilled, last, until>>
vars == <<clockVars, jobs, held, start, limiterVars, sends, spoke, asked, faults>>

Never == 0
Clock == MaxBack + now - back   \* never below 1
Time  == 0..(MaxBack + MaxTime)
State == {"waiting", "sending", "settled", "failed_permanent"}
Job   == [chat : Chat, state : State, due : Nat, attempts : 0..MaxAttempts]

Larger(m, n)  == IF m >= n THEN m ELSE n
CeilDiv(m, n) == (m + n - 1) \div n

Init ==
  /\ now = 1 /\ back = 0 /\ stepped = Never
  /\ jobs = << >>
  /\ held = 0 /\ start = Never
  /\ token = TRUE
  /\ refilled = Never
  /\ last = [c \in Chat |-> Never]
  /\ until = [c \in Chat |-> Never]
  /\ sends = 0
  /\ spoke = [c \in Chat |-> Never]
  /\ asked = [c \in Chat |-> Never]
  /\ faults = 0

-----------------------------------------------------------------------------
\* A job becomes due at once.
Enqueue(c) ==
  /\ Len(jobs) < MaxJobs
  /\ jobs' = Append(jobs, [chat |-> c, state |-> "waiting", due |-> Clock, attempts |-> 0])
  /\ UNCHANGED <<clockVars, held, start, limiterVars, sends, spoke, asked, faults>>

Due(j) == jobs[j].state = "waiting" /\ jobs[j].due <= Clock

\* The least due id: the head of its chat, and the first of the heads.
Claim ==
  /\ held = 0
  /\ \E j \in DOMAIN jobs :
       /\ Due(j)
       /\ \A i \in 1..(j - 1) : ~Due(i)
       /\ held' = j
       /\ jobs' = [jobs EXCEPT ![j].state = "sending", ![j].attempts = @ + 1]
  /\ UNCHANGED <<clockVars, start, limiterVars, sends, spoke, asked, faults>>

-----------------------------------------------------------------------------
(* try_acquire *)

ChatHeld == jobs[held].chat

\* The bucket after the refill; a step back refills it too.
Token == token \/ (refilled # Never /\ Clock # refilled)

Cooling(c) == Clock < until[c]

Elapsed(c) == IF Clock < last[c] THEN 0 ELSE Clock - last[c]

TooSoon(c) == last[c] # Never /\ Elapsed(c) * Second < Interval

\* Mutant of Wait: the delay is rounded down.
WaitShort(c) == IF Cooling(c) THEN until[c] - Clock
                ELSE IF TooSoon(c) THEN (Interval - Elapsed(c) * Second) \div Second
                ELSE IF Token THEN 0 ELSE 1

\* Seconds the job is put off for, 0 when it may go; the last case is a
\* token's 1000 / rate milliseconds, rounded up.
Wait(c) == IF Cooling(c) THEN until[c] - Clock
           ELSE IF TooSoon(c) THEN CeilDiv(Interval - Elapsed(c) * Second, Second)
           ELSE IF Token THEN 0 ELSE 1

Passes(c) == ~Cooling(c) /\ ~TooSoon(c) /\ Token

\* RetryWithBackoff: the last attempt is the last whatever used it up.
PutOff(delay) ==
  /\ jobs' = IF jobs[held].attempts >= MaxAttempts
             THEN [jobs EXCEPT ![held].state = "failed_permanent"]
             ELSE [jobs EXCEPT ![held].state = "waiting", ![held].due = Clock + delay]
  /\ held' = 0
  /\ start' = Never

Defer ==
  /\ held # 0 /\ start = Never
  /\ ~Passes(ChatHeld)
  /\ token' = Token
  /\ refilled' = Clock
  /\ PutOff(Wait(ChatHeld))
  /\ UNCHANGED <<clockVars, last, until, sends, spoke, asked, faults>>

Proceed ==
  /\ held # 0 /\ start = Never
  /\ Passes(ChatHeld)
  /\ token' = FALSE
  /\ refilled' = Clock
  /\ last' = [last EXCEPT ![ChatHeld] = Clock]
  /\ start' = Clock
  /\ sends' = sends + 1
  /\ spoke' = [spoke EXCEPT ![ChatHeld] = now]
  /\ UNCHANGED <<clockVars, jobs, held, until, asked, faults>>

-----------------------------------------------------------------------------
(* The answer *)

\* Delivered, or refused for good.
Finish ==
  /\ start # Never
  /\ jobs' = [jobs EXCEPT ![held].state = "settled"]
  /\ held' = 0
  /\ start' = Never
  /\ UNCHANGED <<clockVars, limiterVars, sends, spoke, asked, faults>>

\* A 429: the pause is counted from the reading of the clock before the call.
RateLimited ==
  /\ start # Never
  /\ faults < MaxFaults
  /\ faults' = faults + 1
  /\ \E p \in Pause, j \in 0..Jitter :
       /\ until' = [until EXCEPT ![ChatHeld] = Larger(@, start + p)]
       /\ asked' = [asked EXCEPT ![ChatHeld] = Larger(@, spoke[ChatHeld] + p)]
       /\ PutOff(p + j)
  /\ UNCHANGED <<clockVars, token, refilled, last, sends, spoke>>

Backoff(attempt) == LET grown == BackoffBase * 2^(attempt - 1)
                    IN  IF grown < BackoffCap THEN grown ELSE BackoffCap

Transient ==
  /\ start # Never
  /\ faults < MaxFaults
  /\ faults' = faults + 1
  /\ \E j \in 0..Jitter : PutOff(Backoff(jobs[held].attempts) + j)
  /\ UNCHANGED <<clockVars, limiterVars, sends, spoke, asked>>

-----------------------------------------------------------------------------
Tick ==
  /\ now < MaxTime
  /\ now' = now + 1
  /\ UNCHANGED <<back, stepped, jobs, held, start, limiterVars, sends, spoke, asked, faults>>

StepBack ==
  /\ back < MaxBack
  /\ back' = back + 1
  /\ stepped' = now
  /\ UNCHANGED <<now, jobs, held, start, limiterVars, sends, spoke, asked, faults>>

Next ==
  \/ \E c \in Chat : Enqueue(c)
  \/ Claim \/ Defer \/ Proceed
  \/ Finish \/ RateLimited \/ Transient
  \/ Tick \/ StepBack

Spec == Init /\ [][Next]_vars

-----------------------------------------------------------------------------
(* Properties *)

\* Every variable stays within its type.
TypeOK ==
  /\ now \in 1..MaxTime /\ back \in 0..MaxBack /\ stepped \in 0..MaxTime
  /\ jobs \in Seq(Job) /\ Len(jobs) <= MaxJobs
  /\ held \in 0..Len(jobs) /\ start \in Time
  /\ token \in BOOLEAN /\ refilled \in Time
  /\ last \in [Chat -> Time] /\ until \in [Chat -> Nat]
  /\ sends \in Nat /\ spoke \in [Chat -> 0..MaxTime]
  /\ asked \in [Chat -> Nat]
  /\ faults \in 0..MaxFaults

SendsTo(c)  == sends' = sends + 1 /\ held # 0 /\ ChatHeld = c
PutsOff(c)  == held # 0 /\ start = Never /\ held' = 0 /\ ChatHeld = c

\* Whatever the clock does, two calls to one chat pass the gate at least the
\* minimum gap apart in real time (chat_denial: "rather than racing sends
\* across a time correction").
ChatsSpaced ==
  [][\A c \in Chat : SendsTo(c) /\ spoke[c] # Never
        => (now - spoke[c]) * Second >= Interval]_vars

\* The bucket never banks more than one send: calls that passed are at most
\* one, and one more for every second gone by or step of the clock (refill).
BudgetIsEarned == sends <= now + back

\* A call to a chat passes only after the pause Telegram asked of it, counted
\* from the call that was refused, whichever job asks (penalize).
CooldownKept == [][\A c \in Chat : SendsTo(c) => now >= asked[c]]_vars

\* While the clock keeps going, a job is put off for a reason: a call passed
\* within this second, or one to the chat within its gap, or the chat is
\* paused.  A denial costs nobody else anything (try_acquire: "a denied call
\* never burns budget for nothing").
PutOffForAReason ==
  [][\A c \in Chat : PutsOff(c) /\ stepped = Never =>
        \/ \E d \in Chat : spoke[d] = now
        \/ spoke[c] # Never /\ (now - spoke[c]) * Second < Interval
        \/ now < asked[c]]_vars

\* A job put off comes back no sooner than the pause or the gap that denied it
\* is over (deliver_and_settle: "the row cannot be re-claimed in a hot loop
\* while the gate is closed").  After a step of the clock the gap may not be.
DelayCoversTheGate ==
  [][\A c \in Chat : PutsOff(c) /\ jobs'[held].state = "waiting" =>
        LET due == jobs'[held].due
        IN  /\ due > Clock
            /\ due >= until[c]
            /\ spoke[c] # Never /\ stepped = Never /\ now >= asked[c] =>
                 (due - last[c]) * Second >= Interval]_vars

\* The gate lets no call through too early and puts none off without a reason or
\* for too short a time, whatever the clock and Telegram do (try_acquire, penalize,
\* deliver_and_settle).
GateIsKept ==
  /\ []TypeOK /\ []BudgetIsEarned
  /\ ChatsSpaced /\ CooldownKept /\ PutOffForAReason /\ DelayCoversTheGate

=============================================================================
