----------------------------- MODULE Projection -----------------------------
(***************************************************************************)
(* Operation progress, from Platform to the queue of edits: the follower   *)
(* that reads each live operation's event stream, the bounded feed between *)
(* the follower and the consumer, and the accept transaction that judges   *)
(* an event against the inbox and the operation's binding and enqueues its *)
(* render.                                                                 *)
(*                                                                         *)
(* An event is the position of its frame in the operation's stream.  The   *)
(* edits are seen at the queue's interface: accepted renders wait, are     *)
(* taken, come back for a retry, or end.  OutboundQueue is what happens    *)
(* behind that interface, and RenderPipeline puts the two together.        *)
(***************************************************************************)
EXTENDS Naturals, Sequences, FiniteSets

CONSTANTS
  Operation,     \* operation ids; the follower scans them in their order
  MaxFrames,     \* bound on the frames Platform publishes, by operation
  MaxTime,       \* bound on the times frames carry
  MaxStreams,    \* operations followed at once (MAX_STREAMS)
  FeedCapacity,  \* PROJECTION_FEED_CAPACITY
  MaxCloses,     \* stream ends without a frame before a follower gives up
  MaxFaults,     \* bound on restarts, lost streams and redeliveries
  MaxErrors      \* bound on accept transactions that fail

ASSUME ProjectionAssumption ==
  /\ Operation \subseteq Nat
  /\ MaxFrames \in [Operation -> Nat \ {0}]
  /\ {MaxTime, MaxStreams, FeedCapacity, MaxCloses} \subseteq Nat \ {0}
  /\ {MaxFaults, MaxErrors} \subseteq Nat

VARIABLES
  log,        \* Platform: the frames of each operation
  \* telegram.message_bindings and telegram.inbox
  bound,      \* operations that have a binding
  terminal,
  watermark,  \* last_event_at, 0 for null
  rendered,   \* last_rendered_revision
  inbox,      \* events already judged
  edits,      \* edit jobs of each operation, in order of insertion
  \* the dispatcher's memory
  follow,     \* what the task following an operation does
  cursor,     \* last_event_id of that task, 0 for none
  closes,     \* stream ends in a row
  feed,       \* the projection channel
  \* history
  dropped,    \* events whose accept transaction failed
  faults

platformVars == <<log>>
bindingVars  == <<bound, terminal, watermark, rendered, inbox, edits>>
followVars   == <<follow, cursor, closes>>
vars == <<log, bindingVars, followVars, feed, dropped, faults>>

Position  == Nat \ {0}
Event     == [op : Operation, n : Position]
Frame     == [at : 1..MaxTime, last : BOOLEAN]
\* "resend" is a retry of an edit that was downgraded to a send.
EditState == {"ready", "taken", "retry", "resend", "superseded", "ended"}
Edit      == [n : Position, rev : Nat, state : EditState]
Stage     == {"none", "open", "pump", "confirm"}

Init ==
  /\ log = [o \in Operation |-> << >>]
  /\ bound = {}
  /\ terminal = [o \in Operation |-> FALSE]
  /\ watermark = [o \in Operation |-> 0]
  /\ rendered = [o \in Operation |-> 0]
  /\ inbox = {}
  /\ edits = [o \in Operation |-> << >>]
  /\ follow = [o \in Operation |-> "none"]
  /\ cursor = [o \in Operation |-> 0]
  /\ closes = [o \in Operation |-> 0]
  /\ feed = << >>
  /\ dropped = {}
  /\ faults = 0

-----------------------------------------------------------------------------
(* Platform, and the capture that binds an operation to a chat message *)

\* One stream's frames carry times that do not go back, and end with one
\* terminal frame.
Publish(o) ==
  /\ Len(log[o]) < MaxFrames[o]
  /\ \A i \in DOMAIN log[o] : ~log[o][i].last
  /\ \E f \in Frame :
       /\ \A i \in DOMAIN log[o] : log[o][i].at <= f.at
       /\ Len(log[o]) + 1 = MaxFrames[o] => f.last
       /\ log' = [log EXCEPT ![o] = Append(@, f)]
  /\ UNCHANGED <<bindingVars, followVars, feed, dropped, faults>>

Bind(o) ==
  /\ o \notin bound
  /\ bound' = bound \cup {o}
  /\ UNCHANGED <<log, terminal, watermark, rendered, inbox, edits, followVars, feed, dropped,
                 faults>>

-----------------------------------------------------------------------------
(* The follower *)

Followed == {o \in Operation : follow[o] # "none"}

\* Bindings are the only authority on what is still to be followed.
Followable(o) == o \in bound /\ ~terminal[o] /\ follow[o] = "none"

\* A scan opens what is missing, in operation order, up to the stream bound.
Scan(o) ==
  /\ Followable(o)
  /\ \A p \in Operation : Followable(p) => o <= p
  /\ Cardinality(Followed) < MaxStreams
  /\ follow' = [follow EXCEPT ![o] = "open"]
  /\ UNCHANGED <<log, bindingVars, cursor, closes, feed, dropped, faults>>

\* Owner and session are resolved afresh at every open.
Open(o) ==
  /\ follow[o] = "open"
  /\ follow' = [follow EXCEPT ![o] = "pump"]
  /\ UNCHANGED <<log, bindingVars, cursor, closes, feed, dropped, faults>>

\* Mutant of Leave: the task ends and its operation stays in the in-flight set.
LeaveInFlight(o) ==
  /\ follow' = [follow EXCEPT ![o] = "confirm"]
  /\ UNCHANGED <<cursor, closes>>

\* The task ends, and with it everything it remembers.
Leave(o) ==
  /\ follow' = [follow EXCEPT ![o] = "none"]
  /\ cursor' = [cursor EXCEPT ![o] = 0]
  /\ closes' = [closes EXCEPT ![o] = 0]

\* No owner or no session: back to the scan.
LoseSession(o) ==
  /\ follow[o] = "open" /\ faults < MaxFaults
  /\ faults' = faults + 1
  /\ Leave(o)
  /\ UNCHANGED <<log, bindingVars, feed, dropped>>

\* The stream cannot be opened, breaks or closes before a terminal frame.
Disconnect(o) ==
  /\ follow[o] \in {"open", "pump"} /\ faults < MaxFaults
  /\ faults' = faults + 1
  /\ IF closes[o] + 1 >= MaxCloses
     THEN Leave(o)
     ELSE /\ follow' = [follow EXCEPT ![o] = "open"]
          /\ closes' = [closes EXCEPT ![o] = @ + 1]
          /\ UNCHANGED cursor
  /\ UNCHANGED <<log, bindingVars, feed, dropped>>

\* Mutant of Pump: a full feed drops the frame instead of being waited for.
PumpOrDrop(o) ==
  LET n == cursor[o] + 1 IN
  /\ follow[o] = "pump" /\ n \in DOMAIN log[o]
  /\ feed' = IF Len(feed) < FeedCapacity THEN Append(feed, [op |-> o, n |-> n]) ELSE feed
  /\ cursor' = [cursor EXCEPT ![o] = n]
  /\ closes' = [closes EXCEPT ![o] = 0]
  /\ follow' = [follow EXCEPT ![o] = IF log[o][n].last THEN "confirm" ELSE @]
  /\ UNCHANGED <<log, bindingVars, dropped, faults>>

\* The frame after the cursor goes into the feed, which may have to be waited
\* for.  A terminal frame ends the stream.
Pump(o) ==
  LET n == cursor[o] + 1 IN
  /\ follow[o] = "pump" /\ n \in DOMAIN log[o]
  /\ Len(feed) < FeedCapacity
  /\ feed' = Append(feed, [op |-> o, n |-> n])
  /\ cursor' = [cursor EXCEPT ![o] = n]
  /\ closes' = [closes EXCEPT ![o] = 0]
  /\ follow' = [follow EXCEPT ![o] = IF log[o][n].last THEN "confirm" ELSE @]
  /\ UNCHANGED <<log, bindingVars, dropped, faults>>

\* wait_for_durable_terminal: the task keeps its operation until the consumer
\* has made the end durable.
Confirm(o) ==
  /\ follow[o] = "confirm" /\ terminal[o]
  /\ Leave(o)
  /\ UNCHANGED <<log, bindingVars, feed, dropped, faults>>

\* The seam promises at-least-once delivery and no order: any published frame
\* may arrive again, late, or for an operation without a binding.
Redeliver(o) ==
  /\ faults < MaxFaults /\ Len(feed) < FeedCapacity
  /\ faults' = faults + 1
  /\ \E n \in DOMAIN log[o] : feed' = Append(feed, [op |-> o, n |-> n])
  /\ UNCHANGED <<log, bindingVars, followVars, dropped>>

-----------------------------------------------------------------------------
(* accept_operation_event: one transaction *)

Seen(e) == e \in inbox

\* Mutant of Refused: staleness alone; the terminal flag is not looked at.
RefusedIfStale(e) == log[e.op][e.n].at < watermark[e.op]

\* Post-terminal or stale.
Refused(e) == terminal[e.op] \/ log[e.op][e.n].at < watermark[e.op]

\* r is one past the highest revision ever assigned, floored at the delivered one.
Assigned(o, r) ==
  LET used == {rendered[o]} \cup {edits[o][i].rev : i \in DOMAIN edits[o]} IN
  r - 1 \in used /\ \A q \in used : q < r

\* Waiting edits older than r are withdrawn; one that has become a send is not.
Swept(o, r) ==
  [i \in DOMAIN edits[o] |->
     IF edits[o][i].state \in {"ready", "retry"} /\ edits[o][i].rev < r
     THEN [edits[o][i] EXCEPT !.state = "superseded"] ELSE edits[o][i]]

Record(e) ==
  LET o == e.op IN
  \E r \in 1..(MaxFrames[o] + 1) :
    /\ Assigned(o, r)
    /\ terminal' = [terminal EXCEPT ![o] = @ \/ log[o][e.n].last]
    /\ edits' = [edits EXCEPT ![o] =
                    Append(Swept(o, r), [n |-> e.n, rev |-> r, state |-> "ready"])]
    /\ watermark' = [watermark EXCEPT ![o] = log[o][e.n].at]

\* A duplicate and an unbound event leave no trace; a refused one leaves its
\* inbox row.
Judge(e) ==
  IF Seen(e) \/ e.op \notin bound
  THEN UNCHANGED <<inbox, terminal, watermark, edits>>
  ELSE /\ inbox' = inbox \cup {e}
       /\ IF Refused(e) THEN UNCHANGED <<terminal, watermark, edits>> ELSE Record(e)

Consume ==
  /\ feed # << >>
  /\ feed' = Tail(feed)
  /\ Judge(Head(feed))
  /\ UNCHANGED <<log, bound, rendered, followVars, dropped, faults>>

\* The transaction fails; the error is logged and the event is gone.
FailConsume ==
  /\ feed # << >> /\ Cardinality(dropped) < MaxErrors
  /\ feed' = Tail(feed)
  /\ dropped' = dropped \cup {Head(feed)}
  /\ UNCHANGED <<log, bindingVars, followVars, faults>>

-----------------------------------------------------------------------------
(* The queue's sender, at its interface *)

Change(o, i, s) == edits' = [edits EXCEPT ![o][i].state = s]

QueueRest ==
  UNCHANGED <<log, bound, terminal, watermark, inbox, followVars, feed, dropped, faults>>

SenderTakes(o) ==
  /\ \E i \in DOMAIN edits[o] :
       edits[o][i].state \in {"ready", "retry", "resend"} /\ Change(o, i, "taken")
  /\ UNCHANGED rendered /\ QueueRest

SenderRetries(o) ==
  /\ \E i \in DOMAIN edits[o], s \in {"retry", "resend"} :
       edits[o][i].state = "taken" /\ Change(o, i, s)
  /\ UNCHANGED rendered /\ QueueRest

\* The rendered revision only moves forward.
Delivered(o, i) ==
  rendered' = [rendered EXCEPT ![o] = IF edits[o][i].rev > @ THEN edits[o][i].rev ELSE @]

\* Delivered, given up, or found stale.
SenderEnds(o) ==
  /\ \E i \in DOMAIN edits[o], s \in {"ended", "superseded"} :
       /\ edits[o][i].state = "taken" /\ Change(o, i, s)
       /\ UNCHANGED rendered \/ (s = "ended" /\ Delivered(o, i))
  /\ QueueRest

Taken ==
  UNION {{<<o, i>> : i \in {k \in DOMAIN edits[o] : edits[o][k].state = "taken"}} : o \in Operation}

\* The edits that had become sends and whose lease has expired are quarantined by
\* one statement, whatever their operations.
Quarantine ==
  /\ \E gone \in (SUBSET Taken) \ {{}} :
       edits' = [o \in Operation |-> [i \in DOMAIN edits[o] |->
                   IF <<o, i>> \in gone THEN [edits[o][i] EXCEPT !.state = "ended"]
                   ELSE edits[o][i]]]
  /\ UNCHANGED rendered /\ QueueRest

\* The revision of an edit that has ended is recorded later: after "not modified",
\* or when the operator's recovery has sent its render.
SenderRecords(o) ==
  /\ \E i \in DOMAIN edits[o] : edits[o][i].state = "ended" /\ Delivered(o, i)
  /\ UNCHANGED edits /\ QueueRest

-----------------------------------------------------------------------------
\* The dispatcher stops and starts again: its memory is gone.
Restart ==
  /\ faults < MaxFaults
  /\ Followed # {} \/ feed # << >>
  /\ faults' = faults + 1
  /\ follow' = [o \in Operation |-> "none"]
  /\ cursor' = [o \in Operation |-> 0]
  /\ closes' = [o \in Operation |-> 0]
  /\ feed' = << >>
  /\ UNCHANGED <<log, bindingVars, dropped>>

FollowerStep(o) == Scan(o) \/ Open(o) \/ Pump(o) \/ Confirm(o)
FollowerFault(o) == LoseSession(o) \/ Disconnect(o) \/ Redeliver(o)
QueueStep(o) == SenderTakes(o) \/ SenderRetries(o) \/ SenderEnds(o) \/ SenderRecords(o)

Next == \/ \E o \in Operation : \/ Publish(o) \/ Bind(o)
                                \/ FollowerStep(o) \/ FollowerFault(o) \/ QueueStep(o)
        \/ Consume \/ FailConsume \/ Quarantine \/ Restart

Spec == Init /\ [][Next]_vars

\* Platform finishes what it accepted; scans recur, streams deliver what they
\* have, and the consumer drains the feed.
Fairness == /\ \A o \in Operation : WF_vars(Publish(o)) /\ WF_vars(FollowerStep(o))
            /\ WF_vars(Consume)

FairSpec == Spec /\ Fairness

-----------------------------------------------------------------------------
TypeOK ==
  /\ log \in [Operation -> Seq(Frame)]
  /\ bound \in SUBSET Operation
  /\ terminal \in [Operation -> BOOLEAN]
  /\ watermark \in [Operation -> 0..MaxTime]
  /\ rendered \in [Operation -> Nat]
  /\ inbox \in SUBSET Event
  /\ edits \in [Operation -> Seq(Edit)]
  /\ follow \in [Operation -> Stage]
  /\ cursor \in [Operation -> Nat]
  /\ closes \in [Operation -> Nat]
  /\ feed \in Seq(Event)
  /\ dropped \in SUBSET Event
  /\ faults \in 0..MaxFaults

\* A later render has a higher revision and shows another event, of a state that is
\* not older: no redelivery, restart or reordering makes the accepted renders go back
\* or repeat (the watermark, next_revision, insert_inbox).
RendersInOrder ==
  \A o \in Operation : \A i, j \in DOMAIN edits[o] :
    i < j => /\ edits[o][i].rev < edits[o][j].rev
             /\ edits[o][i].n # edits[o][j].n
             /\ log[o][edits[o][i].n].at <= log[o][edits[o][j].n].at

\* An operation ends with one terminal render, in step with its terminal flag,
\* and nothing is rendered after it (the terminal check, flip_terminal).
TerminalRenderIsLast ==
  \A o \in Operation :
    LET ends == {i \in DOMAIN edits[o] : log[o][edits[o][i].n].last} IN
    ends = IF terminal[o] THEN {Len(edits[o])} ELSE {}

\* A burst of progress leaves one render that has not been attempted, the
\* newest (supersede_older_edits).
OneFreshRender ==
  \A o \in Operation : \A i \in DOMAIN edits[o] :
    edits[o][i].state = "ready" => i = Len(edits[o])

\* The follower forgets no frame: what its cursor has passed was judged, is in
\* the feed, or was lost to a failed accept (pump, consume_until_shutdown).
PassedFramesAccountedFor ==
  \A o \in Operation : \A n \in 1..cursor[o] :
    LET e == [op |-> o, n |-> n] IN
    e \in inbox \cup dropped \/ \E i \in DOMAIN feed : feed[i] = e

\* The accept of a terminal frame failed.
Stranded == \E e \in dropped : log[e.op][e.n].last

\* Every bound operation ends, through lost sessions, broken streams, give-ups,
\* restarts and a stream bound smaller than the operations, unless the accept of
\* a terminal frame fails (scan_once, follow_one, wait_for_durable_terminal).
OperationsEnd == \A o \in Operation : o \in bound ~> (terminal[o] \/ Stranded)

\* The renders in the queue follow the log: in its order and each once, with the
\* result at the end and no progress behind it, and of a burst only the newest
\* (accept_operation_event).
RendersFollowTheLog ==
  TypeOK /\ RendersInOrder /\ TerminalRenderIsLast /\ OneFreshRender

=============================================================================
