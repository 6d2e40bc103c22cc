--------------------------- MODULE RenderPipeline ---------------------------
(***************************************************************************)
(* Projection and OutboundQueue put together: an accepted event and its    *)
(* edit job are one transaction over the binding, the inbox and the queue, *)
(* and the queue's sender delivers, retries and records what Projection    *)
(* only sees at an interface.  A dispatcher that stops loses its follower, *)
(* its feed and its sender at once.                                        *)
(*                                                                         *)
(* P is Projection over the rows of the queue: an operation's edits are    *)
(* its rows with a revision, in the order of their revisions.              *)
(***************************************************************************)
EXTENDS OutboundQueue

CONSTANTS
  MaxFrames, MaxTime, MaxStreams, FeedCapacity, MaxCloses,  \* as in Projection
  MaxLosses,  \* its bound on restarts, lost streams and redeliveries
  MaxErrors,
  MaxRecoveries  \* bound on the operator's recover-unknown-send

ASSUME PipelineAssumption == MaxFrames \in [Operation -> Nat]

VARIABLES
  log, terminal, watermark, inbox, follow, cursor, closes, feed, dropped, losses,
  event  \* the frame a row renders (its payload)

followerVars == <<log, terminal, watermark, inbox, follow, cursor, closes, feed, dropped, losses>>
pipeVars == <<vars, followerVars, event>>

-----------------------------------------------------------------------------
\* The rows that are renders of o; a recovered one repeats another.
Renders(o) == {j \in Rows : row[j].op = o /\ HasRevision(j) /\ row[j].recovers = 0}

\* A row as Projection sees it.
EditState(j) ==
  CASE state[j] \in {"ready", "superseded"} -> state[j]
    [] state[j] = "retry_wait" -> IF kind[j] = "edit" THEN "retry" ELSE "resend"
    [] state[j] = "sending" -> "taken"
    [] OTHER -> "ended"

Edits(o) ==
  LET renders == Renders(o) IN
  [r \in 1..Cardinality(renders) |->
     LET j == CHOOSE i \in renders : row[i].rev = r
     IN  [n |-> event[j], rev |-> r, state |-> EditState(j)]]

P == INSTANCE Projection WITH
       edits <- [o \in Operation |-> Edits(o)], faults <- losses, MaxFaults <- MaxLosses

PipeInit ==
  /\ Init
  /\ event = [j \in Job |-> 0]
  /\ P!Init

-----------------------------------------------------------------------------
\* Platform and the follower do not touch the queue.
Publish(o)  == UNCHANGED <<vars, event>> /\ P!Publish(o)
Follow(o)   == UNCHANGED <<vars, event>> /\ P!FollowerStep(o)
Interfere(o) == UNCHANGED <<vars, event>> /\ P!FollowerFault(o)
FailAccept  == UNCHANGED <<vars, event>> /\ P!FailConsume

\* Mutant of Enqueue: a terminal event sets its flag only.
EnqueueProgress(e) ==
  IF log[e.op][e.n].last THEN UNCHANGED <<vars, event>>
  ELSE /\ \E due_now \in BOOLEAN : AcceptRender(e.op, due_now)
       /\ event' = [event EXCEPT ![jobs + 1] = e.n]
       /\ UNCHANGED <<bindingVars, senderVars, wireVars, faults>>

\* The edit job of an accepted event, due at once if it is the last.
Enqueue(e) ==
  /\ \E due_now \in BOOLEAN :
       (log[e.op][e.n].last => due_now) /\ AcceptRender(e.op, due_now)
  /\ event' = [event EXCEPT ![jobs + 1] = e.n]
  /\ UNCHANGED <<bindingVars, senderVars, wireVars, faults>>

\* accept_operation_event with the queue it inserts into: one transaction.
Accept ==
  /\ feed # << >>
  /\ feed' = Tail(feed)
  /\ LET e == Head(feed)
         new == ~P!Seen(e) /\ e.op \in bound IN
     /\ inbox' = IF new THEN inbox \cup {e} ELSE inbox
     /\ IF new /\ ~P!Refused(e)
        THEN /\ Enqueue(e)
             /\ terminal' = [terminal EXCEPT ![e.op] = @ \/ log[e.op][e.n].last]
             /\ watermark' = [watermark EXCEPT ![e.op] = log[e.op][e.n].at]
        ELSE UNCHANGED <<vars, event, terminal, watermark>>
  /\ UNCHANGED <<log, follow, cursor, closes, dropped, losses>>

Capture(o) == RecordCapture(o) /\ UNCHANGED <<followerVars, event>>

Recover(j) ==
  /\ Cardinality({i \in Rows : row[i].recovers # 0}) < MaxRecoveries
  /\ RecoverUnknown(j)
  /\ event' = [event EXCEPT ![jobs + 1] = event[j]]
  /\ UNCHANGED followerVars

\* The process stops: its sender leaves its row to the lease, like Fault.
Restart ==
  /\ pc' = [s \in Sender |-> "idle"]
  /\ held' = [s \in Sender |-> NoClaim]
  /\ plan' = [s \in Sender |-> NoPlan]
  /\ result' = [s \in Sender |-> "none"]
  /\ seen' = [s \in Sender |-> {}]
  /\ flight' = IF LateDelivery THEN flight ELSE {}
  /\ UNCHANGED <<queueVars, bindingVars, shown, applied, faults, event>>
  /\ P!Restart

Deliver(s) == SenderStep(s) /\ UNCHANGED <<followerVars, event>>

Outside ==
  /\ Network \/ Tick \/ \E s \in Sender : Fault(s)
  /\ UNCHANGED <<followerVars, event>>

PipeNext ==
  \/ \E o \in Operation : Publish(o) \/ Follow(o) \/ Interfere(o) \/ Capture(o)
  \/ Accept \/ FailAccept \/ Restart
  \/ \E s \in Sender : Deliver(s)
  \/ \E j \in Job : Recover(j)
  \/ Outside

\* Those of the two parts.
PipeFairness ==
  /\ \A o \in Operation : WF_pipeVars(Publish(o)) /\ WF_pipeVars(Follow(o))
  /\ WF_pipeVars(Accept)
  /\ \A s \in Sender : WF_pipeVars(Deliver(s))
  /\ \A j \in Job :
       /\ WF_pipeVars(BecomeDue(j) /\ UNCHANGED <<followerVars, event>>)
       /\ WF_pipeVars(/\ ~HolderAtWork(j) /\ ExpireLease(j)
                      /\ UNCHANGED <<followerVars, event>>)

PipeSpec == PipeInit /\ [][PipeNext]_pipeVars /\ PipeFairness

-----------------------------------------------------------------------------
(* Properties *)

\* The queue behaves towards the accept transaction as Projection takes it to:
\* claims, reclaims, retries, downgrades, quarantine, recovery and the two
\* places that record a revision are steps of its interface, so what holds of
\* Projection holds of the rows (claim_due_outbound_job, settle_outbound_job,
\* record_outbound_acknowledgement, supersede_older_edits).
ImplementsProjection == P!Spec

\* A message that shows the result of its operation, as acknowledged.
ShowsResult(m) ==
  LET j == shown[m].by
      o == row[j].op IN
  /\ HasRevision(j) /\ rendered[o] = row[j].rev
  /\ event[j] \in DOMAIN log[o] /\ log[o][event[j]].last

\* Once a chat shows the result of an operation, no late frame, retried edit,
\* redelivery, restart or recovery puts anything else into that message, but for an
\* edit that Telegram carries out when nobody waits for it
\* (terminal_revision, the watermark and the revision guard together).
ResultStays ==
  [][\A m \in DOMAIN shown :
       ShowsResult(m) => event'[shown'[m].by] = event[shown[m].by] \/ LateEdit(m)]_pipeVars

\* Rows of o that render its last frame.
Results(o) ==
  {j \in Rows : row[j].op = o /\ event[j] \in DOMAIN log[o] /\ log[o][event[j]].last}

\* A captured operation comes to its result in the queue, and that row to an
\* end, through every fault of both parts but a failed accept of the last frame
\* (follow_one, consume_until_shutdown, the sender's loop).
ResultsConclude ==
  \A o \in Operation :
    o \in bound ~> (P!Stranded \/ \E j \in Results(o) : state[j] \in Final)

\* What a message has come to show is never taken back by an edit the sender waits for:
\* no render that has been acknowledged gives way to an older one, and a result to
\* nothing (record_outbound_acknowledgement, process_edit).
RendersStay == AcknowledgedRenderStays /\ ResultStays

=============================================================================
