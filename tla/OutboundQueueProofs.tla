------------------------- MODULE OutboundQueueProofs -------------------------
(***************************************************************************)
(* Proofs about OutboundQueue and about RenderPipeline, which adds         *)
(* Projection to it, for every number of jobs, chats, operations, attempts *)
(* and faults.                                                             *)
(*                                                                         *)
(* The queue.  For any set of senders: type correctness, and that a job    *)
(* that has ended stays as it ended.  For one sender, or for queues        *)
(* without edits: a send is posted at most once, what a settled job says   *)
(* happened did happen, and the queue implements Delivery.  For one sender:*)
(* a chat has one job in flight.                                           *)
(*                                                                         *)
(* The pipeline.  For any set of senders: its rows behave as the edits of  *)
(* Projection do.  For one sender that hears of each request before it     *)
(* goes on: what a message has come to show stays.                         *)
(***************************************************************************)
EXTENDS RenderPipeline, OutboundQueueInvariant, TLAPS, FiniteSetTheorems, SequenceTheorems

-----------------------------------------------------------------------------
(* Type correctness *)

LEMMA InitTypeOK == Init => TypeOK
  BY ConstantsAssumption
  DEF Init, TypeOK, QueueTypeOK, BindingTypeOK, SenderTypeOK, WireTypeOK, Row, Class, Claim,
      Plan, NoClaim, NoPlan, Job, Kind, State, Waiting, Final, Lease, Stage, Result

LEMMA InsertType ==
  ASSUME QueueTypeOK, NEW r \in Row, NEW k \in Kind, NEW d \in BOOLEAN, Insert(r, k, d)
  PROVE  QueueTypeOK'
<1>1. jobs' \in 0..MaxJobs /\ jobs + 1 \in Job
  BY ConstantsAssumption DEF QueueTypeOK, Insert, Job
<1>2. row' \in [Job -> Row] /\ kind' \in [Job -> Kind] /\ due' \in [Job -> BOOLEAN]
  BY <1>1 DEF QueueTypeOK, Insert
<1>3. state' \in [Job -> State]
  BY DEF QueueTypeOK, Insert, State, Waiting, Final
<1> QED
  BY <1>1, <1>2, <1>3 DEF QueueTypeOK, Insert

\* Giving the claim up leaves the sender's variables well typed.
LEMMA IdleType ==
  ASSUME SenderTypeOK, NEW s \in Sender, Idle(s)
  PROVE  SenderTypeOK'
  BY ConstantsAssumption
  DEF SenderTypeOK, Idle, NoClaim, NoPlan, Claim, Plan, Kind, Stage, Result

LEMMA AdvanceRenderType ==
  ASSUME QueueTypeOK, BindingTypeOK, NEW j \in Job, AdvanceRender(j)
  PROVE  rendered' \in [Operation -> Nat]
  BY DEF QueueTypeOK, BindingTypeOK, AdvanceRender, HasRevision, Row

LEMMA StepTypeOK == TypeOK /\ [Next]_vars => TypeOK'
<1> SUFFICES ASSUME TypeOK, [Next]_vars PROVE TypeOK'
  OBVIOUS
<1> USE DEF TypeOK
<1>1. ASSUME NEW c \in Chat, EnqueueReply(c) \/ EnqueueNotification(c) PROVE TypeOK'
  <2>1. NewRow(c, NoOperation, 0, "direct") \in Row
        /\ NewRow(c, NoOperation, 0, "notification") \in Row
    BY ConstantsAssumption DEF NewRow, Row, Class
  <2>2. QueueTypeOK'
    BY <1>1, <2>1, InsertType DEF EnqueueReply, EnqueueNotification, Kind
  <2> QED
    BY <1>1, <2>2
    DEF EnqueueReply, EnqueueNotification, bindingVars, senderVars, wireVars, BindingTypeOK,
        SenderTypeOK, WireTypeOK
<1>2. ASSUME NEW o \in Operation, RecordCapture(o) PROVE TypeOK'
  <2>1. NewRow(ChatOf[o], o, 0, "direct") \in Row
    BY ConstantsAssumption DEF NewRow, Row, Class
  <2>2. QueueTypeOK'
    <3>1. CASE UNCHANGED queueVars
      BY <3>1 DEF QueueTypeOK, queueVars
    <3>2. CASE Insert(NewRow(ChatOf[o], o, 0, "direct"), "send", TRUE)
      BY <3>2, <2>1, InsertType DEF Kind
    <3> QED
      BY <1>2, <3>1, <3>2 DEF RecordCapture
  <2> QED
    BY <1>2, <2>2
    DEF RecordCapture, senderVars, wireVars, BindingTypeOK, SenderTypeOK, WireTypeOK
<1>3. ASSUME NEW o \in Operation, EnqueueRender(o) PROVE TypeOK'
  <2>1. PICK d \in BOOLEAN, n \in 1..MaxRevision :
          Insert(NewRow(ChatOf[o], o, n, "direct"), "edit", d)
    BY <1>3 DEF EnqueueRender, AcceptRender
  <2>2. NewRow(ChatOf[o], o, n, "direct") \in Row
    BY ConstantsAssumption DEF NewRow, Row, Class
  <2>3. QueueTypeOK'
    BY <2>1, <2>2, InsertType DEF Kind
  <2> QED
    BY <1>3, <2>3
    DEF EnqueueRender, bindingVars, senderVars, wireVars, BindingTypeOK, SenderTypeOK, WireTypeOK
<1>4. ASSUME NEW j \in Job, RecoverUnknown(j) PROVE TypeOK'
  <2>1. jobs' \in 0..MaxJobs /\ jobs + 1 \in Job
    BY <1>4, ConstantsAssumption DEF RecoverUnknown, QueueTypeOK, Job
  <2>2. row' \in [Job -> Row]
    <3> DEFINE added == [row EXCEPT ![jobs + 1] = [row[j] EXCEPT !.recovers = j]]
    <3>1. row[j] \in Row /\ j \in 0..MaxJobs
      BY ConstantsAssumption DEF QueueTypeOK, Job
    <3>2. [row[j] EXCEPT !.recovers = j] \in Row
      BY <3>1 DEF Row
    <3>3. added \in [Job -> Row]
      BY <2>1, <3>2 DEF QueueTypeOK
    <3>4. [added[j] EXCEPT !.class = IF @ = "notification" THEN "direct" ELSE @] \in Row
      BY <3>3 DEF Row, Class
    <3>5. row' = [added EXCEPT ![j] =
                   [added[j] EXCEPT !.class = IF @ = "notification" THEN "direct" ELSE @]]
      BY <1>4 DEF RecoverUnknown
    <3> QED
      BY <3>3, <3>4, <3>5
  <2>3. kind' \in [Job -> Kind] /\ due' \in [Job -> BOOLEAN] /\ aged' \in SUBSET Job
    BY <1>4, <2>1 DEF RecoverUnknown, QueueTypeOK, Kind
  <2>4. state' \in [Job -> State]
    BY <1>4, <2>1 DEF RecoverUnknown, QueueTypeOK, State, Waiting
  <2> QED
    BY <1>4, <2>1, <2>2, <2>3, <2>4
    DEF RecoverUnknown, QueueTypeOK, bindingVars, senderVars, wireVars, BindingTypeOK,
        SenderTypeOK, WireTypeOK
<1>5. ASSUME NEW s \in Sender, BeginClaim(s) PROVE TypeOK'
  <2>1. QueueTypeOK'
    BY <1>5 DEF BeginClaim, QueueTypeOK, State, Final, Lease
  <2>2. SenderTypeOK'
    <3>1. Rows \subseteq Job
      BY ConstantsAssumption DEF Rows, Job, QueueTypeOK
    <3>2. Candidates \subseteq Rows /\ seen' = [seen EXCEPT ![s] = Candidates]
      BY <1>5 DEF BeginClaim, Candidates
    <3>3. seen' \in [Sender -> SUBSET Job]
      BY <3>1, <3>2 DEF SenderTypeOK
    <3> QED
      BY <1>5, <3>3 DEF BeginClaim, SenderTypeOK, Stage
  <2> QED
    BY <1>5, <2>1, <2>2 DEF BeginClaim, bindingVars, wireVars, BindingTypeOK, WireTypeOK
<1>6. ASSUME NEW s \in Sender, FinishClaim(s) PROVE TypeOK'
  <2>1. QueueTypeOK' /\ SenderTypeOK'
    <3>1. CASE Idle(s) /\ UNCHANGED queueVars
      BY <3>1, IdleType DEF QueueTypeOK, queueVars
    <3>2. ASSUME NEW j \in seen[s], Take(s, j) PROVE QueueTypeOK' /\ SenderTypeOK'
      <4>1. j \in Job
        BY <3>2 DEF SenderTypeOK
      <4>2. QueueTypeOK'
        BY <3>2, <4>1 DEF Take, QueueTypeOK, State, Lease
      <4>3. held' \in [Sender -> Claim]
        BY <3>2, <4>1 DEF Take, QueueTypeOK, SenderTypeOK, Claim, Job
      <4> QED
        BY <3>2, <4>1, <4>2, <4>3 DEF Take, SenderTypeOK, Stage
    <3> QED
      BY <1>6, <3>1, <3>2 DEF FinishClaim
  <2> QED
    BY <1>6, <2>1 DEF FinishClaim, bindingVars, wireVars, BindingTypeOK, WireTypeOK
<1>7. ASSUME NEW s \in Sender, Resolve(s) PROVE TypeOK'
  <2>1. plan' \in [Sender -> Plan]
    BY <1>7, ConstantsAssumption
    DEF Resolve, SenderTypeOK, QueueTypeOK, BindingTypeOK, NoPlan, Plan, Kind, HasRevision,
        StaleEdit, Row
  <2> QED
    BY <1>7, <2>1
    DEF Resolve, SenderTypeOK, Stage, Result, queueVars, bindingVars, wireVars, QueueTypeOK,
        BindingTypeOK, WireTypeOK
<1>8. ASSUME NEW s \in Sender, Prepare(s) PROVE TypeOK'
  <2>1. SenderTypeOK'
    <3>1. CASE Idle(s)
      BY <3>1, IdleType
    <3>2. CASE ~Idle(s)
      BY <1>8, <3>2 DEF Prepare, SenderTypeOK, Stage
    <3> QED
      BY <3>1, <3>2
  <2>2. held[s].job \in Job /\ RequestOf(s) \in Request
    BY <1>8 DEF Prepare, RequestOf, Request, SenderTypeOK, Plan, Claim
  <2>3. kind' \in [Job -> Kind]
    BY <1>8, <2>2 DEF Prepare, QueueTypeOK, SenderTypeOK, Plan
  <2>4. flight' \in SUBSET Request
    BY <1>8, <2>2 DEF Prepare, WireTypeOK
  <2> QED
    BY <1>8, <2>1, <2>3, <2>4 DEF Prepare, bindingVars, QueueTypeOK, BindingTypeOK, WireTypeOK
<1>9. ASSUME NEW s \in Sender, Receive(s) PROVE TypeOK'
  BY <1>9
  DEF Receive, SenderTypeOK, Stage, queueVars, bindingVars, wireVars, QueueTypeOK,
      BindingTypeOK, WireTypeOK
<1>10. ASSUME NEW s \in Sender, LoseAnswer(s) PROVE TypeOK'
  BY <1>10
  DEF LoseAnswer, LostOutcome, SenderTypeOK, Stage, Result, queueVars, bindingVars, QueueTypeOK,
      BindingTypeOK, WireTypeOK
<1>11. ASSUME NEW s \in Sender, Acknowledge(s) PROVE TypeOK'
  <2>1. held[s].job \in Job /\ plan[s].msg \in Nat
    BY <1>11 DEF Acknowledge, SenderTypeOK, Plan
  <2>2. BindingTypeOK'
    <3>1. CASE UNCHANGED bindingVars
      BY <3>1 DEF BindingTypeOK, bindingVars
    <3>2. CASE AdvanceRender(held[s].job)
      <4>1. rendered' \in [Operation -> Nat]
        BY <2>1, <3>2, AdvanceRenderType
      <4> QED
        BY <1>11, <2>1, <3>2, <4>1 DEF Acknowledge, BindingTypeOK, bindingVars
    <3> QED
      BY <1>11, <3>1, <3>2 DEF Acknowledge, bindingVars
  <2>3. QueueTypeOK'
    BY <1>11, <2>1 DEF Acknowledge, QueueTypeOK, State, Final, Lease
  <2>4. SenderTypeOK'
    BY <1>11, IdleType DEF Acknowledge
  <2> QED
    BY <1>11, <2>2, <2>3, <2>4 DEF Acknowledge, wireVars, WireTypeOK
<1>12. ASSUME NEW s \in Sender, Settle(s) PROVE TypeOK'
  <2>1. Settled(s) \in State
    BY DEF Settled, State, Final, Waiting
  <2>2. QueueTypeOK'
    BY <1>12, <2>1 DEF Settle, QueueTypeOK, Lease
  <2>3. SenderTypeOK'
    <3>1. CASE Idle(s)
      BY <3>1, IdleType
    <3>2. CASE ~Idle(s)
      BY <1>12, <3>2 DEF Settle, SenderTypeOK, Stage
    <3> QED
      BY <3>1, <3>2
  <2> QED
    BY <1>12, <2>2, <2>3 DEF Settle, bindingVars, wireVars, BindingTypeOK, WireTypeOK
<1>13. ASSUME NEW s \in Sender, FollowUp(s) PROVE TypeOK'
  <2>1. held[s].job \in Job
    BY <1>13 DEF FollowUp, SenderTypeOK
  <2>2. BindingTypeOK'
    <3>1. CASE result[s] = "not_modified"
      BY <1>13, <2>1, <3>1, AdvanceRenderType DEF FollowUp, BindingTypeOK
    <3>2. CASE result[s] # "not_modified"
      BY <1>13, <3>2 DEF FollowUp, BindingTypeOK
    <3> QED
      BY <3>1, <3>2
  <2>3. SenderTypeOK'
    BY <1>13, IdleType DEF FollowUp
  <2> QED
    BY <1>13, <2>2, <2>3 DEF FollowUp, queueVars, wireVars, QueueTypeOK, WireTypeOK
<1>14. ASSUME NEW s \in Sender, Fault(s) PROVE TypeOK'
  <2>1. SenderTypeOK'
    BY <1>14, IdleType DEF Fault
  <2> QED
    BY <1>14, <2>1, ConstantsAssumption
    DEF Fault, queueVars, bindingVars, QueueTypeOK, BindingTypeOK, WireTypeOK
<1>15. ASSUME NEW r \in flight, ApplySend(r) PROVE TypeOK'
  <2>1. r \in Request
    BY DEF WireTypeOK
  <2>2. WireTypeOK'
    BY <1>15, <2>1 DEF ApplySend, WireTypeOK, Request, Message
  <2>3. plan' \in [Sender -> Plan]
    <3>1. Len(shown) + 1 \in Nat
      BY DEF WireTypeOK
    <3>2. \A s \in Sender : [plan[s] EXCEPT !.msg = Len(shown) + 1] \in Plan
      BY <3>1 DEF SenderTypeOK, Plan
    <3> QED
      BY <1>15, <3>2 DEF ApplySend, SenderTypeOK
  <2>4. result' \in [Sender -> Result]
    BY <1>15 DEF ApplySend, Answer, SenderTypeOK, Result
  <2> QED
    BY <1>15, <2>2, <2>3, <2>4
    DEF ApplySend, SenderTypeOK, queueVars, bindingVars, QueueTypeOK, BindingTypeOK
<1>16. ASSUME NEW r \in flight, ApplyEdit(r) PROVE TypeOK'
  <2>1. r \in Request
    BY DEF WireTypeOK
  <2>2. shown' \in Seq(Message)
    <3>1. shown \in [1..Len(shown) -> Message] /\ Len(shown) \in Nat
      BY DEF WireTypeOK
    <3>2. \A m \in 1..Len(shown) : [shown[m] EXCEPT !.by = r.job] \in Message
      BY <2>1, <3>1 DEF Message, Request
    <3>3. shown' \in [1..Len(shown) -> Message]
      BY <1>16, <3>1, <3>2 DEF ApplyEdit
    <3> QED
      BY <3>1, <3>3
  <2>3. result' \in [Sender -> Result]
    BY <1>16 DEF ApplyEdit, Answer, SenderTypeOK, Result
  <2> QED
    BY <1>16, <2>1, <2>2, <2>3
    DEF ApplyEdit, Request, SenderTypeOK, queueVars, bindingVars, QueueTypeOK, BindingTypeOK,
        WireTypeOK
<1>17. ASSUME NEW r \in flight, Refuse(r) PROVE TypeOK'
  BY <1>17
  DEF Refuse, Answer, SenderTypeOK, Result, queueVars, bindingVars, QueueTypeOK, BindingTypeOK,
      WireTypeOK
<1>18. ASSUME NEW r \in flight, Drop(r) PROVE TypeOK'
  BY <1>18
  DEF Drop, queueVars, bindingVars, senderVars, QueueTypeOK, BindingTypeOK, SenderTypeOK,
      WireTypeOK
<1>19. ASSUME NEW j \in Job, BecomeDue(j) \/ ExpireLease(j) \/ Age(j) PROVE TypeOK'
  <2>1. QueueTypeOK'
    BY <1>19 DEF BecomeDue, ExpireLease, Age, QueueTypeOK, Lease
  <2>2. faults' \in 0..MaxFaults
    BY <1>19, ConstantsAssumption DEF BecomeDue, ExpireLease, Age, WireTypeOK
  <2> QED
    BY <1>19, <2>1, <2>2
    DEF BecomeDue, ExpireLease, Age, bindingVars, senderVars, wireVars, BindingTypeOK,
        SenderTypeOK, WireTypeOK
<1>20. CASE UNCHANGED vars
  BY <1>20
  DEF vars, queueVars, bindingVars, senderVars, wireVars, QueueTypeOK, BindingTypeOK,
      SenderTypeOK, WireTypeOK
<1> QED
  BY <1>1, <1>2, <1>3, <1>4, <1>5, <1>6, <1>7, <1>8, <1>9, <1>10, <1>11, <1>12, <1>13,
     <1>14, <1>15, <1>16, <1>17, <1>18, <1>19, <1>20
  DEF Next, Produce, SenderStep, Network, Tick

\* Every variable keeps its type, whatever the number of senders and whatever
\* the interleaving of claims, answers, crashes and expiring leases.
THEOREM TypeCorrect == Spec => []TypeOK
  BY InitTypeOK, StepTypeOK, PTL DEF Spec

-----------------------------------------------------------------------------
(* The attempt number fences claims, for any number of senders *)

\* No claim is ahead of its row, and two senders never own one row.
Fenced ==
  /\ \A s \in Sender : held[s].job \in Job => held[s].attempt <= attempts[held[s].job]
  /\ \A s, t \in Sender : Current(s) /\ Current(t) /\ held[s].job = held[t].job => s = t

LEMMA StepFenced ==
  ASSUME TypeOK, Fenced, [Next]_vars
  PROVE  Fenced'
<1>1. ASSUME attempts' = attempts,
             \A j \in Job : state'[j] = "sending" => state[j] = "sending",
             \A s \in Sender : held'[s] \in {held[s], NoClaim}
      PROVE  Fenced'
  BY <1>1 DEF Fenced, Current, NoClaim, Job
<1>2. ASSUME NEW s \in Sender, NEW j \in Job, Take(s, j) PROVE Fenced'
  <2>1. /\ held' = [held EXCEPT ![s] = [job |-> j, attempt |-> attempts[j] + 1, kind |-> kind[j]]]
        /\ attempts' = [attempts EXCEPT ![j] = @ + 1]
        /\ state' = [state EXCEPT ![j] = "sending"]
    BY <1>2 DEF Take
  <2>2. \A i \in Job : attempts[i] \in Nat /\ attempts'[i] \in Nat
                     /\ attempts'[i] = IF i = j THEN attempts[i] + 1 ELSE attempts[i]
    BY <2>1 DEF TypeOK, QueueTypeOK
  <2>3. /\ held'[s].job = j /\ held'[s].attempt = attempts[j] + 1
        /\ \A t \in Sender \ {s} : held'[t] = held[t]
        /\ \A t \in Sender : held[t].attempt \in Nat
    BY <2>1 DEF TypeOK, SenderTypeOK, Claim
  <2>4. \A t \in Sender : held'[t].job \in Job => held'[t].attempt <= attempts'[held'[t].job]
    BY <2>2, <2>3 DEF Fenced
  <2>5. \A t \in Sender \ {s} : Current(t)' => Current(t) /\ held'[t].job # j
    BY <2>1, <2>2, <2>3 DEF Fenced, Current, TypeOK, QueueTypeOK
  <2> QED
    BY <2>3, <2>4, <2>5 DEF Fenced
<1>3. ASSUME NEW r, NEW k, NEW d, Insert(r, k, d), held' = held PROVE Fenced'
  BY <1>1, <1>3 DEF Insert, TypeOK, QueueTypeOK
<1>4. ASSUME NEW s \in Sender, Idle(s) PROVE \A t \in Sender : held'[t] \in {held[t], NoClaim}
  BY <1>4 DEF Idle, TypeOK, SenderTypeOK
<1>5. ASSUME Produce PROVE Fenced'
  <2>1. ASSUME NEW j \in Job, RecoverUnknown(j) PROVE Fenced'
    BY <1>1, <2>1 DEF RecoverUnknown, senderVars, TypeOK, QueueTypeOK
  <2>2. ASSUME NEW o \in Operation, RecordCapture(o) PROVE Fenced'
    BY <1>1, <1>3, <2>2 DEF RecordCapture, queueVars, senderVars
  <2> QED
    BY <1>3, <1>5, <2>1, <2>2
    DEF Produce, EnqueueReply, EnqueueNotification, EnqueueRender, AcceptRender, senderVars
<1>6. ASSUME NEW s \in Sender, BeginClaim(s) PROVE Fenced'
  BY <1>1, <1>6 DEF BeginClaim
<1>7. ASSUME NEW s \in Sender, FinishClaim(s) PROVE Fenced'
  <2>1. CASE Idle(s) /\ UNCHANGED queueVars
    BY <1>1, <1>4, <2>1 DEF queueVars
  <2>2. ASSUME NEW j \in seen[s], Take(s, j) PROVE Fenced'
    BY <1>2, <2>2 DEF TypeOK, SenderTypeOK
  <2> QED
    BY <1>7, <2>1, <2>2 DEF FinishClaim
<1>8. ASSUME NEW s \in Sender, Prepare(s) \/ FollowUp(s) \/ Fault(s) PROVE Fenced'
  BY <1>1, <1>4, <1>8 DEF Prepare, FollowUp, Fault, queueVars
<1>9. ASSUME NEW s \in Sender, Acknowledge(s) \/ Settle(s) PROVE Fenced'
  <2>1. attempts' = attempts /\ \A t \in Sender : held'[t] \in {held[t], NoClaim}
    BY <1>4, <1>9 DEF Acknowledge, Settle
  <2>2. Settled(s) # "sending"
    BY DEF Settled
  <2>3. \A j \in Job : state'[j] = "sending" => state[j] = "sending"
    BY <1>9, <2>2 DEF Acknowledge, Settle, TypeOK, QueueTypeOK
  <2> QED
    BY <1>1, <2>1, <2>3
<1>10. ASSUME NEW s \in Sender, Resolve(s) \/ Receive(s) \/ LoseAnswer(s) PROVE Fenced'
  BY <1>1, <1>10 DEF Resolve, Receive, LoseAnswer, queueVars
<1>11. CASE Network \/ Tick \/ UNCHANGED vars
  BY <1>1, <1>11
  DEF Network, ApplySend, ApplyEdit, Refuse, Drop, Tick, BecomeDue, ExpireLease, Age, queueVars,
      senderVars, vars
<1> QED
  BY <1>5, <1>6, <1>7, <1>8, <1>9, <1>10, <1>11 DEF Next, SenderStep

\* Without operations there are no edits: every row, claim and request is a send.
NoEdits ==
  Operation = {} => /\ \A j \in Job : kind[j] = "send"
                    /\ \A s \in Sender : held[s].kind = "send" /\ plan[s].method = "send"

LEMMA StepNoEdits ==
  ASSUME TypeOK, NoEdits, [Next]_vars
  PROVE  NoEdits'
<1> SUFFICES ASSUME Operation = {}
             PROVE  /\ \A j \in Job : kind'[j] = "send"
                    /\ \A s \in Sender : held'[s].kind = "send" /\ plan'[s].method = "send"
  BY DEF NoEdits
<1>1. /\ \A j \in Job : kind[j] = "send"
      /\ \A s \in Sender : held[s].kind = "send" /\ plan[s].method = "send"
  BY DEF NoEdits
<1>2. \A j \in Job : kind'[j] = "send"
  <2>1. CASE Produce
    BY <1>1, <2>1
    DEF Produce, EnqueueReply, EnqueueNotification, RecoverUnknown, Insert, TypeOK, QueueTypeOK
  <2>2. ASSUME NEW s \in Sender, SenderStep(s) \/ Fault(s)
        PROVE  \A j \in Job : kind'[j] = "send"
    <3>1. CASE FinishClaim(s)
      BY <1>1, <2>2, <3>1 DEF FinishClaim, Take, queueVars
    <3>2. CASE BeginClaim(s) \/ Resolve(s)
      BY <1>1, <3>2 DEF BeginClaim, Resolve, queueVars, TypeOK, QueueTypeOK
    <3>3. CASE Prepare(s)
      BY <1>1, <3>3 DEF Prepare, queueVars, TypeOK, QueueTypeOK
    <3>4. CASE Receive(s) \/ LoseAnswer(s) \/ Acknowledge(s) \/ Settle(s)
      BY <1>1, <3>4 DEF Receive, LoseAnswer, Acknowledge, Settle, queueVars
    <3>5. CASE FollowUp(s) \/ Fault(s)
      BY <1>1, <3>5 DEF FollowUp, Fault, queueVars
    <3> QED
      BY <2>2, <3>1, <3>2, <3>3, <3>4, <3>5 DEF SenderStep
  <2>3. CASE Network
    BY <1>1, <2>3 DEF Network, ApplySend, ApplyEdit, Refuse, Drop, queueVars
  <2>4. CASE Tick
    BY <1>1, <2>4 DEF Tick, BecomeDue, ExpireLease, Age
  <2>5. CASE UNCHANGED vars
    BY <1>1, <2>5 DEF vars, queueVars
  <2> QED
    BY <2>1, <2>2, <2>3, <2>4, <2>5 DEF Next
<1>3. ASSUME NEW s \in Sender, Idle(s)
      PROVE  \A t \in Sender : held'[t].kind = "send" /\ plan'[t].method = "send"
  BY <1>1, <1>3 DEF Idle, NoClaim, NoPlan, TypeOK, SenderTypeOK
<1>4. ASSUME held' = held, \A t \in Sender : plan'[t].method = plan[t].method
      PROVE  \A t \in Sender : held'[t].kind = "send" /\ plan'[t].method = "send"
  BY <1>1, <1>4
<1>5. CASE Produce \/ Tick \/ UNCHANGED vars
  BY <1>2, <1>4, <1>5
  DEF Produce, EnqueueReply, EnqueueNotification, RecoverUnknown, Tick, BecomeDue, ExpireLease, Age,
      senderVars, vars
<1>6. ASSUME NEW r \in flight, ApplySend(r) \/ ApplyEdit(r) \/ Refuse(r) \/ Drop(r)
      PROVE  \A t \in Sender : held'[t].kind = "send" /\ plan'[t].method = "send"
  <2>1. \A t \in Sender : [plan[t] EXCEPT !.msg = Len(shown) + 1].method = plan[t].method
    BY DEF TypeOK, SenderTypeOK, Plan
  <2> QED
    BY <1>4, <1>6, <2>1 DEF ApplySend, ApplyEdit, Refuse, Drop, senderVars, TypeOK, SenderTypeOK
<1>7. ASSUME NEW s \in Sender, FinishClaim(s)
      PROVE  \A t \in Sender : held'[t].kind = "send" /\ plan'[t].method = "send"
  <2>1. ASSUME NEW j \in seen[s], Take(s, j)
        PROVE  \A t \in Sender : held'[t].kind = "send" /\ plan'[t].method = "send"
    BY <1>1, <2>1 DEF Take, TypeOK, SenderTypeOK
  <2> QED
    BY <1>3, <1>7, <2>1 DEF FinishClaim
<1>8. ASSUME NEW s \in Sender, Resolve(s)
      PROVE  \A t \in Sender : held'[t].kind = "send" /\ plan'[t].method = "send"
  BY <1>1, <1>8 DEF Resolve, NoPlan, TypeOK, SenderTypeOK
<1>9. ASSUME NEW s \in Sender, \/ BeginClaim(s) \/ Prepare(s) \/ Receive(s) \/ LoseAnswer(s)
                              \/ Acknowledge(s) \/ Settle(s) \/ FollowUp(s) \/ Fault(s)
      PROVE  \A t \in Sender : held'[t].kind = "send" /\ plan'[t].method = "send"
  BY <1>3, <1>4, <1>9
  DEF BeginClaim, Prepare, Receive, LoseAnswer, Acknowledge, Settle, FollowUp, Fault
<1> QED
  BY <1>2, <1>5, <1>6, <1>7, <1>8, <1>9 DEF Next, SenderStep, Network

-----------------------------------------------------------------------------
(* A send is posted at most once, unless an edit may be downgraded to a send *)
(* under another sender's claim                                              *)

\* One dispatcher process runs one sender task.
OneSender == \A s, t \in Sender : s = t

\* Several senders are safe as long as nothing is edited.
NoDowngradeRace == OneSender \/ Operation = {}

LEMMA InitInv == Init => IInv
<1> SUFFICES ASSUME Init PROVE IInv
  OBVIOUS
<1>1. TypeOK
  BY InitTypeOK
<1>2. AbsentRows /\ CleanJobs /\ SentApplied
  BY DEF Init, AbsentRows, CleanJobs, SentApplied, Clean, Posted, SendInFlight, Job
<1>3. CleanHolders /\ SnapshotOfEdits /\ Stages /\ KnownSuccess
  BY DEF Init, CleanHolders, SnapshotOfEdits, Stages, KnownSuccess, Retryable
<1>4. SingleSend /\ SendAtMostOnce
  BY DEF Init, SingleSend, SendAtMostOnce
<1> QED
  BY <1>1, <1>2, <1>3, <1>4 DEF IInv

\* Nothing new on the wire and no new message: what was clean stays clean.
LEMMA QuietWire ==
  ASSUME flight' \subseteq flight, shown' = shown
  PROVE  /\ \A j \in Job : Clean(j) => Clean(j)'
         /\ SingleSend => SingleSend'
         /\ SendAtMostOnce => SendAtMostOnce'
  BY DEF Clean, Posted, SendInFlight, SingleSend, SendAtMostOnce

\* Rows may be added, and waiting rows withdrawn, without disturbing anybody.
LEMMA InsertInv ==
  ASSUME IInv, TypeOK', NEW r \in Row, NEW k \in Kind, NEW d \in BOOLEAN, Insert(r, k, d),
         UNCHANGED senderVars, UNCHANGED wireVars
  PROVE  IInv'
<1> USE DEF senderVars, wireVars
<1>1. jobs + 1 \in Job /\ jobs \in Nat
  BY ConstantsAssumption DEF IInv, TypeOK, QueueTypeOK, Insert, Job
<1>2. /\ \A j \in Job : Clean(j) => Clean(j)'
      /\ SingleSend' /\ SendAtMostOnce'
  BY QuietWire DEF IInv
<1>3. \A j \in Job : \/ state'[j] = state[j] /\ kind'[j] = kind[j]
                     \/ j = jobs + 1 /\ state[j] = "absent" /\ state'[j] = "ready"
                     \/ state[j] \in Waiting /\ state'[j] = "superseded"
  BY <1>1 DEF Insert, IInv, TypeOK, QueueTypeOK, AbsentRows
<1>4. AbsentRows'
  BY <1>1, <1>3 DEF Insert, IInv, AbsentRows, Job, Waiting
<1>5. CleanJobs'
  BY <1>2, <1>3 DEF IInv, CleanJobs, Waiting
<1>6. CleanHolders'
  BY <1>2, <1>3 DEF IInv, CleanHolders, Current, Retryable, Insert
<1>7. SnapshotOfEdits' /\ SentApplied'
  BY <1>3 DEF IInv, SnapshotOfEdits, SentApplied, TypeOK, SenderTypeOK
<1>8. Stages' /\ KnownSuccess'
  BY DEF IInv, Stages, KnownSuccess
<1> QED
  BY <1>2, <1>4, <1>5, <1>6, <1>7, <1>8 DEF IInv

\* A sender that gives its claim up and changes nothing else, or changes its
\* row to a state it may have.
LEMMA IdleInv ==
  ASSUME IInv, TypeOK', NEW s \in Sender, Idle(s), flight' \subseteq flight,
         shown' = shown, applied' = applied, jobs' = jobs, kind' = kind,
         attempts' = attempts,
         \A j \in Job : \/ state'[j] = state[j]
                        \/ /\ j = held[s].job /\ Current(s)
                           /\ state'[j] \in State \ {"absent", "sending"}
                           /\ state'[j] = "sent" => j \in applied
                           /\ state'[j] \in {"superseded", "failed_permanent"} \cup Waiting
                                => Clean(j)
  PROVE  IInv'
<1>1. /\ \A j \in Job : Clean(j) => Clean(j)'
      /\ SingleSend' /\ SendAtMostOnce'
  BY QuietWire DEF IInv
<1>2. AbsentRows'
  BY DEF IInv, AbsentRows, Current
<1>3. CleanJobs' /\ SentApplied'
  BY <1>1 DEF IInv, CleanJobs, SentApplied, Waiting
<1>4. CleanHolders'
  BY <1>1
  DEF IInv, TypeOK, SenderTypeOK, Idle, NoClaim, CleanHolders, Current, Retryable, Job
<1>5. SnapshotOfEdits' /\ Stages' /\ KnownSuccess'
  BY DEF IInv, TypeOK, SenderTypeOK, Idle, SnapshotOfEdits, Stages, KnownSuccess
<1> QED
  BY <1>1, <1>2, <1>3, <1>4, <1>5 DEF IInv

LEMMA StepInv ==
  ASSUME NoDowngradeRace, Fenced, NoEdits, IInv, [Next]_vars
  PROVE  IInv'
<1>1. TypeOK /\ TypeOK'
  BY StepTypeOK DEF IInv
<1>2. ASSUME NEW c \in Chat, EnqueueReply(c) \/ EnqueueNotification(c) PROVE IInv'
  <2>1. NewRow(c, NoOperation, 0, "direct") \in Row
        /\ NewRow(c, NoOperation, 0, "notification") \in Row
    BY ConstantsAssumption DEF NewRow, Row, Class
  <2> QED
    BY <1>1, <1>2, <2>1, InsertInv DEF EnqueueReply, EnqueueNotification, Kind
<1>3. ASSUME NEW o \in Operation, RecordCapture(o) PROVE IInv'
  <2>1. NewRow(ChatOf[o], o, 0, "direct") \in Row
    BY ConstantsAssumption DEF NewRow, Row, Class
  <2>2. CASE UNCHANGED queueVars
    BY <1>1, <1>3, <2>2, QuietWire
    DEF RecordCapture, IInv, queueVars, senderVars, wireVars, AbsentRows, CleanJobs,
        CleanHolders, Current, Retryable, SnapshotOfEdits, Stages, KnownSuccess, SentApplied
  <2>3. CASE Insert(NewRow(ChatOf[o], o, 0, "direct"), "send", TRUE)
    BY <1>1, <1>3, <2>1, <2>3, InsertInv DEF RecordCapture, Kind
  <2> QED
    BY <1>3, <2>2, <2>3 DEF RecordCapture
<1>4. ASSUME NEW o \in Operation, EnqueueRender(o) PROVE IInv'
  <2>1. PICK d \in BOOLEAN, n \in 1..MaxRevision :
          Insert(NewRow(ChatOf[o], o, n, "direct"), "edit", d)
    BY <1>4 DEF EnqueueRender, AcceptRender
  <2>2. NewRow(ChatOf[o], o, n, "direct") \in Row
    BY ConstantsAssumption DEF NewRow, Row, Class
  <2> QED
    BY <1>1, <1>4, <2>1, <2>2, InsertInv DEF EnqueueRender, Kind
<1>5. ASSUME NEW j \in Job, RecoverUnknown(j) PROVE IInv'
  <2>1. jobs + 1 \in Job /\ jobs \in Nat
    BY <1>1, <1>5, ConstantsAssumption DEF TypeOK, QueueTypeOK, RecoverUnknown, Job
  <2>2. /\ \A i \in Job : Clean(i) => Clean(i)'
        /\ SingleSend' /\ SendAtMostOnce'
    BY <1>5, QuietWire DEF RecoverUnknown, wireVars, IInv
  <2>3. \A i \in Job : \/ state'[i] = state[i] /\ kind'[i] = kind[i]
                       \/ i = jobs + 1 /\ state[i] = "absent" /\ state'[i] = "ready"
    BY <1>1, <1>5, <2>1 DEF RecoverUnknown, IInv, TypeOK, QueueTypeOK, AbsentRows
  <2>4. AbsentRows'
    BY <1>1, <1>5, <2>1, <2>3
    DEF RecoverUnknown, IInv, AbsentRows, Job, TypeOK, QueueTypeOK
  <2>5. CleanJobs'
    BY <2>2, <2>3 DEF IInv, CleanJobs, Waiting
  <2>6. CleanHolders'
    BY <1>5, <2>2, <2>3 DEF RecoverUnknown, senderVars, IInv, CleanHolders, Current, Retryable
  <2>7. SnapshotOfEdits' /\ SentApplied'
    BY <1>1, <1>5, <2>3
    DEF RecoverUnknown, senderVars, wireVars, IInv, SnapshotOfEdits, SentApplied, TypeOK,
        SenderTypeOK
  <2>8. Stages' /\ KnownSuccess'
    BY <1>5 DEF RecoverUnknown, senderVars, wireVars, IInv, Stages, KnownSuccess
  <2> QED
    BY <1>1, <2>2, <2>4, <2>5, <2>6, <2>7, <2>8 DEF IInv
<1>6. ASSUME NEW s \in Sender, BeginClaim(s) PROVE IInv'
  <2>1. /\ \A i \in Job : Clean(i) => Clean(i)'
        /\ SingleSend' /\ SendAtMostOnce'
    BY <1>6, QuietWire DEF BeginClaim, wireVars, IInv
  <2>2. \A i \in Job : \/ state'[i] = state[i]
                       \/ state[i] = "sending" /\ state'[i] = "outcome_unknown"
    BY <1>6 DEF BeginClaim, ExpiredSends
  <2>3. AbsentRows' /\ CleanJobs' /\ SentApplied'
    BY <1>6, <2>1, <2>2
    DEF BeginClaim, wireVars, IInv, AbsentRows, CleanJobs, SentApplied, Waiting
  <2>4. CleanHolders'
    BY <1>1, <1>6, <2>1, <2>2
    DEF BeginClaim, IInv, CleanHolders, Current, Retryable, TypeOK, SenderTypeOK
  <2>5. SnapshotOfEdits'
    <3> SUFFICES ASSUME NEW t \in Sender, NEW i \in seen'[t], state'[i] = "sending"
                 PROVE  kind'[i] = "edit"
      BY DEF SnapshotOfEdits
    <3>1. i \in Job /\ state[i] = "sending"
      BY <1>1, <2>2 DEF TypeOK, SenderTypeOK
    <3>2. CASE t = s
      BY <1>1, <1>6, <3>1, <3>2
      DEF BeginClaim, Candidates, ExpiredSends, Eligible, Waiting, TypeOK, SenderTypeOK,
          QueueTypeOK, Kind
    <3>3. CASE t # s
      BY <1>1, <1>6, <3>1, <3>3 DEF BeginClaim, IInv, SnapshotOfEdits, TypeOK, SenderTypeOK
    <3> QED
      BY <3>2, <3>3
  <2>6. Stages' /\ KnownSuccess'
    BY <1>1, <1>6 DEF BeginClaim, wireVars, IInv, Stages, KnownSuccess, TypeOK, SenderTypeOK
  <2> QED
    BY <1>1, <2>1, <2>3, <2>4, <2>5, <2>6 DEF IInv
<1>7. ASSUME NEW s \in Sender, FinishClaim(s) PROVE IInv'
  <2>1. CASE Idle(s) /\ UNCHANGED queueVars
    BY <1>1, <1>7, <2>1, IdleInv DEF FinishClaim, wireVars, queueVars
  <2>2. ASSUME NEW j \in seen[s], Eligible(j), Take(s, j) PROVE IInv'
    <3>1. j \in Job
      BY <1>1 DEF TypeOK, SenderTypeOK
    <3>2. /\ \A i \in Job : Clean(i) => Clean(i)'
          /\ SingleSend' /\ SendAtMostOnce'
      BY <1>7, QuietWire DEF FinishClaim, wireVars, IInv
    <3>3. Clean(j) /\ state[j] # "absent"
      BY <2>2, <3>1 DEF IInv, SnapshotOfEdits, CleanJobs, Eligible, Waiting
    <3>4. AbsentRows' /\ CleanJobs' /\ SentApplied'
      BY <1>1, <1>7, <2>2, <3>1, <3>2, <3>3
      DEF FinishClaim, wireVars, Take, IInv, AbsentRows, CleanJobs, SentApplied, Waiting, TypeOK,
          QueueTypeOK
    <3>5. CleanHolders'
      <4> SUFFICES ASSUME NEW t \in Sender, held'[t].job # j, (Current(t) /\ Retryable(t))'
                   PROVE  Clean(held[t].job) /\ held'[t] = held[t] /\ held[t].job \in Job
        BY <3>2, <3>3 DEF CleanHolders, Current
      <4>1. t # s
        BY <1>1, <2>2 DEF Take, TypeOK, SenderTypeOK
      <4> QED
        BY <1>1, <2>2, <4>1
        DEF Take, IInv, CleanHolders, Current, Retryable, TypeOK, QueueTypeOK, SenderTypeOK
    <3>6. SnapshotOfEdits'
      <4> SUFFICES ASSUME NEW t \in Sender, NEW i \in seen'[t], state'[i] = "sending"
                   PROVE  kind'[i] = "edit"
        BY DEF SnapshotOfEdits
      <4>1. i \in seen[t] /\ i \in Job /\ i # j
        BY <1>1, <2>2 DEF Take, TypeOK, SenderTypeOK
      <4> QED
        BY <1>1, <2>2, <4>1 DEF Take, IInv, SnapshotOfEdits, TypeOK, QueueTypeOK
    <3>7. Stages' /\ KnownSuccess'
      BY <1>1, <1>7, <2>2, <3>1
      DEF FinishClaim, Take, wireVars, IInv, Stages, KnownSuccess, TypeOK, SenderTypeOK
    <3> QED
      BY <1>1, <3>2, <3>4, <3>5, <3>6, <3>7 DEF IInv
  <2> QED
    BY <1>7, <2>1, <2>2 DEF FinishClaim
<1>8. ASSUME NEW s \in Sender, Resolve(s) PROVE IInv'
  <2>1. /\ \A i \in Job : Clean(i) => Clean(i)'
        /\ SingleSend' /\ SendAtMostOnce'
    BY <1>8, QuietWire DEF Resolve, wireVars, IInv
  <2>2. AbsentRows' /\ CleanJobs' /\ SentApplied' /\ SnapshotOfEdits'
    BY <1>8, <2>1
    DEF Resolve, queueVars, wireVars, IInv, AbsentRows, CleanJobs, SentApplied, SnapshotOfEdits
  <2>3. CleanHolders'
    BY <1>1, <1>8, <2>1
    DEF Resolve, queueVars, IInv, CleanHolders, Current, Retryable, TypeOK, SenderTypeOK
  <2>4. Stages' /\ KnownSuccess'
    BY <1>1, <1>8 DEF Resolve, wireVars, IInv, Stages, KnownSuccess, TypeOK, SenderTypeOK
  <2> QED
    BY <1>1, <2>1, <2>2, <2>3, <2>4 DEF IInv
<1>9. ASSUME NEW s \in Sender, Prepare(s) PROVE IInv'
  <2> DEFINE j == held[s].job
  <2>1. CASE ~Current(s)
    BY <1>1, <1>9, <2>1, IdleInv DEF Prepare
  <2>2. CASE Current(s)
    <3>1. Clean(j) /\ j \in Job /\ state[j] = "sending" /\ result[s] = "none"
      BY <1>9, <2>2 DEF Prepare, IInv, CleanHolders, Stages, Retryable, Current
    <3>2. \A t \in Sender : j \notin seen[t]
      <4>1. CASE OneSender
        BY <1>9, <4>1 DEF Prepare, IInv, Stages, OneSender
      <4>2. CASE Operation = {}
        BY <3>1, <4>2 DEF NoEdits, IInv, SnapshotOfEdits
      <4> QED
        BY <4>1, <4>2 DEF NoDowngradeRace
    <3>3. \A i \in Job \ {j} : Clean(i) => Clean(i)'
      BY <1>9, <2>2 DEF Prepare, RequestOf, Clean, Posted, SendInFlight
    <3>4. plan[s].method = "edit" => Clean(j)'
      BY <1>9, <2>2, <3>1 DEF Prepare, RequestOf, Clean, Posted, SendInFlight
    <3>5. AbsentRows' /\ SentApplied' /\ SendAtMostOnce'
      BY <1>9, <2>2 DEF Prepare, IInv, AbsentRows, SentApplied, SendAtMostOnce
    <3>6. kind'[j] = plan[s].method /\ \A i \in Job \ {j} : kind'[i] = kind[i]
      BY <1>1, <1>9, <2>2, <3>1 DEF Prepare, TypeOK, QueueTypeOK
    <3>7. CleanJobs'
      BY <1>9, <2>2, <3>1, <3>3, <3>4, <3>6 DEF Prepare, IInv, CleanJobs, Waiting
    <3>8. CleanHolders'
      <4> SUFFICES ASSUME NEW t \in Sender, (Current(t) /\ Retryable(t))'
                   PROVE  Clean(held[t].job)'
        BY <1>9, <2>2 DEF Prepare, CleanHolders
      <4>1. CASE t = s
        BY <1>1, <1>9, <2>2, <3>1, <3>4, <4>1
        DEF Prepare, Retryable, Refusal, TypeOK, SenderTypeOK
      <4>2. CASE t # s
        <5>1. Current(t) /\ Retryable(t) /\ held'[t] = held[t] /\ held[t].job \in Job
          BY <1>1, <1>9, <2>2, <4>2 DEF Prepare, Current, Retryable, TypeOK, SenderTypeOK
        <5>2. held[t].job # j
          BY <2>2, <4>2, <5>1 DEF Fenced
        <5> QED
          BY <3>3, <5>1, <5>2 DEF IInv, CleanHolders, Clean, Posted, SendInFlight
      <4> QED
        BY <4>1, <4>2
    <3>9. SnapshotOfEdits' /\ Stages' /\ KnownSuccess'
      <4>1. SnapshotOfEdits'
        BY <1>1, <1>9, <2>2, <3>2, <3>6 DEF Prepare, IInv, SnapshotOfEdits, TypeOK, SenderTypeOK
      <4> QED
        BY <1>1, <1>9, <2>2, <3>1, <4>1
        DEF Prepare, IInv, Stages, KnownSuccess, TypeOK, SenderTypeOK
    <3>10. SingleSend'
      BY <1>9, <2>2, <3>1
      DEF Prepare, RequestOf, IInv, SingleSend, Clean, Posted, SendInFlight
    <3> QED
      BY <1>1, <3>5, <3>7, <3>8, <3>9, <3>10 DEF IInv
  <2> QED
    BY <2>1, <2>2
<1>10. ASSUME NEW s \in Sender, Receive(s) PROVE IInv'
  <2>1. /\ \A i \in Job : Clean(i) => Clean(i)'
        /\ SingleSend' /\ SendAtMostOnce'
    BY <1>10, QuietWire DEF Receive, wireVars, IInv
  <2>2. AbsentRows' /\ CleanJobs' /\ SentApplied' /\ SnapshotOfEdits'
    BY <1>10, <2>1
    DEF Receive, queueVars, wireVars, IInv, AbsentRows, CleanJobs, SentApplied, SnapshotOfEdits
  <2>3. CleanHolders'
    BY <1>1, <1>10, <2>1
    DEF Receive, queueVars, IInv, CleanHolders, Stages, Current, Retryable, TypeOK, SenderTypeOK
  <2>4. Stages' /\ KnownSuccess'
    BY <1>1, <1>10 DEF Receive, wireVars, IInv, Stages, KnownSuccess, TypeOK, SenderTypeOK
  <2> QED
    BY <1>1, <2>1, <2>2, <2>3, <2>4 DEF IInv
<1>11. ASSUME NEW s \in Sender, LoseAnswer(s) PROVE IInv'
  <2>1. /\ \A i \in Job : Clean(i) => Clean(i)'
        /\ SingleSend' /\ SendAtMostOnce'
    BY <1>11, QuietWire DEF LoseAnswer, IInv
  <2>2. AbsentRows' /\ CleanJobs' /\ SentApplied' /\ SnapshotOfEdits'
    BY <1>11, <2>1
    DEF LoseAnswer, queueVars, IInv, AbsentRows, CleanJobs, SentApplied, SnapshotOfEdits
  <2>3. CleanHolders'
    BY <1>1, <1>11, <2>1
    DEF LoseAnswer, LostOutcome, queueVars, IInv, CleanHolders, Current, Retryable, TypeOK,
        SenderTypeOK, Plan, Kind
  <2>4. Stages' /\ KnownSuccess'
    BY <1>1, <1>11 DEF LoseAnswer, LostOutcome, IInv, Stages, KnownSuccess, TypeOK, SenderTypeOK
  <2> QED
    BY <1>1, <2>1, <2>2, <2>3, <2>4 DEF IInv
<1>12. ASSUME NEW s \in Sender, Acknowledge(s) PROVE IInv'
  <2>1. held[s].job \in applied
    BY <1>12 DEF Acknowledge, IInv, KnownSuccess
  <2>2. \A i \in Job : \/ state'[i] = state[i]
                       \/ i = held[s].job /\ Current(s) /\ state'[i] = "sent"
    BY <1>1, <1>12 DEF Acknowledge, TypeOK, QueueTypeOK
  <2> QED
    BY <1>1, <1>12, <2>1, <2>2, IdleInv DEF Acknowledge, wireVars, State, Final, Waiting
<1>13. ASSUME NEW s \in Sender, Settle(s) PROVE IInv'
  <2> DEFINE j == held[s].job
  <2>1. Settled(s) \in State \ {"absent", "sending"}
    BY DEF Settled, State, Final, Waiting
  <2>2. Settled(s) = "sent" => j \in applied
    BY <1>13 DEF Settle, Settled, IInv, KnownSuccess
  <2>3. Current(s) /\ Settled(s) \in {"superseded", "failed_permanent"} \cup Waiting => Clean(j)
    BY <1>13 DEF Settle, Settled, IInv, CleanHolders, Retryable, Waiting
  <2>4. \A i \in Job : \/ state'[i] = state[i]
                       \/ i = j /\ Current(s) /\ state'[i] = Settled(s)
    BY <1>1, <1>13 DEF Settle, TypeOK, QueueTypeOK
  <2>5. CASE Idle(s)
    BY <1>1, <1>13, <2>1, <2>2, <2>3, <2>4, <2>5, IdleInv DEF Settle, wireVars
  <2>6. CASE ~Idle(s)
    <3>1. /\ \A i \in Job : Clean(i) => Clean(i)'
          /\ SingleSend' /\ SendAtMostOnce'
      BY <1>13, QuietWire DEF Settle, wireVars, IInv
    <3>2. AbsentRows'
      BY <1>13, <2>1, <2>4 DEF Settle, IInv, AbsentRows, Current
    <3>3. CleanJobs' /\ SentApplied'
      BY <1>13, <2>1, <2>2, <2>3, <2>4, <3>1
      DEF Settle, wireVars, IInv, CleanJobs, SentApplied
    <3>4. CleanHolders'
      BY <1>1, <1>13, <2>1, <2>4, <2>6, <3>1
      DEF Settle, IInv, CleanHolders, Current, Retryable, TypeOK, SenderTypeOK
    <3>5. SnapshotOfEdits'
      BY <1>1, <1>13, <2>1, <2>4, <2>6
      DEF Settle, IInv, SnapshotOfEdits, TypeOK, SenderTypeOK
    <3>6. Stages' /\ KnownSuccess'
      BY <1>1, <1>13, <2>6 DEF Settle, wireVars, IInv, Stages, KnownSuccess, TypeOK, SenderTypeOK
    <3> QED
      BY <1>1, <3>1, <3>2, <3>3, <3>4, <3>5, <3>6 DEF IInv
  <2> QED
    BY <2>5, <2>6
<1>14. ASSUME NEW s \in Sender, FollowUp(s) PROVE IInv'
  BY <1>1, <1>14, IdleInv DEF FollowUp, queueVars, wireVars
<1>15. ASSUME NEW s \in Sender, Fault(s) PROVE IInv'
  BY <1>1, <1>15, IdleInv DEF Fault, queueVars
<1>16. ASSUME NEW r \in flight, ApplySend(r) PROVE IInv'
  <2>1. r \in Request /\ r.method = "send" /\ ~Posted(r.job) /\ r.job \in Job
    BY <1>1, <1>16 DEF ApplySend, TypeOK, WireTypeOK, IInv, SingleSend, Request
  <2>2. \A i \in Job : Clean(i) => i # r.job
    BY <1>16, <2>1 DEF ApplySend, Clean, SendInFlight
  <2>3. /\ Len(shown') = Len(shown) + 1 /\ shown'[Len(shown) + 1].born = r.job
        /\ \A m \in 1..Len(shown) : shown'[m] = shown[m]
        /\ DOMAIN shown = 1..Len(shown) /\ DOMAIN shown' = 1..Len(shown') /\ Len(shown) \in Nat
    BY <1>1, <1>16 DEF ApplySend, TypeOK, WireTypeOK
  <2>4. \A i \in Job : Posted(i)' <=> Posted(i) \/ i = r.job
    BY <2>3 DEF Posted
  <2>5. \A i \in Job : Clean(i) => Clean(i)'
    BY <1>16, <2>2, <2>4 DEF ApplySend, Clean, SendInFlight
  <2>6. SendAtMostOnce'
    BY <2>1, <2>3 DEF IInv, SendAtMostOnce, Posted
  <2>7. SingleSend'
    BY <1>1, <1>16, <2>1, <2>4
    DEF ApplySend, IInv, SingleSend, TypeOK, WireTypeOK, Request
  <2>8. AbsentRows' /\ CleanJobs' /\ SentApplied' /\ SnapshotOfEdits'
    BY <1>16, <2>5
    DEF ApplySend, queueVars, IInv, AbsentRows, CleanJobs, SentApplied, SnapshotOfEdits
  <2>9. CleanHolders'
    BY <1>1, <1>16, <2>5
    DEF ApplySend, Answer, Waits, queueVars, IInv, CleanHolders, Current, Retryable, Refusal,
        TypeOK, SenderTypeOK, Plan
  <2>10. Stages'
    BY <1>1, <1>16
    DEF ApplySend, Answer, Waits, IInv, Stages, TypeOK, SenderTypeOK
  <2>11. KnownSuccess'
    BY <1>1, <1>16
    DEF ApplySend, Answer, Waits, RequestOf, IInv, KnownSuccess, TypeOK, SenderTypeOK
  <2> QED
    BY <1>1, <2>6, <2>7, <2>8, <2>9, <2>10, <2>11 DEF IInv
<1>17. ASSUME NEW r \in flight, ApplyEdit(r) PROVE IInv'
  <2>1. r \in Request /\ r.job \in Job
    BY <1>1 DEF TypeOK, WireTypeOK, Request
  <2>2. DOMAIN shown' = DOMAIN shown /\ \A m \in DOMAIN shown : shown'[m].born = shown[m].born
    BY <1>1, <1>17, <2>1 DEF ApplyEdit, TypeOK, WireTypeOK, Message
  <2>3. \A i : Posted(i)' <=> Posted(i)
    BY <2>2 DEF Posted
  <2>4. \A i \in Job : Clean(i) => Clean(i)'
    BY <1>17, <2>3 DEF ApplyEdit, Clean, SendInFlight
  <2>5. SendAtMostOnce' /\ SingleSend'
    BY <1>17, <2>2, <2>3 DEF ApplyEdit, IInv, SendAtMostOnce, SingleSend
  <2>6. AbsentRows' /\ CleanJobs' /\ SentApplied' /\ SnapshotOfEdits'
    BY <1>17, <2>4
    DEF ApplyEdit, queueVars, IInv, AbsentRows, CleanJobs, SentApplied, SnapshotOfEdits
  <2>7. CleanHolders'
    BY <1>1, <1>17, <2>4
    DEF ApplyEdit, Answer, Waits, RequestOf, queueVars, IInv, CleanHolders, Current, Retryable,
        Refusal, TypeOK, SenderTypeOK
  <2>8. Stages'
    BY <1>1, <1>17 DEF ApplyEdit, Answer, Waits, IInv, Stages, TypeOK, SenderTypeOK
  <2>9. KnownSuccess'
    BY <1>1, <1>17
    DEF ApplyEdit, Answer, Waits, RequestOf, IInv, KnownSuccess, TypeOK, SenderTypeOK
  <2> QED
    BY <1>1, <2>5, <2>6, <2>7, <2>8, <2>9 DEF IInv
<1>18. ASSUME NEW r \in flight, Refuse(r) PROVE IInv'
  <2>1. /\ \A i \in Job : Clean(i) => Clean(i)'
        /\ SingleSend' /\ SendAtMostOnce'
    BY <1>18, QuietWire DEF Refuse, IInv
  <2>2. AbsentRows' /\ CleanJobs' /\ SentApplied' /\ SnapshotOfEdits'
    BY <1>18, <2>1
    DEF Refuse, queueVars, IInv, AbsentRows, CleanJobs, SentApplied, SnapshotOfEdits
  <2>3. PICK x \in Refusal : Answer(r, x)
    BY <1>18 DEF Refuse
  <2>4. ASSUME NEW s \in Sender, Waits(s, r), Current(s), plan[s].method = "send"
        PROVE  Clean(held[s].job)'
    BY <1>18, <2>4
    DEF Refuse, Waits, RequestOf, IInv, SingleSend, Clean, Posted, SendInFlight
  <2>5. CleanHolders'
    BY <1>1, <1>18, <2>1, <2>3, <2>4
    DEF Refuse, Answer, Waits, queueVars, IInv, CleanHolders, Current, Retryable, TypeOK,
        SenderTypeOK, Plan, Kind
  <2>6. Stages' /\ KnownSuccess'
    BY <1>1, <1>18, <2>3
    DEF Refuse, Answer, Waits, Refusal, IInv, Stages, KnownSuccess, TypeOK, SenderTypeOK
  <2> QED
    BY <1>1, <2>1, <2>2, <2>5, <2>6 DEF IInv
<1>19. ASSUME NEW r \in flight, Drop(r) PROVE IInv'
  BY <1>1, <1>19, QuietWire
  DEF Drop, IInv, queueVars, senderVars, AbsentRows, CleanJobs, CleanHolders, Current, Retryable,
      SnapshotOfEdits, Stages, KnownSuccess, SentApplied
<1>20. ASSUME NEW j \in Job, BecomeDue(j) \/ ExpireLease(j) \/ Age(j) PROVE IInv'
  BY <1>1, <1>20, QuietWire
  DEF BecomeDue, ExpireLease, Age, IInv, senderVars, wireVars, AbsentRows, CleanJobs,
      CleanHolders, Current, Retryable, SnapshotOfEdits, Stages, KnownSuccess, SentApplied
<1>21. CASE UNCHANGED vars
  BY <1>1, <1>21, QuietWire
  DEF vars, IInv, queueVars, senderVars, wireVars, AbsentRows, CleanJobs, CleanHolders, Current,
      Retryable, SnapshotOfEdits, Stages, KnownSuccess, SentApplied
<1> QED
  BY <1>2, <1>3, <1>4, <1>5, <1>6, <1>7, <1>8, <1>9, <1>10, <1>11, <1>12, <1>13, <1>14, <1>15,
     <1>16, <1>17, <1>18, <1>19, <1>20, <1>21
  DEF Next, Produce, SenderStep, Network, Tick

\* The invariant, inductive together with the fence and the absence of edits.
THEOREM Invariance ==
  ASSUME NoDowngradeRace
  PROVE  Spec => []IInv
<1> DEFINE Inductive == IInv /\ Fenced /\ NoEdits
<1>1. Init => Inductive
  <2>1. Init => IInv
    BY InitInv
  <2>2. Init => Fenced /\ NoEdits
    BY DEF Init, Fenced, NoEdits, Current, NoClaim, NoPlan, Job
  <2> QED
    BY <2>1, <2>2
<1>2. Inductive /\ [Next]_vars => Inductive'
  BY StepInv, StepFenced, StepNoEdits, NoDowngradeRace DEF IInv
<1>3. Inductive => IInv
  OBVIOUS
<1> HIDE DEF Inductive
<1> QED
  BY <1>1, <1>2, <1>3, PTL DEF Spec

\* With one sender, or any number and nothing to edit, a send is never posted
\* twice: not by a retry, a lost answer, an expired lease, a restart or a late
\* request.
THEOREM AtMostOnce ==
  ASSUME NoDowngradeRace
  PROVE  Spec => []SendAtMostOnce
<1>1. IInv => SendAtMostOnce
  BY DEF IInv
<1> QED
  BY <1>1, NoDowngradeRace, Invariance, PTL

\* With one sender, or any number and nothing to edit, `sent' means delivered,
\* and failed, withdrawn and waiting jobs left no message behind.
THEOREM Truthful ==
  ASSUME NoDowngradeRace
  PROVE  Spec => []SettledTruthfully
<1>1. IInv => SettledTruthfully
  BY DEF IInv, SettledTruthfully, CleanJobs, Clean, SentApplied
<1> QED
  BY <1>1, NoDowngradeRace, Invariance, PTL

-----------------------------------------------------------------------------
(* Any number of senders: a job that has ended stays as it ended *)

LEMMA StepFinal ==
  ASSUME TypeOK, AbsentRows, [Next]_vars
  PROVE  AbsentRows' /\ \A j \in Job : state[j] \in Final => state'[j] = state[j]
<1> DEFINE Kept == /\ AbsentRows'
                   /\ \A j \in Job : state[j] \in Final => state'[j] = state[j]
<1> SUFFICES Kept
  OBVIOUS
<1>1. ASSUME jobs' = jobs,
             \A j \in Job : \/ state'[j] = state[j]
                            \/ state[j] \in {"sending"} \cup Waiting /\ state'[j] # "absent"
      PROVE  Kept
  BY <1>1 DEF AbsentRows, Waiting, Final
<1>2. ASSUME jobs' = jobs, state' = state PROVE Kept
  BY <1>2 DEF AbsentRows
<1>3. ASSUME jobs' = jobs + 1, jobs + 1 \in Job, state'[jobs + 1] = "ready",
             \A j \in Job \ {jobs + 1} :
               \/ state'[j] = state[j]
               \/ state[j] \in Waiting /\ state'[j] = "superseded"
      PROVE  Kept
  <2>1. jobs \in Nat /\ state[jobs + 1] = "absent"
    BY <1>3, ConstantsAssumption DEF AbsentRows, TypeOK, QueueTypeOK
  <2>2. AbsentRows'
    BY <1>3, <2>1 DEF AbsentRows, Waiting, Job
  <2>3. \A j \in Job : state[j] \in Final => state'[j] = state[j]
    BY <1>3, <2>1 DEF Waiting, Final
  <2> QED
    BY <2>2, <2>3
<1>4. ASSUME NEW r, NEW k, NEW d, Insert(r, k, d) PROVE Kept
  <2>1. jobs + 1 \in Job
    BY <1>4, ConstantsAssumption DEF Insert, TypeOK, QueueTypeOK, Job
  <2> QED
    BY <1>3, <1>4, <2>1 DEF Insert
<1>5. ASSUME NEW o \in Operation, RecordCapture(o) PROVE Kept
  BY <1>2, <1>4, <1>5 DEF RecordCapture, queueVars
<1>6. ASSUME NEW o \in Operation, EnqueueRender(o) PROVE Kept
  BY <1>4, <1>6 DEF EnqueueRender, AcceptRender
<1>7. ASSUME NEW j \in Job, RecoverUnknown(j) PROVE Kept
  <2>1. jobs + 1 \in Job
    BY <1>7, ConstantsAssumption DEF RecoverUnknown, TypeOK, QueueTypeOK, Job
  <2> QED
    BY <1>3, <1>7, <2>1 DEF RecoverUnknown, TypeOK, QueueTypeOK
<1>8. ASSUME NEW s \in Sender, BeginClaim(s) PROVE Kept
  BY <1>1, <1>8 DEF BeginClaim, ExpiredSends
<1>9. ASSUME NEW s \in Sender, FinishClaim(s) PROVE Kept
  <2>1. ASSUME NEW j \in seen[s], Eligible(j), Take(s, j) PROVE Kept
    BY <1>1, <2>1 DEF Take, Eligible, TypeOK, SenderTypeOK, QueueTypeOK
  <2> QED
    BY <1>2, <1>9, <2>1 DEF FinishClaim, queueVars
<1>10. ASSUME NEW s \in Sender, Acknowledge(s) PROVE Kept
  BY <1>1, <1>10 DEF Acknowledge, Current, TypeOK, QueueTypeOK
<1>11. ASSUME NEW s \in Sender, Settle(s) PROVE Kept
  <2>1. Settled(s) # "absent"
    BY DEF Settled
  <2> QED
    BY <1>1, <1>11, <2>1 DEF Settle, Current, TypeOK, QueueTypeOK
<1> QED
  BY <1>2, <1>4, <1>5, <1>6, <1>7, <1>8, <1>9, <1>10, <1>11
  DEF Next, Produce, SenderStep, Network, Tick, EnqueueReply, EnqueueNotification, Resolve,
      Prepare, Receive, LoseAnswer, FollowUp, Fault, ApplySend, ApplyEdit, Refuse, Drop,
      BecomeDue, ExpireLease, Age, queueVars, vars

\* No number of senders, and no late settlement or acknowledgement of theirs,
\* reopens or rewrites a job that has ended.
THEOREM EndedStays == Spec => FinalIsFinal
<1>1. Init => TypeOK /\ AbsentRows
  BY InitTypeOK, InitInv DEF IInv
<1>2. TypeOK /\ AbsentRows /\ [Next]_vars => (TypeOK /\ AbsentRows)'
  BY StepTypeOK, StepFinal
<1>3. TypeOK /\ AbsentRows /\ [Next]_vars
        => [\A j \in Job : state[j] \in Final => state'[j] = state[j]]_vars
  BY StepFinal
<1> QED
  BY <1>1, <1>2, <1>3, PTL DEF Spec, FinalIsFinal

-----------------------------------------------------------------------------
(* One sender: one job in flight per chat *)

InFlight(j) == state[j] = "sending" /\ lease[j] = "live"

\* The chats of a claim's snapshot are free for as long as it is under way.
SnapshotOfFreeChats ==
  \A s \in Sender : \A j \in seen[s] :
    state[j] # "absent" /\ \A i \in Job : InFlight(i) => row[i].chat # row[j].chat

\* Steps that take no job and begin no claim.
LEMMA NothingTaken ==
  ASSUME TypeOK, OneInFlightPerChat, SnapshotOfFreeChats,
         \A j \in Job : InFlight(j)' => InFlight(j),
         \A j \in Job : state[j] # "absent" => state'[j] # "absent" /\ row'[j].chat = row[j].chat,
         \A s \in Sender : seen'[s] \subseteq seen[s]
  PROVE  OneInFlightPerChat' /\ SnapshotOfFreeChats'
<1>1. \A j \in Job : InFlight(j)' => row'[j].chat = row[j].chat
  BY DEF InFlight
<1>2. OneInFlightPerChat'
  BY <1>1 DEF OneInFlightPerChat, InFlight
<1>3. \A s \in Sender : \A j \in seen'[s] : j \in Job /\ j \in seen[s] /\ row'[j].chat = row[j].chat
  BY DEF TypeOK, SenderTypeOK, SnapshotOfFreeChats
<1>4. SnapshotOfFreeChats'
  BY <1>1, <1>3 DEF SnapshotOfFreeChats
<1> QED
  BY <1>2, <1>4

LEMMA StepOneInFlight ==
  ASSUME OneSender, IInv, IInv', OneInFlightPerChat, SnapshotOfFreeChats, [Next]_vars
  PROVE  OneInFlightPerChat' /\ SnapshotOfFreeChats'
<1> DEFINE Kept == OneInFlightPerChat' /\ SnapshotOfFreeChats'
<1> SUFFICES Kept
  OBVIOUS
<1>0. TypeOK /\ AbsentRows /\ TypeOK'
  BY DEF IInv
<1> HIDE DEF Kept
<1>1. ASSUME UNCHANGED <<row, state, lease>>, \A s \in Sender : seen'[s] \subseteq seen[s] PROVE Kept
  BY <1>0, <1>1, NothingTaken DEF Kept, InFlight
<1>2. ASSUME UNCHANGED row, \A s \in Sender : seen'[s] \subseteq seen[s],
             \A j \in Job : \/ state'[j] = state[j] /\ (lease'[j] = lease[j] \/ lease'[j] # "live")
                            \/ state'[j] \notin {"absent", "sending"}
      PROVE  Kept
  BY <1>0, <1>2, NothingTaken DEF Kept, InFlight
<1>3. ASSUME NEW s \in Sender, Idle(s) PROVE \A t \in Sender : seen'[t] \subseteq seen[t]
  BY <1>0, <1>3 DEF Idle, TypeOK, SenderTypeOK
<1>4. ASSUME NEW r, NEW k, NEW d, Insert(r, k, d), UNCHANGED seen PROVE Kept
  <2>1. jobs + 1 \in Job /\ state[jobs + 1] = "absent"
    BY <1>0, <1>4, ConstantsAssumption DEF Insert, TypeOK, QueueTypeOK, Job, AbsentRows
  <2>2. \A j \in Job : j # jobs + 1 => row'[j] = row[j]
    BY <1>0, <1>4 DEF Insert, TypeOK, QueueTypeOK
  <2>3. \A j \in Job : \/ state'[j] = state[j]
                       \/ state'[j] \in {"ready", "superseded"}
    BY <1>4 DEF Insert
  <2> QED
    BY <1>0, <1>4, <2>1, <2>2, <2>3, NothingTaken DEF Kept, InFlight, Insert
<1>5. ASSUME NEW j \in Job, RecoverUnknown(j) PROVE Kept
  <2>1. jobs + 1 \in Job /\ state[jobs + 1] = "absent"
    BY <1>0, <1>5, ConstantsAssumption DEF RecoverUnknown, TypeOK, QueueTypeOK, Job, AbsentRows
  <2>2. \A i \in Job : i # jobs + 1 => row'[i].chat = row[i].chat
    BY <1>0, <1>5, <2>1 DEF RecoverUnknown, TypeOK, QueueTypeOK, Row
  <2>3. \A i \in Job : state'[i] = state[i] \/ state'[i] = "ready"
    BY <1>0, <1>5 DEF RecoverUnknown, TypeOK, QueueTypeOK
  <2> QED
    BY <1>0, <1>5, <2>1, <2>2, <2>3, NothingTaken DEF Kept, InFlight, RecoverUnknown, senderVars
<1>6. ASSUME NEW s \in Sender, BeginClaim(s) PROVE Kept
  <2>1. /\ \A j \in Job : IF j \in ExpiredSends
                          THEN state'[j] = "outcome_unknown"
                          ELSE state'[j] = state[j] /\ lease'[j] = lease[j]
        /\ UNCHANGED row
    BY <1>6 DEF BeginClaim
  <2>2. \A j \in Job : InFlight(j)' => InFlight(j)
    BY <2>1 DEF InFlight
  <2>3. OneInFlightPerChat'
    BY <2>1, <2>2 DEF OneInFlightPerChat, InFlight
  <2>4. \A j \in Candidates : j \in Job /\ state[j] # "absent" /\ j \notin ExpiredSends
    <3>1. Rows \subseteq Job
      BY <1>0, ConstantsAssumption DEF Rows, Job, TypeOK, QueueTypeOK
    <3> QED
      BY <3>1 DEF Candidates, Eligible, Waiting
  <2>5. \A i \in Job : InFlight(i) => i \in Rows
    BY <1>0 DEF InFlight, AbsentRows, Rows, Job, TypeOK, QueueTypeOK
  <2>6. \A j \in Candidates : \A i \in Job : InFlight(i) => row[i].chat # row[j].chat
    BY <2>5 DEF Candidates, BusyChats, InFlight
  <2>7. \A t \in Sender : seen'[t] = Candidates
    BY <1>0, <1>6, OneSender DEF BeginClaim, OneSender, TypeOK, SenderTypeOK
  <2>8. SnapshotOfFreeChats'
    BY <2>1, <2>2, <2>4, <2>6, <2>7 DEF SnapshotOfFreeChats
  <2> QED
    BY <2>3, <2>8 DEF Kept
<1>7. ASSUME NEW s \in Sender, FinishClaim(s) PROVE Kept
  <2>1. ASSUME NEW j \in seen[s], Take(s, j) PROVE Kept
    <3>1. j \in Job /\ \A t \in Sender : seen'[t] = {}
      BY <1>0, <2>1, OneSender DEF Take, OneSender, TypeOK, SenderTypeOK
    <3>2. \A i \in Job \ {j} : InFlight(i)' => InFlight(i) /\ row'[i].chat # row'[j].chat
      BY <1>0, <2>1, <3>1 DEF Take, InFlight, SnapshotOfFreeChats, TypeOK, QueueTypeOK
    <3>3. OneInFlightPerChat'
      BY <2>1, <3>2 DEF OneInFlightPerChat, InFlight, Take
    <3> QED
      BY <3>1, <3>3 DEF SnapshotOfFreeChats, Kept
  <2> QED
    BY <1>1, <1>3, <1>7, <2>1 DEF FinishClaim, queueVars
<1>8. ASSUME NEW s \in Sender, Acknowledge(s) \/ Settle(s) PROVE Kept
  <2>1. Settled(s) \notin {"absent", "sending"}
    BY DEF Settled
  <2>2. \A j \in Job : \/ state'[j] = state[j] /\ (lease'[j] = lease[j] \/ lease'[j] # "live")
                       \/ state'[j] \notin {"absent", "sending"}
    <3>1. CASE Acknowledge(s)
      BY <1>0, <3>1 DEF Acknowledge, TypeOK, QueueTypeOK
    <3>2. CASE Settle(s) /\ Current(s)
      <4>1. state' = [state EXCEPT ![held[s].job] = Settled(s)]
            /\ lease' = [lease EXCEPT ![held[s].job] = "none"]
        BY <3>2 DEF Settle
      <4> QED
        BY <1>0, <2>1, <4>1 DEF TypeOK, QueueTypeOK
    <3>3. CASE Settle(s) /\ ~Current(s)
      BY <3>3 DEF Settle
    <3> QED
      BY <1>8, <3>1, <3>2, <3>3
  <2>3. row' = row /\ \A t \in Sender : seen'[t] \subseteq seen[t]
    BY <1>3, <1>8 DEF Acknowledge, Settle
  <2> QED
    BY <1>2, <2>2, <2>3
<1>9. ASSUME NEW s \in Sender, Prepare(s) \/ FollowUp(s) \/ Fault(s) PROVE Kept
  BY <1>1, <1>3, <1>9 DEF Prepare, FollowUp, Fault, queueVars
<1>10. ASSUME NEW j \in Job, ExpireLease(j) PROVE Kept
  BY <1>0, <1>2, <1>10 DEF ExpireLease, senderVars, TypeOK, QueueTypeOK
<1> QED
  BY <1>1, <1>4, <1>5, <1>6, <1>7, <1>8, <1>9, <1>10
  DEF Next, Produce, SenderStep, Network, Tick, EnqueueReply, EnqueueNotification, RecordCapture,
      EnqueueRender, AcceptRender, Resolve, Receive, LoseAnswer, ApplySend, ApplyEdit, Refuse,
      Drop, BecomeDue, Age, queueVars, senderVars, vars

\* With one sender no two jobs of a chat are in flight under live leases, so its
\* messages reach it in the order of the queue (claim_outbound_job).
THEOREM OneInFlight ==
  ASSUME OneSender
  PROVE  Spec => []OneInFlightPerChat
<1>1. NoDowngradeRace
  BY OneSender DEF NoDowngradeRace
<1>2. Spec => []IInv
  BY <1>1, Invariance
<1>3. Init => OneInFlightPerChat /\ SnapshotOfFreeChats
  BY DEF Init, OneInFlightPerChat, SnapshotOfFreeChats, Job
<1>4. IInv /\ IInv' /\ OneInFlightPerChat /\ SnapshotOfFreeChats /\ [Next]_vars
        => (OneInFlightPerChat /\ SnapshotOfFreeChats)'
  BY OneSender, StepOneInFlight
<1> QED
  BY <1>2, <1>3, <1>4, PTL DEF Spec

-----------------------------------------------------------------------------
(* The queue implements Delivery *)

\* A success ends what is on its way: no send of the job is left in flight.
Answered(s) ==
  \/ pc[s] = "ack"
  \/ pc[s] = "await" /\ result[s] \in {"ok", "not_modified"}
  \/ pc[s] = "settle" /\ result[s] = "not_modified"

\* What is in flight is a row's, and a send that is in flight was not delivered.
OpenRequests ==
  /\ \A r \in flight : /\ state[r.job] # "absent"
                       /\ r.method = "send" => state[r.job] # "sent"
  /\ \A s \in Sender : Current(s) /\ Answered(s) => ~SendInFlight(held[s].job)

\* Steps that send nothing, deliver nothing and answer nobody.
LEMMA NothingAnswered ==
  ASSUME OpenRequests, flight' \subseteq flight,
         \A r \in flight : state[r.job] # "absent" => state'[r.job] # "absent",
         \A r \in flight : state'[r.job] = "sent" => state[r.job] = "sent",
         \A s \in Sender : Current(s)' /\ Answered(s)' =>
           held'[s].job = held[s].job /\ Current(s) /\ Answered(s)
  PROVE  OpenRequests'
<1>1. \A j : SendInFlight(j)' => SendInFlight(j)
  BY DEF SendInFlight
<1> QED
  BY <1>1 DEF OpenRequests

LEMMA StepOpen ==
  ASSUME IInv, IInv', Fenced, OpenRequests, [Next]_vars
  PROVE  OpenRequests'
<1>1. TypeOK /\ AbsentRows /\ Stages /\ TypeOK'
  BY DEF IInv
<1>2. \A r \in flight : r \in Request /\ r.job \in Job
  BY <1>1 DEF TypeOK, WireTypeOK, Request
<1>3. ASSUME NEW r, NEW k, NEW d, Insert(r, k, d), UNCHANGED senderVars, UNCHANGED wireVars
      PROVE  OpenRequests'
  <2>1. \A j \in Job : state'[j] = state[j] \/ (state'[j] \in {"ready", "superseded"})
    BY <1>3 DEF Insert
  <2> QED
    BY <1>2, <1>3, <2>1, NothingAnswered DEF Insert, senderVars, wireVars, Current, Answered
<1>4. ASSUME NEW j \in Job, RecoverUnknown(j) PROVE OpenRequests'
  <2>1. \A i \in Job : state'[i] = state[i] \/ state'[i] = "ready"
    BY <1>1, <1>4 DEF RecoverUnknown, TypeOK, QueueTypeOK
  <2> QED
    BY <1>2, <1>4, <2>1, NothingAnswered DEF RecoverUnknown, senderVars, wireVars, Current, Answered
<1>5. ASSUME NEW s \in Sender, BeginClaim(s) PROVE OpenRequests'
  <2>1. \A i \in Job : state'[i] = state[i] \/ state'[i] = "outcome_unknown"
    BY <1>5 DEF BeginClaim
  <2>2. \A t \in Sender : Current(t)' /\ Answered(t)' => Current(t) /\ Answered(t)
    BY <1>1, <1>5, <2>1 DEF BeginClaim, Current, Answered, TypeOK, SenderTypeOK
  <2> QED
    BY <1>2, <1>5, <2>1, <2>2, NothingAnswered DEF BeginClaim, wireVars
\* A claim given up, or settled.
<1>6. ASSUME NEW s \in Sender, Idle(s) PROVE \A t \in Sender : Answered(t)' =>
                                 t # s /\ Answered(t) /\ held'[t] = held[t]
  BY <1>1, <1>6 DEF Idle, Answered, TypeOK, SenderTypeOK
<1>7. ASSUME NEW s \in Sender, FinishClaim(s) PROVE OpenRequests'
  <2>1. CASE Idle(s) /\ UNCHANGED queueVars
    BY <1>2, <1>6, <1>7, <2>1, NothingAnswered DEF FinishClaim, queueVars, wireVars, Current
  <2>2. ASSUME NEW j \in seen[s], Take(s, j) PROVE OpenRequests'
    <3>1. j \in Job
      BY <1>1 DEF TypeOK, SenderTypeOK
    <3>2. \A i \in Job : state'[i] = state[i] \/ state'[i] = "sending"
      BY <1>1, <2>2 DEF Take, TypeOK, QueueTypeOK
    <3>3. \A t \in Sender : Current(t)' /\ Answered(t)' => t # s /\ held'[t] = held[t] /\ Answered(t)
      BY <1>1, <2>2 DEF Take, Answered, TypeOK, SenderTypeOK
    <3>4. \A t \in Sender : Current(t)' /\ t # s => held[t].job # j
      BY <1>1, <2>2, <3>1 DEF Take, Fenced, Current, TypeOK, QueueTypeOK, SenderTypeOK, Claim
    <3>5. \A t \in Sender : Current(t)' /\ t # s => Current(t)
      BY <1>1, <2>2, <3>1, <3>4 DEF Take, Current, TypeOK, QueueTypeOK, SenderTypeOK
    <3> QED
      BY <1>2, <1>7, <3>2, <3>3, <3>5, NothingAnswered DEF FinishClaim, wireVars
  <2> QED
    BY <1>7, <2>1, <2>2 DEF FinishClaim
<1>8. ASSUME NEW s \in Sender, Resolve(s) \/ Receive(s) \/ LoseAnswer(s) PROVE OpenRequests'
  <2>1. \A t \in Sender : Answered(t)' => Answered(t)
    BY <1>1, <1>8 DEF Resolve, Receive, LoseAnswer, LostOutcome, Answered, Stages, TypeOK, SenderTypeOK
  <2> QED
    BY <1>2, <1>8, <2>1, NothingAnswered DEF Resolve, Receive, LoseAnswer, queueVars, wireVars, Current
<1>9. ASSUME NEW s \in Sender, Prepare(s) PROVE OpenRequests'
  <2>1. CASE Idle(s)
    BY <1>1, <1>2, <1>6, <1>9, <2>1, NothingAnswered
    DEF Prepare, Current, Idle, TypeOK, SenderTypeOK
  <2>2. CASE Current(s) /\ flight' = flight \cup {RequestOf(s)} /\ UNCHANGED held
                        /\ pc' = [pc EXCEPT ![s] = "await"]
    <3>1. UNCHANGED <<state, attempts, result>> /\ \A t \in Sender : Current(t)' <=> Current(t)
      BY <1>9, <2>2 DEF Prepare, Current, Idle
    <3> QED
      BY <1>1, <1>9, <2>2, <3>1
      DEF RequestOf, OpenRequests, Fenced, SendInFlight, Answered, Stages, Prepare, Current, TypeOK,
          SenderTypeOK
  <2> QED
    BY <1>9, <2>1, <2>2 DEF Prepare
<1>10. ASSUME NEW s \in Sender, FollowUp(s) \/ Fault(s) PROVE OpenRequests'
  BY <1>2, <1>6, <1>10, NothingAnswered DEF FollowUp, Fault, queueVars, wireVars, Current
<1>11. ASSUME NEW s \in Sender, Acknowledge(s) \/ Settle(s) PROVE OpenRequests'
  <2>1. Settled(s) # "absent" /\ (Settled(s) = "sent" => result[s] = "not_modified")
    BY DEF Settled
  <2>2. UNCHANGED <<attempts, flight>>
    BY <1>11 DEF Acknowledge, Settle, wireVars
  <2>3. \A j \in Job : state'[j] = state[j] \/
          /\ j = held[s].job /\ Current(s) /\ state'[j] \notin {"absent", "sending"}
          /\ state'[j] = "sent" => Answered(s)
    <3>1. Settled(s) # "sending"
      BY DEF Settled
    <3>2. CASE Acknowledge(s)
      BY <1>1, <3>2 DEF Acknowledge, Answered, TypeOK, QueueTypeOK
    <3>3. CASE Settle(s)
      <4>1. CASE Current(s)
        <5>1. state' = [state EXCEPT ![held[s].job] = Settled(s)]
          BY <3>3, <4>1 DEF Settle
        <5>2. Settled(s) = "sent" => Answered(s)
          BY <2>1, <3>3 DEF Settle, Answered
        <5> QED
          BY <2>1, <3>1, <4>1, <5>1, <5>2 DEF TypeOK, QueueTypeOK
      <4>2. CASE ~Current(s)
        BY <3>3, <4>2 DEF Settle
      <4> QED
        BY <4>1, <4>2
    <3> QED
      BY <1>11, <3>2, <3>3
  <2>4. \A t \in Sender : Answered(t)' => t # s /\ Answered(t) /\ held'[t] = held[t]
    <3>1. CASE Idle(s)
      BY <1>6, <3>1
    <3>2. CASE ~Idle(s)
      BY <1>1, <1>11, <3>2 DEF Acknowledge, Settle, Answered, TypeOK, SenderTypeOK
    <3> QED
      BY <3>1, <3>2
  <2>5. \A t \in Sender : Current(t)' /\ Answered(t)' => Current(t)
    BY <2>2, <2>3, <2>4 DEF Current
  <2>6. \A r \in flight : r.method = "send" => state'[r.job] # "sent"
    BY <1>2, <2>3 DEF OpenRequests, SendInFlight
  <2> QED
    BY <1>2, <2>2, <2>3, <2>4, <2>5, <2>6 DEF OpenRequests, SendInFlight
<1>12. ASSUME NEW r \in flight, ApplySend(r) \/ ApplyEdit(r) \/ Refuse(r) PROVE OpenRequests'
  <2>1. /\ flight' = flight \ {r} /\ UNCHANGED <<state, attempts, held, pc>>
        /\ \A t \in Sender : Current(t)' <=> Current(t)
    BY <1>12 DEF ApplySend, ApplyEdit, Refuse, queueVars, Current
  <2>2. \A t \in Sender : Waits(t, r) \/ (Answered(t)' <=> Answered(t))
    BY <1>1, <1>12 DEF ApplySend, ApplyEdit, Refuse, Answer, Answered, TypeOK, SenderTypeOK
  <2>3. ASSUME NEW t \in Sender, Waits(t, r), Current(t), Answered(t)'
        PROVE  ~SendInFlight(held[t].job)'
    <3>1. held[t].job = r.job /\ plan[t].method = r.method /\ pc[t] = "await"
      BY <2>3 DEF Waits, RequestOf
    <3>2. CASE ApplySend(r)
      BY <2>1, <3>1, <3>2 DEF ApplySend, IInv, SingleSend, SendInFlight
    <3>3. CASE ApplyEdit(r)
      <4>1. Clean(held[t].job)
        BY <2>3, <3>1, <3>3 DEF ApplyEdit, IInv, CleanHolders, Retryable
      <4> QED
        BY <2>1, <4>1 DEF Clean, SendInFlight
    <3>4. CASE Refuse(r)
      BY <1>1, <2>3, <3>1, <3>4 DEF Refuse, Answer, Refusal, Answered
    <3> QED
      BY <1>12, <3>2, <3>3, <3>4
  <2> QED
    BY <2>1, <2>2, <2>3 DEF OpenRequests, SendInFlight
<1>13. ASSUME NEW r \in flight, Drop(r) PROVE OpenRequests'
  BY <1>13, NothingAnswered DEF Drop, queueVars, senderVars, Current, Answered
<1>14. CASE Tick \/ UNCHANGED vars
  BY <1>14, NothingAnswered
  DEF Tick, BecomeDue, ExpireLease, Age, queueVars, senderVars, wireVars, vars, Current, Answered
<1>15. ASSUME NEW o \in Operation, RecordCapture(o) PROVE OpenRequests'
  BY <1>3, <1>15, NothingAnswered DEF RecordCapture, queueVars, senderVars, wireVars, Current, Answered
<1> QED
  BY <1>3, <1>4, <1>5, <1>7, <1>8, <1>9, <1>10, <1>11, <1>12, <1>13, <1>14, <1>15
  DEF Next, Produce, SenderStep, Network, EnqueueReply, EnqueueNotification, EnqueueRender,
      AcceptRender

\* A job has one message or none.
LEMMA PostsCounted ==
  TypeOK /\ SendAtMostOnce => \A j \in Job : Posts(j) = IF Posted(j) THEN 1 ELSE 0
<1> SUFFICES ASSUME TypeOK, SendAtMostOnce, NEW j \in Job
             PROVE  Posts(j) = IF Posted(j) THEN 1 ELSE 0
  OBVIOUS
<1> DEFINE M == {m \in DOMAIN shown : shown[m].born = j}
<1>1. CASE Posted(j)
  <2>1. PICK m \in DOMAIN shown : shown[m].born = j
    BY <1>1 DEF Posted
  <2>2. M = {m}
    BY <2>1 DEF SendAtMostOnce
  <2> QED
    BY <1>1, <2>2, FS_Singleton DEF Posts
<1>2. CASE ~Posted(j)
  <2>1. M = {}
    BY <1>2 DEF Posted
  <2> QED
    BY <1>2, <2>1, FS_EmptySet DEF Posts
<1> QED
  BY <1>1, <1>2

\* What a step of the queue does to the state, the message and the render that
\* producers see.
StatusesStay == \A j \in Job : Status(j)' = Status(j)
PostsStay    == \A j \in Job : Posts(j)' = Posts(j)

LEMMA MapInit == Init => D!Init
<1> SUFFICES ASSUME Init PROVE D!Init
  OBVIOUS
<1>1. \A j \in Job : Status(j) = "absent"
  BY DEF Init, Status
<1>2. \A j \in Job : Posts(j) = 0
  <2>1. TypeOK /\ SendAtMostOnce
    BY InitInv DEF IInv
  <2>2. \A j \in Job : ~Posted(j)
    BY DEF Init, Posted
  <2> QED
    BY <2>1, <2>2, PostsCounted
<1> QED
  BY <1>1, <1>2 DEF D!Init, Init

LEMMA MapAccept ==
  ASSUME NEW j \in Job, NEW W \in SUBSET Job, Status(j) = "absent", PostsStay, UNCHANGED applied,
         \A i \in W : Status(i) = "pending" /\ Posts(i) = 0,
         \A i \in Job : Status(i)' = IF i = j THEN "pending"
                                     ELSE IF i \in W THEN "withdrawn" ELSE Status(i)
  PROVE  D!Next
  BY DEF PostsStay, D!Next, D!Accept

LEMMA MapQuarantine ==
  ASSUME NEW J \in SUBSET Job, J # {}, PostsStay, UNCHANGED applied,
         \A j \in J : Status(j) = "pending",
         \A j \in Job : Status(j)' = IF j \in J THEN "unknown" ELSE Status(j)
  PROVE  D!Next
  BY DEF PostsStay, D!Next, D!Quarantine

LEMMA MapEnd ==
  ASSUME NEW j \in Job, PostsStay, UNCHANGED applied, Status(j) = "pending",
         \/ Status(j)' = "delivered" /\ j \in applied
         \/ Status(j)' \in {"withdrawn", "failed"} /\ Posts(j) = 0,
         \A i \in Job \ {j} : Status(i)' = Status(i)
  PROVE  D!Next
  BY DEF PostsStay, D!Next, D!Conclude, D!Abandon

LEMMA MapPost ==
  ASSUME NEW j \in Job, StatusesStay, Status(j) \in {"pending", "unknown"},
         Posts(j) = 0, Posts(j)' = 1, \A i \in Job \ {j} : Posts(i)' = Posts(i),
         applied' = applied \cup {j}
  PROVE  D!Next
  BY DEF StatusesStay, D!Next, D!Post

LEMMA MapRewrite ==
  ASSUME NEW j \in Job, StatusesStay, PostsStay, Status(j) # "absent", applied' = applied \cup {j}
  PROVE  D!Next
  BY DEF StatusesStay, PostsStay, D!Next, D!Rewrite

AbstractVars == <<[j \in Job |-> Status(j)], [j \in Job |-> Posts(j)], applied>>

LEMMA MapStutter ==
  ASSUME StatusesStay, PostsStay, UNCHANGED applied
  PROVE  [D!Next]_AbstractVars
  BY DEF StatusesStay, PostsStay, AbstractVars

LEMMA MapStep ==
  ASSUME IInv, IInv', OpenRequests, [Next]_vars
  PROVE  [D!Next]_AbstractVars
<1> DEFINE Mapped == [D!Next]_AbstractVars
<1>0. TypeOK /\ AbsentRows /\ TypeOK'
  BY DEF IInv
<1>1. D!Next => Mapped
  OBVIOUS
<1> HIDE DEF Mapped
<1> SUFFICES Mapped
  BY DEF Mapped
<1>2. /\ \A j \in Job : Posts(j) = IF Posted(j) THEN 1 ELSE 0
      /\ \A j \in Job : Posts(j)' = IF Posted(j)' THEN 1 ELSE 0
  <2>1. \A j \in Job : Posts(j) = IF Posted(j) THEN 1 ELSE 0
    BY PostsCounted DEF IInv
  <2>2. TypeOK' /\ SendAtMostOnce'
    BY DEF IInv
  <2>3. (\A j \in Job : Posts(j) = IF Posted(j) THEN 1 ELSE 0)'
    BY <2>2, PostsCounted, PTL
  <2> QED
    BY <2>1, <2>3
<1>3. ASSUME UNCHANGED shown PROVE PostsStay
  BY <1>2, <1>3 DEF PostsStay, Posted
<1>4. ASSUME UNCHANGED <<state, shown, applied>> PROVE Mapped
  BY <1>3, <1>4, MapStutter DEF Mapped, StatusesStay, Status
<1>5. ASSUME NEW r, NEW k, NEW d, Insert(r, k, d), UNCHANGED wireVars PROVE Mapped
  <2> DEFINE j == jobs + 1
             W == {i \in Job \ {j} : state'[i] # state[i]}
  <2>1. j \in Job /\ state[j] = "absent"
    BY <1>0, <1>5, ConstantsAssumption DEF Insert, TypeOK, QueueTypeOK, Job, AbsentRows
  <2>2. state'[j] = "ready" /\ \A i \in W : state[i] \in Waiting /\ state'[i] = "superseded"
    BY <1>5, <2>1 DEF Insert
  <2>3. \A i \in W : Status(i) = "pending" /\ Posts(i) = 0
    BY <1>2, <2>2 DEF Status, Waiting, IInv, CleanJobs, Clean
  <2>4. \A i \in Job : Status(i)' = IF i = j THEN "pending"
                                    ELSE IF i \in W THEN "withdrawn" ELSE Status(i)
    BY <2>2 DEF Status
  <2>5. PostsStay /\ UNCHANGED applied /\ Status(j) = "absent" /\ W \in SUBSET Job
    BY <1>3, <1>5, <2>1 DEF wireVars, Status
  <2> HIDE DEF j, W
  <2> QED
    BY <1>1, <2>1, <2>3, <2>4, <2>5, MapAccept
<1>6. ASSUME NEW i \in Job, RecoverUnknown(i) PROVE Mapped
  <2> DEFINE j == jobs + 1
  <2>1. j \in Job /\ state[j] = "absent" /\ state' = [state EXCEPT ![j] = "ready"]
    BY <1>0, <1>6, ConstantsAssumption DEF RecoverUnknown, TypeOK, QueueTypeOK, Job, AbsentRows
  <2>2. \A k \in Job : Status(k)' = IF k = j THEN "pending" ELSE Status(k)
    BY <1>0, <2>1 DEF Status, TypeOK, QueueTypeOK
  <2>3. PostsStay /\ UNCHANGED applied /\ Status(j) = "absent"
    BY <1>3, <1>6, <2>1 DEF RecoverUnknown, wireVars, Status
  <2> HIDE DEF j
  <2> DEFINE W == {i0 \in Job : FALSE}
  <2>4. /\ \A k \in Job : Status(k)' = IF k = j THEN "pending"
                                       ELSE IF k \in W THEN "withdrawn" ELSE Status(k)
        /\ W \in SUBSET Job /\ \A k \in W : Status(k) = "pending" /\ Posts(k) = 0
    BY <2>2
  <2> HIDE DEF W
  <2> QED
    BY <1>1, <2>1, <2>3, <2>4, MapAccept
<1>7. ASSUME NEW s \in Sender, BeginClaim(s) PROVE Mapped
  <2>1. /\ ExpiredSends \in SUBSET Job /\ PostsStay /\ UNCHANGED applied
        /\ \A j \in Job : state'[j] = IF j \in ExpiredSends THEN "outcome_unknown" ELSE state[j]
        /\ \A j \in ExpiredSends : state[j] = "sending"
    <3>1. Rows \subseteq Job
      BY <1>0, ConstantsAssumption DEF Rows, Job, TypeOK, QueueTypeOK
    <3> QED
      BY <1>3, <1>7, <3>1 DEF BeginClaim, ExpiredSends, wireVars
  <2>2. /\ \A j \in ExpiredSends : Status(j) = "pending"
        /\ \A j \in Job : Status(j)' = IF j \in ExpiredSends THEN "unknown" ELSE Status(j)
    BY <2>1 DEF Status
  <2>3. CASE ExpiredSends = {}
    BY <2>1, <2>2, <2>3, MapStutter DEF Mapped, StatusesStay
  <2>4. CASE ExpiredSends # {}
    BY <1>1, <2>1, <2>2, <2>4, MapQuarantine
  <2> QED
    BY <2>3, <2>4
<1>8. ASSUME NEW s \in Sender, FinishClaim(s) PROVE Mapped
  <2>1. ASSUME NEW j \in seen[s], Eligible(j), Take(s, j) PROVE Mapped
    <3>1. j \in Job /\ state[j] \in {"sending"} \cup Waiting /\ state' = [state EXCEPT ![j] = "sending"]
      BY <1>0, <2>1 DEF Take, Eligible, TypeOK, SenderTypeOK
    <3>2. StatusesStay
      BY <1>0, <3>1 DEF StatusesStay, Status, Waiting, TypeOK, QueueTypeOK
    <3> QED
      BY <1>3, <1>8, <3>2, MapStutter DEF Mapped, FinishClaim, wireVars
  <2> QED
    BY <1>4, <1>8, <2>1 DEF FinishClaim, queueVars, wireVars
<1>9. ASSUME NEW s \in Sender, Acknowledge(s) PROVE Mapped
  <2>1. CASE Current(s)
    <3>0. PICK j \in Job : j = held[s].job
      BY <2>1 DEF Current
    <3>1. j \in Job /\ state[j] = "sending" /\ j \in applied
      BY <1>9, <2>1, <3>0 DEF Acknowledge, Current, IInv, KnownSuccess
    <3>2. state' = [state EXCEPT ![j] = "sent"] /\ UNCHANGED <<shown, applied>>
      BY <1>9, <2>1, <3>0 DEF Acknowledge, wireVars
    <3>3. /\ Status(j) = "pending" /\ Status(j)' = "delivered"
          /\ \A i \in Job \ {j} : Status(i)' = Status(i)
      <4>1. \A i \in Job : state'[i] = IF i = j THEN "sent" ELSE state[i]
        BY <1>0, <3>1, <3>2 DEF TypeOK, QueueTypeOK
      <4> QED
        BY <3>1, <4>1 DEF Status
    <3>4. PostsStay
      BY <1>3, <3>2
    <3> QED
      BY <1>1, <3>1, <3>2, <3>3, <3>4, MapEnd
  <2>2. CASE ~Current(s)
    BY <1>4, <1>9, <2>2 DEF Acknowledge, wireVars
  <2> QED
    BY <2>1, <2>2
<1>10. ASSUME NEW s \in Sender, Settle(s) PROVE Mapped
  <2>1. CASE Current(s)
    <3>0. PICK j \in Job, x \in State : j = held[s].job /\ x = Settled(s)
      BY <2>1 DEF Current, Settled, State, Final, Waiting
    <3>1. /\ j \in Job /\ state[j] = "sending" /\ state' = [state EXCEPT ![j] = x]
          /\ UNCHANGED <<shown, applied>> /\ pc[s] = "settle"
      BY <1>10, <2>1, <3>0 DEF Settle, Current, wireVars
    <3>2. /\ x \in {"sent", "superseded", "outcome_unknown", "failed_permanent", "retry_wait"}
          /\ x = "sent" => result[s] = "not_modified"
          /\ x \in {"superseded", "failed_permanent"} =>
               result[s] \notin {"unknown", "not_modified"}
      BY <3>0 DEF Settled
    <3>3. x = "sent" => j \in applied
      BY <3>0, <3>1, <3>2 DEF IInv, KnownSuccess
    <3>4. x \in {"superseded", "failed_permanent"} => Posts(j) = 0
      BY <1>2, <2>1, <3>0, <3>1, <3>2 DEF IInv, CleanHolders, Retryable, Clean
    <3>5. PostsStay
      BY <1>3, <3>1
    <3>6. \A i \in Job : state'[i] = IF i = j THEN x ELSE state[i]
      BY <1>0, <3>1 DEF TypeOK, QueueTypeOK
    <3>7. Status(j) = "pending" /\ \A i \in Job \ {j} : Status(i)' = Status(i)
      BY <3>1, <3>6 DEF Status
    <3>8. CASE x \in {"sent", "superseded", "failed_permanent"}
      <4>1. \/ Status(j)' = "delivered" /\ j \in applied
            \/ Status(j)' \in {"withdrawn", "failed"} /\ Posts(j) = 0
        <5>1. /\ x = "sent" => Status(j)' = "delivered"
              /\ x = "superseded" => Status(j)' = "withdrawn"
              /\ x = "failed_permanent" => Status(j)' = "failed"
          BY <3>1, <3>6 DEF Status
        <5> QED
          BY <3>3, <3>4, <3>8, <5>1
      <4> QED
        BY <1>1, <3>1, <3>5, <3>7, <4>1, MapEnd
    <3>9. CASE x = "outcome_unknown"
      <4> DEFINE J == {j}
      <4>1. Status(j)' = "unknown"
        BY <3>1, <3>6, <3>9 DEF Status
      <4>2. /\ J # {} /\ J \in SUBSET Job /\ \A i \in J : Status(i) = "pending"
            /\ \A i \in Job : Status(i)' = IF i \in J THEN "unknown" ELSE Status(i)
        BY <3>1, <3>7, <4>1
      <4> HIDE DEF J
      <4> QED
        BY <1>1, <3>1, <3>5, <4>2, MapQuarantine
    <3>10. CASE x = "retry_wait"
      <4>1. Status(j)' = "pending"
        BY <3>1, <3>6, <3>10 DEF Status
      <4>2. StatusesStay
        BY <3>7, <4>1 DEF StatusesStay
      <4> QED
        BY <3>1, <3>5, <4>2, MapStutter DEF Mapped
    <3> QED
      BY <3>2, <3>8, <3>9, <3>10
  <2>2. CASE ~Current(s)
    BY <1>4, <1>10, <2>2 DEF Settle, wireVars
  <2> QED
    BY <2>1, <2>2
<1>11. ASSUME NEW r \in flight, ApplySend(r) PROVE Mapped
  <2> DEFINE j == r.job
  <2>1. /\ j \in Job /\ ~Posted(j) /\ state[j] \notin {"absent", "sent"} /\ SendInFlight(j)
        /\ applied' = applied \cup {j} /\ UNCHANGED state
    BY <1>0, <1>11
    DEF ApplySend, TypeOK, WireTypeOK, Request, IInv, SingleSend, OpenRequests, queueVars, SendInFlight
  <2>2. state[j] \notin {"superseded", "failed_permanent"}
    BY <2>1 DEF IInv, CleanJobs, Clean
  <2>3. Status(j) \in {"pending", "unknown"} /\ StatusesStay
    BY <2>1, <2>2 DEF Status, StatusesStay
  <2>4. /\ Len(shown') = Len(shown) + 1 /\ shown'[Len(shown) + 1].born = j
        /\ \A m \in 1..Len(shown) : shown'[m] = shown[m]
        /\ DOMAIN shown = 1..Len(shown) /\ DOMAIN shown' = 1..Len(shown') /\ Len(shown) \in Nat
    BY <1>0, <1>11 DEF ApplySend, TypeOK, WireTypeOK
  <2>5. \A i \in Job : Posted(i)' <=> Posted(i) \/ i = j
    BY <2>4 DEF Posted
  <2>6. Posts(j) = 0 /\ Posts(j)' = 1 /\ \A i \in Job \ {j} : Posts(i)' = Posts(i)
    BY <1>2, <2>1, <2>5
  <2> HIDE DEF j
  <2> QED
    BY <1>1, <2>1, <2>3, <2>6, MapPost
<1>12. ASSUME NEW r \in flight, ApplyEdit(r) PROVE Mapped
  <2>1. /\ r.job \in Job /\ Status(r.job) # "absent" /\ StatusesStay
        /\ applied' = applied \cup {r.job}
    BY <1>0, <1>12
    DEF ApplyEdit, TypeOK, WireTypeOK, Request, OpenRequests, queueVars, Status, StatusesStay
  <2>2. DOMAIN shown' = DOMAIN shown /\ \A m \in DOMAIN shown : shown'[m].born = shown[m].born
    BY <1>0, <1>12, <2>1 DEF ApplyEdit, TypeOK, WireTypeOK, Message
  <2>3. PostsStay
    BY <1>2, <2>2 DEF PostsStay, Posted
  <2> QED
    BY <1>1, <2>1, <2>3, MapRewrite
<1>13. ASSUME NEW o \in Operation, RecordCapture(o) PROVE Mapped
  BY <1>4, <1>5, <1>13 DEF RecordCapture, queueVars, wireVars
<1> QED
  BY <1>4, <1>5, <1>6, <1>7, <1>8, <1>9, <1>10, <1>11, <1>12, <1>13
  DEF Next, Produce, SenderStep, Network, Tick, EnqueueReply, EnqueueNotification,
      EnqueueRender, AcceptRender, Resolve, Prepare, Receive, LoseAnswer, FollowUp, Fault,
      Refuse, Drop, BecomeDue, ExpireLease, Age, queueVars, wireVars, vars

\* With one sender, or any number and nothing to edit, every step of the queue, of its
\* sender and of Telegram is one that Delivery allows, or is not seen by producers: an
\* accepted job is posted at most once and never changes its mind.
THEOREM Implementation ==
  ASSUME NoDowngradeRace
  PROVE  Spec => ImplementsDelivery
<1> DEFINE Inductive == IInv /\ Fenced /\ NoEdits /\ OpenRequests
<1>1. Init => Inductive
  <2>1. Init => IInv
    BY InitInv
  <2>2. Init => Fenced /\ NoEdits /\ OpenRequests
    BY DEF Init, Fenced, NoEdits, OpenRequests, Current, NoClaim, NoPlan, Job
  <2> QED
    BY <2>1, <2>2
<1>2. Inductive /\ [Next]_vars => Inductive'
  BY StepInv, StepFenced, StepNoEdits, StepOpen, NoDowngradeRace DEF IInv
<1>3. Inductive /\ Inductive' /\ [Next]_vars => [D!Next]_AbstractVars
  BY MapStep
<1>4. Init => D!Init
  BY MapInit
<1> HIDE DEF Inductive
<1> QED
  BY <1>1, <1>2, <1>3, <1>4, PTL DEF Spec, ImplementsDelivery, D!Spec, AbstractVars

-----------------------------------------------------------------------------
(* The pipeline: rows of the queue as the edits of Projection *)

\* The row of an operation exists, and so does the operation's binding.
OperationsBound ==
  \A j \in Job : row[j].op \in Operation => j \in Rows /\ row[j].op \in bound

\* The renders of an operation carry the revisions from 1 on, each once, and the
\* binding's revision is one of them.
RendersNumbered ==
  \A o \in Operation :
    /\ {row[j].rev : j \in Renders(o)} = 1..Cardinality(Renders(o))
    /\ \A i, j \in Renders(o) : row[i].rev = row[j].rev => i = j
    /\ rendered[o] <= Cardinality(Renders(o))

\* A render that the operator has sent again is quarantined.
RecoveredAreUnknown ==
  \A j \in Rows : HasRevision(j) /\ row[j].recovers # 0 =>
    \E i \in Renders(row[j].op) : row[i].rev = row[j].rev /\ state[i] = "outcome_unknown"

\* A render becomes a send in a sender's hands only.
FreshAreEdits ==
  \A o \in Operation : \A j \in Renders(o) : state[j] = "ready" => kind[j] = "edit"

\* A revision that is still to be recorded is that of a settled row.
RecordsOfSent ==
  \A s \in Sender : pc[s] = "after" /\ result[s] = "not_modified" =>
    held[s].job \in Job /\ state[held[s].job] = "sent"

\* What is fed and judged has been published.
Known(e) == e.op \in Operation /\ e.n \in DOMAIN log[e.op]

FollowerTypeOK ==
  /\ log \in [Operation -> Seq(P!Frame)]
  /\ \A o \in Operation : Len(log[o]) <= MaxFrames[o]
  /\ terminal \in [Operation -> BOOLEAN]
  /\ feed \in Seq(P!Event) /\ inbox \in SUBSET P!Event
  /\ event \in [Job -> Nat]

EventsKnown ==
  /\ \A i \in DOMAIN feed : Known(feed[i])
  /\ \A e \in inbox : Known(e)

\* A render shows an event that was judged, each another one.
RendersJudged ==
  /\ \A j \in Rows : HasRevision(j) => [op |-> row[j].op, n |-> event[j]] \in inbox
  /\ \A o \in Operation : \A i, j \in Renders(o) : event[i] = event[j] => i = j

\* The result of an operation closes it, and no render has a higher revision.
ResultIsLast ==
  \A j \in Rows : HasRevision(j) /\ log[row[j].op][event[j]].last =>
    /\ terminal[row[j].op]
    /\ \A i \in Rows : row[i].op = row[j].op => row[i].rev <= row[j].rev

\* What the queue contributes.
RowsInv == /\ OperationsBound /\ RendersNumbered /\ RecoveredAreUnknown /\ FreshAreEdits

QInv == TypeOK /\ AbsentRows /\ RowsInv /\ RecordsOfSent

\* The process stops: no sender is at work.
Stop ==
  /\ pc' = [s \in Sender |-> "idle"] /\ held' = [s \in Sender |-> NoClaim]
  /\ plan' = [s \in Sender |-> NoPlan] /\ result' = [s \in Sender |-> "none"]
  /\ seen' = [s \in Sender |-> {}]
  /\ flight' \subseteq flight /\ (LateDelivery \/ flight' = {})
  /\ UNCHANGED <<queueVars, bindingVars, shown, applied, faults>>

LEMMA RendersFinite ==
  ASSUME TypeOK, NEW o \in Operation
  PROVE  /\ Rows \subseteq Job /\ Renders(o) \subseteq Job /\ Renders(o) \subseteq Rows
         /\ IsFiniteSet(Renders(o)) /\ Cardinality(Renders(o)) \in Nat
<1>1. Rows \subseteq Job /\ Renders(o) \subseteq Rows
  BY ConstantsAssumption DEF Renders, Rows, Job, TypeOK, QueueTypeOK
<1>2. IsFiniteSet(Job)
  BY FS_Interval, ConstantsAssumption DEF Job
<1> QED
  BY <1>1, <1>2, FS_Subset, FS_CardinalityType

\* A revision is that of a render, of the row itself or of the one that it repeats.
LEMMA RevisionOfRender ==
  ASSUME TypeOK, RowsInv, NEW j \in Job, HasRevision(j)
  PROVE  /\ j \in Rows /\ row[j].op \in Operation /\ row[j].op \in bound
         /\ \E i \in Renders(row[j].op) : row[i].rev = row[j].rev
                                          /\ (i = j \/ state[i] = "outcome_unknown")
         /\ row[j].rev \in 1..Cardinality(Renders(row[j].op))
<1>1. j \in Rows /\ row[j].op \in Operation /\ row[j].op \in bound
  BY DEF HasRevision, RowsInv, OperationsBound
<1>2. PICK i \in Renders(row[j].op) : row[i].rev = row[j].rev
                                      /\ (i = j \/ state[i] = "outcome_unknown")
  BY <1>1 DEF RowsInv, RecoveredAreUnknown, Renders
<1> QED
  BY <1>1, <1>2 DEF RowsInv, RendersNumbered

\* next_revision is one past the renders there are.
LEMMA NextIsNew ==
  ASSUME TypeOK, RowsInv, NEW o \in Operation, NEW n \in Nat, NextRevision(o, n)
  PROVE  n = Cardinality(Renders(o)) + 1
<1> DEFINE C == Cardinality(Renders(o))
           used == {rendered[o]} \cup {row[j].rev : j \in {i \in Rows : row[i].op = o}}
<1>1. C \in Nat /\ Rows \subseteq Job /\ Renders(o) \subseteq Rows
  BY RendersFinite
<1>2. \A j \in Job : row[j].rev \in Nat
  BY DEF TypeOK, QueueTypeOK, Row
<1>3. \A q \in used : q \in Nat /\ q <= C
  <2>1. rendered[o] \in Nat /\ rendered[o] <= C
    BY DEF TypeOK, BindingTypeOK, RowsInv, RendersNumbered
  <2>2. ASSUME NEW j \in Rows, row[j].op = o PROVE row[j].rev \in Nat /\ row[j].rev <= C
    <3>1. j \in Job /\ row[j].rev \in Nat
      BY <1>1, <1>2
    <3>2. CASE row[j].rev > 0
      <4>1. HasRevision(j)
        BY <2>2, <3>2 DEF HasRevision
      <4>2. row[j].rev \in 1..C
        BY <2>2, <3>1, <4>1, RevisionOfRender
      <4> QED
        BY <1>1, <4>2
    <3> QED
      BY <1>1, <3>1, <3>2
  <2> QED
    BY <2>1, <2>2
<1>4. C \in used
  <2>1. CASE C = 0
    BY <1>3, <2>1 DEF TypeOK, BindingTypeOK
  <2>2. CASE C > 0
    <3>1. C \in {row[j].rev : j \in Renders(o)}
      BY <1>1, <2>2 DEF RowsInv, RendersNumbered
    <3> QED
      BY <1>1, <3>1 DEF Renders
  <2> QED
    BY <1>1, <2>1, <2>2
<1>5. n - 1 \in used /\ \A q \in used : q < n
  BY DEF NextRevision
<1> HIDE DEF C, used
<1>6. n = C + 1
  BY <1>1, <1>3, <1>4, <1>5
<1> QED
  BY <1>6 DEF C

\* Rows stay, and the renders with them, unless a render is inserted.
LEMMA RendersKept ==
  ASSUME TypeOK, jobs' \in Nat, jobs <= jobs',
         \A j \in Rows : /\ row'[j].op = row[j].op /\ row'[j].rev = row[j].rev
                         /\ row'[j].recovers = row[j].recovers,
         \A j \in jobs + 1..jobs' : row'[j].rev = 0 \/ row'[j].recovers # 0
  PROVE  \A o \in Operation : Renders(o)' = Renders(o)
<1>1. jobs \in Nat /\ Rows = 1..jobs /\ Rows' = 1..jobs'
  BY ConstantsAssumption DEF TypeOK, QueueTypeOK, Rows
<1>2. \A j \in Rows : (HasRevision(j))' <=> HasRevision(j)
  BY DEF HasRevision
<1>3. \A j \in Rows' : j \in Rows \/ j \in jobs + 1..jobs'
  BY <1>1
<1>4. \A j \in Rows' \ Rows : ~(HasRevision(j) /\ row[j].recovers = 0)'
  BY <1>3 DEF HasRevision
<1>5. Rows \subseteq Rows'
  BY <1>1
<1> QED
  BY <1>2, <1>4, <1>5 DEF Renders

\* A step of a sender, of the network or of time: no row is inserted.
LEMMA RowsStay ==
  ASSUME TypeOK, RowsInv, UNCHANGED <<jobs, row>>, bound \subseteq bound',
         \A o \in Operation : rendered'[o] <= Cardinality(Renders(o)),
         \A j \in Job : state[j] = "outcome_unknown" => state'[j] = "outcome_unknown",
         \A j \in Job : state'[j] = "ready" => state[j] = "ready" /\ kind'[j] = kind[j]
  PROVE  RowsInv'
<1>1. \A o \in Operation : Renders(o)' = Renders(o) /\ Renders(o) \subseteq Job
  BY RendersFinite DEF Renders, Rows, HasRevision
<1>2. Rows' = Rows /\ \A j : (HasRevision(j))' <=> HasRevision(j)
  BY DEF Rows, HasRevision
<1>3. Rows \subseteq Job
  BY ConstantsAssumption DEF Rows, Job, TypeOK, QueueTypeOK
<1>4. OperationsBound'
  BY <1>2 DEF RowsInv, OperationsBound
<1>5. RendersNumbered'
  BY <1>1 DEF RowsInv, RendersNumbered
<1>6. RecoveredAreUnknown'
  BY <1>1, <1>2, <1>3 DEF RowsInv, RecoveredAreUnknown, HasRevision
<1>7. FreshAreEdits'
  BY <1>1 DEF RowsInv, FreshAreEdits
<1> QED
  BY <1>4, <1>5, <1>6, <1>7 DEF RowsInv

\* A row is inserted that is no render.
LEMMA OtherAdded ==
  ASSUME TypeOK, RowsInv, NEW n \in Job, n = jobs + 1, jobs' = n,
         \A j \in Job \ {n} : /\ row'[j].op = row[j].op /\ row'[j].rev = row[j].rev
                                     /\ row'[j].recovers = row[j].recovers,
         row'[n].rev = 0 \/ row'[n].recovers # 0,
         row'[n].op \in Operation => row'[n].op \in bound',
         (HasRevision(n))' /\ row'[n].recovers # 0 =>
           \E i \in Renders(row'[n].op) :
             row[i].rev = row'[n].rev /\ state[i] = "outcome_unknown",
         bound \subseteq bound', rendered' = rendered,
         \A j \in Job : state[j] = "outcome_unknown" => state'[j] = "outcome_unknown",
         \A j \in Rows : state'[j] = "ready" => state[j] = "ready" /\ kind'[j] = kind[j]
  PROVE  RowsInv'
<1>1. /\ jobs \in Nat /\ n \in Nat /\ Rows = 1..jobs /\ Rows' = 1..n /\ Rows \subseteq Job
      /\ n \notin Rows /\ Rows' = Rows \cup {n}
  BY ConstantsAssumption DEF Rows, Job, TypeOK, QueueTypeOK
<1>2. \A o \in Operation : Renders(o)' = Renders(o)
  <2>1. \A j \in jobs + 1..jobs' : j = n
    BY <1>1
  <2> QED
    BY <1>1, <2>1, RendersKept
<1>3. \A o \in Operation : Renders(o) \subseteq Rows
  BY DEF Renders
<1>4. \A j \in Rows : row'[j].op = row[j].op /\ row'[j].rev = row[j].rev
                      /\ row'[j].recovers = row[j].recovers
  BY <1>1
<1>5. OperationsBound'
  BY <1>1 DEF RowsInv, OperationsBound
<1>6. RendersNumbered'
  <2> SUFFICES ASSUME NEW o \in Operation
               PROVE  (/\ {row[j].rev : j \in Renders(o)} = 1..Cardinality(Renders(o))
                       /\ \A i, j \in Renders(o) : row[i].rev = row[j].rev => i = j
                       /\ rendered[o] <= Cardinality(Renders(o)))'
    BY DEF RendersNumbered
  <2>1. {row'[j].rev : j \in Renders(o)} = {row[j].rev : j \in Renders(o)}
    BY <1>3, <1>4
  <2> QED
    BY <1>2, <1>3, <1>4, <2>1 DEF RowsInv, RendersNumbered
<1>7. RecoveredAreUnknown'
  <2> SUFFICES ASSUME NEW j \in Rows', (HasRevision(j))', row'[j].recovers # 0
               PROVE  \E i \in (Renders(row[j].op))' :
                        row'[i].rev = row'[j].rev /\ state'[i] = "outcome_unknown"
    BY DEF RecoveredAreUnknown
  <2>1. row'[j].op \in Operation
    BY DEF HasRevision
  <2>2. \E i \in Renders(row'[j].op) : row[i].rev = row'[j].rev /\ state[i] = "outcome_unknown"
    <3>1. CASE j = n
      BY <3>1
    <3>2. CASE j \in Rows
      BY <1>4, <3>2 DEF RowsInv, RecoveredAreUnknown, HasRevision
    <3> QED
      BY <1>1, <3>1, <3>2
  <2>3. PICK i \in Renders(row'[j].op) : row[i].rev = row'[j].rev /\ state[i] = "outcome_unknown"
    BY <2>2
  <2>4. i \in Rows /\ i \in (Renders(row[j].op))'
    BY <1>2, <1>3, <2>1, <2>3
  <2> QED
    BY <1>1, <1>4, <2>3, <2>4
<1>8. FreshAreEdits'
  BY <1>2, <1>3 DEF RowsInv, FreshAreEdits
<1> QED
  BY <1>5, <1>6, <1>7, <1>8 DEF RowsInv

\* What an insertion without a revision does to the rows.
LEMMA PlainAdds ==
  ASSUME TypeOK, NEW c \in Chat, NEW o \in Operation \cup {NoOperation}, NEW cl \in Class,
         NEW k \in Kind, NEW d \in BOOLEAN, Insert(NewRow(c, o, 0, cl), k, d)
  PROVE  \E n \in Job :
           /\ n = jobs + 1 /\ jobs' = n /\ n \notin Rows
           /\ row'[n].op = o /\ row'[n].rev = 0
           /\ \A j \in Job \ {n} : /\ row'[j] = row[j] /\ kind'[j] = kind[j]
                                   /\ state'[j] = state[j]
           /\ \A p \in Operation : Renders(p)' = Renders(p)
<1>1. PICK n \in Job : n = jobs + 1
  BY ConstantsAssumption DEF Insert, TypeOK, QueueTypeOK, Job
<1>2. /\ jobs' = n /\ row' = [row EXCEPT ![n] = NewRow(c, o, 0, cl)]
      /\ kind' = [kind EXCEPT ![n] = k]
      /\ \A j \in Job \ {n} : state'[j] = state[j]
  BY <1>1 DEF Insert, NewRow
<1>3. /\ row'[n].op = o /\ row'[n].rev = 0
      /\ \A j \in Job \ {n} : row'[j] = row[j] /\ kind'[j] = kind[j]
  BY <1>2 DEF TypeOK, QueueTypeOK, NewRow
<1>4. /\ n \notin Rows /\ (\A j \in Rows : j \in Job \ {n})
      /\ jobs' \in Nat /\ jobs <= jobs' /\ \A j \in jobs + 1..jobs' : j = n
  BY <1>1, <1>2, ConstantsAssumption DEF Rows, Job, TypeOK, QueueTypeOK
<1>5. \A p \in Operation : Renders(p)' = Renders(p)
  BY <1>3, <1>4, RendersKept
<1> QED
  BY <1>1, <1>2, <1>3, <1>4, <1>5

\* The operator's recovery repeats a row.
LEMMA RecoverAdds ==
  ASSUME TypeOK, NEW i \in Job, RecoverUnknown(i)
  PROVE  \E n \in Job :
           /\ n = jobs + 1 /\ jobs' = n /\ n \notin Rows
           /\ i \in Rows /\ i # n /\ state[i] = "outcome_unknown" /\ UNCHANGED <<bound, rendered>>
           /\ row'[n].op = row[i].op /\ row'[n].rev = row[i].rev /\ row'[n].recovers = i /\ i # 0
           /\ \A j \in Job \ {n} : /\ row'[j].op = row[j].op /\ row'[j].rev = row[j].rev
                                   /\ row'[j].recovers = row[j].recovers
                                   /\ kind'[j] = kind[j] /\ state'[j] = state[j]
           /\ \A p \in Operation : Renders(p)' = Renders(p)
<1>1. PICK n \in Job : n = jobs + 1
  BY ConstantsAssumption DEF RecoverUnknown, TypeOK, QueueTypeOK, Job
<1>2. /\ jobs' = n /\ kind' = [kind EXCEPT ![n] = "send"] /\ state' = [state EXCEPT ![n] = "ready"]
      /\ i \in Rows /\ i # n /\ state[i] = "outcome_unknown" /\ UNCHANGED <<bound, rendered>>
      /\ row' = [row EXCEPT ![n] = [row[i] EXCEPT !.recovers = i],
                            ![i].class = IF @ = "notification" THEN "direct" ELSE @]
  BY <1>1, ConstantsAssumption DEF RecoverUnknown, Rows, Job, TypeOK, QueueTypeOK, bindingVars
<1>3. row \in [Job -> Row] /\ kind \in [Job -> Kind] /\ state \in [Job -> State]
  BY DEF TypeOK, QueueTypeOK
<1>4. /\ row'[n].op = row[i].op /\ row'[n].rev = row[i].rev /\ row'[n].recovers = i
      /\ \A j \in Job \ {n} : /\ row'[j].op = row[j].op /\ row'[j].rev = row[j].rev
                              /\ row'[j].recovers = row[j].recovers
  <2> DEFINE added == [row EXCEPT ![n] = [row[i] EXCEPT !.recovers = i]]
  <2>1. i \in 0..MaxJobs
    BY ConstantsAssumption DEF Job
  <2>2. /\ [row[i] EXCEPT !.recovers = i] \in Row
        /\ [row[i] EXCEPT !.recovers = i].op = row[i].op
        /\ [row[i] EXCEPT !.recovers = i].rev = row[i].rev
        /\ [row[i] EXCEPT !.recovers = i].recovers = i
    BY <1>3, <2>1 DEF Row
  <2>3. added \in [Job -> Row]
    BY <1>3, <2>2
  <2>4. row' = [added EXCEPT ![i] =
                  [added[i] EXCEPT !.class = IF @ = "notification" THEN "direct" ELSE @]]
    BY <1>2
  <2>5. \A j \in Job : /\ row'[j].op = added[j].op /\ row'[j].rev = added[j].rev
                       /\ row'[j].recovers = added[j].recovers
    <3>1. \A r \in Row : LET q == [r EXCEPT !.class = IF @ = "notification" THEN "direct" ELSE @]
                         IN  q.op = r.op /\ q.rev = r.rev /\ q.recovers = r.recovers
      BY DEF Row
    <3>2. added[i] \in Row
      BY <2>3
    <3> HIDE DEF added
    <3>3. \A j \in Job : j # i => row'[j] = added[j]
      BY <2>3, <2>4
    <3>4. row'[i] = [added[i] EXCEPT !.class = IF @ = "notification" THEN "direct" ELSE @]
      BY <2>3, <2>4
    <3>5. /\ row'[i].op = added[i].op /\ row'[i].rev = added[i].rev
          /\ row'[i].recovers = added[i].recovers
      BY <3>1, <3>2, <3>4
    <3> QED
      BY <3>3, <3>5
  <2> QED
    BY <1>3, <2>2, <2>5
<1>5. i # 0 /\ n \notin Rows /\ (\A j \in Rows : j \in Job \ {n})
      /\ jobs' \in Nat /\ jobs <= jobs' /\ \A j \in jobs + 1..jobs' : j = n
  BY <1>1, <1>2, ConstantsAssumption DEF Job, Rows, TypeOK, QueueTypeOK
<1>6. \A p \in Operation : Renders(p)' = Renders(p)
  BY <1>4, <1>5, RendersKept
<1> QED
  BY <1>1, <1>2, <1>3, <1>4, <1>5, <1>6

\* A render is inserted: the next revision.
LEMMA RenderAdded ==
  ASSUME TypeOK, RowsInv, NEW o \in bound, NEW n \in 1..MaxRevision, NEW d \in BOOLEAN,
         NextRevision(o, n), Insert(NewRow(ChatOf[o], o, n, "direct"), "edit", d),
         UNCHANGED <<bound, rendered>>
  PROVE  /\ RowsInv'
         /\ n = Cardinality(Renders(o)) + 1
         /\ Cardinality(Renders(o)') = Cardinality(Renders(o)) + 1
         /\ \E m \in Job :
              /\ m = jobs + 1 /\ jobs' = m /\ m \notin Rows
              /\ row'[m].op = o /\ row'[m].rev = n /\ row'[m].recovers = 0
              /\ kind'[m] = "edit" /\ state'[m] = "ready"
              /\ \A j \in Job \ {m} :
                   /\ row'[j] = row[j] /\ kind'[j] = kind[j]
                   /\ state'[j] = IF /\ row[j].op = o /\ kind[j] = "edit" /\ state[j] \in Waiting
                                    /\ row[j].rev > 0 /\ row[j].rev < n
                                 THEN "superseded" ELSE state[j]
              /\ Renders(o)' = Renders(o) \cup {m}
              /\ \A p \in Operation \ {o} : Renders(p)' = Renders(p)
<1> DEFINE C == Cardinality(Renders(o))
<1>0. PICK m \in Job : m = jobs + 1
  BY ConstantsAssumption DEF Job, TypeOK, QueueTypeOK, Insert
<1>1. /\ jobs \in Nat /\ m \in Nat /\ Rows = 1..jobs /\ Rows' = 1..m /\ Rows \subseteq Job
      /\ m \notin Rows /\ Rows' = Rows \cup {m} /\ m \in Job
  BY <1>0, ConstantsAssumption DEF Rows, Job, TypeOK, QueueTypeOK, Insert
<1>2. n \in Nat \ {0} /\ o \in Operation
  BY ConstantsAssumption DEF TypeOK, BindingTypeOK
<1>3. n = C + 1 /\ C \in Nat /\ IsFiniteSet(Renders(o))
  BY <1>2, NextIsNew, RendersFinite
<1>4. /\ row' = [row EXCEPT ![m] = NewRow(ChatOf[o], o, n, "direct")]
      /\ kind' = [kind EXCEPT ![m] = "edit"]
      /\ state'[m] = "ready" /\ jobs' = m
      /\ \A j \in Job \ {m} :
           state'[j] = IF /\ row[j].op = o /\ kind[j] = "edit" /\ state[j] \in Waiting
                          /\ row[j].rev > 0 /\ row[j].rev < n
                       THEN "superseded" ELSE state[j]
  BY <1>0, <1>1, <1>2 DEF Insert, NewRow
<1>5. /\ row'[m].op = o /\ row'[m].rev = n /\ row'[m].recovers = 0 /\ kind'[m] = "edit"
      /\ \A j \in Job \ {m} : row'[j] = row[j] /\ kind'[j] = kind[j]
  BY <1>1, <1>4 DEF TypeOK, QueueTypeOK, NewRow
<1>6. (HasRevision(m))' /\ \A j \in Rows : (HasRevision(j))' <=> HasRevision(j)
  BY <1>1, <1>2, <1>5 DEF HasRevision
<1>7. /\ Renders(o)' = Renders(o) \cup {m} /\ m \notin Renders(o) /\ Renders(o) \subseteq Rows
      /\ \A p \in Operation \ {o} : Renders(p)' = Renders(p) /\ Renders(p) \subseteq Rows
  BY <1>1, <1>5, <1>6 DEF Renders
<1>8. Cardinality(Renders(o)') = C + 1
  BY <1>3, <1>7, FS_AddElement
<1>9. OperationsBound'
  BY <1>1, <1>2, <1>5 DEF RowsInv, OperationsBound
<1>10. RendersNumbered'
  <2> SUFFICES ASSUME NEW p \in Operation
               PROVE  (/\ {row[j].rev : j \in Renders(p)} = 1..Cardinality(Renders(p))
                       /\ \A i, j \in Renders(p) : row[i].rev = row[j].rev => i = j
                       /\ rendered[p] <= Cardinality(Renders(p)))'
    BY DEF RendersNumbered
  <2>1. CASE p # o
    <3>1. Renders(p)' = Renders(p) /\ \A j \in Renders(p) : row'[j] = row[j]
      BY <1>1, <1>5, <1>7, <2>1
    <3>2. {row'[j].rev : j \in Renders(p)} = {row[j].rev : j \in Renders(p)}
      BY <3>1
    <3> QED
      BY <3>1, <3>2 DEF RowsInv, RendersNumbered
  <2>2. CASE p = o
    <3>1. \A j \in Renders(o) : row'[j] = row[j]
      BY <1>1, <1>5, <1>7
    <3>2. {row'[j].rev : j \in Renders(o)'} = {row[j].rev : j \in Renders(o)} \cup {n}
      BY <1>5, <1>7, <3>1
    <3>3. {row[j].rev : j \in Renders(o)} = 1..C
      BY <1>2 DEF RowsInv, RendersNumbered
    <3>4. 1..(C + 1) = 1..C \cup {n}
      BY <1>3
    <3>5. \A j \in Renders(o) : row[j].rev # n
      BY <1>3, <3>3
    <3>6. \A i, j \in Renders(o)' : row'[i].rev = row'[j].rev => i = j
      BY <1>2, <1>5, <1>7, <3>1, <3>5 DEF RowsInv, RendersNumbered
    <3>7. rendered'[o] <= C + 1
      BY <1>2, <1>3 DEF RowsInv, RendersNumbered, TypeOK, BindingTypeOK
    <3> QED
      BY <1>8, <2>2, <3>2, <3>3, <3>4, <3>6, <3>7
  <2> QED
    BY <2>1, <2>2
<1>11. RecoveredAreUnknown'
  <2> SUFFICES ASSUME NEW j \in Rows', (HasRevision(j))', row'[j].recovers # 0
               PROVE  \E i \in (Renders(row[j].op))' :
                        row'[i].rev = row'[j].rev /\ state'[i] = "outcome_unknown"
    BY DEF RecoveredAreUnknown
  <2>1. j \in Rows /\ row'[j] = row[j] /\ HasRevision(j)
    BY <1>1, <1>5, <1>6
  <2>2. PICK i \in Renders(row[j].op) : row[i].rev = row[j].rev /\ state[i] = "outcome_unknown"
    BY <2>1 DEF RowsInv, RecoveredAreUnknown
  <2>3. i \in Rows /\ i \in (Renders(row[j].op))'
    BY <1>7, <2>1, <2>2 DEF HasRevision
  <2>4. row'[i] = row[i] /\ state'[i] = "outcome_unknown"
    BY <1>1, <1>4, <1>5, <2>2, <2>3 DEF Waiting
  <2> QED
    BY <2>1, <2>2, <2>3, <2>4
<1>12. FreshAreEdits'
  <2> SUFFICES ASSUME NEW p \in Operation, NEW j \in Renders(p)', state'[j] = "ready"
               PROVE  kind'[j] = "edit"
    BY DEF FreshAreEdits
  <2>1. CASE j = m
    BY <1>5, <2>1
  <2>2. CASE j # m
    <3>1. j \in Renders(p) /\ j \in Job
      BY <1>1, <1>7, <2>2
    <3> QED
      BY <1>4, <1>5, <2>2, <3>1 DEF RowsInv, FreshAreEdits
  <2> QED
    BY <2>1, <2>2
<1> QED
  BY <1>0, <1>1, <1>3, <1>4, <1>5, <1>7, <1>8, <1>9, <1>10, <1>11, <1>12 DEF RowsInv

\* The recorded revision moves to that of a row.
LEMMA RenderedWithin ==
  ASSUME TypeOK, RowsInv, NEW j \in Job, AdvanceRender(j)
  PROVE  \A o \in Operation : rendered'[o] <= Cardinality(Renders(o))
<1>1. CASE HasRevision(j)
  <2>1. row[j].op \in Operation /\ row[j].rev \in 1..Cardinality(Renders(row[j].op))
    BY <1>1, RevisionOfRender
  <2>2. Cardinality(Renders(row[j].op)) \in Nat
    BY <2>1, RendersFinite
  <2>3. row[j].rev <= Cardinality(Renders(row[j].op))
    BY <2>1, <2>2
  <2>4. rendered' = [rendered EXCEPT ![row[j].op] = IF @ < row[j].rev THEN row[j].rev ELSE @]
    BY <1>1 DEF AdvanceRender
  <2> QED
    BY <2>1, <2>3, <2>4 DEF TypeOK, BindingTypeOK, RowsInv, RendersNumbered
<1>2. CASE ~HasRevision(j)
  BY <1>2 DEF AdvanceRender, RowsInv, RendersNumbered
<1> QED
  BY <1>1, <1>2

LEMMA RowsStep ==
  ASSUME TypeOK, AbsentRows, RowsInv, [Next]_vars
  PROVE  RowsInv'
<1>1. \A j \in Job : state[j] = "outcome_unknown" => state'[j] = "outcome_unknown"
  BY StepFinal DEF Final
<1>2. \A o \in Operation : rendered[o] <= Cardinality(Renders(o))
  BY DEF RowsInv, RendersNumbered
<1>3. ASSUME UNCHANGED <<jobs, row>>, bound \subseteq bound',
             rendered' = rendered \/ \E j \in Job : AdvanceRender(j),
             \A j \in Job : state'[j] = "ready" => state[j] = "ready" /\ kind'[j] = kind[j]
      PROVE  RowsInv'
  BY <1>1, <1>2, <1>3, RowsStay, RenderedWithin
<1>4. ASSUME NEW c \in Chat, NEW o \in Operation \cup {NoOperation}, NEW cl \in Class, NEW k \in Kind,
             NEW d \in BOOLEAN, Insert(NewRow(c, o, 0, cl), k, d),
             bound' = bound \/ bound' = bound \cup {o}, o \in Operation => o \in bound',
             rendered' = rendered
      PROVE  RowsInv'
  <2>1. PICK n \in Job :
          /\ n = jobs + 1 /\ jobs' = n /\ n \notin Rows
          /\ row'[n].op = o /\ row'[n].rev = 0
          /\ \A j \in Job \ {n} : row'[j] = row[j] /\ kind'[j] = kind[j] /\ state'[j] = state[j]
    BY <1>4, PlainAdds
  <2>2. \A j \in Rows : j \in Job \ {n}
    BY <2>1, ConstantsAssumption DEF Rows, Job, TypeOK, QueueTypeOK
  <2>3. ~(HasRevision(n))'
    BY <2>1 DEF HasRevision
  <2> QED
    BY <1>1, <1>4, <2>1, <2>2, <2>3, OtherAdded
<1>5. ASSUME NEW c \in Chat, EnqueueReply(c) \/ EnqueueNotification(c) PROVE RowsInv'
  BY <1>4, <1>5, ConstantsAssumption
  DEF EnqueueReply, EnqueueNotification, bindingVars, Class, Kind
<1>6. ASSUME NEW o \in Operation, RecordCapture(o) PROVE RowsInv'
  <2>1. CASE UNCHANGED queueVars
    BY <1>3, <1>6, <2>1 DEF RecordCapture, queueVars
  <2>2. CASE Insert(NewRow(ChatOf[o], o, 0, "direct"), "send", TRUE)
    <3>1. ChatOf[o] \in Chat /\ "direct" \in Class /\ "send" \in Kind
      BY ConstantsAssumption DEF Class, Kind
    <3> QED
      BY <1>4, <1>6, <2>2, <3>1 DEF RecordCapture
  <2> QED
    BY <1>6, <2>1, <2>2 DEF RecordCapture
<1>7. ASSUME NEW o \in Operation, EnqueueRender(o) PROVE RowsInv'
  BY <1>7, RenderAdded DEF EnqueueRender, AcceptRender, bindingVars
<1>8. ASSUME NEW i \in Job, RecoverUnknown(i) PROVE RowsInv'
  <2>1. PICK n \in Job :
          /\ n = jobs + 1 /\ jobs' = n /\ n \notin Rows
          /\ i \in Rows /\ state[i] = "outcome_unknown" /\ UNCHANGED <<bound, rendered>>
          /\ row'[n].op = row[i].op /\ row'[n].rev = row[i].rev /\ row'[n].recovers = i /\ i # 0
          /\ \A j \in Job \ {n} : /\ row'[j].op = row[j].op /\ row'[j].rev = row[j].rev
                                  /\ row'[j].recovers = row[j].recovers
                                  /\ kind'[j] = kind[j] /\ state'[j] = state[j]
    BY <1>8, RecoverAdds
  <2>2. row'[n].op \in Operation => row'[n].op \in bound'
    BY <2>1 DEF RowsInv, OperationsBound
  <2>3. (HasRevision(n))' => \E k \in Renders(row'[n].op) :
                               row[k].rev = row'[n].rev /\ state[k] = "outcome_unknown"
    <3>1. (HasRevision(n))' => HasRevision(i)
      BY <2>1 DEF HasRevision
    <3> QED
      BY <2>1, <3>1, RevisionOfRender
  <2>4. \A j \in Rows : j \in Job \ {n}
    BY <2>1, ConstantsAssumption DEF Rows, Job, TypeOK, QueueTypeOK
  <2> QED
    BY <1>1, <2>1, <2>2, <2>3, <2>4, OtherAdded
<1>9. ASSUME NEW s \in Sender, BeginClaim(s) PROVE RowsInv'
  BY <1>3, <1>9 DEF BeginClaim, bindingVars
<1>10. ASSUME NEW s \in Sender, FinishClaim(s) PROVE RowsInv'
  <2>1. ASSUME NEW j \in seen[s], Take(s, j) PROVE RowsInv'
    <3>1. \A i \in Job : state'[i] = "ready" => state[i] = "ready"
      BY <2>1 DEF Take, TypeOK, QueueTypeOK
    <3> QED
      BY <1>3, <1>10, <2>1, <3>1 DEF FinishClaim, Take, bindingVars
  <2> QED
    BY <1>3, <1>10, <2>1 DEF FinishClaim, queueVars, bindingVars
<1>11. ASSUME NEW s \in Sender, Prepare(s) PROVE RowsInv'
  <2>1. \A j \in Job : state[j] = "ready" => kind'[j] = kind[j]
    BY <1>11 DEF Prepare, Current, TypeOK, QueueTypeOK
  <2> QED
    BY <1>3, <1>11, <2>1 DEF Prepare, bindingVars
<1>12. ASSUME NEW s \in Sender, Acknowledge(s) PROVE RowsInv'
  <2>1. \A j \in Job : state'[j] = "ready" => state[j] = "ready"
    BY <1>12 DEF Acknowledge, TypeOK, QueueTypeOK
  <2>2. rendered' = rendered \/ \E j \in Job : AdvanceRender(j)
    BY <1>12 DEF Acknowledge, Current, bindingVars
  <2>3. bound \subseteq bound' /\ UNCHANGED <<jobs, row, kind>>
    BY <1>12 DEF Acknowledge, bindingVars
  <2> QED
    BY <1>3, <2>1, <2>2, <2>3
<1>13. ASSUME NEW s \in Sender, Settle(s) PROVE RowsInv'
  <2>1. Settled(s) # "ready"
    BY DEF Settled
  <2>2. \A j \in Job : state'[j] = "ready" => state[j] = "ready"
    BY <1>13, <2>1 DEF Settle, TypeOK, QueueTypeOK
  <2> QED
    BY <1>3, <1>13, <2>2 DEF Settle, bindingVars
<1>14. ASSUME NEW s \in Sender, FollowUp(s) PROVE RowsInv'
  <2>1. held[s].job \in Job
    BY <1>14 DEF FollowUp, TypeOK, SenderTypeOK
  <2> QED
    BY <1>3, <1>14, <2>1 DEF FollowUp, queueVars
<1>15. ASSUME NEW s \in Sender, Resolve(s) \/ Receive(s) \/ LoseAnswer(s) \/ Fault(s)
       PROVE  RowsInv'
  BY <1>3, <1>15 DEF Resolve, Receive, LoseAnswer, Fault, queueVars, bindingVars
<1>16. CASE Network \/ Tick \/ UNCHANGED vars
  BY <1>3, <1>16
  DEF Network, ApplySend, ApplyEdit, Refuse, Drop, Tick, BecomeDue, ExpireLease, Age, queueVars,
      bindingVars, vars
<1> QED
  BY <1>5, <1>6, <1>7, <1>8, <1>9, <1>10, <1>11, <1>12, <1>13, <1>14, <1>15, <1>16
  DEF Next, Produce, SenderStep

LEMMA RecordsStep ==
  ASSUME TypeOK, AbsentRows, RecordsOfSent, [Next]_vars
  PROVE  RecordsOfSent'
<1>1. \A j \in Job : state[j] = "sent" => state'[j] = "sent"
  BY StepFinal DEF Final
<1>2. ASSUME \A t \in Sender : \/ pc'[t] # "after"
                               \/ pc'[t] = pc[t] /\ held'[t] = held[t] /\ result'[t] = result[t]
      PROVE  RecordsOfSent'
  BY <1>1, <1>2 DEF RecordsOfSent
<1>3. ASSUME NEW s \in Sender,
             pc'[s] # "after" \/ (pc'[s] = pc[s] /\ held'[s] = held[s] /\ result'[s] = result[s]),
             \A t \in Sender \ {s} : pc'[t] = pc[t] /\ held'[t] = held[t] /\ result'[t] = result[t]
      PROVE  RecordsOfSent'
  BY <1>2, <1>3
<1>4. ASSUME NEW s \in Sender, Idle(s) PROVE RecordsOfSent'
  <2>1. /\ pc'[s] = "idle"
        /\ \A t \in Sender \ {s} : pc'[t] = pc[t] /\ held'[t] = held[t] /\ result'[t] = result[t]
    BY <1>4 DEF Idle, TypeOK, SenderTypeOK
  <2> QED
    BY <1>3, <2>1
<1>5. CASE Produce \/ Tick \/ UNCHANGED vars
  BY <1>2, <1>5
  DEF Produce, EnqueueReply, EnqueueNotification, RecordCapture, EnqueueRender, RecoverUnknown,
      Tick, BecomeDue, ExpireLease, Age, senderVars, vars
<1>6. ASSUME NEW s \in Sender,
             BeginClaim(s) \/ FinishClaim(s) \/ Resolve(s) \/ Prepare(s) \/ Receive(s) \/ LoseAnswer(s)
      PROVE  RecordsOfSent'
  <2>1. CASE Idle(s)
    BY <1>4, <2>1
  <2>2. CASE ~Idle(s)
    <3>1. \E x \in Stage \ {"after"} : pc' = [pc EXCEPT ![s] = x]
      BY <1>6, <2>2 DEF BeginClaim, FinishClaim, Take, Resolve, Prepare, Receive, LoseAnswer, Stage
    <3>2. \A t \in Sender \ {s} : held'[t] = held[t] /\ result'[t] = result[t]
      BY <1>6, <2>2
      DEF BeginClaim, FinishClaim, Take, Resolve, Prepare, Receive, LoseAnswer, TypeOK,
          SenderTypeOK
    <3> QED
      BY <1>3, <3>1, <3>2 DEF TypeOK, SenderTypeOK
  <2> QED
    BY <2>1, <2>2
<1>7. ASSUME NEW s \in Sender, Acknowledge(s) \/ FollowUp(s) \/ Fault(s) PROVE RecordsOfSent'
  BY <1>4, <1>7 DEF Acknowledge, FollowUp, Fault
<1>8. ASSUME NEW s \in Sender, Settle(s) PROVE RecordsOfSent'
  <2>1. CASE Idle(s)
    BY <1>4, <2>1
  <2>2. CASE ~Idle(s)
    <3>1. /\ Current(s) /\ pc' = [pc EXCEPT ![s] = "after"] /\ UNCHANGED <<held, result>>
          /\ state' = [state EXCEPT ![held[s].job] = Settled(s)]
      BY <1>8, <2>2 DEF Settle
    <3>2. result[s] = "not_modified" => Settled(s) = "sent"
      BY DEF Settled
    <3>3. held[s].job \in Job
      BY <3>1 DEF Current
    <3>4. result[s] = "not_modified" => state'[held[s].job] = "sent"
      BY <3>1, <3>2, <3>3 DEF TypeOK, QueueTypeOK
    <3> QED
      BY <1>1, <3>1, <3>3, <3>4 DEF RecordsOfSent, TypeOK, SenderTypeOK
  <2> QED
    BY <2>1, <2>2
<1>9. ASSUME NEW r \in flight, ApplySend(r) \/ ApplyEdit(r) \/ Refuse(r) \/ Drop(r)
      PROVE  RecordsOfSent'
  <2>1. /\ UNCHANGED <<pc, held>>
        /\ \A t \in Sender : result'[t] = result[t] \/ pc[t] = "await"
    BY <1>9
    DEF ApplySend, ApplyEdit, Refuse, Drop, Answer, Waits, senderVars, TypeOK, SenderTypeOK
  <2> QED
    BY <1>2, <2>1
<1> QED
  BY <1>5, <1>6, <1>7, <1>8, <1>9 DEF Next, SenderStep, Network

-----------------------------------------------------------------------------
\* What the follower and the accept transaction contribute.
FollowInv == FollowerTypeOK /\ EventsKnown /\ RendersJudged /\ ResultIsLast

LEMMA Fed ==
  ASSUME NEW S, NEW s \in Seq(S), NEW x \in S
  PROVE  /\ Append(s, x) \in Seq(S)
         /\ \A i \in DOMAIN Append(s, x) : Append(s, x)[i] = x \/ (i \in DOMAIN s /\ Append(s, x)[i] = s[i])
  OBVIOUS

LEMMA Drained ==
  ASSUME NEW S, NEW s \in Seq(S), s # << >>
  PROVE  /\ Tail(s) \in Seq(S) /\ Head(s) \in S /\ 1 \in DOMAIN s /\ Head(s) = s[1]
         /\ \A i \in DOMAIN Tail(s) : i + 1 \in DOMAIN s /\ Tail(s)[i] = s[i + 1]
  OBVIOUS

\* The rows and what they show stay: events are fed and judged.
LEMMA FollowStays ==
  ASSUME TypeOK, FollowInv, UNCHANGED <<jobs, row, log, terminal, event>>,
         feed' \in Seq(P!Event), \A i \in DOMAIN feed' : Known(feed'[i]),
         inbox \subseteq inbox', \A e \in inbox' \ inbox : e \in P!Event /\ Known(e)
  PROVE  FollowInv'
<1>1. FollowerTypeOK' /\ EventsKnown'
  BY DEF FollowInv, FollowerTypeOK, EventsKnown, Known
<1>2. RendersJudged'
  BY DEF FollowInv, RendersJudged, Renders, Rows, HasRevision
<1>3. ResultIsLast'
  BY DEF FollowInv, ResultIsLast, Rows, HasRevision
<1> QED
  BY <1>1, <1>2, <1>3 DEF FollowInv

\* A frame is added to a log, behind those that rows show.
LEMMA PublishStays ==
  ASSUME TypeOK, FollowInv, NEW o \in Operation, Publish(o)
  PROVE  FollowInv'
<1>1. /\ UNCHANGED <<jobs, row, terminal, inbox, event, feed>>
      /\ Len(log[o]) < MaxFrames[o]
      /\ \E f \in P!Frame : log' = [log EXCEPT ![o] = Append(@, f)]
  BY DEF Publish, P!Publish, P!bindingVars, vars, queueVars
<1>2. PICK f \in P!Frame : log' = [log EXCEPT ![o] = Append(@, f)]
  BY <1>1
<1>3. log \in [Operation -> Seq(P!Frame)] /\ \A p \in Operation : Len(log[p]) <= MaxFrames[p]
  BY DEF FollowInv, FollowerTypeOK
<1>4. /\ log'[o] \in Seq(P!Frame) /\ Len(log'[o]) = Len(log[o]) + 1 /\ Len(log[o]) \in Nat
      /\ \A i \in DOMAIN log[o] : i \in DOMAIN log'[o] /\ log'[o][i] = log[o][i]
      /\ \A p \in Operation \ {o} : log'[p] = log[p]
  <2>1. log'[o] = Append(log[o], f) /\ log[o] \in Seq(P!Frame)
    BY <1>2, <1>3
  <2> QED
    BY <1>2, <1>3, <2>1
<1>5. \A p \in Operation : \A i \in DOMAIN log[p] : i \in DOMAIN log'[p] /\ log'[p][i] = log[p][i]
  BY <1>4
<1>6. FollowerTypeOK'
  <2>1. log' \in [Operation -> Seq(P!Frame)]
    BY <1>2, <1>3, <1>4
  <2>2. Len(log'[o]) <= MaxFrames[o]
    BY <1>1, <1>4, PipelineAssumption
  <2> QED
    BY <1>1, <1>3, <1>4, <2>1, <2>2 DEF FollowInv, FollowerTypeOK
<1>7. EventsKnown'
  BY <1>1, <1>5 DEF FollowInv, EventsKnown, Known
<1>8. RendersJudged'
  BY <1>1 DEF FollowInv, RendersJudged, Renders, Rows, HasRevision
<1>9. ResultIsLast'
  <2>1. \A j \in Rows : HasRevision(j) => /\ row[j].op \in Operation
                                          /\ event[j] \in DOMAIN log[row[j].op]
    BY DEF FollowInv, RendersJudged, EventsKnown, Known, HasRevision
  <2> QED
    BY <1>1, <1>5, <2>1 DEF FollowInv, ResultIsLast, Rows, HasRevision
<1> QED
  BY <1>6, <1>7, <1>8, <1>9 DEF FollowInv

\* A frame that is on the log enters the feed.
LEMMA FeedStays ==
  ASSUME TypeOK, FollowInv, NEW o \in Operation, NEW n \in DOMAIN log[o],
         feed' = Append(feed, [op |-> o, n |-> n]),
         UNCHANGED <<jobs, row, log, terminal, inbox, event>>
  PROVE  FollowInv'
<1> DEFINE e == [op |-> o, n |-> n]
<1>1. e \in P!Event /\ Known(e)
  <2>1. log[o] \in Seq(P!Frame)
    BY DEF FollowInv, FollowerTypeOK
  <2>2. n \in Nat \ {0}
    BY <2>1
  <2> QED
    BY <2>2 DEF P!Event, P!Position, Known
<1>2. feed \in Seq(P!Event) /\ \A i \in DOMAIN feed : Known(feed[i])
  BY DEF FollowInv, FollowerTypeOK, EventsKnown
<1> HIDE DEF e
<1>3. feed' = Append(feed, e)
  BY DEF e
<1>4. feed' \in Seq(P!Event) /\ \A i \in DOMAIN feed' : Known(feed'[i])
  BY <1>1, <1>2, <1>3, Fed
<1> QED
  BY <1>4, FollowStays

\* A row is inserted that shows nothing or what another row shows.
LEMMA RepeatStays ==
  ASSUME TypeOK, FollowInv, NEW n \in Job, n = jobs + 1, jobs' = n,
         UNCHANGED <<log, terminal, inbox, feed>>,
         \A j \in Job \ {n} : /\ row'[j].op = row[j].op /\ row'[j].rev = row[j].rev
                              /\ event'[j] = event[j],
         event' \in [Job -> Nat],
         \A p \in Operation : Renders(p)' = Renders(p),
         \/ row'[n].rev = 0
         \/ \E i \in Rows : /\ row'[n].op = row[i].op /\ row'[n].rev = row[i].rev
                            /\ event'[n] = event[i]
  PROVE  FollowInv'
<1>1. /\ Rows \subseteq Job /\ n \notin Rows /\ Rows' = Rows \cup {n}
  BY ConstantsAssumption DEF Rows, Job, TypeOK, QueueTypeOK
<1>2. \A j \in Rows : j # n /\ j \in Job /\ ((HasRevision(j))' <=> HasRevision(j))
  BY <1>1 DEF HasRevision
<1>3. \A j \in Rows' : (HasRevision(j))' =>
        \E i \in Rows : /\ HasRevision(i) /\ row'[j].op = row[i].op /\ row'[j].rev = row[i].rev
                        /\ event'[j] = event[i]
  <2> SUFFICES ASSUME NEW j \in Rows', (HasRevision(j))'
               PROVE  \E i \in Rows : /\ HasRevision(i) /\ row'[j].op = row[i].op
                                      /\ row'[j].rev = row[i].rev /\ event'[j] = event[i]
    OBVIOUS
  <2>1. CASE j \in Rows
    BY <1>2, <2>1
  <2>2. CASE j = n
    BY <2>2 DEF HasRevision
  <2> QED
    BY <1>1, <2>1, <2>2
<1>4. FollowerTypeOK' /\ EventsKnown'
  BY DEF FollowInv, FollowerTypeOK, EventsKnown, Known
<1>5. RendersJudged'
  <2>1. \A j \in Rows' : (HasRevision(j))' => [op |-> row'[j].op, n |-> event'[j]] \in inbox
    BY <1>3 DEF FollowInv, RendersJudged
  <2>2. \A p \in Operation : Renders(p) \subseteq Rows
    BY DEF Renders
  <2>3. \A p \in Operation : \A i, j \in Renders(p)' : event'[i] = event'[j] => i = j
    <3> SUFFICES ASSUME NEW p \in Operation, NEW i \in Renders(p)', NEW j \in Renders(p)',
                        event'[i] = event'[j]
                 PROVE  i = j
      OBVIOUS
    <3>1. i \in Renders(p) /\ j \in Renders(p)
      OBVIOUS
    <3>2. i \in Job \ {n} /\ j \in Job \ {n}
      BY <1>2, <2>2, <3>1
    <3>3. event[i] = event[j]
      BY <3>2
    <3> QED
      BY <3>1, <3>3 DEF FollowInv, RendersJudged
  <2> QED
    BY <2>1, <2>3 DEF RendersJudged
<1>6. ResultIsLast'
  <2> SUFFICES ASSUME NEW j \in Rows', (HasRevision(j))', log[row'[j].op][event'[j]].last
               PROVE  /\ terminal[row'[j].op]
                      /\ \A i \in Rows' : row'[i].op = row'[j].op => row'[i].rev <= row'[j].rev
    BY DEF ResultIsLast
  <2>1. PICK k \in Rows : /\ HasRevision(k) /\ row'[j].op = row[k].op /\ row'[j].rev = row[k].rev
                          /\ event'[j] = event[k]
    BY <1>3
  <2>2. /\ terminal[row[k].op]
        /\ \A i \in Rows : row[i].op = row[k].op => row[i].rev <= row[k].rev
    BY <2>1 DEF FollowInv, ResultIsLast
  <2>3. ASSUME NEW i \in Rows', row'[i].op = row'[j].op PROVE row'[i].rev <= row'[j].rev
    <3>1. CASE i \in Rows
      BY <1>2, <2>1, <2>2, <2>3, <3>1
    <3>2. CASE i = n /\ row'[n].rev = 0
      <4>1. row[k].rev \in Nat
        BY <1>1 DEF TypeOK, QueueTypeOK, Row
      <4> QED
        BY <2>1, <3>2, <4>1
    <3>3. CASE i = n /\ row'[n].rev # 0
      <4>1. PICK q \in Rows : row'[n].op = row[q].op /\ row'[n].rev = row[q].rev
        BY <3>3
      <4> QED
        BY <2>1, <2>2, <2>3, <3>3, <4>1
    <3> QED
      BY <1>1, <3>1, <3>2, <3>3
  <2> QED
    BY <2>1, <2>2, <2>3
<1> QED
  BY <1>4, <1>5, <1>6 DEF FollowInv

\* An event is judged, and its render inserted unless it is refused.
LEMMA AcceptStays ==
  ASSUME TypeOK, RowsInv, FollowInv, Accept
  PROVE  FollowInv'
<1>1. /\ feed # << >> /\ feed' = Tail(feed) /\ UNCHANGED log
      /\ feed \in Seq(P!Event) /\ \A i \in DOMAIN feed : Known(feed[i])
  BY DEF Accept, FollowInv, FollowerTypeOK, EventsKnown
<1>2. /\ feed' \in Seq(P!Event) /\ \A i \in DOMAIN feed' : Known(feed'[i])
      /\ Head(feed) \in P!Event /\ Known(Head(feed))
  BY <1>1, Drained
<1>e. PICK e \in P!Event : e = Head(feed) /\ Known(e)
  BY <1>2
<1>o. PICK o \in Operation : o = e.op
  BY DEF P!Event
<1>3. CASE UNCHANGED <<vars, event, terminal>> /\ inbox' \in {inbox, inbox \cup {e}}
  <2>1. UNCHANGED <<jobs, row>>
    BY <1>3 DEF vars, queueVars
  <2>2. \A x \in inbox' \ inbox : x = e
    BY <1>3
  <2> QED
    BY <1>1, <1>2, <1>3, <1>e, <2>1, <2>2, FollowStays
<1>4. CASE /\ e \notin inbox /\ o \in bound /\ ~P!Refused(e) /\ inbox' = inbox \cup {e}
           /\ Enqueue(e) /\ terminal' = [terminal EXCEPT ![o] = @ \/ log[o][e.n].last]
  <2>1. PICK d \in BOOLEAN, n \in 1..MaxRevision :
          /\ NextRevision(o, n) /\ Insert(NewRow(ChatOf[o], o, n, "direct"), "edit", d)
    BY <1>4, <1>o DEF Enqueue, AcceptRender
  <2>2. /\ event' = [event EXCEPT ![jobs + 1] = e.n] /\ UNCHANGED <<bound, rendered>>
    BY <1>4 DEF Enqueue, bindingVars
  <2>3. PICK m \in Job :
          /\ n = Cardinality(Renders(o)) + 1
          /\ m = jobs + 1 /\ jobs' = m /\ m \notin Rows
          /\ row'[m].op = o /\ row'[m].rev = n /\ row'[m].recovers = 0
          /\ \A j \in Job \ {m} : row'[j] = row[j]
          /\ Renders(o)' = Renders(o) \cup {m}
          /\ \A p \in Operation \ {o} : Renders(p)' = Renders(p)
    BY <1>4, <2>1, <2>2, RenderAdded
  <2>4. /\ event' \in [Job -> Nat] /\ event'[m] = e.n
        /\ \A j \in Job \ {m} : event'[j] = event[j]
        /\ o \in Operation /\ e = [op |-> o, n |-> e.n]
    BY <1>o, <2>2, <2>3 DEF FollowInv, FollowerTypeOK, P!Event, P!Position
  <2>5. Rows \subseteq Job /\ Rows' = Rows \cup {m} /\ Rows \subseteq Job \ {m}
    BY <2>3, ConstantsAssumption DEF Rows, Job, TypeOK, QueueTypeOK
  <2>6. \A j \in Rows : ((HasRevision(j))' <=> HasRevision(j)) /\ row'[j] = row[j]
                        /\ event'[j] = event[j]
    BY <2>3, <2>4, <2>5 DEF HasRevision
  <2>7. FollowerTypeOK' /\ EventsKnown'
    <3>1. terminal' \in [Operation -> BOOLEAN]
      <4>1. terminal \in [Operation -> BOOLEAN]
        BY DEF FollowInv, FollowerTypeOK
      <4>2. \A p \in Operation : terminal'[p] \in BOOLEAN
        BY <1>4, <2>4, <4>1
      <4> QED
        BY <1>4, <4>1, <4>2
    <3>2. inbox' \in SUBSET P!Event /\ (\A x \in inbox' : Known(x)) /\ UNCHANGED log
      BY <1>1, <1>2, <1>4, <1>e DEF FollowInv, FollowerTypeOK, EventsKnown
    <3> QED
      BY <1>2, <2>4, <3>1, <3>2 DEF FollowInv, FollowerTypeOK, EventsKnown, Known
  <2>8. RendersJudged'
    <3>1. \A j \in Rows' : (HasRevision(j))' => [op |-> row'[j].op, n |-> event'[j]] \in inbox'
      <4>1. [op |-> row'[m].op, n |-> event'[m]] \in inbox'
        BY <1>4, <2>3, <2>4
      <4>2. \A j \in Rows : HasRevision(j) => [op |-> row'[j].op, n |-> event'[j]] \in inbox'
        BY <1>4, <2>6 DEF FollowInv, RendersJudged
      <4> QED
        BY <2>5, <2>6, <4>1, <4>2
    <3>2. \A p \in Operation : Renders(p) \subseteq Rows
      BY DEF Renders
    <3>3. \A j \in Renders(o) : event[j] # e.n
      <4>1. \A j \in Renders(o) : j \in Rows /\ HasRevision(j) /\ row[j].op = o
        BY DEF Renders
      <4>2. \A j \in Renders(o) : [op |-> o, n |-> event[j]] \in inbox
        BY <4>1 DEF FollowInv, RendersJudged
      <4> QED
        BY <1>4, <2>4, <4>2
    <3>4. ASSUME NEW p \in Operation, NEW i \in Renders(p)', NEW j \in Renders(p)',
                 event'[i] = event'[j]
          PROVE  i = j
      <4>1. CASE i \in Rows /\ j \in Rows
        <5>1. i \in Renders(p) /\ j \in Renders(p)
          BY <2>3, <2>4, <3>4, <4>1
        <5> QED
          BY <2>6, <3>4, <4>1, <5>1 DEF FollowInv, RendersJudged
      <4>2. CASE i \notin Rows \/ j \notin Rows
        <5>1. p = o
          BY <2>3, <3>2, <3>4, <4>2
        <5>2. \A k \in Renders(o) : event'[k] # e.n
          BY <2>6, <3>2, <3>3
        <5> QED
          BY <2>3, <2>4, <3>2, <3>4, <4>2, <5>1, <5>2
      <4> QED
        BY <4>1, <4>2
    <3> QED
      BY <3>1, <3>4 DEF RendersJudged
  <2>9. ResultIsLast'
    <3> SUFFICES ASSUME NEW j \in Rows', (HasRevision(j))', log'[row'[j].op][event'[j]].last
                 PROVE  /\ terminal'[row'[j].op]
                        /\ \A i \in Rows' : row'[i].op = row'[j].op => row'[i].rev <= row'[j].rev
      BY DEF ResultIsLast
    <3>1. CASE j = m
      <4>1. log[o][e.n].last
        BY <1>1, <2>3, <2>4, <3>1
      <4>2. terminal'[o]
        BY <1>4, <2>4, <4>1 DEF FollowInv, FollowerTypeOK
      <4>3. ASSUME NEW i \in Rows, row[i].op = o PROVE row[i].rev <= n
        <5>1. row[i].rev \in Nat /\ Cardinality(Renders(o)) \in Nat /\ i \in Job
          BY <2>4, <2>5, RendersFinite DEF TypeOK, QueueTypeOK, Row
        <5>2. CASE row[i].rev > 0
          <6>1. row[i].rev \in 1..Cardinality(Renders(o))
            BY <2>4, <4>3, <5>1, <5>2, RevisionOfRender DEF HasRevision
          <6> QED
            BY <2>3, <5>1, <6>1
        <5> QED
          BY <2>3, <5>1, <5>2
      <4>4. ASSUME NEW i \in Rows', row'[i].op = o PROVE row'[i].rev <= n
        <5>1. n <= n
          BY ConstantsAssumption
        <5>2. CASE i = m
          BY <2>3, <5>1, <5>2
        <5>3. CASE i \in Rows
          <6>1. row'[i] = row[i]
            BY <2>6, <5>3
          <6> QED
            BY <4>3, <4>4, <5>3, <6>1
        <5> QED
          BY <2>5, <5>2, <5>3
      <4> QED
        BY <2>3, <3>1, <4>2, <4>4
    <3>2. CASE j \in Rows
      <4>1. HasRevision(j) /\ log[row[j].op][event[j]].last
        BY <1>1, <2>6, <3>2
      <4>2. /\ terminal[row[j].op]
            /\ \A i \in Rows : row[i].op = row[j].op => row[i].rev <= row[j].rev
        BY <3>2, <4>1 DEF FollowInv, ResultIsLast
      <4>3. row[j].op # o
        BY <1>4, <1>o, <4>2 DEF P!Refused
      <4>4. terminal'[row[j].op]
        BY <1>4, <4>1, <4>2, <4>3 DEF FollowInv, FollowerTypeOK, HasRevision
      <4> QED
        BY <2>3, <2>5, <2>6, <3>2, <4>2, <4>3, <4>4
    <3> QED
      BY <2>5, <3>1, <3>2
  <2> QED
    BY <2>7, <2>8, <2>9 DEF FollowInv
<1> QED
  BY <1>3, <1>4, <1>e, <1>o DEF Accept, P!Seen

\* Towards the queue, the pipeline makes steps of the queue, or stops its senders.
LEMMA PipeQueue ==
  ASSUME TypeOK, [PipeNext]_pipeVars
  PROVE  [Next]_vars \/ Stop
<1>1. ASSUME NEW o \in Operation, Publish(o) \/ Follow(o) \/ Interfere(o) PROVE UNCHANGED vars
  BY <1>1 DEF Publish, Follow, Interfere
<1>2. ASSUME NEW o \in Operation, Capture(o) PROVE Next
  BY <1>2 DEF Capture, Next, Produce
<1>3. CASE Accept
  <2>1. CASE Enqueue(Head(feed)) /\ Head(feed).op \in bound
    <3>1. Head(feed).op \in Operation
      BY <2>1 DEF TypeOK, BindingTypeOK
    <3>2. EnqueueRender(Head(feed).op)
      BY <2>1 DEF Enqueue, EnqueueRender
    <3> QED
      BY <3>1, <3>2 DEF Next, Produce
  <2> QED
    BY <1>3, <2>1 DEF Accept
<1>4. CASE FailAccept
  BY <1>4 DEF FailAccept
<1>5. CASE Restart
  BY <1>5 DEF Restart, Stop
<1>6. ASSUME NEW s \in Sender, Deliver(s) PROVE Next
  BY <1>6 DEF Deliver, Next
<1>7. ASSUME NEW j \in Job, Recover(j) PROVE Next
  BY <1>7 DEF Recover, Next, Produce
<1>8. CASE Outside
  BY <1>8 DEF Outside, Next
<1>9. CASE UNCHANGED pipeVars
  BY <1>9 DEF pipeVars
<1> QED
  BY <1>1, <1>2, <1>3, <1>4, <1>5, <1>6, <1>7, <1>8, <1>9 DEF PipeNext

LEMMA QueueKept ==
  ASSUME QInv, [Next]_vars \/ Stop
  PROVE  QInv'
<1>1. CASE [Next]_vars
  BY <1>1, StepTypeOK, StepFinal, RowsStep, RecordsStep DEF QInv
<1>2. CASE Stop
  <2>1. TypeOK'
    <3>1. TypeOK
      BY DEF QInv
    <3>2. QueueTypeOK' /\ BindingTypeOK' /\ WireTypeOK'
      BY <1>2, <3>1
      DEF Stop, TypeOK, QueueTypeOK, BindingTypeOK, WireTypeOK, queueVars, bindingVars
    <3>3. SenderTypeOK'
      BY <1>2, ConstantsAssumption
      DEF Stop, SenderTypeOK, NoClaim, NoPlan, Claim, Plan, Kind, Stage, Result
    <3> QED
      BY <3>2, <3>3 DEF TypeOK
  <2>2. AbsentRows' /\ RecordsOfSent'
    BY <1>2 DEF Stop, QInv, AbsentRows, RecordsOfSent, queueVars
  <2>3. RowsInv'
    <3>1. \A o \in Operation : rendered'[o] <= Cardinality(Renders(o))
      BY <1>2 DEF Stop, QInv, RowsInv, RendersNumbered, bindingVars
    <3> QED
      BY <1>2, <3>1, RowsStay DEF Stop, QInv, queueVars, bindingVars
  <2> QED
    BY <2>1, <2>2, <2>3 DEF QInv
<1> QED
  BY <1>1, <1>2

\* The follower's part of a step.
LEMMA FollowStep ==
  ASSUME QInv, FollowInv, [PipeNext]_pipeVars
  PROVE  FollowInv'
<1>1. TypeOK /\ RowsInv /\ FollowerTypeOK /\ EventsKnown
  BY DEF QInv, FollowInv
<1>2. ASSUME UNCHANGED <<jobs, row, log, terminal, inbox, event, feed>> PROVE FollowInv'
  BY <1>1, <1>2, FollowStays DEF FollowerTypeOK, EventsKnown
<1>3. ASSUME UNCHANGED <<jobs, row>>, UNCHANGED <<followerVars, event>> PROVE FollowInv'
  BY <1>2, <1>3 DEF followerVars
<1>4. ASSUME NEW o \in Operation, Publish(o) PROVE FollowInv'
  BY <1>1, <1>4, PublishStays
<1>5. ASSUME NEW o \in Operation, Follow(o) \/ Interfere(o) PROVE FollowInv'
  <2>1. UNCHANGED <<jobs, row, log, terminal, inbox, event>>
    BY <1>5
    DEF Follow, Interfere, P!FollowerStep, P!FollowerFault, P!Scan, P!Open, P!Pump, P!Confirm,
        P!LoseSession, P!Disconnect, P!Redeliver, P!bindingVars, vars, queueVars
  <2>2. feed' = feed \/ \E n \in DOMAIN log[o] : feed' = Append(feed, [op |-> o, n |-> n])
    BY <1>5
    DEF Follow, Interfere, P!FollowerStep, P!FollowerFault, P!Scan, P!Open, P!Pump, P!Confirm,
        P!LoseSession, P!Disconnect, P!Redeliver
  <2> QED
    BY <1>1, <1>2, <2>1, <2>2, FeedStays
<1>6. ASSUME NEW o \in Operation, Capture(o) PROVE FollowInv'
  <2>1. CASE UNCHANGED queueVars
    BY <1>3, <1>6, <2>1 DEF Capture, queueVars
  <2>2. CASE Insert(NewRow(ChatOf[o], o, 0, "direct"), "send", TRUE)
    <3>1. ChatOf[o] \in Chat /\ "direct" \in Class /\ "send" \in Kind /\ TRUE \in BOOLEAN
      BY ConstantsAssumption DEF Class, Kind
    <3>2. PICK n \in Job :
            /\ n = jobs + 1 /\ jobs' = n /\ row'[n].rev = 0
            /\ \A j \in Job \ {n} : row'[j] = row[j]
            /\ \A p \in Operation : Renders(p)' = Renders(p)
      BY <1>1, <2>2, <3>1, PlainAdds
    <3> QED
      BY <1>1, <1>6, <3>2, RepeatStays DEF Capture, followerVars, FollowerTypeOK
  <2> QED
    BY <1>6, <2>1, <2>2 DEF Capture, RecordCapture
<1>7. CASE Accept
  BY <1>1, <1>7, AcceptStays
<1>8. CASE FailAccept
  <2>1. /\ UNCHANGED <<jobs, row, log, terminal, inbox, event>>
        /\ feed # << >> /\ feed' = Tail(feed)
    BY <1>8 DEF FailAccept, P!FailConsume, P!bindingVars, vars, queueVars
  <2>2. feed' \in Seq(P!Event) /\ \A i \in DOMAIN feed' : Known(feed'[i])
    BY <1>1, <2>1, Drained DEF FollowerTypeOK, EventsKnown
  <2> QED
    BY <1>1, <2>1, <2>2, FollowStays
<1>9. CASE Restart
  <2>1. /\ UNCHANGED <<jobs, row, log, terminal, inbox, event>> /\ feed' = << >>
    BY <1>9 DEF Restart, P!Restart, P!bindingVars, queueVars
  <2> QED
    BY <1>1, <2>1, FollowStays
<1>10. ASSUME NEW s \in Sender, Deliver(s) PROVE FollowInv'
  BY <1>3, <1>10
  DEF Deliver, SenderStep, BeginClaim, FinishClaim, Take, Resolve, Prepare, Receive, LoseAnswer,
      Acknowledge, Settle, FollowUp, queueVars
<1>11. ASSUME NEW i \in Job, Recover(i) PROVE FollowInv'
  <2>1. PICK n \in Job :
          /\ n = jobs + 1 /\ jobs' = n /\ i \in Rows /\ i # n
          /\ row'[n].op = row[i].op /\ row'[n].rev = row[i].rev
          /\ \A j \in Job \ {n} : row'[j].op = row[j].op /\ row'[j].rev = row[j].rev
          /\ \A p \in Operation : Renders(p)' = Renders(p)
    BY <1>1, <1>11, RecoverAdds DEF Recover
  <2>2. event' = [event EXCEPT ![n] = event[i]] /\ UNCHANGED followerVars
    BY <1>11, <2>1 DEF Recover
  <2>3. /\ event' \in [Job -> Nat] /\ event'[n] = event[i]
        /\ \A j \in Job \ {n} : event'[j] = event[j]
    BY <1>1, <2>2 DEF FollowerTypeOK
  <2> QED
    BY <1>1, <2>1, <2>2, <2>3, RepeatStays DEF followerVars
<1>12. CASE Outside
  <2>1. UNCHANGED <<jobs, row>>
    BY <1>12
    DEF Outside, Network, ApplySend, ApplyEdit, Refuse, Drop, Tick, BecomeDue, ExpireLease, Age,
        Fault, queueVars
  <2> QED
    BY <1>3, <1>12, <2>1 DEF Outside
<1>13. CASE UNCHANGED pipeVars
  BY <1>3, <1>13 DEF pipeVars, vars, queueVars
<1> QED
  BY <1>4, <1>5, <1>6, <1>7, <1>8, <1>9, <1>10, <1>11, <1>12, <1>13 DEF PipeNext

LEMMA PipeInitHolds ==
  ASSUME PipeInit
  PROVE  QInv /\ FollowInv
<1>1. TypeOK /\ AbsentRows
  BY InitTypeOK, InitInv DEF PipeInit, IInv
<1>2. Rows = {} /\ \A o \in Operation : Renders(o) = {}
  BY DEF PipeInit, Init, Rows, Renders
<1>3. RowsInv
  <2>1. OperationsBound
    BY ConstantsAssumption DEF PipeInit, Init, OperationsBound
  <2>2. RendersNumbered
    <3>1. \A o \in Operation : Cardinality(Renders(o)) = 0 /\ rendered[o] = 0
      BY <1>2, FS_EmptySet DEF PipeInit, Init
    <3>2. 1..0 = {}
      OBVIOUS
    <3> QED
      BY <1>2, <3>1, <3>2 DEF RendersNumbered
  <2> QED
    BY <1>2, <2>1, <2>2 DEF RowsInv, RecoveredAreUnknown, FreshAreEdits
<1>4. RecordsOfSent
  BY DEF PipeInit, Init, RecordsOfSent
<1>5. FollowInv
  <2>1. FollowerTypeOK
    BY PipelineAssumption DEF PipeInit, P!Init, FollowerTypeOK
  <2>2. EventsKnown
    BY DEF PipeInit, P!Init, EventsKnown
  <2> QED
    BY <1>2, <2>1, <2>2 DEF FollowInv, RendersJudged, ResultIsLast
<1> QED
  BY <1>1, <1>3, <1>4, <1>5 DEF QInv

LEMMA PipeStep ==
  ASSUME QInv, FollowInv, [PipeNext]_pipeVars
  PROVE  QInv' /\ FollowInv'
<1>1. [Next]_vars \/ Stop
  BY PipeQueue DEF QInv
<1> QED
  BY <1>1, QueueKept, FollowStep

\* The pipeline is type correct; the renders of an operation carry the revisions
\* 1, 2, ... once each, a recovered row repeats one that is quarantined, and each
\* render shows another judged event, the result with the highest revision
\* (accept_operation_event, next_revision, recover-unknown-send).
THEOREM PipeInvariance == PipeSpec => [](QInv /\ FollowInv)
  BY PipeInitHolds, PipeStep, PTL DEF PipeSpec

-----------------------------------------------------------------------------
(* The rows, as Projection sees them *)

\* A render as an edit.
EditOf(j) == [n |-> event[j], rev |-> row[j].rev, state |-> EditState(j)]

AllEdits == [o \in Operation |-> Edits(o)]

\* The edits of an operation are its renders, each at its revision.
RowsAsEdits ==
  \A o \in Operation :
    /\ Cardinality(Renders(o)) \in Nat
    /\ Edits(o) = [r \in 1..Cardinality(Renders(o)) |-> Edits(o)[r]]
    /\ \A r \in 1..Cardinality(Renders(o)) :
         \E j \in Renders(o) : row[j].rev = r /\ Edits(o)[r] = EditOf(j)
    /\ \A j \in Renders(o) : /\ row[j].rev \in 1..Cardinality(Renders(o))
                             /\ Edits(o)[row[j].rev] = EditOf(j)

LEMMA EditsAreRows == TypeOK /\ RowsInv => RowsAsEdits
<1> SUFFICES ASSUME TypeOK, RowsInv, NEW o \in Operation
             PROVE  LET C == Cardinality(Renders(o)) IN
                    /\ C \in Nat
                    /\ Edits(o) = [r \in 1..C |-> Edits(o)[r]]
                    /\ \A r \in 1..C :
                         \E j \in Renders(o) : row[j].rev = r /\ Edits(o)[r] = EditOf(j)
                    /\ \A j \in Renders(o) : /\ row[j].rev \in 1..C
                                             /\ Edits(o)[row[j].rev] = EditOf(j)
  BY DEF RowsAsEdits
<1> DEFINE C == Cardinality(Renders(o))
           At(r) == CHOOSE i \in Renders(o) : row[i].rev = r
<1>1. C \in Nat
  BY RendersFinite
<1>2. Edits(o) = [r \in 1..C |-> [n |-> event[At(r)], rev |-> r, state |-> EditState(At(r))]]
  BY DEF Edits
<1>3. \A r \in 1..C : \E j \in Renders(o) : row[j].rev = r
  BY DEF RowsInv, RendersNumbered
<1>4. \A j \in Renders(o) : row[j].rev \in 1..C /\ At(row[j].rev) = j
  BY DEF RowsInv, RendersNumbered
<1> HIDE DEF C, At
<1>5. \A j \in Renders(o) : Edits(o)[row[j].rev] = EditOf(j)
  BY <1>2, <1>4 DEF EditOf
<1>6. Edits(o) = [r \in 1..C |-> Edits(o)[r]]
  BY <1>2
<1> QED
  BY <1>1, <1>3, <1>4, <1>5, <1>6 DEF C

\* Rows that look the same give the same edits.
LEMMA EditsStay ==
  ASSUME RowsAsEdits, RowsAsEdits', NEW o \in Operation, Renders(o)' = Renders(o),
         \A j \in Renders(o) : row'[j].rev = row[j].rev /\ (EditOf(j))' = EditOf(j)
  PROVE  Edits(o)' = Edits(o)
<1> DEFINE C == Cardinality(Renders(o))
<1>1. /\ Edits(o) = [r \in 1..C |-> Edits(o)[r]]
      /\ Edits(o)' = [r \in 1..C |-> Edits(o)'[r]]
  BY DEF RowsAsEdits
<1>2. ASSUME NEW r \in 1..C PROVE Edits(o)'[r] = Edits(o)[r]
  <2>1. PICK j \in Renders(o) : row[j].rev = r /\ Edits(o)[r] = EditOf(j)
    BY DEF RowsAsEdits
  <2>2. Edits(o)'[row'[j].rev] = (EditOf(j))'
    BY DEF RowsAsEdits
  <2> QED
    BY <2>1, <2>2
<1> HIDE DEF C
<1> QED
  BY <1>1, <1>2

LEMMA AllStay ==
  ASSUME RowsAsEdits, RowsAsEdits', \A o \in Operation : Renders(o)' = Renders(o),
         \A o \in Operation : \A j \in Renders(o) :
           row'[j].rev = row[j].rev /\ (EditOf(j))' = EditOf(j)
  PROVE  AllEdits' = AllEdits
<1>1. \A o \in Operation : Edits(o)' = Edits(o)
  BY EditsStay
<1> QED
  BY <1>1 DEF AllEdits

\* One row of the queue moves.
LEMMA RowMoves ==
  ASSUME TypeOK, RowsAsEdits, RowsAsEdits', NEW j \in Job, UNCHANGED <<jobs, row, event>>,
         \A i \in Job \ {j} : state'[i] = state[i] /\ kind'[i] = kind[i]
  PROVE  /\ \A o \in Operation : Renders(o)' = Renders(o)
         /\ (\A o \in Operation : j \notin Renders(o)) \/ (EditState(j))' = EditState(j)
              => AllEdits' = AllEdits
         /\ \A o \in Operation : j \in Renders(o) =>
              AllEdits' = [AllEdits EXCEPT ![o][row[j].rev].state = (EditState(j))']
<1>1. \A o \in Operation : Renders(o)' = Renders(o) /\ Renders(o) \subseteq Job
  BY RendersFinite DEF Renders, Rows, HasRevision
<1>2. \A i \in Job \ {j} : (EditOf(i))' = EditOf(i)
  BY DEF EditOf, EditState
<1>3. ASSUME (\A o \in Operation : j \notin Renders(o)) \/ (EditState(j))' = EditState(j)
      PROVE  AllEdits' = AllEdits
  <2>1. (EditState(j))' = EditState(j) => (EditOf(j))' = EditOf(j)
    BY DEF EditOf
  <2>2. \A o \in Operation : \A i \in Renders(o) : (EditOf(i))' = EditOf(i)
    BY <1>1, <1>2, <1>3, <2>1
  <2> QED
    BY <1>1, <2>2, AllStay
<1>4. ASSUME NEW o \in Operation, j \in Renders(o)
      PROVE  AllEdits' = [AllEdits EXCEPT ![o][row[j].rev].state = (EditState(j))']
  <2> DEFINE C == Cardinality(Renders(o))
             x == (EditState(j))'
             r == row[j].rev
  <2>1. ASSUME NEW p \in Operation, p # o PROVE Edits(p)' = Edits(p)
    <3>1. j \notin Renders(p)
      BY <1>4, <2>1 DEF Renders
    <3>2. \A i \in Renders(p) : row'[i].rev = row[i].rev /\ (EditOf(i))' = EditOf(i)
      BY <1>1, <1>2, <3>1
    <3> QED
      BY <1>1, <3>2, EditsStay
  <2>2. /\ Edits(o) = [q \in 1..C |-> Edits(o)[q]]
        /\ Edits(o)' = [q \in 1..C |-> Edits(o)'[q]]
    BY <1>1 DEF RowsAsEdits
  <2>3. r \in 1..C /\ Edits(o)[r] = EditOf(j) /\ Edits(o)'[r] = (EditOf(j))'
    BY <1>1, <1>4 DEF RowsAsEdits
  <2>4. (EditOf(j))' = [EditOf(j) EXCEPT !.state = x]
    BY DEF EditOf
  <2>5. ASSUME NEW q \in 1..C, q # r PROVE Edits(o)'[q] = Edits(o)[q]
    <3>1. PICK i \in Renders(o) : row[i].rev = q /\ Edits(o)[q] = EditOf(i)
      BY DEF RowsAsEdits
    <3>2. i # j /\ i \in Job /\ Edits(o)'[row[i].rev] = (EditOf(i))'
      BY <1>1, <2>5, <3>1 DEF RowsAsEdits
    <3> QED
      BY <1>2, <3>1, <3>2
  <2> HIDE DEF C, x, r
  <2>6. Edits(o)' = [Edits(o) EXCEPT ![r] = [Edits(o)[r] EXCEPT !.state = x]]
    BY <2>2, <2>3, <2>4, <2>5
  <2>7. AllEdits' = [AllEdits EXCEPT ![o][r].state = x]
    <3>1. /\ AllEdits = [p \in Operation |-> Edits(p)]
          /\ AllEdits' = [p \in Operation |-> Edits(p)']
      BY DEF AllEdits
    <3>2. AllEdits[o] = Edits(o)
      BY <3>1
    <3> QED
      BY <2>1, <2>6, <3>1, <3>2
  <2> QED
    BY <2>7 DEF r, x
<1> QED
  BY <1>1, <1>3, <1>4

LEMMA Stutters ==
  ASSUME AllEdits' = AllEdits, UNCHANGED <<followerVars, bound, rendered>>
  PROVE  [P!Next]_(P!vars)
  BY DEF AllEdits, followerVars, P!vars, P!bindingVars, P!followVars

LEMMA QueueSteps ==
  ASSUME NEW o \in Operation, P!QueueStep(o)
  PROVE  [P!Next]_(P!vars)
  BY DEF P!Next

\* One revision of an operation changes its state.
LEMMA EditMoves ==
  ASSUME NEW o \in Operation, NEW r \in DOMAIN Edits(o), NEW x,
         AllEdits' = [AllEdits EXCEPT ![o][r].state = x], UNCHANGED <<followerVars, bound>>,
         \/ /\ Edits(o)[r].state \in {"ready", "retry", "resend"} /\ x = "taken"
            /\ UNCHANGED rendered
         \/ /\ Edits(o)[r].state = "taken"
            /\ \/ x \in {"retry", "resend", "ended", "superseded"} /\ UNCHANGED rendered
               \/ x = "ended" /\ P!Delivered(o, r)
  PROVE  [P!Next]_(P!vars)
<1>1. P!Change(o, r, x)
  BY DEF P!Change, AllEdits
<1>2. P!QueueRest
  BY DEF P!QueueRest, followerVars, P!followVars
<1>3. [p \in Operation |-> Edits(p)][o] = Edits(o)
  OBVIOUS
<1>4. CASE Edits(o)[r].state \in {"ready", "retry", "resend"} /\ x = "taken" /\ UNCHANGED rendered
  <2>1. P!SenderTakes(o)
    BY <1>1, <1>2, <1>3, <1>4 DEF P!SenderTakes
  <2> QED
    BY <2>1, QueueSteps DEF P!QueueStep
<1>5. CASE Edits(o)[r].state = "taken" /\ x \in {"retry", "resend"} /\ UNCHANGED rendered
  <2>1. P!SenderRetries(o)
    BY <1>1, <1>2, <1>3, <1>5 DEF P!SenderRetries
  <2> QED
    BY <2>1, QueueSteps DEF P!QueueStep
<1>6. CASE /\ Edits(o)[r].state = "taken" /\ x \in {"ended", "superseded"}
           /\ UNCHANGED rendered \/ (x = "ended" /\ P!Delivered(o, r))
  <2>1. P!SenderEnds(o)
    BY <1>1, <1>2, <1>3, <1>6 DEF P!SenderEnds
  <2> QED
    BY <2>1, QueueSteps DEF P!QueueStep
<1> QED
  BY <1>4, <1>5, <1>6

\* The revision of a render that has ended is recorded.
LEMMA EditRecorded ==
  ASSUME NEW o \in Operation, NEW r \in DOMAIN Edits(o), Edits(o)[r].state = "ended",
         P!Delivered(o, r), AllEdits' = AllEdits, UNCHANGED <<followerVars, bound>>
  PROVE  [P!Next]_(P!vars)
<1>1. P!QueueRest /\ UNCHANGED [p \in Operation |-> Edits(p)]
  BY DEF P!QueueRest, followerVars, P!followVars, AllEdits
<1>2. P!SenderRecords(o)
  BY <1>1 DEF P!SenderRecords
<1> QED
  BY <1>2, QueueSteps DEF P!QueueStep

\* What a step of a sender does to its row, Projection allows.
LEMMA SenderMoves ==
  ASSUME TypeOK, RowsInv, RowsAsEdits, RowsAsEdits', NEW j \in Job, UNCHANGED <<jobs, row, event>>,
         \A i \in Job \ {j} : state'[i] = state[i] /\ kind'[i] = kind[i],
         UNCHANGED <<followerVars, bound>>,
         \/ UNCHANGED rendered /\ (EditState(j))' = EditState(j)
         \/ /\ UNCHANGED rendered
            /\ EditState(j) \in {"ready", "retry", "resend"} /\ (EditState(j))' = "taken"
         \/ /\ UNCHANGED rendered
            /\ EditState(j) = "taken"
            /\ (EditState(j))' \in {"retry", "resend", "ended", "superseded"}
         \/ /\ AdvanceRender(j)
            /\ EditState(j) \in {"taken", "ended"} /\ (EditState(j))' = "ended"
  PROVE  [P!Next]_(P!vars)
<1>1. /\ (\A o \in Operation : j \notin Renders(o)) \/ (EditState(j))' = EditState(j)
            => AllEdits' = AllEdits
      /\ \A o \in Operation : j \in Renders(o) =>
            AllEdits' = [AllEdits EXCEPT ![o][row[j].rev].state = (EditState(j))']
  BY RowMoves
<1>2. ASSUME NEW o \in Operation, NEW i \in Renders(o)
      PROVE  /\ row[i].rev \in DOMAIN Edits(o) /\ Edits(o)[row[i].rev].state = EditState(i)
             /\ Edits(o)[row[i].rev].rev = row[i].rev
  <2>1. /\ row[i].rev \in 1..Cardinality(Renders(o)) /\ Edits(o)[row[i].rev] = EditOf(i)
        /\ Edits(o) = [r \in 1..Cardinality(Renders(o)) |-> Edits(o)[r]]
    BY DEF RowsAsEdits
  <2>2. DOMAIN Edits(o) = 1..Cardinality(Renders(o))
    BY <2>1
  <2> QED
    BY <2>1, <2>2 DEF EditOf
<1>3. CASE UNCHANGED rendered
  <2>1. CASE (\A o \in Operation : j \notin Renders(o)) \/ (EditState(j))' = EditState(j)
    BY <1>1, <1>3, <2>1, Stutters
  <2>2. ASSUME NEW o \in Operation, j \in Renders(o), (EditState(j))' # EditState(j)
        PROVE  [P!Next]_(P!vars)
    <3>1. AllEdits' = [AllEdits EXCEPT ![o][row[j].rev].state = (EditState(j))']
      BY <1>1, <2>2
    <3>2. PICK r \in DOMAIN Edits(o) : r = row[j].rev /\ Edits(o)[r].state = EditState(j)
      BY <1>2, <2>2
    <3>3. PICK x : x = (EditState(j))'
      OBVIOUS
    <3>4. AllEdits' = [AllEdits EXCEPT ![o][r].state = x]
      BY <3>1, <3>2, <3>3
    <3>5. \/ EditState(j) \in {"ready", "retry", "resend"} /\ x = "taken"
          \/ EditState(j) = "taken" /\ x \in {"retry", "resend", "ended", "superseded"}
      BY <1>3, <2>2, <3>3
    <3> QED
      BY <1>3, <3>2, <3>4, <3>5, EditMoves
  <2> QED
    BY <2>1, <2>2
<1>4. CASE /\ AdvanceRender(j) /\ HasRevision(j)
           /\ EditState(j) \in {"taken", "ended"} /\ (EditState(j))' = "ended"
  <2>1. PICK o \in Operation : o = row[j].op
    BY <1>4 DEF HasRevision
  <2>2. rendered' = [rendered EXCEPT ![o] = IF @ < row[j].rev THEN row[j].rev ELSE @]
    BY <1>4, <2>1 DEF AdvanceRender
  <2>3. ASSUME NEW i \in Renders(o), row[i].rev = row[j].rev
        PROVE  P!Delivered(o, row[j].rev)
    <3>1. Edits(o)[row[j].rev].rev = row[j].rev /\ row[j].rev \in Nat /\ rendered[o] \in Nat
      BY <1>2, <2>3 DEF TypeOK, QueueTypeOK, BindingTypeOK, Row
    <3>2. [p \in Operation |-> Edits(p)][o][row[j].rev].rev = row[j].rev
      BY <3>1
    <3>3. rendered' = [rendered EXCEPT ![o] = IF row[j].rev > rendered[o] THEN row[j].rev ELSE rendered[o]]
      BY <2>2, <3>1
    <3> QED
      BY <3>2, <3>3 DEF P!Delivered
  <2>4. CASE row[j].recovers = 0
    <3>1. j \in Renders(o)
      BY <1>4, <2>1, <2>4, RevisionOfRender DEF Renders
    <3>2. PICK r \in DOMAIN Edits(o) : r = row[j].rev /\ Edits(o)[r].state = EditState(j)
      BY <1>2, <3>1
    <3>3. P!Delivered(o, r)
      BY <2>3, <3>1, <3>2
    <3>4. CASE EditState(j) = "taken"
      <4>1. PICK x : x = "ended"
        OBVIOUS
      <4>2. AllEdits' = [AllEdits EXCEPT ![o][r].state = x]
        BY <1>1, <1>4, <3>1, <3>2, <4>1
      <4> QED
        BY <3>2, <3>3, <3>4, <4>1, <4>2, EditMoves
    <3>5. CASE EditState(j) = "ended"
      BY <1>1, <1>4, <3>2, <3>3, <3>5, EditRecorded
    <3> QED
      BY <1>4, <3>4, <3>5
  <2>5. CASE row[j].recovers # 0
    <3>1. \A p \in Operation : j \notin Renders(p)
      BY <2>5 DEF Renders
    <3>2. PICK i \in Renders(o) : row[i].rev = row[j].rev /\ state[i] = "outcome_unknown"
      BY <1>4, <2>1, <3>1, RevisionOfRender
    <3>3. EditState(i) = "ended"
      BY <3>2 DEF EditState
    <3>4. PICK r \in DOMAIN Edits(o) : r = row[j].rev /\ Edits(o)[r].state = "ended"
      BY <1>2, <3>2, <3>3
    <3>5. P!Delivered(o, r)
      BY <2>3, <3>2, <3>4
    <3> QED
      BY <1>1, <3>1, <3>4, <3>5, EditRecorded
  <2> QED
    BY <2>4, <2>5
<1>5. CASE AdvanceRender(j) /\ ~HasRevision(j)
  <2>1. UNCHANGED rendered
    BY <1>5 DEF AdvanceRender
  <2> QED
    BY <1>3, <2>1
<1> QED
  BY <1>3, <1>4, <1>5

\* Sends whose lease has expired are quarantined: Projection's Quarantine.
LEMMA ClaimBegins ==
  ASSUME TypeOK, RowsInv, RowsAsEdits, RowsAsEdits', NEW s \in Sender, BeginClaim(s),
         UNCHANGED <<followerVars, event>>
  PROVE  [P!Next]_(P!vars)
<1> DEFINE Expired(o, r) == \E j \in Renders(o) : row[j].rev = r /\ j \in ExpiredSends
<1>1. PICK gone : gone = {p \in P!Taken : Expired(p[1], p[2])}
  OBVIOUS
<1>2. /\ UNCHANGED <<jobs, row, kind, bound, rendered>>
      /\ \A j \in Job : state'[j] = IF j \in ExpiredSends THEN "outcome_unknown" ELSE state[j]
  BY DEF BeginClaim, bindingVars
<1>3. \A o \in Operation : Renders(o)' = Renders(o) /\ Renders(o) \subseteq Job
  BY <1>2, RendersFinite DEF Renders, Rows, HasRevision
<1>4. \A o \in Operation : DOMAIN Edits(o) = 1..Cardinality(Renders(o))
  <2>1. \A o \in Operation : Edits(o) = [r \in 1..Cardinality(Renders(o)) |-> Edits(o)[r]]
    BY DEF RowsAsEdits
  <2> QED
    BY <2>1
<1>5. ASSUME NEW o \in Operation, NEW j \in Renders(o)
      PROVE  <<o, row[j].rev>> \in gone <=> j \in ExpiredSends
  <2>1. <<o, row[j].rev>> \in P!Taken <=> EditState(j) = "taken"
    <3>1. <<o, row[j].rev>> \in P!Taken <=>
            /\ row[j].rev \in DOMAIN Edits(o) /\ Edits(o)[row[j].rev].state = "taken"
      BY DEF P!Taken
    <3>2. Edits(o)[row[j].rev] = EditOf(j) /\ row[j].rev \in 1..Cardinality(Renders(o))
      BY DEF RowsAsEdits
    <3>3. row[j].rev \in DOMAIN Edits(o)
      BY <1>4, <3>2
    <3>4. Edits(o)[row[j].rev].state = EditState(j)
      BY <3>2 DEF EditOf
    <3> QED
      BY <3>1, <3>3, <3>4
  <2>2. j \in ExpiredSends => EditState(j) = "taken"
    BY DEF ExpiredSends, EditState
  <2>3. Expired(o, row[j].rev) <=> j \in ExpiredSends
    BY DEF RowsInv, RendersNumbered
  <2> HIDE DEF Expired
  <2> QED
    BY <1>1, <2>1, <2>2, <2>3
<1>6. ASSUME NEW o \in Operation
      PROVE  Edits(o)' = [i \in DOMAIN Edits(o) |->
                            IF <<o, i>> \in gone THEN [Edits(o)[i] EXCEPT !.state = "ended"]
                            ELSE Edits(o)[i]]
  <2>1. Edits(o)' = [r \in 1..Cardinality(Renders(o)) |-> Edits(o)'[r]]
    BY <1>3 DEF RowsAsEdits
  <2>2. ASSUME NEW r \in 1..Cardinality(Renders(o))
        PROVE  Edits(o)'[r] = IF <<o, r>> \in gone THEN [Edits(o)[r] EXCEPT !.state = "ended"]
                              ELSE Edits(o)[r]
    <3>1. PICK j \in Renders(o) : row[j].rev = r /\ Edits(o)[r] = EditOf(j)
      BY DEF RowsAsEdits
    <3>2. j \in Job /\ Edits(o)'[r] = (EditOf(j))'
      BY <1>2, <1>3, <3>1 DEF RowsAsEdits
    <3>3. CASE j \in ExpiredSends
      <4>1. (EditState(j))' = "ended"
        BY <1>2, <3>2, <3>3 DEF EditState
      <4>2. (EditOf(j))' = [EditOf(j) EXCEPT !.state = "ended"]
        BY <1>2, <4>1 DEF EditOf
      <4> QED
        BY <1>5, <3>1, <3>2, <3>3, <4>2
    <3>4. CASE j \notin ExpiredSends
      <4>1. (EditOf(j))' = EditOf(j)
        BY <1>2, <3>2, <3>4 DEF EditOf, EditState
      <4> QED
        BY <1>5, <3>1, <3>2, <3>4, <4>1
    <3> QED
      BY <3>3, <3>4
  <2> QED
    BY <1>4, <2>1, <2>2
<1>7. CASE gone = {}
  <2>1. ASSUME NEW o \in Operation PROVE Edits(o)' = Edits(o)
    <3>1. Edits(o) = [i \in DOMAIN Edits(o) |-> Edits(o)[i]]
      BY <1>4 DEF RowsAsEdits
    <3> QED
      BY <1>6, <1>7, <3>1
  <2> QED
    BY <1>2, <2>1, Stutters DEF AllEdits
<1>8. CASE gone # {}
  <2>1. gone \in (SUBSET P!Taken) \ {{}}
    BY <1>1, <1>8
  <2>2. [o \in Operation |-> Edits(o)]' =
          [o \in Operation |-> [i \in DOMAIN [p \in Operation |-> Edits(p)][o] |->
             IF <<o, i>> \in gone THEN [[p \in Operation |-> Edits(p)][o][i] EXCEPT !.state = "ended"]
             ELSE [p \in Operation |-> Edits(p)][o][i]]]
    BY <1>6
  <2>3. UNCHANGED rendered /\ P!QueueRest
    BY <1>2 DEF P!QueueRest, followerVars, P!followVars
  <2>4. P!Quarantine
    BY <2>1, <2>2, <2>3 DEF P!Quarantine
  <2> QED
    BY <2>4 DEF P!Next
<1> QED
  BY <1>7, <1>8

\* Every step of a sender maps to a step of Projection's queue, or to none.
LEMMA DeliverMaps ==
  ASSUME QInv, RowsAsEdits, RowsAsEdits', NEW s \in Sender, SenderStep(s),
         UNCHANGED <<followerVars, event>>
  PROVE  [P!Next]_(P!vars)
<1>1. TypeOK /\ RowsInv /\ RecordsOfSent
  BY DEF QInv
<1>2. held[s].job \in Job \/ pc[s] \in {"idle", "claiming"}
  BY <1>1 DEF TypeOK, SenderTypeOK
<1>3. ASSUME UNCHANGED <<jobs, row, kind, state, bound, rendered>> PROVE [P!Next]_(P!vars)
  <2>1. \A o \in Operation : Renders(o)' = Renders(o)
    BY <1>3 DEF Renders, Rows, HasRevision
  <2>2. \A j : row'[j].rev = row[j].rev /\ (EditOf(j))' = EditOf(j)
    BY <1>3 DEF EditOf, EditState
  <2>3. AllEdits' = AllEdits
    BY <2>1, <2>2, AllStay
  <2> QED
    BY <1>3, <2>3, Stutters
<1>4. CASE BeginClaim(s)
  BY <1>1, <1>4, ClaimBegins
<1>5. CASE FinishClaim(s)
  <2>1. CASE UNCHANGED queueVars
    BY <1>3, <1>5, <2>1 DEF FinishClaim, queueVars, bindingVars
  <2>2. ASSUME NEW j \in seen[s], Eligible(j), Take(s, j) PROVE [P!Next]_(P!vars)
    <3>1. j \in Job /\ state \in [Job -> State]
      BY <1>1 DEF TypeOK, QueueTypeOK, SenderTypeOK
    <3>2. /\ UNCHANGED <<jobs, row, kind, bound, rendered>> /\ state'[j] = "sending"
          /\ \A i \in Job \ {j} : state'[i] = state[i]
      BY <1>5, <2>2, <3>1 DEF FinishClaim, Take, bindingVars
    <3>3. (EditState(j))' = "taken" /\ EditState(j) \in {"ready", "retry", "resend", "taken"}
      BY <2>2, <3>2 DEF EditState, Eligible, Waiting
    <3> QED
      BY <1>1, <3>1, <3>2, <3>3, SenderMoves
  <2> QED
    BY <1>5, <2>1, <2>2 DEF FinishClaim
<1>6. CASE Resolve(s) \/ Receive(s) \/ LoseAnswer(s)
  BY <1>3, <1>6 DEF Resolve, Receive, LoseAnswer, queueVars, bindingVars
<1>7. CASE Prepare(s)
  <2>1. CASE Current(s)
    <3>1. /\ UNCHANGED <<jobs, row, state, bound, rendered>>
          /\ held[s].job \in Job /\ state[held[s].job] = "sending"
          /\ \A i \in Job \ {held[s].job} : kind'[i] = kind[i]
      BY <1>1, <1>7, <2>1 DEF Prepare, Current, bindingVars, TypeOK, QueueTypeOK
    <3>2. PICK j \in Job : j = held[s].job
      BY <3>1
    <3>3. (EditState(j))' = EditState(j)
      BY <3>1, <3>2 DEF EditState
    <3> QED
      BY <1>1, <3>1, <3>2, <3>3, SenderMoves
  <2>2. CASE ~Current(s)
    BY <1>3, <1>7, <2>2 DEF Prepare, bindingVars
  <2> QED
    BY <2>1, <2>2
<1>8. CASE Acknowledge(s)
  <2>1. CASE Current(s)
    <3>1. PICK j \in Job : j = held[s].job
      BY <2>1 DEF Current
    <3>2. /\ UNCHANGED <<jobs, row, kind>> /\ AdvanceRender(j)
          /\ state' = [state EXCEPT ![j] = "sent"] /\ state[j] = "sending"
          /\ bound' = bound \/ (row[j].op \in Operation /\ bound' = bound \cup {row[j].op})
      BY <1>8, <2>1, <3>1 DEF Acknowledge, Current
    <3>3. UNCHANGED bound
      BY <1>1, <3>2 DEF RowsInv, OperationsBound
    <3>4. state'[j] = "sent" /\ \A i \in Job \ {j} : state'[i] = state[i]
      BY <1>1, <3>2 DEF TypeOK, QueueTypeOK
    <3>5. EditState(j) = "taken" /\ (EditState(j))' = "ended"
      BY <3>2, <3>4 DEF EditState
    <3> QED
      BY <1>1, <3>2, <3>3, <3>4, <3>5, SenderMoves
  <2>2. CASE ~Current(s)
    BY <1>3, <1>8, <2>2 DEF Acknowledge, bindingVars
  <2> QED
    BY <2>1, <2>2
<1>9. CASE Settle(s)
  <2>1. CASE Current(s)
    <3>1. PICK j \in Job : j = held[s].job
      BY <2>1 DEF Current
    <3>2. /\ UNCHANGED <<jobs, row, kind, bound, rendered>>
          /\ state' = [state EXCEPT ![j] = Settled(s)] /\ state[j] = "sending"
      BY <1>9, <2>1, <3>1 DEF Settle, Current, bindingVars
    <3>3. state'[j] = Settled(s) /\ \A i \in Job \ {j} : state'[i] = state[i]
      BY <1>1, <3>2 DEF TypeOK, QueueTypeOK
    <3>4. Settled(s) \in {"sent", "superseded", "outcome_unknown", "failed_permanent", "retry_wait"}
      BY DEF Settled
    <3>5. /\ EditState(j) = "taken"
          /\ (EditState(j))' \in {"retry", "resend", "ended", "superseded"}
      BY <3>2, <3>3, <3>4 DEF EditState
    <3> QED
      BY <1>1, <3>2, <3>3, <3>5, SenderMoves
  <2>2. CASE ~Current(s)
    BY <1>3, <1>9, <2>2 DEF Settle, bindingVars
  <2> QED
    BY <2>1, <2>2
<1>10. CASE FollowUp(s)
  <2>1. CASE result[s] = "not_modified"
    <3>1. PICK j \in Job : j = held[s].job /\ state[j] = "sent"
      BY <1>1, <1>10, <2>1 DEF FollowUp, RecordsOfSent
    <3>2. UNCHANGED <<jobs, row, kind, state, bound>> /\ AdvanceRender(j)
      BY <1>10, <2>1, <3>1 DEF FollowUp, queueVars
    <3>3. EditState(j) = "ended" /\ (EditState(j))' = "ended"
      BY <3>1, <3>2 DEF EditState
    <3> QED
      BY <1>1, <3>2, <3>3, SenderMoves
  <2>2. CASE result[s] # "not_modified"
    BY <1>3, <1>10, <2>2 DEF FollowUp, queueVars
  <2> QED
    BY <2>1, <2>2
<1> QED
  BY <1>4, <1>5, <1>6, <1>7, <1>8, <1>9, <1>10 DEF SenderStep

LEMMA Appended ==
  ASSUME NEW n \in Nat, NEW f, f = [i \in 1..n |-> f[i]], NEW x
  PROVE  Append(f, x) = [i \in 1..n + 1 |-> IF i = n + 1 THEN x ELSE f[i]]
<1> DEFINE S == {f[i] : i \in 1..n} \cup {x}
<1>1. f \in [1..n -> S] /\ x \in S
  OBVIOUS
<1> HIDE DEF S
<1>2. f \in Seq(S) /\ Len(f) = n
  BY <1>1
<1>3. /\ Append(f, x) \in Seq(S) /\ Len(Append(f, x)) = n + 1
      /\ \A i \in 1..n : Append(f, x)[i] = f[i]
      /\ Append(f, x)[n + 1] = x
  BY <1>1, <1>2
<1>4. Append(f, x) \in [1..n + 1 -> S]
  BY <1>3, LenProperties
<1> QED
  BY <1>3, <1>4

\* There are no more renders than frames.
LEMMA RendersOfFrames ==
  ASSUME TypeOK, FollowInv, NEW o \in Operation
  PROVE  Cardinality(Renders(o)) <= MaxFrames[o]
<1>1. /\ log[o] \in Seq(P!Frame) /\ Len(log[o]) \in Nat /\ Len(log[o]) <= MaxFrames[o]
      /\ DOMAIN log[o] = 1..Len(log[o])
  BY DEF FollowInv, FollowerTypeOK
<1>2. \A j \in Renders(o) : event[j] \in 1..Len(log[o])
  <2>1. \A j \in Renders(o) : j \in Rows /\ HasRevision(j) /\ row[j].op = o
    BY DEF Renders
  <2>2. \A j \in Renders(o) : [op |-> o, n |-> event[j]] \in inbox
    BY <2>1 DEF FollowInv, RendersJudged
  <2>3. \A j \in Renders(o) : Known([op |-> o, n |-> event[j]])
    BY <2>2 DEF FollowInv, EventsKnown
  <2> QED
    BY <1>1, <2>3 DEF Known
<1>3. \A i, j \in Renders(o) : event[i] = event[j] => i = j
  BY DEF FollowInv, RendersJudged
<1>4. [j \in Renders(o) |-> event[j]] \in Injection(Renders(o), 1..Len(log[o]))
  BY <1>2, <1>3 DEF Injection, IsInjective
<1>5. IsFiniteSet(1..Len(log[o])) /\ Cardinality(1..Len(log[o])) = Len(log[o])
  BY <1>1, FS_Interval
<1>6. Cardinality(Renders(o)) <= Len(log[o])
  BY <1>4, <1>5, FS_Injection
<1>7. Cardinality(Renders(o)) \in Nat /\ MaxFrames[o] \in Nat
  BY RendersFinite, PipelineAssumption
<1> QED
  BY <1>1, <1>6, <1>7

\* The accept transaction with its insertion is Projection's Consume.
LEMMA AcceptMaps ==
  ASSUME TypeOK, RowsInv, FollowInv, RowsAsEdits, RowsAsEdits', Accept
  PROVE  P!Consume
<1>1. /\ feed # << >> /\ feed' = Tail(feed) /\ UNCHANGED <<log, follow, cursor, closes, dropped, losses>>
  BY DEF Accept
<1>2. PICK e \in P!Event : e = Head(feed)
  BY <1>1, Drained DEF FollowInv, FollowerTypeOK
<1>3. PICK o \in Operation : o = e.op
  BY DEF P!Event
<1>4. CASE /\ UNCHANGED <<vars, event, terminal, watermark>>
           /\ inbox' = IF ~P!Seen(e) /\ o \in bound THEN inbox \cup {e} ELSE inbox
           /\ P!Seen(e) \/ o \notin bound \/ P!Refused(e)
  <2>1. UNCHANGED <<jobs, row, kind, state, event, bound, rendered>>
    BY <1>4 DEF vars, queueVars, bindingVars
  <2>2. UNCHANGED [p \in Operation |-> Edits(p)]
    <3>1. \A p \in Operation : Renders(p)' = Renders(p)
      BY <2>1 DEF Renders, Rows, HasRevision
    <3>2. \A j : row'[j].rev = row[j].rev /\ (EditOf(j))' = EditOf(j)
      BY <2>1 DEF EditOf, EditState
    <3>3. AllEdits' = AllEdits
      BY <3>1, <3>2, AllStay
    <3> QED
      BY <3>3 DEF AllEdits
  <2>3. P!Judge(e)
    BY <1>3, <1>4, <2>2 DEF P!Judge
  <2> QED
    BY <1>1, <1>2, <2>1, <2>3 DEF P!Consume, P!followVars
<1>5. CASE /\ ~P!Seen(e) /\ o \in bound /\ ~P!Refused(e) /\ inbox' = inbox \cup {e}
           /\ Enqueue(e) /\ terminal' = [terminal EXCEPT ![o] = @ \/ log[o][e.n].last]
           /\ watermark' = [watermark EXCEPT ![o] = log[o][e.n].at]
  <2>1. PICK d \in BOOLEAN, n \in 1..MaxRevision :
          /\ NextRevision(o, n) /\ Insert(NewRow(ChatOf[o], o, n, "direct"), "edit", d)
    BY <1>3, <1>5 DEF Enqueue, AcceptRender
  <2>2. /\ event' = [event EXCEPT ![jobs + 1] = e.n] /\ UNCHANGED <<bound, rendered>>
    BY <1>5 DEF Enqueue, bindingVars
  <2> DEFINE C == Cardinality(Renders(o))
             swept == [i \in DOMAIN Edits(o) |->
                         IF Edits(o)[i].state \in {"ready", "retry"} /\ Edits(o)[i].rev < n
                         THEN [Edits(o)[i] EXCEPT !.state = "superseded"] ELSE Edits(o)[i]]
             added == [n |-> e.n, rev |-> n, state |-> "ready"]
  <2>3. PICK m \in Job :
          /\ n = C + 1 /\ Cardinality(Renders(o)') = C + 1
          /\ m = jobs + 1 /\ jobs' = m /\ m \notin Rows
          /\ row'[m].op = o /\ row'[m].rev = n /\ row'[m].recovers = 0
          /\ kind'[m] = "edit" /\ state'[m] = "ready"
          /\ \A j \in Job \ {m} :
               /\ row'[j] = row[j] /\ kind'[j] = kind[j]
               /\ state'[j] = IF /\ row[j].op = o /\ kind[j] = "edit" /\ state[j] \in Waiting
                                /\ row[j].rev > 0 /\ row[j].rev < n
                             THEN "superseded" ELSE state[j]
          /\ Renders(o)' = Renders(o) \cup {m}
          /\ \A p \in Operation \ {o} : Renders(p)' = Renders(p)
    BY <1>5, <2>1, <2>2, RenderAdded
  <2>4. /\ event'[m] = e.n /\ \A j \in Job \ {m} : event'[j] = event[j]
    BY <2>2, <2>3 DEF FollowInv, FollowerTypeOK
  <2>5. \A p \in Operation : Renders(p) \subseteq Job \ {m}
    BY <2>3, RendersFinite
  <2>6. /\ C \in Nat /\ DOMAIN Edits(o) = 1..C
        /\ Edits(o)' = [r \in 1..C + 1 |-> Edits(o)'[r]]
    <3>1. Edits(o) = [r \in 1..C |-> Edits(o)[r]] /\ C \in Nat
      BY DEF RowsAsEdits
    <3>2. Edits(o)' = [r \in 1..Cardinality(Renders(o)') |-> Edits(o)'[r]]
      BY DEF RowsAsEdits
    <3>3. Cardinality(Renders(o)') = C + 1
      BY <2>3
    <3> HIDE DEF C
    <3>4. DOMAIN Edits(o) = 1..C
      BY <3>1
    <3> QED
      BY <3>1, <3>2, <3>3, <3>4
  <2>7. ASSUME NEW p \in Operation, p # o PROVE Edits(p)' = Edits(p)
    <3>1. \A j \in Renders(p) : row[j].op = p
      BY DEF Renders
    <3>2. \A j \in Renders(p) : row'[j].rev = row[j].rev /\ (EditOf(j))' = EditOf(j)
      BY <2>3, <2>4, <2>5, <2>7, <3>1 DEF EditOf, EditState
    <3> QED
      BY <2>3, <2>7, <3>2, EditsStay
  <2>8. ASSUME NEW r \in 1..C PROVE Edits(o)'[r] = swept[r]
    <3>1. PICK j \in Renders(o) : row[j].rev = r /\ Edits(o)[r] = EditOf(j)
      BY DEF RowsAsEdits
    <3>2. /\ j \in Job \ {m} /\ j \in Renders(o)' /\ row[j].op = o /\ row[j].rev > 0
          /\ row[j].rev < n
      BY <2>3, <2>5, <2>6, <3>1 DEF Renders, HasRevision
    <3>3. Edits(o)'[r] = (EditOf(j))'
      BY <2>3, <3>1, <3>2 DEF RowsAsEdits
    <3>4. (EditOf(j))' = [n |-> event[j], rev |-> r, state |-> (EditState(j))']
      BY <2>3, <2>4, <3>1, <3>2 DEF EditOf
    <3>5. EditState(j) \in {"ready", "retry"} <=> kind[j] = "edit" /\ state[j] \in Waiting
      BY <3>1 DEF EditState, Waiting, RowsInv, FreshAreEdits
    <3>6. (EditState(j))' = IF EditState(j) \in {"ready", "retry"} THEN "superseded" ELSE EditState(j)
      BY <2>3, <3>2, <3>5 DEF EditState
    <3>7. swept[r] = IF EditState(j) \in {"ready", "retry"}
                     THEN [EditOf(j) EXCEPT !.state = "superseded"] ELSE EditOf(j)
      <4>1. EditOf(j).state = EditState(j) /\ EditOf(j).rev < n
        BY <3>2 DEF EditOf
      <4>2. r \in DOMAIN Edits(o)
        BY <2>6
      <4> QED
        BY <3>1, <4>1, <4>2
    <3> HIDE DEF swept
    <3>8. CASE EditState(j) \in {"ready", "retry"}
      <4>1. [EditOf(j) EXCEPT !.state = "superseded"] =
              [n |-> event[j], rev |-> r, state |-> "superseded"]
        BY <3>1 DEF EditOf
      <4> QED
        BY <3>3, <3>4, <3>6, <3>7, <3>8, <4>1
    <3>9. CASE EditState(j) \notin {"ready", "retry"}
      <4>1. EditOf(j) = [n |-> event[j], rev |-> r, state |-> EditState(j)]
        BY <3>1 DEF EditOf
      <4> QED
        BY <3>3, <3>4, <3>6, <3>7, <3>9, <4>1
    <3> QED
      BY <3>8, <3>9
  <2>9. Edits(o)'[C + 1] = added
    <3>1. m \in Renders(o)' /\ row'[m].rev = C + 1
      BY <2>3
    <3>2. Edits(o)'[row'[m].rev] = (EditOf(m))'
      BY <3>1 DEF RowsAsEdits
    <3>3. (EditOf(m))' = added
      BY <2>3, <2>4 DEF EditOf, EditState
    <3> QED
      BY <3>1, <3>2, <3>3
  <2>10. Edits(o)' = Append(swept, added)
    <3>1. swept = [i \in 1..C |-> swept[i]]
      BY <2>6
    <3> HIDE DEF swept, added, C
    <3>2. Append(swept, added) = [i \in 1..C + 1 |-> IF i = C + 1 THEN added ELSE swept[i]]
      BY <2>6, <3>1, Appended
    <3>3. ASSUME NEW i \in 1..C + 1
          PROVE  Edits(o)'[i] = IF i = C + 1 THEN added ELSE swept[i]
      <4>1. i \in 1..C \/ i = C + 1
        BY <2>6
      <4> QED
        BY <2>6, <2>8, <2>9, <4>1
    <3> QED
      BY <2>6, <3>2, <3>3
  <2>11. P!Assigned(o, n)
    <3>1. \A i \in DOMAIN Edits(o) : Edits(o)[i].rev = i
      <4> SUFFICES ASSUME NEW i \in 1..C PROVE Edits(o)[i].rev = i
        BY <2>6
      <4>1. PICK j \in Renders(o) : row[j].rev = i /\ Edits(o)[i] = EditOf(j)
        BY DEF RowsAsEdits
      <4> QED
        BY <4>1 DEF EditOf
    <3>2. rendered[o] \in Nat /\ rendered[o] <= C
      BY DEF TypeOK, BindingTypeOK, RowsInv, RendersNumbered
    <3> DEFINE used == {rendered[o]} \cup {Edits(o)[i].rev : i \in DOMAIN Edits(o)}
    <3> HIDE DEF C
    <3>3. used = {rendered[o]} \cup 1..C
      BY <2>6, <3>1
    <3> HIDE DEF used
    <3>4. C \in used
      <4>1. C = rendered[o] \/ C \in 1..C
        BY <2>6, <3>2
      <4> QED
        BY <3>3, <4>1
    <3>5. \A q \in used : q \in Nat /\ q <= C
      BY <2>6, <3>2, <3>3
    <3>6. n - 1 \in used /\ \A q \in used : q < n
      BY <2>3, <2>6, <3>4, <3>5
    <3> QED
      BY <3>6 DEF P!Assigned, used
  <2>12. n \in 1..(MaxFrames[o] + 1)
    <3>1. C <= MaxFrames[o] /\ MaxFrames[o] \in Nat
      BY RendersOfFrames, PipelineAssumption
    <3> QED
      BY <2>3, <2>6, <3>1
  <2>13. [p \in Operation |-> Edits(p)]' =
           [[p \in Operation |-> Edits(p)] EXCEPT ![o] = Append(P!Swept(o, n), added)]
    <3>1. P!Swept(o, n) = swept
      BY DEF P!Swept
    <3> HIDE DEF swept, added
    <3> QED
      BY <2>7, <2>10, <3>1
  <2>14. P!Record(e)
    BY <1>3, <1>5, <2>11, <2>12, <2>13 DEF P!Record
  <2>15. P!Judge(e)
    BY <1>3, <1>5, <2>14 DEF P!Judge
  <2> QED
    BY <1>1, <1>2, <2>2, <2>15 DEF P!Consume, P!followVars
<1> QED
  BY <1>2, <1>3, <1>4, <1>5 DEF Accept

\* Every step of the pipeline is a step of Projection, or none.
LEMMA PipeMaps ==
  ASSUME QInv, FollowInv, RowsAsEdits, RowsAsEdits', [PipeNext]_pipeVars
  PROVE  [P!Next]_(P!vars)
<1>1. TypeOK /\ RowsInv
  BY DEF QInv
<1>2. ASSUME UNCHANGED <<jobs, row, kind, state, bound, rendered, event, followerVars>>
      PROVE  [P!Next]_(P!vars)
  <2>1. \A o \in Operation : Renders(o)' = Renders(o)
    BY <1>2 DEF Renders, Rows, HasRevision
  <2>2. \A j : row'[j].rev = row[j].rev /\ (EditOf(j))' = EditOf(j)
    BY <1>2 DEF EditOf, EditState
  <2>3. AllEdits' = AllEdits
    BY <2>1, <2>2, AllStay
  <2> QED
    BY <1>2, <2>3, Stutters
<1>3. ASSUME NEW n \in Job, n \notin Rows, \A p \in Operation : Renders(p)' = Renders(p),
             \A j \in Job \ {n} : /\ row'[j].op = row[j].op /\ row'[j].rev = row[j].rev
                                  /\ kind'[j] = kind[j] /\ state'[j] = state[j]
                                  /\ event'[j] = event[j]
      PROVE  AllEdits' = AllEdits
  <2>1. \A p \in Operation : Renders(p) \subseteq Job \ {n}
    BY <1>1, <1>3, RendersFinite
  <2>2. \A p \in Operation : \A j \in Renders(p) :
          row'[j].rev = row[j].rev /\ (EditOf(j))' = EditOf(j)
    BY <1>3, <2>1 DEF EditOf, EditState
  <2> QED
    BY <1>3, <2>2, AllStay
<1>4. ASSUME NEW o \in Operation, Publish(o) \/ Follow(o) \/ Interfere(o)
      PROVE  [P!Next]_(P!vars)
  BY <1>4 DEF Publish, Follow, Interfere, P!Next
<1>5. ASSUME NEW o \in Operation, Capture(o) PROVE [P!Next]_(P!vars)
  <2>1. /\ bound' = bound \cup {o} /\ UNCHANGED rendered
        /\ UNCHANGED <<followerVars, event>>
    BY <1>5 DEF Capture, RecordCapture
  <2>2. AllEdits' = AllEdits
    <3>1. CASE UNCHANGED queueVars
      <4>1. \A p \in Operation : Renders(p)' = Renders(p)
        BY <3>1 DEF Renders, Rows, HasRevision, queueVars
      <4>2. \A j : row'[j].rev = row[j].rev /\ (EditOf(j))' = EditOf(j)
        BY <2>1, <3>1 DEF EditOf, EditState, queueVars
      <4> QED
        BY <4>1, <4>2, AllStay
    <3>2. CASE Insert(NewRow(ChatOf[o], o, 0, "direct"), "send", TRUE)
      <4>1. ChatOf[o] \in Chat /\ "direct" \in Class /\ "send" \in Kind /\ TRUE \in BOOLEAN
        BY ConstantsAssumption DEF Class, Kind
      <4>2. PICK n \in Job :
              /\ n \notin Rows
              /\ \A j \in Job \ {n} : row'[j] = row[j] /\ kind'[j] = kind[j] /\ state'[j] = state[j]
              /\ \A p \in Operation : Renders(p)' = Renders(p)
        BY <1>1, <3>2, <4>1, PlainAdds
      <4> QED
        BY <1>3, <2>1, <4>2
    <3> QED
      BY <1>5, <3>1, <3>2 DEF Capture, RecordCapture
  <2>3. CASE o \in bound
    <3>1. UNCHANGED bound
      BY <2>1, <2>3
    <3> QED
      BY <2>1, <2>2, <3>1, Stutters
  <2>4. CASE o \notin bound
    <3>1. P!Bind(o)
      BY <2>1, <2>2, <2>4 DEF P!Bind, P!followVars, followerVars, AllEdits
    <3> QED
      BY <3>1 DEF P!Next
  <2> QED
    BY <2>3, <2>4
<1>6. CASE Accept
  BY <1>1, <1>6, AcceptMaps DEF P!Next
<1>7. CASE FailAccept
  BY <1>7 DEF FailAccept, P!Next
<1>8. CASE Restart
  BY <1>8 DEF Restart, P!Next
<1>9. ASSUME NEW s \in Sender, Deliver(s) PROVE [P!Next]_(P!vars)
  BY <1>9, DeliverMaps DEF Deliver
<1>10. ASSUME NEW i \in Job, Recover(i) PROVE [P!Next]_(P!vars)
  <2>1. PICK n \in Job :
          /\ n = jobs + 1 /\ n \notin Rows /\ UNCHANGED <<bound, rendered>>
          /\ \A j \in Job \ {n} : /\ row'[j].op = row[j].op /\ row'[j].rev = row[j].rev
                                  /\ kind'[j] = kind[j] /\ state'[j] = state[j]
          /\ \A p \in Operation : Renders(p)' = Renders(p)
    BY <1>1, <1>10, RecoverAdds DEF Recover
  <2>2. event' = [event EXCEPT ![n] = event[i]] /\ UNCHANGED followerVars
    BY <1>10, <2>1 DEF Recover
  <2>3. \A j \in Job \ {n} : event'[j] = event[j]
    BY <2>2 DEF FollowInv, FollowerTypeOK
  <2>4. AllEdits' = AllEdits
    BY <1>3, <2>1, <2>3
  <2> QED
    BY <2>1, <2>2, <2>4, Stutters
<1>11. CASE Outside
  <2>1. UNCHANGED <<jobs, row, kind, state, bound, rendered>>
    BY <1>11
    DEF Outside, Network, ApplySend, ApplyEdit, Refuse, Drop, Tick, BecomeDue, ExpireLease, Age,
        Fault, queueVars, bindingVars
  <2> QED
    BY <1>2, <1>11, <2>1 DEF Outside
<1>12. CASE UNCHANGED pipeVars
  BY <1>2, <1>12 DEF pipeVars, vars, queueVars, bindingVars
<1> QED
  BY <1>4, <1>5, <1>6, <1>7, <1>8, <1>9, <1>10, <1>11, <1>12 DEF PipeNext

\* Whatever the senders, the requests that arrive late and the faults: the rows of
\* the queue behave as the edits of Projection, from claim and quarantine to the
\* acknowledgement and the revision recorded after it (claim_due_outbound_job,
\* settle_outbound_job, record_outbound_acknowledgement, accept_operation_event).
THEOREM QueueImplementsProjection == PipeSpec => ImplementsProjection
<1>1. PipeInit => P!Init
  BY DEF PipeInit
<1>2. QInv => RowsAsEdits
  BY EditsAreRows DEF QInv
<1>3. QInv /\ FollowInv /\ RowsAsEdits /\ RowsAsEdits' /\ [PipeNext]_pipeVars => [P!Next]_(P!vars)
  BY PipeMaps
<1> QED
  BY <1>1, <1>2, <1>3, PipeInvariance, PTL DEF PipeSpec, ImplementsProjection, P!Spec

-----------------------------------------------------------------------------
(* One sender, whose edits may be carried out when it waits no longer *)

Shows(m, o) == m \in DOMAIN shown /\ row[shown[m].by].op = o

\* An edit on the wire, awaited or late, is a render of what its message shows.
EditsOwn ==
  \A r \in flight : r.method = "edit" =>
    r.job \in Rows /\ HasRevision(r.job) /\ Shows(r.msg, row[r.job].op)

MessagesOwn == \A o \in Operation : message[o] # 0 => Shows(message[o], o)

EditsNewer ==
  \A s \in Sender : pc[s] \in {"prepare", "await"} /\ plan[s].method = "edit" =>
    LET j == held[s].job IN
    HasRevision(j) /\ Shows(plan[s].msg, row[j].op) /\ rendered[row[j].op] < row[j].rev

PostsOwn ==
  \A s \in Sender :
    /\ pc[s] = "ack" \/ (pc[s] = "await" /\ result[s] = "ok")
    /\ plan[s].method = "send" /\ row[held[s].job].op \in Operation
    => Shows(plan[s].msg, row[held[s].job].op)

\* A sender at work holds a row.
HeldExist == \A s \in Sender : pc[s] \in {"idle", "claiming"} \/ held[s].job \in Rows

\* No answer comes before its request.
Unanswered ==
  \A s \in Sender : pc[s] \in {"idle", "claiming", "resolve", "prepare"} => result[s] = "none"

WInv == EditsOwn /\ MessagesOwn /\ EditsNewer /\ PostsOwn /\ HeldExist /\ Unanswered

LEMMA StepRows ==
  ASSUME TypeOK, [Next]_vars \/ Stop
  PROVE  /\ Rows \subseteq Rows' /\ Rows \subseteq Job
         /\ \A j \in Rows : row'[j].op = row[j].op /\ row'[j].rev = row[j].rev
<1> DEFINE Kept == Rows \subseteq Rows' /\ \A j \in Rows : row'[j].op = row[j].op /\ row'[j].rev = row[j].rev
<1>1. Rows \subseteq Job
  BY ConstantsAssumption DEF Rows, Job, TypeOK, QueueTypeOK
<1>2. ASSUME UNCHANGED <<jobs, row>> PROVE Kept
  BY <1>2 DEF Rows
<1>3. ASSUME NEW n \in Job, n = jobs + 1, jobs' = n,
             \A j \in Job \ {n} : row'[j].op = row[j].op /\ row'[j].rev = row[j].rev
      PROVE  Kept
  <2>1. jobs \in Nat /\ Rows = 1..jobs /\ Rows' = 1..n
    BY <1>3, ConstantsAssumption DEF Rows, TypeOK, QueueTypeOK
  <2>2. Rows \subseteq Rows' /\ n \notin Rows
    BY <1>3, <2>1
  <2>3. \A j \in Rows : j \in Job \ {n}
    BY <1>1, <2>2
  <2> QED
    BY <1>3, <2>2, <2>3
<1>4. ASSUME NEW r, NEW k, NEW d, Insert(r, k, d) PROVE Kept
  <2>1. PICK n \in Job : n = jobs + 1
    BY <1>4, ConstantsAssumption DEF Insert, TypeOK, QueueTypeOK, Job
  <2>2. jobs' = n /\ row' = [row EXCEPT ![n] = r]
    BY <1>4, <2>1 DEF Insert
  <2>3. \A j \in Job \ {n} : row'[j] = row[j]
    BY <2>2 DEF TypeOK, QueueTypeOK
  <2> QED
    BY <1>3, <2>1, <2>2, <2>3
<1>5. ASSUME NEW i \in Job, RecoverUnknown(i) PROVE Kept
  BY <1>3, <1>5, RecoverAdds
<1> SUFFICES Kept
  BY <1>1
<1> HIDE DEF Kept
<1>6. CASE Produce
  <2>1. ASSUME NEW c \in Chat, EnqueueReply(c) \/ EnqueueNotification(c) PROVE Kept
    BY <1>4, <2>1 DEF EnqueueReply, EnqueueNotification
  <2>2. ASSUME NEW o \in Operation, RecordCapture(o) PROVE Kept
    BY <1>2, <1>4, <2>2 DEF RecordCapture, queueVars
  <2>3. ASSUME NEW o \in Operation, EnqueueRender(o) PROVE Kept
    BY <1>4, <2>3 DEF EnqueueRender, AcceptRender
  <2> QED
    BY <1>5, <1>6, <2>1, <2>2, <2>3 DEF Produce
<1>7. ASSUME NEW s \in Sender, SenderStep(s) \/ Fault(s) PROVE Kept
  BY <1>2, <1>7
  DEF SenderStep, BeginClaim, FinishClaim, Take, Resolve, Prepare, Receive, LoseAnswer,
      Acknowledge, Settle, FollowUp, Fault, queueVars
<1>8. CASE Network \/ Tick
  BY <1>2, <1>8
  DEF Network, ApplySend, ApplyEdit, Refuse, Drop, Tick, BecomeDue, ExpireLease, Age, queueVars
<1>9. CASE Stop \/ UNCHANGED vars
  BY <1>2, <1>9 DEF Stop, vars, queueVars
<1> QED
  BY <1>6, <1>7, <1>8, <1>9 DEF Next

\* A message changes by an edit of its operation, which is newer than what that shows
\* unless nobody waits for it.
LEMMA StepShown ==
  ASSUME TypeOK, EditsOwn, EditsNewer, [Next]_vars \/ Stop, NEW m \in DOMAIN shown
  PROVE  /\ m \in DOMAIN shown' /\ shown[m].by \in Job /\ shown'[m].by \in Job
         /\ row[shown'[m].by].op = row[shown[m].by].op
         /\ \/ shown'[m].by = shown[m].by
            \/ /\ HasRevision(shown'[m].by)
               /\ rendered[row[shown[m].by].op] < row[shown'[m].by].rev \/ LateEdit(m)
<1>1. /\ shown \in Seq(Message) /\ shown[m].by \in Job
      /\ shown \in [1..Len(shown) -> Message] /\ DOMAIN shown = 1..Len(shown)
  <2>1. shown \in Seq(Message)
    BY DEF TypeOK, WireTypeOK
  <2>2. shown \in [1..Len(shown) -> Message] /\ DOMAIN shown = 1..Len(shown)
    BY <2>1, LenProperties
  <2>3. shown[m] \in Message
    BY <2>2
  <2> QED
    BY <2>1, <2>2, <2>3 DEF Message
<1>2. CASE UNCHANGED shown
  BY <1>1, <1>2
<1>3. ASSUME NEW r \in flight, ApplySend(r)
      PROVE  m \in DOMAIN shown' /\ shown'[m] = shown[m]
  BY <1>1, <1>3 DEF ApplySend
<1>4. ASSUME NEW r \in flight, ApplyEdit(r), r.msg = m
      PROVE  /\ m \in DOMAIN shown' /\ shown'[m].by = r.job /\ r.job \in Job
             /\ HasRevision(r.job) /\ row[r.job].op = row[shown[m].by].op
             /\ rendered[row[r.job].op] < row[r.job].rev \/ LateEdit(m)
  <2>1. r.method = "edit" /\ r \notin flight' /\ r.job \in Job
    BY <1>4 DEF ApplyEdit, TypeOK, WireTypeOK, Request
  <2>2. HasRevision(r.job) /\ row[shown[m].by].op = row[r.job].op
    BY <1>4, <2>1 DEF EditsOwn, Shows
  <2>3. ASSUME NEW s \in Sender, Waits(s, r) PROVE rendered[row[r.job].op] < row[r.job].rev
    <3>1. pc[s] = "await" /\ plan[s].method = "edit" /\ held[s].job = r.job
      BY <2>1, <2>3 DEF Waits, RequestOf
    <3> QED
      BY <3>1 DEF EditsNewer
  <2>4. (\A s \in Sender : ~Waits(s, r)) => LateEdit(m)
    BY <1>4, <2>1 DEF LateEdit
  <2>5. m \in DOMAIN shown' /\ shown'[m].by = r.job
    BY <1>1, <1>4 DEF ApplyEdit, Message
  <2> QED
    BY <2>1, <2>2, <2>3, <2>4, <2>5
<1>5. ASSUME NEW r \in flight, ApplyEdit(r), r.msg # m
      PROVE  m \in DOMAIN shown' /\ shown'[m] = shown[m]
  BY <1>1, <1>5 DEF ApplyEdit
<1>6. CASE Network
  BY <1>1, <1>2, <1>3, <1>4, <1>5, <1>6 DEF Network, Refuse, Drop
<1>7. ASSUME NEW s \in Sender, SenderStep(s) \/ Fault(s) PROVE UNCHANGED shown
  BY <1>7
  DEF SenderStep, BeginClaim, FinishClaim, Take, Resolve, Prepare, Receive, LoseAnswer,
      Acknowledge, Settle, FollowUp, Fault, wireVars
<1>8. CASE Produce \/ Tick \/ Stop \/ UNCHANGED vars
  BY <1>2, <1>8
  DEF Produce, EnqueueReply, EnqueueNotification, RecordCapture, EnqueueRender, RecoverUnknown,
      Tick, BecomeDue, ExpireLease, Age, Stop, vars, wireVars
<1> QED
  BY <1>2, <1>6, <1>7, <1>8 DEF Next

\* What is shown for an operation stays shown for it.
LEMMA ShowsStay ==
  ASSUME TypeOK, OperationsBound, EditsOwn, EditsNewer, [Next]_vars \/ Stop,
         NEW o \in Operation, NEW m, Shows(m, o)
  PROVE  (Shows(m, o))'
<1>1. m \in DOMAIN shown /\ row[shown[m].by].op = o
  BY DEF Shows
<1>2. m \in DOMAIN shown' /\ shown'[m].by \in Job /\ row[shown'[m].by].op = o
  BY <1>1, StepShown
<1>3. shown'[m].by \in Rows
  BY <1>2 DEF OperationsBound
<1>4. row'[shown'[m].by].op = o
  BY <1>2, <1>3, StepRows
<1> QED
  BY <1>2, <1>4 DEF Shows

\* What is left on the wire is about the same messages.
LEMMA WireShrinks ==
  ASSUME TypeOK, OperationsBound, EditsOwn, EditsNewer, [Next]_vars \/ Stop, flight' \subseteq flight
  PROVE  EditsOwn'
<1> SUFFICES ASSUME NEW r \in flight', r.method = "edit"
             PROVE  r.job \in Rows' /\ (HasRevision(r.job))' /\ (Shows(r.msg, row[r.job].op))'
  BY DEF EditsOwn
<1>1. PICK j \in Rows, m \in {r.msg} : j = r.job /\ HasRevision(j) /\ Shows(m, row[j].op)
  BY DEF EditsOwn
<1>2. j \in Rows' /\ row'[j].op = row[j].op /\ row'[j].rev = row[j].rev
  BY StepRows
<1>3. PICK o \in Operation : o = row[j].op
  BY <1>1 DEF HasRevision
<1>4. (Shows(m, o))'
  BY <1>1, <1>3, ShowsStay
<1> QED
  BY <1>1, <1>2, <1>3, <1>4 DEF HasRevision, Shows

\* The sender goes on to where nothing of it is compared with what is shown.
LEMMA AtRest ==
  ASSUME OneSender, WInv, OperationsBound, TypeOK, [Next]_vars \/ Stop,
         \A s \in Sender : /\ pc'[s] \in {"idle", "claiming", "resolve", "settle", "after"}
                           /\ pc'[s] \in {"idle", "claiming"} \/ held'[s].job \in Rows
                           /\ pc'[s] \in {"idle", "claiming", "resolve"} => result'[s] = "none",
         flight' \subseteq flight, MessagesOwn'
  PROVE  WInv'
<1>1. HeldExist'
  BY StepRows DEF HeldExist
<1>2. EditsNewer' /\ PostsOwn' /\ Unanswered'
  BY DEF EditsNewer, PostsOwn, Unanswered
<1>3. EditsOwn'
  BY WireShrinks DEF WInv
<1> QED
  BY <1>1, <1>2, <1>3 DEF WInv

\* What compares the sender's plan with what is shown stays.
LEMMA PlanStays ==
  ASSUME WInv, OperationsBound, TypeOK, [Next]_vars \/ Stop, NEW s \in Sender,
         held'[s] = held[s], plan'[s] = plan[s], rendered' = rendered
  PROVE  /\ pc[s] \in {"prepare", "await"} /\ plan[s].method = "edit" =>
              (LET j == held[s].job IN
               HasRevision(j) /\ Shows(plan[s].msg, row[j].op) /\ rendered[row[j].op] < row[j].rev)'
         /\ /\ pc[s] = "ack" \/ (pc[s] = "await" /\ result[s] = "ok")
            /\ plan[s].method = "send" /\ row'[held[s].job].op \in Operation
            => (Shows(plan[s].msg, row[held[s].job].op))'
<1>1. ASSUME NEW j \in Rows
      PROVE  /\ row'[j].op = row[j].op /\ row'[j].rev = row[j].rev
             /\ (HasRevision(j))' <=> HasRevision(j)
  BY StepRows DEF HasRevision
<1>2. pc[s] \in {"prepare", "await", "ack"} => held[s].job \in Rows
  BY DEF WInv, HeldExist
<1>3. ASSUME pc[s] \in {"prepare", "await"}, plan[s].method = "edit"
      PROVE  (LET j == held[s].job IN
              HasRevision(j) /\ Shows(plan[s].msg, row[j].op) /\ rendered[row[j].op] < row[j].rev)'
  <2>1. PICK j \in Rows : j = held[s].job
    BY <1>2, <1>3
  <2>2. HasRevision(j) /\ Shows(plan[s].msg, row[j].op) /\ rendered[row[j].op] < row[j].rev
    BY <1>3, <2>1 DEF WInv, EditsNewer
  <2>3. PICK o \in Operation, m \in {plan[s].msg} : o = row[j].op
    BY <2>2 DEF HasRevision
  <2>4. (Shows(m, o))'
    BY <2>2, <2>3, ShowsStay DEF WInv
  <2> QED
    BY <1>1, <2>1, <2>2, <2>3, <2>4 DEF Shows
<1>4. ASSUME pc[s] = "ack" \/ (pc[s] = "await" /\ result[s] = "ok"),
             plan[s].method = "send", row'[held[s].job].op \in Operation
      PROVE  (Shows(plan[s].msg, row[held[s].job].op))'
  <2>1. PICK j \in Rows : j = held[s].job
    BY <1>2, <1>4
  <2>2. PICK o \in Operation, m \in {plan[s].msg} : o = row[j].op /\ Shows(m, o)
    BY <1>1, <1>4, <2>1 DEF WInv, PostsOwn
  <2>3. (Shows(m, o))'
    BY <2>2, ShowsStay DEF WInv
  <2> QED
    BY <1>1, <2>1, <2>2, <2>3 DEF Shows
<1> QED
  BY <1>3, <1>4

\* Messages stay with their operations as long as no binding changes.
LEMMA MessagesStay ==
  ASSUME WInv, OperationsBound, TypeOK, [Next]_vars \/ Stop,
         \A o \in Operation : message'[o] \in {message[o], 0}
  PROVE  MessagesOwn'
<1> SUFFICES ASSUME NEW o \in Operation, message'[o] # 0 PROVE (Shows(message[o], o))'
  BY DEF MessagesOwn
<1>1. PICK m : m = message[o]
  OBVIOUS
<1>2. message'[o] = m /\ Shows(m, o)
  BY <1>1 DEF WInv, MessagesOwn
<1>3. (Shows(m, o))'
  BY <1>2, ShowsStay DEF WInv
<1> QED
  BY <1>2, <1>3 DEF Shows

\* A step that leaves the sender and the wire as they are.
LEMMA SenderStays ==
  ASSUME WInv, OperationsBound, TypeOK, [Next]_vars \/ Stop,
         UNCHANGED <<pc, held, plan, result, message, rendered, flight>>
  PROVE  WInv'
<1>1. MessagesOwn'
  BY MessagesStay
<1>2. HeldExist' /\ Unanswered'
  BY StepRows DEF WInv, HeldExist, Unanswered
<1>3. EditsOwn'
  BY WireShrinks DEF WInv
<1>4. EditsNewer' /\ PostsOwn'
  BY PlanStays DEF EditsNewer, PostsOwn
<1> QED
  BY <1>1, <1>2, <1>3, <1>4 DEF WInv

\* The one sender's part of a step.
LEMMA WireStep ==
  ASSUME OneSender, QInv, WInv, [Next]_vars \/ Stop
  PROVE  WInv'
<1>1. TypeOK /\ OperationsBound /\ AbsentRows /\ EditsOwn /\ EditsNewer
  BY DEF QInv, RowsInv, WInv
<1>2. ASSUME UNCHANGED <<pc, held, plan, result, message, rendered, flight>> PROVE WInv'
  BY <1>1, <1>2, SenderStays
<1>3. ASSUME NEW s \in Sender, \A o \in Operation : message'[o] \in {message[o], 0},
             pc' = [pc EXCEPT ![s] = pc'[s]], flight' \subseteq flight,
             pc'[s] \in {"idle", "claiming", "resolve", "settle", "after"},
             pc'[s] \in {"idle", "claiming"} \/ held'[s].job \in Rows,
             pc'[s] \in {"idle", "claiming", "resolve"} => result'[s] = "none"
      PROVE  WInv'
  <2>1. MessagesOwn'
    BY <1>1, <1>3, MessagesStay
  <2>2. \A t \in Sender : t = s
    BY DEF OneSender
  <2> QED
    BY <1>1, <1>3, <2>1, <2>2, AtRest
<1>4. flight' \subseteq flight => EditsOwn'
  BY <1>1, WireShrinks
<1>5. ASSUME NEW s \in Sender
      PROVE  pc[s] \in {"idle", "claiming"} \/ held[s].job \in Rows
  BY DEF WInv, HeldExist
<1>6. ASSUME NEW s \in Sender, Idle(s), flight' \subseteq flight, UNCHANGED message PROVE WInv'
  <2>1. pc'[s] = "idle" /\ result'[s] = "none" /\ pc' = [pc EXCEPT ![s] = pc'[s]]
    BY <1>1, <1>6 DEF Idle, TypeOK, SenderTypeOK
  <2> QED
    BY <1>3, <1>6, <2>1
<1>7. ASSUME NEW s \in Sender
      PROVE  pc[s] \in {"idle", "claiming", "resolve", "prepare"} => result[s] = "none"
  BY DEF WInv, Unanswered
<1>8. CASE Produce \/ Tick \/ UNCHANGED vars
  BY <1>2, <1>8
  DEF Produce, EnqueueReply, EnqueueNotification, RecordCapture, EnqueueRender, RecoverUnknown,
      Tick, BecomeDue, ExpireLease, Age, bindingVars, senderVars, wireVars, vars
<1>9. CASE Stop
  <2>1. /\ \A s \in Sender : pc'[s] = "idle" /\ result'[s] = "none"
        /\ flight' \subseteq flight /\ UNCHANGED message
    BY <1>9 DEF Stop, bindingVars
  <2>2. MessagesOwn'
    BY <1>1, <2>1, MessagesStay
  <2> QED
    BY <1>1, <2>1, <2>2, AtRest
<1>10. ASSUME NEW s \in Sender, BeginClaim(s) PROVE WInv'
  <2>1. /\ pc' = [pc EXCEPT ![s] = "claiming"] /\ UNCHANGED <<message, flight, result>>
        /\ pc[s] = "idle"
    BY <1>10 DEF BeginClaim, bindingVars, wireVars
  <2>2. pc'[s] = "claiming" /\ flight' = flight /\ result'[s] = "none"
    BY <1>1, <1>7, <2>1 DEF TypeOK, SenderTypeOK
  <2> QED
    BY <1>3, <2>1, <2>2
<1>11. ASSUME NEW s \in Sender, FinishClaim(s) PROVE WInv'
  <2>1. pc[s] = "claiming" /\ flight' = flight /\ UNCHANGED message
    BY <1>11 DEF FinishClaim, bindingVars, wireVars
  <2>2. CASE Idle(s)
    BY <1>6, <2>1, <2>2
  <2>3. ASSUME NEW j \in seen[s], Eligible(j), Take(s, j) PROVE WInv'
    <3>1. j \in Job /\ state[j] # "absent"
      BY <1>1, <2>3 DEF Eligible, Waiting, TypeOK, SenderTypeOK
    <3>2. j \in Rows
      BY <1>1, <3>1, ConstantsAssumption DEF AbsentRows, Rows, Job, TypeOK, QueueTypeOK
    <3>3. /\ pc' = [pc EXCEPT ![s] = "resolve"] /\ pc'[s] = "resolve"
          /\ held'[s].job = j /\ result'[s] = "none"
      BY <1>1, <1>7, <2>1, <2>3 DEF Take, TypeOK, SenderTypeOK
    <3> QED
      BY <1>3, <2>1, <3>2, <3>3
  <2> QED
    BY <1>11, <2>2, <2>3 DEF FinishClaim
<1>12. ASSUME NEW s \in Sender, Resolve(s) PROVE WInv'
  <2>1. /\ pc[s] = "resolve" /\ held[s].job \in Rows /\ result[s] = "none" /\ flight' = flight
        /\ UNCHANGED <<message, rendered, held, shown, row>>
    BY <1>5, <1>7, <1>12 DEF Resolve, bindingVars, wireVars, queueVars
  <2>2. CASE pc' = [pc EXCEPT ![s] = "settle"]
    <3>1. pc'[s] = "settle"
      BY <1>1, <2>2 DEF TypeOK, SenderTypeOK
    <3> QED
      BY <1>3, <2>1, <2>2, <3>1
  <2>3. CASE pc' = [pc EXCEPT ![s] = "prepare"] /\ UNCHANGED result
    <3>1. pc'[s] = "prepare" /\ \A t \in Sender : t = s
      BY <1>1, <2>3 DEF TypeOK, SenderTypeOK, OneSender
    <3>2. MessagesOwn'
      BY <1>1, <2>1, MessagesStay
    <3>3. EditsOwn' /\ PostsOwn'
      BY <1>4, <2>1, <3>1 DEF PostsOwn
    <3>4. HeldExist' /\ Unanswered'
      BY <1>1, <2>1, <2>3, <3>1, StepRows DEF HeldExist, Unanswered
    <3>5. EditsNewer'
      <4>1. CASE plan'[s].method = "edit"
        <5>1. PICK j \in Rows : j = held[s].job
          BY <2>1
        <5>2. /\ held[s].kind = "edit" /\ message[row[j].op] # 0 /\ ~StaleEdit(j)
              /\ plan'[s].msg = message[row[j].op]
          BY <1>1, <1>12, <2>3, <4>1, <5>1, <3>1
          DEF Resolve, NoPlan, TypeOK, SenderTypeOK
        <5>3. HasRevision(j) /\ row[j].op \in Operation /\ rendered[row[j].op] < row[j].rev
          <6>1. HasRevision(j) /\ ~(rendered[row[j].op] >= row[j].rev)
            BY <5>2 DEF StaleEdit
          <6>2. j \in Job /\ row[j].op \in Operation
            BY <1>1, <6>1, StepRows DEF HasRevision
          <6>3. rendered[row[j].op] \in Nat /\ row[j].rev \in Nat
            BY <1>1, <6>2 DEF TypeOK, QueueTypeOK, BindingTypeOK, Row
          <6> QED
            BY <6>1, <6>2, <6>3
        <5>4. Shows(message[row[j].op], row[j].op)
          BY <5>2, <5>3 DEF WInv, MessagesOwn
        <5> QED
          BY <2>1, <3>1, <5>1, <5>2, <5>3, <5>4 DEF EditsNewer, Shows, HasRevision
      <4>2. CASE plan'[s].method # "edit"
        BY <3>1, <4>2 DEF EditsNewer
      <4> QED
        BY <4>1, <4>2
    <3> QED
      BY <3>2, <3>3, <3>4, <3>5 DEF WInv
  <2> QED
    BY <1>12, <2>2, <2>3 DEF Resolve
<1>13. ASSUME NEW s \in Sender, Prepare(s) PROVE WInv'
  <2>1. pc[s] = "prepare" /\ held[s].job \in Rows /\ result[s] = "none"
        /\ UNCHANGED <<message, rendered, shown, jobs, row>>
    BY <1>5, <1>7, <1>13 DEF Prepare, bindingVars
  <2>2. CASE Idle(s) /\ flight' = flight
    BY <1>6, <2>1, <2>2
  <2>3. CASE /\ flight' = flight \cup {RequestOf(s)} /\ pc' = [pc EXCEPT ![s] = "await"]
             /\ UNCHANGED <<held, plan, result>>
    <3>1. pc'[s] = "await" /\ \A t \in Sender : t = s
      BY <1>1, <2>3 DEF TypeOK, SenderTypeOK, OneSender
    <3>2. MessagesOwn'
      BY <1>1, <2>1, MessagesStay
    <3>3. EditsOwn'
      <4> SUFFICES ASSUME NEW q \in flight', q.method = "edit"
                   PROVE  q.job \in Rows /\ HasRevision(q.job) /\ Shows(q.msg, row[q.job].op)
        BY <2>1 DEF EditsOwn, Rows, HasRevision, Shows
      <4>1. CASE q \in flight
        BY <4>1 DEF WInv, EditsOwn
      <4>2. CASE q = RequestOf(s)
        BY <2>1, <4>2 DEF WInv, EditsNewer, RequestOf
      <4> QED
        BY <2>3, <4>1, <4>2
    <3>4. HeldExist' /\ Unanswered' /\ PostsOwn'
      BY <1>1, <2>1, <2>3, <3>1, StepRows DEF HeldExist, Unanswered, PostsOwn
    <3>5. EditsNewer'
      BY <1>1, <2>1, <2>3, <3>1, PlanStays DEF EditsNewer
    <3> QED
      BY <3>2, <3>3, <3>4, <3>5 DEF WInv
  <2> QED
    BY <1>13, <2>2, <2>3 DEF Prepare
<1>14. ASSUME NEW s \in Sender, Receive(s) PROVE WInv'
  <2>1. /\ pc[s] = "await" /\ result[s] # "none" /\ flight' = flight /\ held[s].job \in Rows
        /\ UNCHANGED <<held, plan, result, message, rendered>>
        /\ pc' = [pc EXCEPT ![s] = IF result[s] = "ok" THEN "ack" ELSE "settle"]
    BY <1>5, <1>14 DEF Receive, bindingVars, wireVars
  <2>2. pc'[s] = IF result[s] = "ok" THEN "ack" ELSE "settle"
    BY <1>1, <2>1 DEF TypeOK, SenderTypeOK
  <2>3. CASE result[s] # "ok"
    <3>1. pc'[s] = "settle" /\ pc' = [pc EXCEPT ![s] = pc'[s]]
      BY <2>1, <2>2, <2>3
    <3> QED
      BY <1>3, <2>1, <3>1
  <2>4. CASE result[s] = "ok"
    <3>1. pc'[s] = "ack" /\ \A t \in Sender : t = s
      BY <2>2, <2>4 DEF OneSender
    <3>2. MessagesOwn'
      BY <1>1, <2>1, MessagesStay
    <3>3. EditsOwn' /\ EditsNewer'
      BY <1>4, <2>1, <3>1 DEF EditsNewer
    <3>4. HeldExist' /\ Unanswered'
      BY <1>1, <2>1, <3>1, StepRows DEF HeldExist, Unanswered
    <3>5. PostsOwn'
      BY <1>1, <2>1, <2>4, <3>1, PlanStays DEF PostsOwn
    <3> QED
      BY <3>2, <3>3, <3>4, <3>5 DEF WInv
  <2> QED
    BY <2>3, <2>4
<1>15. ASSUME NEW s \in Sender, LoseAnswer(s) PROVE WInv'
  <2>1. /\ pc[s] = "await" /\ held[s].job \in Rows /\ UNCHANGED <<held, message>>
        /\ pc' = [pc EXCEPT ![s] = "settle"] /\ flight' \subseteq flight
    BY <1>5, <1>15 DEF LoseAnswer, bindingVars
  <2>2. pc'[s] = "settle"
    BY <1>1, <2>1 DEF TypeOK, SenderTypeOK
  <2> QED
    BY <1>3, <2>1, <2>2
<1>16. ASSUME NEW s \in Sender, Acknowledge(s) PROVE WInv'
  <2>1. pc[s] = "ack" /\ flight' = flight /\ Idle(s) /\ held[s].job \in Rows
    BY <1>5, <1>16 DEF Acknowledge, wireVars
  <2>2. pc'[s] = "idle" /\ result'[s] = "none" /\ \A t \in Sender : t = s
    BY <1>1, <2>1 DEF Idle, TypeOK, SenderTypeOK, OneSender
  <2>3. PICK o : o = row[held[s].job].op
    OBVIOUS
  <2>4. MessagesOwn'
    <3>1. CASE UNCHANGED message
      BY <1>1, <3>1, MessagesStay
    <3>2. CASE /\ o \in Operation /\ plan[s].method = "send"
               /\ message' = [message EXCEPT ![o] = plan[s].msg]
      <4> SUFFICES ASSUME NEW p \in Operation, message'[p] # 0
                   PROVE  (Shows(message[p], p))'
        BY DEF MessagesOwn
      <4>1. PICK m \in {message'[p]} : Shows(m, p)
        <5>1. CASE p = o
          <6>1. message'[p] = plan[s].msg
            BY <1>1, <3>2, <5>1 DEF TypeOK, BindingTypeOK
          <6>2. Shows(plan[s].msg, o)
            BY <2>1, <2>3, <3>2 DEF WInv, PostsOwn
          <6> QED
            BY <5>1, <6>1, <6>2
        <5>2. CASE p # o
          BY <1>1, <3>2, <5>2 DEF WInv, MessagesOwn, TypeOK, BindingTypeOK
        <5> QED
          BY <5>1, <5>2
      <4>2. (Shows(m, p))'
        BY <1>1, <4>1, ShowsStay DEF WInv
      <4> QED
        BY <4>1, <4>2 DEF Shows
    <3> QED
      BY <1>16, <2>3, <3>1, <3>2 DEF Acknowledge, bindingVars
  <2> QED
    BY <1>1, <2>1, <2>2, <2>4, AtRest
<1>17. ASSUME NEW s \in Sender, Settle(s) PROVE WInv'
  <2>1. pc[s] = "settle" /\ flight' = flight /\ held[s].job \in Rows /\ UNCHANGED message
    BY <1>5, <1>17 DEF Settle, wireVars, bindingVars
  <2>2. CASE Idle(s)
    BY <1>6, <2>1, <2>2
  <2>3. CASE pc' = [pc EXCEPT ![s] = "after"] /\ UNCHANGED held
    <3>1. pc'[s] = "after"
      BY <1>1, <2>3 DEF TypeOK, SenderTypeOK
    <3> QED
      BY <1>3, <2>1, <2>3, <3>1
  <2> QED
    BY <1>17, <2>2, <2>3 DEF Settle
<1>18. ASSUME NEW s \in Sender, FollowUp(s) PROVE WInv'
  <2>1. pc[s] = "after" /\ flight' = flight /\ Idle(s)
    BY <1>18 DEF FollowUp, wireVars
  <2>2. \A o \in Operation : message'[o] \in {message[o], 0}
    BY <1>1, <1>18 DEF FollowUp, TypeOK, BindingTypeOK
  <2>3. pc'[s] = "idle" /\ result'[s] = "none" /\ pc' = [pc EXCEPT ![s] = pc'[s]]
    BY <1>1, <2>1 DEF Idle, TypeOK, SenderTypeOK
  <2> QED
    BY <1>3, <2>1, <2>2, <2>3
<1>19. ASSUME NEW s \in Sender, Fault(s) PROVE WInv'
  <2>1. Idle(s) /\ UNCHANGED message /\ flight' \subseteq flight
    BY <1>19 DEF Fault, bindingVars
  <2> QED
    BY <1>6, <2>1
<1>20. ASSUME NEW r \in flight, ApplySend(r) \/ ApplyEdit(r) \/ Refuse(r) \/ Drop(r) PROVE WInv'
  <2>1. UNCHANGED <<pc, held, message, rendered, row>> /\ flight' \subseteq flight
    BY <1>20 DEF ApplySend, ApplyEdit, Refuse, Drop, bindingVars, senderVars, queueVars
  <2>2. MessagesOwn'
    BY <1>1, <2>1, MessagesStay
  <2>3. HeldExist'
    BY <1>1, <2>1, StepRows DEF WInv, HeldExist
  <2>4. ASSUME NEW s \in Sender, ~Waits(s, r) PROVE plan'[s] = plan[s] /\ result'[s] = result[s]
    BY <1>20, <2>4 DEF ApplySend, ApplyEdit, Refuse, Drop, Answer, senderVars
  <2>5. ASSUME NEW s \in Sender, Waits(s, r)
        PROVE  /\ pc[s] = "await" /\ plan[s].method = r.method /\ held[s].job = r.job
               /\ \/ UNCHANGED plan
                  \/ ApplySend(r)
    BY <1>20, <2>5 DEF ApplyEdit, Refuse, Drop, Waits, RequestOf, senderVars
  <2>6. ASSUME NEW s \in Sender, Waits(s, r), ApplySend(r)
        PROVE  /\ plan[s].method = "send" /\ plan'[s].method = "send"
               /\ (Shows(plan[s].msg, row[held[s].job].op))'
    <3>1. plan[s] \in Plan /\ r.method = "send" /\ plan'[s] = [plan[s] EXCEPT !.msg = Len(shown) + 1]
      BY <1>1, <2>6 DEF ApplySend, TypeOK, SenderTypeOK
    <3>2. /\ plan[s].method = "send" /\ plan'[s].method = "send"
          /\ plan'[s].msg = Len(shown) + 1 /\ held'[s].job = r.job
      BY <2>1, <2>5, <2>6, <3>1 DEF Plan
    <3>3. Len(shown) + 1 \in DOMAIN shown' /\ shown'[Len(shown) + 1].by = r.job
      <4>1. shown \in Seq(Message) /\ r.job \in Job
        BY <1>1 DEF TypeOK, WireTypeOK, Request
      <4>2. [born |-> r.job, by |-> r.job] \in Message
        BY <4>1 DEF Message
      <4> QED
        BY <2>6, <4>1, <4>2 DEF ApplySend
    <3> QED
      BY <3>2, <3>3 DEF Shows
  <2>7. Unanswered'
    BY <2>1, <2>4, <2>5 DEF WInv, Unanswered
  <2>8. EditsNewer'
    <3> SUFFICES ASSUME NEW s \in Sender, pc'[s] \in {"prepare", "await"}, plan'[s].method = "edit"
                 PROVE  (LET j == held[s].job IN
                         /\ HasRevision(j) /\ Shows(plan[s].msg, row[j].op)
                         /\ rendered[row[j].op] < row[j].rev)'
      BY DEF EditsNewer
    <3>1. plan'[s] = plan[s]
      BY <2>4, <2>5, <2>6
    <3> QED
      BY <1>1, <2>1, <3>1, PlanStays
  <2>9. PostsOwn'
    <3> SUFFICES ASSUME NEW s \in Sender, pc'[s] = "ack" \/ (pc'[s] = "await" /\ result'[s] = "ok"),
                        plan'[s].method = "send", row'[held'[s].job].op \in Operation
                 PROVE  (Shows(plan[s].msg, row[held[s].job].op))'
      BY DEF PostsOwn
    <3>1. CASE ~Waits(s, r)
      BY <1>1, <2>1, <2>4, <3>1, PlanStays
    <3>2. CASE Waits(s, r) /\ ApplySend(r)
      BY <2>6, <3>2
    <3>3. CASE Waits(s, r) /\ ~ApplySend(r)
      <4>1. pc[s] = "await" /\ plan[s].method = "send" /\ r.method = "send"
        BY <2>1, <2>5, <3>3
      <4>2. Refuse(r)
        BY <1>20, <3>3, <4>1 DEF ApplyEdit, Drop
      <4>3. result'[s] # "ok"
        BY <3>3, <4>2 DEF Refuse, Answer, Refusal
      <4> QED
        BY <2>1, <4>1, <4>3
    <3> QED
      BY <3>1, <3>2, <3>3
  <2> QED
    BY <1>4, <2>1, <2>2, <2>3, <2>7, <2>8, <2>9 DEF WInv
<1> QED
  BY <1>8, <1>9, <1>10, <1>11, <1>12, <1>13, <1>14, <1>15, <1>16, <1>17, <1>18, <1>19, <1>20
  DEF Next, SenderStep, Network

LEMMA WireInit ==
  ASSUME PipeInit
  PROVE  WInv
  BY DEF PipeInit, Init, WInv, EditsOwn, MessagesOwn, EditsNewer, PostsOwn, HeldExist,
         Unanswered

\* What a message shows stays, or becomes newer than what has been recorded, or is the
\* work of an edit nobody waits for.
LEMMA RendersStayStep ==
  ASSUME QInv, FollowInv, WInv, [PipeNext]_pipeVars, NEW m \in DOMAIN shown,
         HasRevision(shown[m].by), rendered[row[shown[m].by].op] = row[shown[m].by].rev
  PROVE  LateEdit(m) \/ /\ row[shown'[m].by].rev >= row[shown[m].by].rev
                        /\ ShowsResult(m) => event'[shown'[m].by] = event[shown[m].by]
<1> SUFFICES ASSUME ~LateEdit(m)
             PROVE  /\ row[shown'[m].by].rev >= row[shown[m].by].rev
                    /\ ShowsResult(m) => event'[shown'[m].by] = event[shown[m].by]
  OBVIOUS
<1>1. TypeOK /\ RowsInv /\ OperationsBound /\ EditsOwn /\ EditsNewer
  BY DEF QInv, RowsInv, WInv
<1>2. [Next]_vars \/ Stop
  BY <1>1, PipeQueue
<1>3. PICK i \in Job : i = shown[m].by
  BY <1>1, <1>2, StepShown
<1>4. PICK j \in Job : j = shown'[m].by
  BY <1>1, <1>2, StepShown
<1>5. /\ row[j].op = row[i].op /\ i \in Rows /\ row[i].op \in Operation
      /\ j = i \/ (HasRevision(j) /\ rendered[row[i].op] < row[j].rev)
  BY <1>1, <1>2, <1>3, <1>4, StepShown, RevisionOfRender
<1>6. row[i].rev \in Nat /\ row[j].rev \in Nat /\ rendered[row[i].op] = row[i].rev
  BY <1>1, <1>3 DEF TypeOK, QueueTypeOK, Row
<1>7. row[j].rev >= row[i].rev /\ (j # i => row[j].rev > row[i].rev)
  BY <1>5, <1>6
<1>8. ASSUME ShowsResult(m) PROVE event'[j] = event[i]
  <2>1. log[row[i].op][event[i]].last
    BY <1>3, <1>8 DEF ShowsResult
  <2>2. j \in Rows /\ row[j].rev <= row[i].rev
    BY <1>1, <1>3, <1>5, <2>1 DEF OperationsBound, FollowInv, ResultIsLast
  <2>3. j = i
    BY <1>6, <1>7, <2>2
  <2>4. event'[i] = event[i]
    <3>1. \A n : event' = [event EXCEPT ![jobs + 1] = n] => event'[i] = event[i]
      <4>1. i # jobs + 1
        BY <1>1, <1>5 DEF Rows, TypeOK, QueueTypeOK
      <4> QED
        BY <1>5, <4>1, StepRows DEF FollowInv, FollowerTypeOK
    <3>2. event' = event \/ \E n : event' = [event EXCEPT ![jobs + 1] = n]
      BY DEF PipeNext, Publish, Follow, Interfere, Capture, Accept, Enqueue, FailAccept, Restart,
             Deliver, Recover, Outside, pipeVars
    <3> QED
      BY <3>1, <3>2
  <2> QED
    BY <2>3, <2>4
<1> QED
  BY <1>3, <1>4, <1>7, <1>8

\* One sender takes no render back that a message has come to show: neither for an
\* older one, nor the result for anything, whatever answers are lost and however late
\* Telegram carries out a call. Only a late call itself may do so
\* (process_edit, record_outbound_acknowledgement, terminal_revision).
THEOREM ShownRendersStay ==
  ASSUME OneSender
  PROVE  PipeSpec => RendersStay
<1>1. PipeInit => QInv /\ FollowInv /\ WInv
  BY PipeInitHolds, WireInit
<1>2. QInv /\ FollowInv /\ WInv /\ [PipeNext]_pipeVars => (QInv /\ FollowInv /\ WInv)'
  <2> SUFFICES ASSUME QInv, FollowInv, WInv, [PipeNext]_pipeVars
               PROVE  QInv' /\ FollowInv' /\ WInv'
    OBVIOUS
  <2>1. [Next]_vars \/ Stop
    BY PipeQueue DEF QInv
  <2> QED
    BY <2>1, OneSender, PipeStep, WireStep
<1>3. QInv /\ FollowInv /\ WInv /\ [PipeNext]_pipeVars =>
        [\A m \in DOMAIN shown :
           LET j == shown[m].by IN
           HasRevision(j) /\ rendered[row[j].op] = row[j].rev
             => row[shown'[m].by].rev >= row[j].rev \/ LateEdit(m)]_vars
  BY RendersStayStep
<1>4. QInv /\ FollowInv /\ WInv /\ [PipeNext]_pipeVars =>
        [\A m \in DOMAIN shown :
           ShowsResult(m) => event'[shown'[m].by] = event[shown[m].by] \/ LateEdit(m)]_pipeVars
  BY RendersStayStep DEF ShowsResult
<1> QED
  BY <1>1, <1>2, <1>3, <1>4, PTL
  DEF PipeSpec, RendersStay, AcknowledgedRenderStays, ResultStays

-----------------------------------------------------------------------------
(***************************************************************************)
(* What is proved of the projection holds of the rows.                     *)
(***************************************************************************)

\* The projection as its proofs see it, with the rows for its edits.
PP == INSTANCE ProjectionProofs WITH
       edits <- [o \in Operation |-> Edits(o)], faults <- losses, MaxFaults <- MaxLosses

LEMMA SameProjection ==
  /\ P!Init => PP!Init
  /\ [P!Next]_(P!vars) => [PP!Next]_(PP!vars)
<1>1. \A S : P!Cardinality(S) = PP!Cardinality(S)
  BY DEF P!Cardinality, PP!Cardinality
<1>2. \A o \in Operation : P!Publish(o) => PP!Publish(o)
  BY DEF
    P!Publish, PP!Publish, P!Frame, PP!Frame, P!bindingVars, PP!bindingVars,
    P!followVars, PP!followVars
<1>3. \A o \in Operation : P!Bind(o) => PP!Bind(o)
  BY DEF
    P!Bind, PP!Bind, P!bindingVars, PP!bindingVars, P!followVars, PP!followVars
<1>4. \A o \in Operation : P!FollowerStep(o) => PP!FollowerStep(o)
  BY <1>1 DEF
    P!FollowerStep, PP!FollowerStep, P!Scan, PP!Scan, P!Open, PP!Open, P!Pump, PP!Pump,
    P!Confirm, PP!Confirm, P!Leave, PP!Leave, P!Followed, PP!Followed, P!Followable,
    PP!Followable, P!bindingVars, PP!bindingVars, P!followVars, PP!followVars
<1>5. \A o \in Operation : P!FollowerFault(o) => PP!FollowerFault(o)
  BY DEF
    P!FollowerFault, PP!FollowerFault, P!LoseSession, PP!LoseSession, P!Disconnect,
    PP!Disconnect, P!Redeliver, PP!Redeliver, P!Leave, PP!Leave, P!bindingVars,
    PP!bindingVars, P!followVars, PP!followVars
<1>6. \A o \in Operation : P!QueueStep(o) => PP!QueueStep(o)
  BY DEF
    P!QueueStep, PP!QueueStep, P!SenderTakes, PP!SenderTakes, P!SenderRetries,
    PP!SenderRetries, P!SenderEnds, PP!SenderEnds, P!SenderRecords, PP!SenderRecords,
    P!Change, PP!Change, P!QueueRest, PP!QueueRest, P!Delivered, PP!Delivered,
    P!bindingVars, PP!bindingVars, P!followVars, PP!followVars
<1>7. P!Consume => PP!Consume
  BY DEF
    P!Consume, PP!Consume, P!Event, PP!Event, P!Seen, PP!Seen, P!Judge, PP!Judge,
    P!Record, PP!Record, P!Refused, PP!Refused, P!Assigned, PP!Assigned, P!Swept,
    PP!Swept, P!bindingVars, PP!bindingVars, P!followVars, PP!followVars
<1>8. P!FailConsume => PP!FailConsume
  BY <1>1 DEF
    P!FailConsume, PP!FailConsume, P!bindingVars, PP!bindingVars, P!followVars,
    PP!followVars
<1>9. P!Quarantine => PP!Quarantine
  BY DEF
    P!Quarantine, PP!Quarantine, P!Taken, PP!Taken, P!QueueRest, PP!QueueRest,
    P!bindingVars, PP!bindingVars, P!followVars, PP!followVars
<1>10. P!Restart => PP!Restart
  BY DEF
    P!Restart, PP!Restart, P!Followed, PP!Followed, P!bindingVars, PP!bindingVars,
    P!followVars, PP!followVars
<1>11. P!Next => PP!Next
  <2> SUFFICES ASSUME P!Next PROVE PP!Next
    OBVIOUS
  <2>1. CASE \E o \in Operation : P!Publish(o) \/ P!Bind(o) \/ P!FollowerStep(o)
               \/ P!FollowerFault(o) \/ P!QueueStep(o)
    BY <2>1, <1>2, <1>3, <1>4, <1>5, <1>6, Zenon DEF PP!Next
  <2>2. CASE P!Consume \/ P!FailConsume \/ P!Quarantine \/ P!Restart
    BY <2>2, <1>7, <1>8, <1>9, <1>10, Zenon DEF PP!Next
  <2> QED
    BY <2>1, <2>2, Zenon DEF P!Next
<1>12. UNCHANGED P!vars => UNCHANGED PP!vars
  BY DEF P!vars, P!bindingVars, P!followVars, PP!vars, PP!bindingVars, PP!followVars
<1>13. P!Init => PP!Init
  BY DEF P!Init, PP!Init
<1> QED
  BY <1>11, <1>12, <1>13

\* The rows of the queue follow the log: whatever the senders do and however late
\* Telegram carries out a call, an operation's edit rows stand in the order of its
\* events, each once, the result last and one of them fresh, and the follower has
\* passed no frame that is not judged, in the feed or lost (accept_operation_event).
THEOREM RowsFollowTheLog ==
  ASSUME P!ProjectionAssumption
  PROVE  PipeSpec => [](P!RendersFollowTheLog /\ P!PassedFramesAccountedFor)
<1>1. PP!ProjectionAssumption
  BY DEF P!ProjectionAssumption, PP!ProjectionAssumption
<1>2. PP!Spec => [](PP!RendersFollowTheLog /\ PP!PassedFramesAccountedFor)
  BY <1>1, PP!Follow, PP!Accounted, PTL
<1>3. PP!RendersFollowTheLog => P!RendersFollowTheLog
  BY DEF
    P!RendersFollowTheLog, PP!RendersFollowTheLog, P!TypeOK, PP!TypeOK,
    P!RendersInOrder, PP!RendersInOrder, P!TerminalRenderIsLast,
    PP!TerminalRenderIsLast, P!OneFreshRender, PP!OneFreshRender, P!Frame, PP!Frame,
    P!Event, PP!Event, P!Edit, PP!Edit, P!Position, PP!Position, P!EditState,
    PP!EditState, P!Stage, PP!Stage
<1>4. PP!PassedFramesAccountedFor => P!PassedFramesAccountedFor
  BY DEF P!PassedFramesAccountedFor, PP!PassedFramesAccountedFor
<1>5. PipeSpec => P!Spec
  BY QueueImplementsProjection DEF ImplementsProjection
<1> QED
  BY <1>2, <1>3, <1>4, <1>5, SameProjection, PTL DEF P!Spec, PP!Spec

=============================================================================
