---------------------------- MODULE IntakeProofs ----------------------------
(***************************************************************************)
(* Proofs about UpdateIntake, for every set of updates and workers and     *)
(* every bound on hints, claims and faults: types and the schema's         *)
(* constraint, one announcement, truthful settlements, the bound on        *)
(* automatic claims, and that a settled update is not reopened.            *)
(***************************************************************************)
EXTENDS UpdateIntake, TLAPS

\* The update has what it asked for.
Done(u) == IF kind[u] = "capture" THEN u \in projected ELSE replies[u] > 0

\* What a worker is doing fits what its update asks for, and what it has learnt.
StageFits ==
  \A w \in Worker :
    /\ pc[w] \in {"submit", "project", "refuse"} => kind[held[w]] = "capture"
    /\ pc[w] = "reply" => kind[held[w]] = "reply"
    /\ pc[w] = "project" => held[w] \in answered

\* A worker that settles has come to an end or a retry, and to `processed' only
\* with the work done.
VerdictFits ==
  \A w \in Worker : pc[w] = "settle" =>
    /\ verdict[w] \in Final \cup {"retry"}
    /\ verdict[w] = "processed" => Done(held[w])

\* Nobody has claimed what has not been admitted.
AbsentUnclaimed == \A u \in Update : state[u] = "absent" => attempts[u] = 0

IInv == /\ TypeOK
        /\ StageFits
        /\ VerdictFits
        /\ AbsentUnclaimed
        /\ RecoveryBound
        /\ AnnouncedOnce
        /\ ProcessedIsDone

-----------------------------------------------------------------------------
(* Rows: the statements that write state, lease, attempts or due *)

RowTypeOK ==
  /\ \A u \in Update : RowAllowed(state[u], lease[u])
  /\ kind \in [Update -> Action]
  /\ state \in [Update -> State]
  /\ attempts \in [Update -> Nat]
  /\ due \in [Update -> BOOLEAN]
  /\ lease \in [Update -> Lease]

RowInv == RowTypeOK /\ AbsentUnclaimed /\ RecoveryBound

\* Whatever a worker writes at the end, late or not, the row stays one the schema
\* allows and the operator's.
LEMMA WriteRow ==
  ASSUME RowInv, NEW u \in Update, NEW s \in Final \cup {"accepted", "recovery_required"},
         Write(u, s), UNCHANGED <<kind, attempts>>, due' \in [Update -> BOOLEAN],
         s = "accepted" => attempts[u] < MaxAttempts,
         s = "recovery_required" => attempts[u] >= MaxAttempts
  PROVE  RowInv'
<1>1. RowTypeOK'
  BY DEF RowInv, RowTypeOK, Write, RowAllowed, State, Processable, Final, Lease
<1>2. AbsentUnclaimed' /\ RecoveryBound'
  BY DEF RowInv, RowTypeOK, Write, AbsentUnclaimed, RecoveryBound, Final
<1> QED
  BY <1>1, <1>2 DEF RowInv

\* A claim, and its renewal on entry, leave a live lease on a processing row.
LEMMA HoldRow ==
  ASSUME RowInv, NEW u \in Update, state[u] # "absent",
         state' = [state EXCEPT ![u] = "processing"], lease' = [lease EXCEPT ![u] = "live"],
         attempts' \in {attempts, [attempts EXCEPT ![u] = @ + 1]}, UNCHANGED <<kind, due>>
  PROVE  RowInv'
<1>1. RowTypeOK'
  BY DEF RowInv, RowTypeOK, RowAllowed, State, Processable, Lease
<1>2. AbsentUnclaimed' /\ RecoveryBound'
  BY DEF RowInv, RowTypeOK, AbsentUnclaimed, RecoveryBound
<1> QED
  BY <1>1, <1>2 DEF RowInv

LEMMA AdmitRow ==
  ASSUME RowInv, NEW u \in Update, state[u] = "absent",
         state' = [state EXCEPT ![u] = "accepted"], due' = [due EXCEPT ![u] = TRUE],
         UNCHANGED <<kind, attempts, lease>>
  PROVE  RowInv'
<1>1. RowTypeOK'
  BY DEF RowInv, RowTypeOK, RowAllowed, State, Processable, Lease
<1>2. AbsentUnclaimed' /\ RecoveryBound'
  BY IntakeAssumption DEF RowInv, RowTypeOK, AbsentUnclaimed, RecoveryBound
<1> QED
  BY <1>1, <1>2 DEF RowInv

LEMMA SameRow == RowInv /\ UNCHANGED rowVars => RowInv'
  BY DEF RowInv, RowTypeOK, RowAllowed, AbsentUnclaimed, RecoveryBound, rowVars

-----------------------------------------------------------------------------
(* Workers: what they hold, where they stand, and what has been done *)

WorkTypeOK ==
  /\ acked \in SUBSET Update
  /\ hints \in [Worker -> 0..QueueCapacity]
  /\ pc \in [Worker -> Stage]
  /\ held \in [Worker -> Update]
  /\ verdict \in [Worker -> Verdict]
  /\ operations \in SUBSET Update
  /\ answered \in SUBSET operations
  /\ projected \in SUBSET answered
  /\ notices \in [Update -> Nat]
  /\ replies \in [Update -> Nat]
  /\ report \in Report
  /\ faults \in 0..MaxFaults

WorkInv == WorkTypeOK /\ StageFits /\ VerdictFits /\ AnnouncedOnce

LEMMA Parts == IInv <=> RowInv /\ WorkInv /\ ProcessedIsDone
  BY DEF IInv, TypeOK, RowInv, RowTypeOK, WorkInv, WorkTypeOK

LEMMA Joined == RowInv' /\ WorkInv' /\ ProcessedIsDone' => IInv'
  BY DEF IInv, TypeOK, RowInv, RowTypeOK, WorkInv, WorkTypeOK

\* Moving to a stage that promises nothing.
Free == {"idle", "enter", "decide", "fallback"}

LEMMA MoveWork ==
  ASSUME WorkInv, NEW w \in Worker, NEW to \in Free, Go(w, to),
         held' \in [Worker -> Update], \A v \in Worker \ {w} : held'[v] = held[v],
         verdict' \in [Worker -> Verdict], \A v \in Worker \ {w} : verdict'[v] = verdict[v],
         hints' \in [Worker -> 0..QueueCapacity], faults' \in 0..MaxFaults,
         UNCHANGED <<kind, acked, domainVars, report>>
  PROVE  WorkInv'
<1>1. WorkTypeOK'
  BY DEF WorkInv, WorkTypeOK, Go, Free, Stage, domainVars
<1>2. \A v \in Worker : pc'[v] = IF v = w THEN to ELSE pc[v]
  BY DEF WorkInv, WorkTypeOK, Go
<1>3. StageFits' /\ VerdictFits' /\ AnnouncedOnce'
  BY <1>2 DEF WorkInv, StageFits, VerdictFits, Done, AnnouncedOnce, Free, domainVars
<1> QED
  BY <1>1, <1>3 DEF WorkInv

LEMMA RestWork ==
  ASSUME WorkInv, NEW w \in Worker, Rest(w),
         hints' \in [Worker -> 0..QueueCapacity], faults' \in 0..MaxFaults,
         UNCHANGED <<kind, acked, domainVars, report>>
  PROVE  WorkInv'
  BY MoveWork DEF Rest, Free, WorkInv, WorkTypeOK, Verdict

\* Workers stay where they are.
LEMMA SameWork ==
  ASSUME WorkInv, acked' \in SUBSET Update, hints' \in [Worker -> 0..QueueCapacity],
         report' \in Report, faults' \in 0..MaxFaults, UNCHANGED <<kind, workerVars, domainVars>>
  PROVE  WorkInv'
  BY DEF WorkInv, WorkTypeOK, StageFits, VerdictFits, Done, AnnouncedOnce, workerVars, domainVars

\* Work that has been done stays done.
LEMMA StayDone ==
  ASSUME ProcessedIsDone, UNCHANGED kind, projected \subseteq projected',
         \A u \in Update : replies[u] > 0 => replies'[u] > 0,
         \A u \in Update : state'[u] = "processed" => state[u] = "processed" \/ Done(u)
  PROVE  ProcessedIsDone'
  BY DEF ProcessedIsDone, Done

-----------------------------------------------------------------------------
(* The invariant *)

LEMMA InitInv == Init => IInv
<1> SUFFICES ASSUME Init PROVE IInv
  OBVIOUS
<1>1. (CHOOSE u \in Update : TRUE) \in Update
  BY IntakeAssumption
<1>2. RowInv
  BY IntakeAssumption
  DEF Init, RowInv, RowTypeOK, RowAllowed, State, Lease, AbsentUnclaimed, RecoveryBound
<1>3. WorkInv
  BY <1>1, IntakeAssumption
  DEF Init, WorkInv, WorkTypeOK, Stage, Verdict, Report, StageFits, VerdictFits, AnnouncedOnce
<1>4. ProcessedIsDone
  BY DEF Init, ProcessedIsDone
<1> QED
  BY <1>2, <1>3, <1>4, Parts

LEMMA StepInv == IInv /\ [Next]_vars => IInv'
<1> SUFFICES ASSUME IInv, [Next]_vars PROVE IInv'
  OBVIOUS
<1> USE DEF rowVars, edgeVars, workerVars, domainVars
<1>0. RowInv /\ WorkInv /\ ProcessedIsDone
  BY Parts
<1>1. ASSUME NEW u \in Update, NEW w \in Worker, Admit(u, w) PROVE IInv'
  <2>1. RowInv'
    BY <1>0, <1>1, AdmitRow, SameRow DEF Admit
  <2>2. acked' \in SUBSET Update /\ hints' \in [Worker -> 0..QueueCapacity]
    BY <1>0, <1>1, IntakeAssumption DEF Admit, WorkInv, WorkTypeOK
  <2>3. WorkInv'
    BY <1>0, <1>1, <2>2, SameWork DEF Admit, WorkInv, WorkTypeOK
  <2>4. ProcessedIsDone'
    BY <1>0, <1>1, StayDone DEF Admit, RowInv, RowTypeOK
  <2> QED
    BY <2>1, <2>3, <2>4, Joined
<1>2. ASSUME NEW u \in Update, AdmitUnanswered(u) PROVE IInv'
  <2>1. RowInv'
    BY <1>0, <1>2, AdmitRow DEF AdmitUnanswered
  <2>2. WorkInv'
    BY <1>0, <1>2, SameWork, IntakeAssumption DEF AdmitUnanswered, SpendFault, WorkInv, WorkTypeOK
  <2>3. ProcessedIsDone'
    BY <1>0, <1>2, StayDone DEF AdmitUnanswered, RowInv, RowTypeOK
  <2> QED
    BY <2>1, <2>2, <2>3, Joined
<1>3. ASSUME NEW u \in Update, BecomeDue(u) \/ ExpireLease(u) \/ RecoverStuck(u) PROVE IInv'
  <2>1. state' = state
    BY <1>0, <1>3 DEF BecomeDue, ExpireLease, RecoverStuck, RowInv, RowTypeOK, RowAllowed
  <2>2. RowInv'
    BY <1>0, <1>3, <2>1
   
   DEF BecomeDue, ExpireLease, RecoverStuck, RowInv, RowTypeOK, RowAllowed, Lease,
       AbsentUnclaimed, RecoveryBound
  <2>3. WorkInv'
    BY <1>0, <1>3, SameWork, IntakeAssumption
    DEF BecomeDue, ExpireLease, RecoverStuck, SpendFault, Report, WorkInv, WorkTypeOK
  <2>4. ProcessedIsDone'
    BY <1>0, <1>3, <2>1, StayDone DEF BecomeDue, ExpireLease, RecoverStuck
  <2> QED
    BY <2>2, <2>3, <2>4, Joined
<1>4. ASSUME NEW w \in Worker, Claim(w) PROVE IInv'
  <2> PICK u \in Update : /\ Claimable(u)
                          /\ state' = [state EXCEPT ![u] = "processing"]
                          /\ lease' = [lease EXCEPT ![u] = "live"]
                          /\ attempts' = [attempts EXCEPT ![u] = @ + 1]
                          /\ held' = [held EXCEPT ![w] = u]
    BY <1>4 DEF Claim
  <2>1. RowInv'
    BY <1>0, <1>4, HoldRow DEF Claim, Claimable
  <2>2. WorkInv'
    BY <1>0, <1>4, MoveWork DEF Claim, Free, WorkInv, WorkTypeOK
  <2>3. ProcessedIsDone'
    BY <1>0, <1>4, StayDone DEF Claim, RowInv, RowTypeOK
  <2> QED
    BY <2>1, <2>2, <2>3, Joined
<1>5. ASSUME NEW w \in Worker, Wake(w) PROVE IInv'
  <2>1. RowInv'
    BY <1>0, <1>5, SameRow DEF Wake
  <2>2. hints' \in [Worker -> 0..QueueCapacity]
    BY <1>0, <1>5, IntakeAssumption DEF Wake, WorkInv, WorkTypeOK
  <2>3. WorkInv'
    BY <1>0, <1>5, <2>2, SameWork DEF Wake, WorkInv, WorkTypeOK
  <2>4. ProcessedIsDone'
    BY <1>0, <1>5, StayDone DEF Wake
  <2> QED
    BY <2>1, <2>3, <2>4, Joined
<1>6. ASSUME NEW w \in Worker, Enter(w) PROVE IInv'
  <2>0. held[w] \in Update
    BY <1>0 DEF WorkInv, WorkTypeOK
  <2>1. RowInv'
    BY <1>0, <1>6, <2>0, HoldRow, SameRow DEF Enter, Processable
  <2>2. WorkInv'
    BY <1>0, <1>6, MoveWork, RestWork DEF Enter, Free, WorkInv, WorkTypeOK
  <2>3. ProcessedIsDone'
    BY <1>0, <1>6, <2>0, StayDone DEF Enter, RowInv, RowTypeOK
  <2> QED
    BY <2>1, <2>2, <2>3, Joined
<1>7. ASSUME NEW w \in Worker, Unreadable(w) \/ Decide(w) PROVE IInv'
  <2>1. RowInv'
    BY <1>0, <1>7, SameRow DEF Unreadable, Decide
  <2>2. CASE Unreadable(w)
    <3>1. WorkInv'
      BY <1>0, <2>2, MoveWork DEF Unreadable, Free, WorkInv, WorkTypeOK
    <3> QED
      BY <1>0, <2>1, <2>2, <3>1, StayDone, Joined DEF Unreadable
  <2>3. CASE Decide(w)
    <3>1. WorkTypeOK'
      BY <1>0, <2>3, IntakeAssumption
      DEF Decide, Conclude, Go, SpendFault, WorkInv, WorkTypeOK, Stage, Verdict, Final
    <3>2. StageFits' /\ VerdictFits' /\ AnnouncedOnce'
      BY <1>0, <2>3
     
     DEF Decide, Conclude, Go, WorkInv, WorkTypeOK, StageFits, VerdictFits, Done, AnnouncedOnce,
         Final
    <3> QED
      BY <1>0, <2>1, <2>3, <3>1, <3>2, StayDone, Joined DEF Decide, WorkInv
  <2> QED
    BY <1>7, <2>2, <2>3
<1>8. ASSUME NEW w \in Worker, SubmitAccepted(w) \/ SubmitRefused(w) \/ SubmitExhausted(w)
      PROVE  IInv'
  <2>1. RowInv'
    BY <1>0, <1>8, SameRow DEF SubmitAccepted, SubmitRefused, SubmitExhausted
  <2>2. WorkTypeOK'
    BY <1>0, <1>8, IntakeAssumption
    DEF SubmitAccepted, SubmitRefused, SubmitExhausted, Go, SpendFault, WorkInv, WorkTypeOK, Stage
  <2>3. StageFits' /\ VerdictFits' /\ AnnouncedOnce'
    BY <1>0, <1>8
    DEF SubmitAccepted, SubmitRefused, SubmitExhausted, Go, WorkInv, WorkTypeOK, StageFits,
        VerdictFits, Done, AnnouncedOnce
  <2>4. ProcessedIsDone'
    BY <1>0, <1>8, StayDone DEF SubmitAccepted, SubmitRefused, SubmitExhausted
  <2> QED
    BY <2>1, <2>2, <2>3, <2>4, Joined DEF WorkInv
<1>9. ASSUME NEW w \in Worker, Project(w) \/ ProjectFails(w) PROVE IInv'
  <2>0. held[w] \in answered /\ kind[held[w]] = "capture"
    BY <1>0, <1>9 DEF Project, ProjectFails, WorkInv, StageFits
  <2>1. RowInv'
    BY <1>0, <1>9, SameRow DEF Project, ProjectFails
  <2>2. projected \subseteq projected' /\ projected' \subseteq answered
        /\ (notices' = notices \/ Announce(held[w]))
    BY <1>0, <1>9, <2>0 DEF Project, ProjectFails, WorkInv, WorkTypeOK
  <2>3. notices' \in [Update -> Nat] /\ AnnouncedOnce'
    BY <1>0, <2>2 DEF Announce, AnnouncedOnce, WorkInv, WorkTypeOK
  <2>4. WorkTypeOK'
    BY <1>0, <1>9, <2>2, <2>3, IntakeAssumption
    DEF Project, ProjectFails, PendingVerdict, Conclude, Go, SpendFault, WorkInv, WorkTypeOK,
        Stage, Verdict, Final
  <2>5. StageFits'
    BY <1>0, <1>9 DEF Project, ProjectFails, Conclude, Go, WorkInv, WorkTypeOK, StageFits
  <2>6. VerdictFits'
    BY <1>0, <1>9, <2>0, <2>2
    DEF Project, ProjectFails, PendingVerdict, Conclude, Go, WorkInv, WorkTypeOK, VerdictFits,
        Done, Final
  <2>7. ProcessedIsDone'
    BY <1>0, <1>9, <2>2, StayDone DEF Project, ProjectFails
  <2> QED
    BY <2>1, <2>3, <2>4, <2>5, <2>6, <2>7, Joined DEF WorkInv
<1>10. ASSUME NEW w \in Worker, Refuse(w) \/ Reply(w) PROVE IInv'
  <2>1. RowInv'
    BY <1>0, <1>10, SameRow DEF Refuse, Reply
  <2>2. held[w] \in Update /\ faults' \in 0..MaxFaults /\ replies' \in [Update -> Nat]
        /\ (faults' = faults => replies'[held[w]] > 0)
        /\ \A u \in Update : replies[u] > 0 => replies'[u] > 0
    BY <1>0, <1>10, IntakeAssumption DEF Refuse, Reply, Enqueue, SpendFault, WorkInv, WorkTypeOK
  <2>3. WorkTypeOK'
    BY <1>0, <1>10, <2>2
    DEF Refuse, Reply, Conclude, Go, WorkInv, WorkTypeOK, Stage, Verdict, Final
  <2>4. StageFits' /\ AnnouncedOnce'
    BY <1>0, <1>10 DEF Refuse, Reply, Conclude, Go, WorkInv, WorkTypeOK, StageFits, AnnouncedOnce
  <2>5. VerdictFits'
    BY <1>0, <1>10, <2>2
    DEF Refuse, Reply, Conclude, Go, WorkInv, WorkTypeOK, StageFits, VerdictFits, Done, Final
  <2>6. ProcessedIsDone'
    BY <1>0, <1>10, <2>2, StayDone DEF Refuse, Reply
  <2> QED
    BY <2>1, <2>3, <2>4, <2>5, <2>6, Joined DEF WorkInv
<1>11. ASSUME NEW w \in Worker, Settle(w) \/ SettleFails(w) \/ Fallback(w) PROVE IInv'
  <2>0. held[w] \in Update /\ (pc[w] = "settle" => verdict[w] \in Final \cup {"retry"})
        /\ (pc[w] = "settle" /\ verdict[w] = "processed" => Done(held[w]))
    BY <1>0 DEF WorkInv, WorkTypeOK, VerdictFits
  <2>1. PICK s \in Final : /\ Write(held[w], s) \/ UNCHANGED <<state, lease>>
                           /\ s = "processed" => Done(held[w])
    BY <1>11, <2>0 DEF Settle, SettleFails, Fallback, Final
  <2>2. UNCHANGED <<kind, attempts, due, edgeVars, domainVars, report>> /\ UNCHANGED held
    BY <1>11 DEF Settle, SettleFails, Fallback, Rest
  <2>3. RowInv'
    <3>1. CASE Write(held[w], s)
      BY <1>0, <2>0, <2>2, <3>1, WriteRow DEF Final, RowInv, RowTypeOK
    <3>2. CASE UNCHANGED <<state, lease>>
      BY <1>0, <2>2, <3>2, SameRow
    <3> QED
      BY <2>1, <3>1, <3>2
  <2>4. WorkInv'
    <3>1. faults' \in 0..MaxFaults
      BY <1>0, <1>11, IntakeAssumption
      DEF Settle, SettleFails, Fallback, SpendFault, WorkInv, WorkTypeOK
    <3> QED
      BY <1>0, <1>11, <2>2, <3>1, RestWork, MoveWork
      DEF Settle, SettleFails, Fallback, Free, WorkInv, WorkTypeOK
  <2>5. ProcessedIsDone'
    BY <1>0, <2>0, <2>1, <2>2, StayDone DEF Write, RowInv, RowTypeOK
  <2> QED
    BY <2>3, <2>4, <2>5, Joined
<1>12. ASSUME NEW w \in Worker, Defer(w) PROVE IInv'
  <2>0. held[w] \in Update
    BY <1>0 DEF WorkInv, WorkTypeOK
  <2>1. ASSUME state[held[w]] = "processing" PROVE RowInv' /\ ProcessedIsDone'
    <3>1. /\ Write(held[w], Released(held[w])) /\ due' \in [Update -> BOOLEAN]
          /\ UNCHANGED <<kind, attempts>>
      BY <1>0, <1>12, <2>0, <2>1 DEF Defer, RowInv, RowTypeOK
    <3>2. /\ Released(held[w]) \in {"accepted", "recovery_required"}
          /\ Released(held[w]) = "accepted" => attempts[held[w]] < MaxAttempts
          /\ Released(held[w]) = "recovery_required" => attempts[held[w]] >= MaxAttempts
      BY <1>0, <2>0, IntakeAssumption DEF Released, RowInv, RowTypeOK
    <3>3. RowInv'
      BY <1>0, <2>0, <3>1, <3>2, WriteRow
    <3>4. ProcessedIsDone'
      BY <1>0, <1>12, <2>0, <3>1, <3>2, StayDone DEF Defer, Write, RowInv, RowTypeOK
    <3> QED
      BY <3>3, <3>4
  <2>2. ASSUME state[held[w]] # "processing" PROVE RowInv' /\ ProcessedIsDone'
    BY <1>0, <1>12, <2>2, SameRow, StayDone DEF Defer
  <2>3. WorkInv'
    BY <1>0, <1>12, RestWork DEF Defer, WorkInv, WorkTypeOK
  <2>4. RowInv' /\ ProcessedIsDone'
    BY <2>1, <2>2
  <2> QED
    BY <2>3, <2>4, Joined
<1>13. ASSUME NEW w \in Worker, Crash(w) PROVE IInv'
  <2>1. hints' \in [Worker -> 0..QueueCapacity] /\ faults' \in 0..MaxFaults
    BY <1>0, <1>13, IntakeAssumption DEF Crash, SpendFault, WorkInv, WorkTypeOK
  <2>2. WorkInv'
    BY <1>0, <1>13, <2>1, RestWork DEF Crash
  <2> QED
    BY <1>0, <1>13, <2>2, SameRow, StayDone, Joined DEF Crash
<1>14. CASE UNCHANGED vars
  BY <1>0, <1>14, SameRow, SameWork, StayDone, Joined DEF vars, WorkInv, WorkTypeOK
<1> QED
  BY <1>1, <1>2, <1>3, <1>4, <1>5, <1>6, <1>7, <1>8, <1>9, <1>10, <1>11, <1>12, <1>13, <1>14
  DEF Next, WorkerStep, WorkerFault, Act

-----------------------------------------------------------------------------
(* The theorems *)

\* Over any workers, faults and lease expiries, the invariant holds: rows fit the
\* schema, workers their rows (process_one_with_recovery).
THEOREM Invariance == Spec => []IInv
  BY InitInv, StepInv, PTL DEF Spec

\* Every variable keeps its type, and no statement writes a row the schema's CHECK
\* constraint refuses (settle_update, defer_update_retry, claim_update).
THEOREM TypeCorrect == Spec => []TypeOK
<1>1. IInv => TypeOK
  BY DEF IInv
<1> QED
  BY <1>1, Invariance, PTL

\* A capture is announced at most once, by any number of workers that hold it
\* (record_accepted_capture_projection).
THEOREM Announced == Spec => []AnnouncedOnce
<1>1. IInv => AnnouncedOnce
  BY DEF IInv
<1> QED
  BY <1>1, Invariance, PTL

\* `processed' is only ever written of work that was done
\* (process_one_with_recovery, settle_update).
THEOREM Processed == Spec => []ProcessedIsDone
<1>1. IInv => ProcessedIsDone
  BY DEF IInv
<1> QED
  BY <1>1, Invariance, PTL

\* What waits for a claim has claims left, and the operator is handed nothing
\* before they are used up (defer_update_retry).
THEOREM Bounded == Spec => []RecoveryBound
<1>1. IInv => RecoveryBound
  BY DEF IInv
<1> QED
  BY <1>1, Invariance, PTL

LEMMA StepSettled ==
  ASSUME IInv, [Next]_vars, NEW u \in Update, state[u] \in Final
  PROVE  state'[u] \in Final
<1>1. RowInv /\ WorkInv
  BY Parts
<1>2. /\ state \in [Update -> State] /\ held \in [Worker -> Update]
      /\ \A w \in Worker : pc[w] = "settle" => verdict[w] \in Final \cup {"retry"}
      /\ \A v \in Update : RowAllowed(state[v], lease[v])
  BY <1>1 DEF RowInv, RowTypeOK, WorkInv, WorkTypeOK, VerdictFits
<1> USE DEF rowVars
<1>3. ASSUME NEW v \in Update, NEW w \in Worker, Admit(v, w) PROVE state'[u] \in Final
  BY <1>2, <1>3 DEF Admit, Final
<1>4. ASSUME NEW v \in Update,
             BecomeDue(v) \/ ExpireLease(v) \/ RecoverStuck(v) \/ AdmitUnanswered(v)
      PROVE  state'[u] \in Final
  BY <1>2, <1>4 DEF BecomeDue, ExpireLease, RecoverStuck, AdmitUnanswered, RowAllowed, Final
<1>5. ASSUME NEW w \in Worker, Claim(w) \/ Enter(w) \/ Defer(w) PROVE state'[u] \in Final
  BY <1>2, <1>5 DEF Claim, Claimable, Enter, Defer, Write, Processable, Final
<1>6. ASSUME NEW w \in Worker, Settle(w) \/ SettleFails(w) \/ Fallback(w)
      PROVE  state'[u] \in Final
  BY <1>2, <1>6 DEF Settle, SettleFails, Fallback, Write, Final
<1>7. ASSUME NEW w \in Worker,
             \/ Wake(w) \/ Unreadable(w) \/ Decide(w) \/ Act(w)
             \/ SubmitExhausted(w) \/ ProjectFails(w) \/ Crash(w)
      PROVE  state'[u] \in Final
  BY <1>7
  DEF Wake, Unreadable, Decide, Act, SubmitAccepted, SubmitRefused, Project, Refuse, Reply,
              SubmitExhausted, ProjectFails, Crash
<1>8. CASE UNCHANGED vars
  BY <1>8 DEF vars
<1> QED
  BY <1>3, <1>4, <1>5, <1>6, <1>7, <1>8 DEF Next, WorkerStep, WorkerFault

\* No late worker, fallback, retry or operator statement reopens a settled update
\* (settle_update and the payload constraint).
THEOREM Settled == Spec => SettledStaysSettled
<1>1. IInv /\ [Next]_vars => [\A u \in Update : state[u] \in Final => state'[u] \in Final]_vars
  BY StepSettled
<1> QED
  BY <1>1, InitInv, StepInv, PTL DEF Spec, SettledStaysSettled

=============================================================================
