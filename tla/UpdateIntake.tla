---------------------------- MODULE UpdateIntake ----------------------------
(***************************************************************************)
(* The webhook: admission of Telegram updates into telegram.updates, the   *)
(* ledger that is both the deduplication record and the work queue, and    *)
(* the worker that claims an update, acts on it and settles it.            *)
(*                                                                         *)
(* Of the actions an update may ask for, a capture is kept in its steps    *)
(* (Platform's answer, the local projection, the refusal), and every other *)
(* supported update is one reply.  Texts and payloads are not looked into; *)
(* a row has its payload exactly while it is processable, which the schema *)
(* enforces.  Clocks are abstracted to what the SQL compares: `due' and    *)
(* whether a lease is `live' or `expired'.                                 *)
(***************************************************************************)
EXTENDS Naturals, FiniteSets

CONSTANTS
  Update,         \* update ids
  Mixes,          \* what the updates may ask for
  Worker,         \* worker tasks, one per webhook process
  QueueCapacity,  \* wake-up hints a process holds (QUEUE_CAPACITY)
  MaxAttempts,    \* UPDATE_RECOVERY_ATTEMPTS
  MaxFaults       \* bound on crashes, stalls, storage errors and lost answers

Action == {"capture", "reply", "none", "unreadable"}

ASSUME IntakeAssumption ==
  /\ Update # {}
  /\ Mixes \subseteq [Update -> Action]
  /\ {QueueCapacity, MaxAttempts} \subseteq Nat \ {0}
  /\ MaxFaults \in Nat

VARIABLES
  \* telegram.updates
  kind,        \* what the stored payload asks for
  state,
  attempts,
  due,
  lease,
  \* Telegram and the processes' queues
  acked,       \* updates Telegram was answered 200 for
  hints,       \* wake-ups in a process's queue
  \* the workers
  pc,
  held,        \* the claimed update
  verdict,     \* how processing ended
  \* what processing has done
  operations,  \* captures Platform has accepted
  answered,    \* captures whose acceptance a worker has learnt
  projected,   \* captures with their binding, intent and acknowledgement
  notices,     \* acknowledgement jobs of a capture
  replies,     \* reply jobs of an update
  \* the operator
  report,      \* what the last recover-stuck-update run said
  faults

rowVars    == <<kind, state, attempts, due, lease>>
edgeVars   == <<acked, hints>>
workerVars == <<pc, held, verdict>>
domainVars == <<operations, answered, projected, notices, replies>>
vars == <<rowVars, edgeVars, workerVars, domainVars, report, faults>>

Processable == {"accepted", "processing", "recovery_required"}
Final       == {"processed", "unsupported", "failed", "denied"}
State       == {"absent"} \cup Processable \cup Final
Lease       == {"none", "live", "expired"}
Stage       == {"idle", "enter", "decide", "submit", "project", "refuse", "reply", "settle",
                "fallback"}
Verdict     == Final \cup {"none", "retry"}
Report      == {"none", "recovered_one", "refused_state_mismatch", "error"}

\* The schema's CHECK constraints on a row: a lease exists only while processing.
RowAllowed(s, l) == (s = "processing") = (l # "none")

Init ==
  /\ kind \in Mixes
  /\ state = [u \in Update |-> "absent"]
  /\ attempts = [u \in Update |-> 0]
  /\ due = [u \in Update |-> FALSE]
  /\ lease = [u \in Update |-> "none"]
  /\ acked = {}
  /\ hints = [w \in Worker |-> 0]
  /\ pc = [w \in Worker |-> "idle"]
  /\ held = [w \in Worker |-> CHOOSE u \in Update : TRUE]
  /\ verdict = [w \in Worker |-> "none"]
  /\ operations = {}
  /\ answered = {}
  /\ projected = {}
  /\ notices = [u \in Update |-> 0]
  /\ replies = [u \in Update |-> 0]
  /\ report = "none"
  /\ faults = 0

SpendFault == faults < MaxFaults /\ faults' = faults + 1

-----------------------------------------------------------------------------
(* Admission *)

\* A delivery reaches process w while its queue has room: the insert decides.
\* A duplicate gives its reserved place back.
Admit(u, w) ==
  /\ hints[w] < QueueCapacity
  /\ u \notin acked
  /\ acked' = acked \cup {u}
  /\ IF state[u] = "absent"
     THEN /\ state' = [state EXCEPT ![u] = "accepted"]
          /\ due' = [due EXCEPT ![u] = TRUE]
          /\ hints' = [hints EXCEPT ![w] = @ + 1]
     ELSE UNCHANGED <<state, due, hints>>
  /\ UNCHANGED <<kind, attempts, lease, workerVars, domainVars, report, faults>>

\* The insert commits and its answer is lost: Telegram sees a 503 or nothing,
\* and will deliver again.
AdmitUnanswered(u) ==
  /\ state[u] = "absent" /\ SpendFault
  /\ state' = [state EXCEPT ![u] = "accepted"]
  /\ due' = [due EXCEPT ![u] = TRUE]
  /\ UNCHANGED <<kind, attempts, lease, edgeVars, workerVars, domainVars, report>>

-----------------------------------------------------------------------------
(* The worker *)

\* Mutant of Claimable: leases never expire.
ClaimableAccepted(u) == state[u] = "accepted" /\ due[u]

Claimable(u) == \/ state[u] = "accepted" /\ due[u]
                \/ state[u] = "processing" /\ lease[u] = "expired"

Go(w, to) == pc' = [pc EXCEPT ![w] = to]

Rest(w) == Go(w, "idle") /\ verdict' = [verdict EXCEPT ![w] = "none"] /\ UNCHANGED held

Conclude(w, v) == Go(w, "settle") /\ verdict' = [verdict EXCEPT ![w] = v] /\ UNCHANGED held

\* claim_update.  Among the eligible rows the choice is left open: the model
\* keeps no received_at.
Claim(w) ==
  /\ pc[w] = "idle"
  /\ \E u \in Update :
       /\ Claimable(u)
       /\ state' = [state EXCEPT ![u] = "processing"]
       /\ lease' = [lease EXCEPT ![u] = "live"]
       /\ attempts' = [attempts EXCEPT ![u] = @ + 1]
       /\ held' = [held EXCEPT ![w] = u]
  /\ Go(w, "enter")
  /\ UNCHANGED <<kind, due, edgeVars, verdict, domainVars, report, faults>>

\* Nothing to claim: one hint is consumed.
Wake(w) ==
  /\ pc[w] = "idle" /\ hints[w] > 0
  /\ \A u \in Update : ~Claimable(u)
  /\ hints' = [hints EXCEPT ![w] = @ - 1]
  /\ UNCHANGED <<rowVars, acked, workerVars, domainVars, report, faults>>

\* Mutant of Enter: the row is taken over whatever its state.
EnterAnyState(w) ==
  LET u == held[w] IN
  /\ pc[w] = "enter" /\ kind[u] # "unreadable"
  /\ state' = [state EXCEPT ![u] = "processing"]
  /\ lease' = [lease EXCEPT ![u] = "live"]
  /\ Go(w, "decide")
  /\ UNCHANGED <<kind, attempts, due, edgeVars, held, verdict, domainVars, report, faults>>

\* settle_update(Processing) renews the lease, whoever holds the row now.  A
\* settled row has lost its payload and cannot be processing: the CHECK refuses.
Enter(w) ==
  LET u == held[w] IN
  /\ pc[w] = "enter" /\ kind[u] # "unreadable"
  /\ IF state[u] \in Processable
     THEN /\ state' = [state EXCEPT ![u] = "processing"]
          /\ lease' = [lease EXCEPT ![u] = "live"]
          /\ Go(w, "decide") /\ UNCHANGED <<held, verdict>>
     ELSE Rest(w) /\ UNCHANGED <<state, lease>>
  /\ UNCHANGED <<kind, attempts, due, edgeVars, domainVars, report, faults>>

\* The stored payload cannot be parsed: `failed' is written at once.
Unreadable(w) ==
  /\ pc[w] = "enter" /\ kind[held[w]] = "unreadable"
  /\ Go(w, "fallback")
  /\ UNCHANGED <<rowVars, edgeVars, held, verdict, domainVars, report, faults>>

\* Unsupported kinds end here; others pass the access gate, are refused by it,
\* or fail when the policy cannot be read.
Decide(w) ==
  LET a == kind[held[w]] IN
  /\ pc[w] = "decide"
  /\ \/ a = "none" /\ Conclude(w, "unsupported") /\ UNCHANGED faults
     \/ a # "none" /\ Conclude(w, "denied") /\ UNCHANGED faults
     \/ a # "none" /\ Conclude(w, "failed") /\ SpendFault
     \/ a = "capture" /\ Go(w, "submit") /\ UNCHANGED <<held, verdict, faults>>
     \/ a = "reply" /\ Go(w, "reply") /\ UNCHANGED <<held, verdict, faults>>
  /\ UNCHANGED <<rowVars, edgeVars, domainVars, report>>

\* Platform answers an acceptance, which its idempotency key makes the same
\* operation every time.
SubmitAccepted(w) ==
  /\ pc[w] = "submit"
  /\ operations' = operations \cup {held[w]}
  /\ answered' = answered \cup {held[w]}
  /\ Go(w, "project")
  /\ UNCHANGED <<rowVars, edgeVars, held, verdict, projected, notices, replies, report, faults>>

\* Refused outright: the request, or the sender's session, even where an earlier
\* attempt was accepted.
SubmitRefused(w) ==
  /\ pc[w] = "submit"
  /\ Go(w, "refuse")
  /\ UNCHANGED <<rowVars, edgeVars, held, verdict, domainVars, report, faults>>

\* No answer through the bounded attempts; Platform may have accepted.
SubmitExhausted(w) ==
  /\ pc[w] = "submit" /\ SpendFault
  /\ operations' \in {operations, operations \cup {held[w]}}
  /\ Go(w, "refuse")
  /\ UNCHANGED <<rowVars, edgeVars, held, verdict, answered, projected, notices, replies, report>>

\* Mutant of Announce: no look at what an earlier attempt left.
AnnounceAgain(u) == notices' = [notices EXCEPT ![u] = @ + 1]

\* The acknowledgement is inserted unless one exists.
Announce(u) == notices' = [notices EXCEPT ![u] = IF @ = 0 THEN 1 ELSE @]

\* record_accepted_capture_projection, one transaction.
Project(w) ==
  /\ pc[w] = "project"
  /\ projected' = projected \cup {held[w]}
  /\ Announce(held[w])
  /\ Conclude(w, "processed")
  /\ UNCHANGED <<rowVars, edgeVars, operations, answered, replies, report, faults>>

\* Mutant of PendingVerdict: the failed projection settles like a done one.
PendingProcessed == "processed"

PendingVerdict == "retry"

\* The transaction fails, or commits and its answer is lost.
ProjectFails(w) ==
  /\ pc[w] = "project" /\ SpendFault
  /\ \/ UNCHANGED <<projected, notices>>
     \/ projected' = projected \cup {held[w]} /\ Announce(held[w])
  /\ Conclude(w, PendingVerdict)
  /\ UNCHANGED <<rowVars, edgeVars, operations, answered, replies, report>>

\* enqueue_text, or a storage error in it.
Enqueue(w) ==
  \/ replies' = [replies EXCEPT ![held[w]] = @ + 1] /\ UNCHANGED faults
  \/ UNCHANGED replies /\ SpendFault

\* The refusal reply, stored or not; the update has failed.
Refuse(w) ==
  /\ pc[w] = "refuse"
  /\ Enqueue(w)
  /\ Conclude(w, "failed")
  /\ UNCHANGED <<rowVars, edgeVars, operations, answered, projected, notices, report>>

Reply(w) ==
  /\ pc[w] = "reply"
  /\ Enqueue(w)
  /\ Conclude(w, IF faults' = faults THEN "processed" ELSE "failed")
  /\ UNCHANGED <<rowVars, edgeVars, operations, answered, projected, notices, report>>

-----------------------------------------------------------------------------
(* Settlement *)

\* Mutant of Write: the lease stays, as in recover-stuck-update.
WriteState(u, s) == state' = [state EXCEPT ![u] = s] /\ UNCHANGED lease

Write(u, s) ==
  /\ state' = [state EXCEPT ![u] = s]
  /\ lease' = [lease EXCEPT ![u] = "none"]

\* settle_update writes whatever the row has become meanwhile.
Settle(w) ==
  /\ pc[w] = "settle" /\ verdict[w] # "retry"
  /\ Write(held[w], verdict[w])
  /\ Rest(w)
  /\ UNCHANGED <<kind, attempts, due, edgeVars, domainVars, report, faults>>

\* The settlement is reported failed, committed or not: `failed' is written next.
SettleFails(w) ==
  /\ pc[w] = "settle" /\ verdict[w] # "retry" /\ SpendFault
  /\ Write(held[w], verdict[w]) \/ UNCHANGED <<state, lease>>
  /\ Go(w, "fallback")
  /\ UNCHANGED <<kind, attempts, due, edgeVars, held, verdict, domainVars, report>>

Fallback(w) ==
  /\ pc[w] = "fallback"
  /\ Write(held[w], "failed")
  /\ Rest(w)
  /\ UNCHANGED <<kind, attempts, due, edgeVars, domainVars, report, faults>>

\* Mutant of Released: one claim more.
ReleasedLate(u) == IF attempts[u] > MaxAttempts THEN "recovery_required" ELSE "accepted"

\* Back to automatic work, or out of it after the last allowed claim.
Released(u) == IF attempts[u] >= MaxAttempts THEN "recovery_required" ELSE "accepted"

\* defer_update_retry, after a delay of a second.  A row that is no longer processing is left alone.
Defer(w) ==
  LET u == held[w] IN
  /\ pc[w] = "settle" /\ verdict[w] = "retry"
  /\ IF state[u] = "processing"
     THEN /\ Write(u, Released(u))
          /\ due' = [due EXCEPT ![u] = FALSE]
     ELSE UNCHANGED <<state, lease, due>>
  /\ Rest(w)
  /\ UNCHANGED <<kind, attempts, edgeVars, domainVars, report, faults>>

-----------------------------------------------------------------------------
(* Faults, time and the operator *)

\* The process dies, or a statement it ends on fails; its hints die with it.
Crash(w) ==
  /\ pc[w] # "idle" \/ hints[w] > 0
  /\ SpendFault
  /\ hints' = [hints EXCEPT ![w] = 0]
  /\ Rest(w)
  /\ UNCHANGED <<rowVars, acked, domainVars, report>>

BecomeDue(u) ==
  /\ state[u] = "accepted" /\ ~due[u]
  /\ due' = [due EXCEPT ![u] = TRUE]
  /\ UNCHANGED <<kind, state, attempts, lease, edgeVars, workerVars, domainVars, report, faults>>

HolderAtWork(u) == \E w \in Worker : pc[w] # "idle" /\ held[w] = u

\* Thirty seconds pass: over an abandoned row, or over a worker still at it.
ExpireLease(u) ==
  /\ lease[u] = "live"
  /\ IF HolderAtWork(u) THEN SpendFault ELSE UNCHANGED faults
  /\ lease' = [lease EXCEPT ![u] = "expired"]
  /\ UNCHANGED <<kind, state, attempts, due, edgeVars, workerVars, domainVars, report>>

\* recover-stuck-update sets a processing row `accepted' and leaves its lease.
RecoverStuck(u) ==
  /\ report = "none" /\ state[u] # "absent"
  /\ IF state[u] # "processing"
     THEN report' = "refused_state_mismatch" /\ UNCHANGED state
     ELSE IF RowAllowed("accepted", lease[u])
          THEN report' = "recovered_one" /\ state' = [state EXCEPT ![u] = "accepted"]
          ELSE report' = "error" /\ UNCHANGED state
  /\ UNCHANGED <<kind, attempts, due, lease, edgeVars, workerVars, domainVars, faults>>

-----------------------------------------------------------------------------
Act(w) == SubmitAccepted(w) \/ SubmitRefused(w) \/ Project(w) \/ Refuse(w) \/ Reply(w)

WorkerStep(w) == \/ Claim(w) \/ Wake(w) \/ Unreadable(w) \/ Enter(w) \/ Decide(w) \/ Act(w)
                 \/ Settle(w) \/ Fallback(w) \/ Defer(w)

WorkerFault(w) == SubmitExhausted(w) \/ ProjectFails(w) \/ SettleFails(w) \/ Crash(w)

Next == \/ \E u \in Update : \/ \E w \in Worker : Admit(u, w)
                             \/ AdmitUnanswered(u)
                             \/ BecomeDue(u) \/ ExpireLease(u) \/ RecoverStuck(u)
        \/ \E w \in Worker : WorkerStep(w) \/ WorkerFault(w)

Spec == Init /\ [][Next]_vars

\* The worker polls every second whatever the hints do, and time passes.
Fairness == /\ \A w \in Worker : WF_vars(WorkerStep(w))
            /\ \A u \in Update : /\ WF_vars(BecomeDue(u))
                                 /\ WF_vars(~HolderAtWork(u) /\ ExpireLease(u))

FairSpec == Spec /\ Fairness

-----------------------------------------------------------------------------
\* Every variable has its type, and no statement leaves a row the schema
\* refuses, whoever wrote it between the claim and the settlement.
TypeOK ==
  /\ \A u \in Update : RowAllowed(state[u], lease[u])
  /\ kind \in [Update -> Action]
  /\ state \in [Update -> State]
  /\ attempts \in [Update -> Nat]
  /\ due \in [Update -> BOOLEAN]
  /\ lease \in [Update -> Lease]
  /\ acked \in SUBSET Update
  /\ hints \in [Worker -> 0..QueueCapacity]
  /\ pc \in [Worker -> Stage]
  /\ held \in [Worker -> Update]
  /\ verdict \in [Worker -> Verdict]
  /\ operations \in SUBSET Update
  /\ answered \in SUBSET operations
  /\ projected \in SUBSET answered
  /\ notices \in [Update -> Nat]
  /\ replies \in [Update -> Nat]
  /\ report \in Report
  /\ faults \in 0..MaxFaults

\* A capture is announced in its chat at most once, by overlapping workers,
\* retries and reclaimed leases together (record_accepted_capture_projection).
AnnouncedOnce == \A u \in Update : notices[u] <= 1

\* An update settled as processed did what it asked for: its reply is stored,
\* or its operation is bound and announced (process_one_with_recovery).
ProcessedIsDone ==
  \A u \in Update : state[u] = "processed" =>
    IF kind[u] = "capture" THEN u \in projected ELSE replies[u] > 0

\* What waits for an automatic claim has claims left, and the operator gets an
\* update only when they are used up, whatever a worker that lost its lease
\* writes late (defer_update_retry).
RecoveryBound ==
  \A u \in Update :
    /\ state[u] = "accepted" => attempts[u] < MaxAttempts
    /\ state[u] = "recovery_required" => attempts[u] >= MaxAttempts

\* A settled update is never processable again: no late worker, retry or
\* redelivery reopens it (settle_update and the payload constraint).
SettledStaysSettled ==
  [][\A u \in Update : state[u] \in Final => state'[u] \in Final]_vars

\* An update once recorded is settled, or left to the operator after the bounded
\* claims; lost hints, crashes and storage errors delay it only.
UpdatesEnd ==
  \A u \in Update : state[u] = "accepted" ~> state[u] \in Final \cup {"recovery_required"}

=============================================================================
