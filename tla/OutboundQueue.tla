---------------------------- MODULE OutboundQueue ----------------------------
(***************************************************************************)
(* The durable queue of Bot API writes (telegram.outbound_jobs), the       *)
(* dispatcher's sender that claims, delivers and settles its rows, the     *)
(* message bindings those deliveries maintain, and Telegram itself as the  *)
(* sender sees it.                                                         *)
(*                                                                         *)
(* A job id stands for the row's UUIDv7: ids grow with insertion.  Clocks  *)
(* are abstracted to what the SQL compares: `due' says whether             *)
(* next_attempt_at has passed, `lease' whether lease_expires_at has, and   *)
(* `aged' whether a notification is more than 300 seconds old.             *)
(* A message is known by the job that created it and the job whose render  *)
(* it shows; payloads are never looked into by the queue.                  *)
(***************************************************************************)
EXTENDS Naturals, Sequences, FiniteSets

CONSTANTS
  Sender,        \* sender tasks (one per dispatcher process)
  Chat,          \* chats that receive messages
  Operation,     \* Platform operations with a binding
  ChatOf,        \* the chat an operation was captured from
  NoOperation,   \* outbound_jobs.operation_id is null
  MaxJobs,       \* bound on the rows ever inserted
  MaxRevision,   \* bound on the renders accepted for one operation
  MaxAttempts,   \* dispatcher.max_attempts
  MaxFaults,     \* bound on crashes, storage errors and stalls past a lease
  LateDelivery   \* may a request the sender gave up on still reach Telegram?

ASSUME ConstantsAssumption ==
  /\ MaxJobs \in Nat /\ MaxRevision \in Nat /\ MaxFaults \in Nat
  /\ MaxAttempts \in Nat \ {0}
  /\ Chat # {}
  /\ ChatOf \in [Operation -> Chat]
  /\ NoOperation \notin Operation
  /\ LateDelivery \in BOOLEAN

VARIABLES
  \* telegram.outbound_jobs
  jobs,      \* number of rows inserted
  row,       \* the columns fixed at insertion
  kind,      \* "send" or "edit"; prepare_outbound_method may change it
  state,
  attempts,
  due,
  lease,
  aged,      \* notifications older than 300 seconds
  \* telegram.message_bindings, one row per operation
  bound,     \* operations that have a row
  message,   \* message_id, 0 for null
  rendered,  \* last_rendered_revision
  \* the sender tasks
  pc,
  held,      \* the claimed job as fetched: id, attempt number, kind
  plan,      \* the resolved Bot API method and its message id
  result,    \* the provider's answer, or the outcome to settle
  seen,      \* candidate rows of the claim's statement snapshot
  \* Telegram and the network
  flight,    \* requests not yet processed or lost
  shown,     \* messages in order of creation
  applied,   \* history: jobs whose render reached Telegram
  faults     \* faults spent so far

queueVars   == <<jobs, row, kind, state, attempts, due, lease, aged>>
bindingVars == <<bound, message, rendered>>
senderVars  == <<pc, held, plan, result, seen>>
wireVars    == <<flight, shown, applied>>
vars == <<queueVars, bindingVars, senderVars, wireVars, faults>>

-----------------------------------------------------------------------------
Job      == 1..MaxJobs
Kind     == {"send", "edit"}
Class    == {"direct", "projection", "notification"}
Waiting  == {"ready", "retry_wait"}
Final    == {"sent", "superseded", "failed_permanent", "outcome_unknown"}
State    == {"absent", "sending"} \cup Waiting \cup Final
Lease    == {"none", "live", "expired"}
Row      == [chat : Chat, op : Operation \cup {NoOperation}, rev : Nat,
             class : Class, recovers : 0..MaxJobs]
Claim    == [job : 0..MaxJobs, attempt : Nat, kind : Kind]
Plan     == [method : Kind, msg : Nat]
Request  == [job : Job, attempt : Nat, method : Kind, msg : Nat]
Message  == [born : Job, by : Job]
Stage    == {"idle", "claiming", "resolve", "prepare", "await", "ack", "settle",
             "after"}
Refusal  == {"rate_limited", "transient", "target_lost", "refused"}
Result   == Refusal \cup {"none", "ok", "not_modified", "superseded", "retry", "unknown"}

NoClaim  == [job |-> 0, attempt |-> 0, kind |-> "send"]
NoPlan   == [method |-> "send", msg |-> 0]

\* A render job has a revision; replies, notifications and capture
\* acknowledgements have none (revision null, here 0).
HasRevision(j) == row[j].op \in Operation /\ row[j].rev > 0

\* Rows that exist.
Rows == 1..jobs

\* Mutant of Current: the fence without the row's state.
SameAttempt(s) == held[s].job \in Job /\ attempts[held[s].job] = held[s].attempt

\* The claim of s still owns its row: the fence of every settlement.
Current(s) == /\ held[s].job \in Job
              /\ state[held[s].job] = "sending"
              /\ attempts[held[s].job] = held[s].attempt

\* Delivery order of the claim query: notifications that have waited five
\* minutes, direct responses, projections, other notifications.
Rank(j) == IF row[j].class = "notification"
           THEN IF j \in aged THEN 0 ELSE 3
           ELSE IF row[j].class = "direct" THEN 1 ELSE 2

Before(i, j) == Rank(i) < Rank(j) \/ (Rank(i) = Rank(j) /\ i < j)

\* Mutant of Eligible: leases never expire.
EligibleWaiting(j) == state[j] \in Waiting /\ due[j]

\* Rows a claim may take, judged at its `now'.
Eligible(j) == \/ state[j] \in Waiting /\ due[j]
               \/ state[j] = "sending" /\ lease[j] = "expired"

\* Mutant of BusyChats and ExpiredSends: the claim looks at due rows only.
NothingInFlight == {}

BusyChats == {row[j].chat : j \in {i \in Rows : state[i] = "sending" /\ lease[i] = "live"}}

ExpiredSends == {j \in Rows : state[j] = "sending" /\ kind[j] = "send" /\ lease[j] = "expired"}

Candidates == {j \in Rows \ ExpiredSends : Eligible(j) /\ row[j].chat \notin BusyChats}

-----------------------------------------------------------------------------
Init ==
  /\ jobs = 0
  /\ row = [j \in Job |-> [chat |-> CHOOSE c \in Chat : TRUE, op |-> NoOperation,
                           rev |-> 0, class |-> "direct", recovers |-> 0]]
  /\ kind = [j \in Job |-> "send"]
  /\ state = [j \in Job |-> "absent"]
  /\ attempts = [j \in Job |-> 0]
  /\ due = [j \in Job |-> FALSE]
  /\ lease = [j \in Job |-> "none"]
  /\ aged = {}
  /\ bound = {}
  /\ message = [o \in Operation |-> 0]
  /\ rendered = [o \in Operation |-> 0]
  /\ pc = [s \in Sender |-> "idle"]
  /\ held = [s \in Sender |-> NoClaim]
  /\ plan = [s \in Sender |-> NoPlan]
  /\ result = [s \in Sender |-> "none"]
  /\ seen = [s \in Sender |-> {}]
  /\ flight = {}
  /\ shown = << >>
  /\ applied = {}
  /\ faults = 0

-----------------------------------------------------------------------------
(* Producers *)

\* Mutant of Insert: older waiting edits stay in the queue.
InsertUnswept(r, k, d) ==
  /\ jobs < MaxJobs
  /\ jobs' = jobs + 1
  /\ row' = [row EXCEPT ![jobs + 1] = r]
  /\ kind' = [kind EXCEPT ![jobs + 1] = k]
  /\ due' = [due EXCEPT ![jobs + 1] = d]
  /\ state' = [state EXCEPT ![jobs + 1] = "ready"]
  /\ UNCHANGED <<attempts, lease, aged>>

\* Insert row r as `ready', withdrawing the older waiting edits of its
\* operation when it carries a revision.
Insert(r, k, d) ==
  /\ jobs < MaxJobs
  /\ jobs' = jobs + 1
  /\ row' = [row EXCEPT ![jobs + 1] = r]
  /\ kind' = [kind EXCEPT ![jobs + 1] = k]
  /\ due' = [due EXCEPT ![jobs + 1] = d]
  /\ state' = [j \in Job |->
       IF j = jobs + 1 THEN "ready"
       ELSE IF /\ r.op \in Operation /\ r.rev > 0
               /\ row[j].op = r.op /\ kind[j] = "edit" /\ state[j] \in Waiting
               /\ row[j].rev > 0 /\ row[j].rev < r.rev
            THEN "superseded" ELSE state[j]]
  /\ UNCHANGED <<attempts, lease, aged>>

NewRow(c, o, r, cl) == [chat |-> c, op |-> o, rev |-> r, class |-> cl, recovers |-> 0]

\* A direct response: a text, a preview, a library page.
EnqueueReply(c) ==
  /\ Insert(NewRow(c, NoOperation, 0, "direct"), "send", TRUE)
  /\ UNCHANGED <<bindingVars, senderVars, wireVars, faults>>

\* One admitted notification; quiet hours may set a later release time.
EnqueueNotification(c) ==
  /\ \E d \in BOOLEAN : Insert(NewRow(c, NoOperation, 0, "notification"), "send", d)
  /\ UNCHANGED <<bindingVars, senderVars, wireVars, faults>>

\* An accepted capture: ensure the binding, and enqueue the one "accepted"
\* message unless a message is bound or such a send already exists.
AcknowledgementExists(o) ==
  \E j \in Rows : row[j].op = o /\ kind[j] = "send" /\ row[j].rev = 0

RecordCapture(o) ==
  /\ bound' = bound \cup {o}
  /\ IF message[o] # 0 \/ AcknowledgementExists(o)
     THEN UNCHANGED queueVars
     ELSE Insert(NewRow(ChatOf[o], o, 0, "direct"), "send", TRUE)
  /\ UNCHANGED <<message, rendered, senderVars, wireVars, faults>>

\* n follows the highest revision ever assigned for o, floored at the delivered
\* one.
NextRevision(o, n) ==
  LET used == {rendered[o]} \cup {row[j].rev : j \in {i \in Rows : row[i].op = o}}
  IN  n - 1 \in used /\ \A q \in used : q < n

\* The accepted render of an operation event: sweep, then insert the edit.
\* d is false while the render interval has not elapsed.
AcceptRender(o, d) ==
  /\ o \in bound
  /\ \E n \in 1..MaxRevision :
       /\ NextRevision(o, n)
       /\ Insert(NewRow(ChatOf[o], o, n, "direct"), "edit", d)

EnqueueRender(o) ==
  /\ \E d \in BOOLEAN : AcceptRender(o, d)
  /\ UNCHANGED <<bindingVars, senderVars, wireVars, faults>>

\* The operator's recover-unknown-send: a new deliberate attempt of a
\* quarantined send.  A notification moves to the new row.
RecoverUnknown(j) ==
  /\ j \in Rows /\ state[j] = "outcome_unknown" /\ kind[j] = "send"
  /\ jobs < MaxJobs
  /\ jobs' = jobs + 1
  /\ row' = [row EXCEPT ![jobs + 1] = [row[j] EXCEPT !.recovers = j],
                        ![j].class = IF @ = "notification" THEN "direct" ELSE @]
  /\ kind' = [kind EXCEPT ![jobs + 1] = "send"]
  /\ due' = [due EXCEPT ![jobs + 1] = TRUE]
  /\ state' = [state EXCEPT ![jobs + 1] = "ready"]
  /\ aged' = IF j \in aged THEN aged \cup {jobs + 1} ELSE aged
  /\ UNCHANGED <<attempts, lease, bindingVars, senderVars, wireVars, faults>>

-----------------------------------------------------------------------------
(* The sender: run_once = claim, then process *)

Idle(s) ==
  /\ pc' = [pc EXCEPT ![s] = "idle"]
  /\ held' = [held EXCEPT ![s] = NoClaim]
  /\ plan' = [plan EXCEPT ![s] = NoPlan]
  /\ result' = [result EXCEPT ![s] = "none"]
  /\ seen' = [seen EXCEPT ![s] = {}]

\* First part of the claim transaction, at one `now': sends whose lease has
\* expired are quarantined, and the claim query takes its snapshot of the busy
\* chats and of the candidate rows.  A claim that finds nothing changes nothing.
BeginClaim(s) ==
  /\ pc[s] = "idle"
  /\ Candidates \cup ExpiredSends # {}
  /\ state' = [j \in Job |-> IF j \in ExpiredSends THEN "outcome_unknown" ELSE state[j]]
  /\ lease' = [j \in Job |-> IF j \in ExpiredSends THEN "none" ELSE lease[j]]
  /\ pc' = [pc EXCEPT ![s] = "claiming"]
  /\ seen' = [seen EXCEPT ![s] = Candidates]
  /\ UNCHANGED <<jobs, row, kind, attempts, due, aged, bindingVars, held, plan, result,
                 wireVars, faults>>

\* Sender s takes row j.  Claiming moves the row's lease and due time past the
\* `now' of every claim already begun, which will not find it eligible again.
Take(s, j) ==
  /\ state' = [state EXCEPT ![j] = "sending"]
  /\ lease' = [lease EXCEPT ![j] = "live"]
  /\ attempts' = [attempts EXCEPT ![j] = @ + 1]
  /\ pc' = [pc EXCEPT ![s] = "resolve"]
  /\ held' = [held EXCEPT ![s] = [job |-> j, attempt |-> attempts[j] + 1, kind |-> kind[j]]]
  /\ seen' = [t \in Sender |-> IF t = s THEN {} ELSE seen[t] \ {j}]
  /\ UNCHANGED <<jobs, row, kind, due, aged, plan, result>>

\* Second part: rows are locked in their latest version and re-checked, or
\* skipped while another claim holds them, but the busy chats stay those of the
\* snapshot.  The head is the best row of its
\* chat, and among the chats' heads the best: the best candidate of all.
FinishClaim(s) ==
  LET lockable == {j \in seen[s] : Eligible(j)}
      contended == lockable \cap UNION {seen[t] : t \in Sender \ {s}} IN
  /\ pc[s] = "claiming"
  /\ \E skipped \in SUBSET contended :
       LET locked == lockable \ skipped IN
       IF locked = {}
       THEN Idle(s) /\ UNCHANGED queueVars
       ELSE \E j \in locked : (\A i \in locked \ {j} : Before(j, i)) /\ Take(s, j)
  /\ UNCHANGED <<bindingVars, wireVars, faults>>

\* A recovered send whose render, or a newer one, was delivered meanwhile.
StaleRecovery(j) ==
  /\ row[j].recovers # 0 /\ HasRevision(j) /\ row[j].op \in bound
  /\ \/ rendered[row[j].op] > row[j].rev
     \/ rendered[row[j].op] = row[j].rev /\ message[row[j].op] # 0

\* Mutant of StaleEdit: the revision guard left to the enqueue-time sweep.
UnboundEdit(j) == ~HasRevision(j) \/ row[j].op \notin bound

\* An edit without an operation, a revision or a binding, or not newer than
\* the render already delivered.
StaleEdit(j) == \/ ~HasRevision(j)
                \/ row[j].op \notin bound
                \/ rendered[row[j].op] >= row[j].rev

\* The supersede guard and the limiter's gate, before anything reaches the wire.
Resolve(s) ==
  LET j == held[s].job
      edits == held[s].kind = "edit"
      stale == IF edits THEN StaleEdit(j) ELSE StaleRecovery(j) IN
  /\ pc[s] = "resolve"
  /\ \/ /\ stale
        /\ pc' = [pc EXCEPT ![s] = "settle"]
        /\ result' = [result EXCEPT ![s] = "superseded"]
        /\ UNCHANGED plan
     \/ /\ ~stale
        /\ pc' = [pc EXCEPT ![s] = "settle"]       \* no token: rescheduled
        /\ result' = [result EXCEPT ![s] = "retry"]
        /\ UNCHANGED plan
     \/ /\ ~stale
        /\ pc' = [pc EXCEPT ![s] = "prepare"]
        /\ plan' = [plan EXCEPT ![s] =
             IF edits /\ message[row[j].op] # 0
             THEN [method |-> "edit", msg |-> message[row[j].op]] ELSE NoPlan]
        /\ UNCHANGED result
  /\ UNCHANGED <<queueVars, bindingVars, held, seen, wireVars, faults>>

RequestOf(s) == [job |-> held[s].job, attempt |-> held[s].attempt,
                 method |-> plan[s].method, msg |-> plan[s].msg]

\* prepare_outbound_method, fenced by the claim, then the request goes out.
Prepare(s) ==
  /\ pc[s] = "prepare"
  /\ IF Current(s)
     THEN /\ kind' = [kind EXCEPT ![held[s].job] = plan[s].method]
          /\ flight' = flight \cup {RequestOf(s)}
          /\ pc' = [pc EXCEPT ![s] = "await"]
          /\ UNCHANGED <<held, plan, result, seen>>
     ELSE Idle(s) /\ UNCHANGED <<kind, flight>>
  /\ UNCHANGED <<jobs, row, state, attempts, due, lease, aged, bindingVars, shown, applied,
                 faults>>

\* The answer arrived: acknowledge, or settle by its class.
Receive(s) ==
  /\ pc[s] = "await" /\ result[s] # "none"
  /\ pc' = [pc EXCEPT ![s] = IF result[s] = "ok" THEN "ack" ELSE "settle"]
  /\ UNCHANGED <<queueVars, bindingVars, held, plan, result, seen, wireVars, faults>>

\* Mutant of LostOutcome: a retry whatever the method.
AlwaysRetry(s) == "retry"

\* No usable answer: a send's outcome is unknown, an edit is retried.
LostOutcome(s) == IF plan[s].method = "send" THEN "unknown" ELSE "retry"

LoseAnswer(s) ==
  /\ pc[s] = "await"
  /\ pc' = [pc EXCEPT ![s] = "settle"]
  /\ result' = [result EXCEPT ![s] = LostOutcome(s)]
  /\ flight' = IF LateDelivery THEN flight ELSE flight \ {RequestOf(s)}
  /\ UNCHANGED <<queueVars, bindingVars, held, plan, seen, shown, applied, faults>>

\* last_rendered_revision only moves forward.  The binding's row exists: an
\* acknowledged send has just ensured it, an edit was resolved against it.
AdvanceRender(j) ==
  rendered' = IF HasRevision(j)
              THEN [rendered EXCEPT ![row[j].op] = IF @ < row[j].rev THEN row[j].rev ELSE @]
              ELSE rendered

\* The acknowledgement transaction: binding, render and job together.
Acknowledge(s) ==
  LET j == held[s].job
      o == row[j].op IN
  /\ pc[s] = "ack"
  /\ IF Current(s)
     THEN /\ state' = [state EXCEPT ![j] = "sent"]
          /\ lease' = [lease EXCEPT ![j] = "none"]
          /\ IF o \in Operation /\ plan[s].method = "send"
             THEN /\ bound' = bound \cup {o}
                  /\ message' = [message EXCEPT ![o] = plan[s].msg]
             ELSE UNCHANGED <<bound, message>>
          /\ AdvanceRender(j)
     ELSE UNCHANGED <<state, lease, bindingVars>>
  /\ Idle(s)
  /\ UNCHANGED <<jobs, row, kind, attempts, due, aged, wireVars, faults>>

\* Mutant of Settled: whatever is not delivered has failed.
SettledFailed(s) ==
  CASE result[s] = "not_modified" -> "sent"
    [] result[s] = "superseded"   -> "superseded"
    [] OTHER -> "failed_permanent"

\* The state an outcome settles to, and whether a retry is still allowed.
Settled(s) ==
  CASE result[s] = "not_modified" -> "sent"
    [] result[s] = "superseded"   -> "superseded"
    [] result[s] = "unknown"      -> "outcome_unknown"
    [] result[s] \in {"target_lost", "refused"} -> "failed_permanent"
    [] OTHER -> IF attempts[held[s].job] >= MaxAttempts THEN "failed_permanent" ELSE "retry_wait"

\* What follows the settlement in a transaction of its own: the render of a
\* not-modified edit, or the unbinding of a message that cannot be edited.
NeedsFollowUp(s) ==
  LET j == held[s].job IN
  \/ result[s] = "not_modified" /\ HasRevision(j)
  \/ result[s] = "target_lost" /\ held[s].kind = "edit" /\ row[j].op \in Operation

\* settle_outbound_job; a stale claim is refused and its work abandoned.
Settle(s) ==
  LET j == held[s].job IN
  /\ pc[s] = "settle"
  /\ IF Current(s)
     THEN /\ state' = [state EXCEPT ![j] = Settled(s)]
          /\ lease' = [lease EXCEPT ![j] = "none"]
          /\ due' = [due EXCEPT ![j] = IF Settled(s) = "retry_wait" THEN FALSE ELSE @]
     ELSE UNCHANGED <<state, lease, due>>
  /\ IF Current(s) /\ NeedsFollowUp(s)
     THEN /\ pc' = [pc EXCEPT ![s] = "after"]
          /\ UNCHANGED <<held, plan, result, seen>>
     ELSE Idle(s)
  /\ UNCHANGED <<jobs, row, kind, attempts, aged, bindingVars, wireVars, faults>>

FollowUp(s) ==
  LET j == held[s].job IN
  /\ pc[s] = "after"
  /\ IF result[s] = "not_modified"
     THEN AdvanceRender(j) /\ UNCHANGED message
     ELSE message' = [message EXCEPT ![row[j].op] = 0] /\ UNCHANGED rendered
  /\ Idle(s)
  /\ UNCHANGED <<queueVars, bound, wireVars, faults>>

\* The process dies, or a statement fails and the error is logged: the row
\* stays `sending' until its lease expires.
Fault(s) ==
  /\ pc[s] # "idle" /\ faults < MaxFaults
  /\ faults' = faults + 1
  /\ Idle(s)
  /\ flight' = IF LateDelivery THEN flight ELSE flight \ {RequestOf(s)}
  /\ UNCHANGED <<queueVars, bindingVars, shown, applied>>

-----------------------------------------------------------------------------
(* Telegram and the network *)

\* Only a sender still waiting for this very request learns the answer.
Waits(s, r) == pc[s] = "await" /\ RequestOf(s) = r

Answer(r, x) ==
  result' = [s \in Sender |-> IF Waits(s, r) THEN x ELSE result[s]]

ApplySend(r) ==
  /\ r \in flight /\ r.method = "send"
  /\ flight' = flight \ {r}
  /\ shown' = Append(shown, [born |-> r.job, by |-> r.job])
  /\ applied' = applied \cup {r.job}
  /\ Answer(r, "ok")
  /\ plan' = [s \in Sender |-> IF Waits(s, r) THEN [plan[s] EXCEPT !.msg = Len(shown) + 1]
                               ELSE plan[s]]
  /\ UNCHANGED <<queueVars, bindingVars, pc, held, seen, faults>>

\* Identical content is answered "message is not modified".
ApplyEdit(r) ==
  /\ r \in flight /\ r.method = "edit"
  /\ flight' = flight \ {r}
  /\ shown' = [shown EXCEPT ![r.msg].by = r.job]
  /\ applied' = applied \cup {r.job}
  /\ \/ shown[r.msg].by # r.job /\ Answer(r, "ok")
     \/ Answer(r, "not_modified")
  /\ UNCHANGED <<queueVars, bindingVars, pc, held, plan, seen, faults>>

\* A definite refusal: nothing was applied.
Refuse(r) ==
  /\ r \in flight
  /\ flight' = flight \ {r}
  /\ \E x \in Refusal : Answer(r, x)
  /\ UNCHANGED <<queueVars, bindingVars, pc, held, plan, seen, shown, applied, faults>>

\* An abandoned request that never arrives.
Drop(r) ==
  /\ r \in flight
  /\ \A s \in Sender : ~Waits(s, r)
  /\ flight' = flight \ {r}
  /\ UNCHANGED <<queueVars, bindingVars, senderVars, shown, applied, faults>>

-----------------------------------------------------------------------------
(* The passage of time *)

BecomeDue(j) ==
  /\ state[j] \in Waiting /\ ~due[j]
  /\ due' = [due EXCEPT ![j] = TRUE]
  /\ UNCHANGED <<jobs, row, kind, state, attempts, lease, aged, bindingVars, senderVars,
                 wireVars, faults>>

\* A lease outlives its holder, unless the holder stalls (a fault).
HolderAtWork(j) == \E s \in Sender : held[s].job = j /\ Current(s)

ExpireLease(j) ==
  /\ state[j] = "sending" /\ lease[j] = "live"
  /\ HolderAtWork(j) => faults < MaxFaults
  /\ faults' = IF HolderAtWork(j) THEN faults + 1 ELSE faults
  /\ lease' = [lease EXCEPT ![j] = "expired"]
  /\ UNCHANGED <<jobs, row, kind, state, attempts, due, aged, bindingVars, senderVars, wireVars>>

Age(j) ==
  /\ j \in Rows \ aged /\ row[j].class = "notification" /\ state[j] \in Waiting
  /\ aged' = aged \cup {j}
  /\ UNCHANGED <<jobs, row, kind, state, attempts, due, lease, bindingVars, senderVars,
                 wireVars, faults>>

-----------------------------------------------------------------------------
Produce == \/ \E c \in Chat : EnqueueReply(c) \/ EnqueueNotification(c)
           \/ \E o \in Operation : RecordCapture(o) \/ EnqueueRender(o)
           \/ \E j \in Job : RecoverUnknown(j)

SenderStep(s) == \/ BeginClaim(s) \/ FinishClaim(s) \/ Resolve(s) \/ Prepare(s)
                 \/ Receive(s) \/ LoseAnswer(s) \/ Acknowledge(s) \/ Settle(s)
                 \/ FollowUp(s)

Network == \E r \in flight : ApplySend(r) \/ ApplyEdit(r) \/ Refuse(r) \/ Drop(r)

Tick == \E j \in Job : BecomeDue(j) \/ ExpireLease(j) \/ Age(j)

Next == \/ Produce
        \/ \E s \in Sender : SenderStep(s) \/ Fault(s)
        \/ Network
        \/ Tick

Spec == Init /\ [][Next]_vars

\* The sender loop polls until shutdown, every call ends by the client's own
\* timeout, and time passes: due times and abandoned leases are reached.
Fairness ==
  /\ \A s \in Sender : WF_vars(SenderStep(s))
  /\ \A j \in Job : /\ WF_vars(BecomeDue(j))
                    /\ WF_vars(~HolderAtWork(j) /\ ExpireLease(j))

FairSpec == Spec /\ Fairness

-----------------------------------------------------------------------------
QueueTypeOK ==
  /\ jobs \in 0..MaxJobs
  /\ row \in [Job -> Row]
  /\ kind \in [Job -> Kind]
  /\ state \in [Job -> State]
  /\ attempts \in [Job -> Nat]
  /\ due \in [Job -> BOOLEAN]
  /\ lease \in [Job -> Lease]
  /\ aged \in SUBSET Job

BindingTypeOK ==
  /\ bound \in SUBSET Operation
  /\ message \in [Operation -> Nat]
  /\ rendered \in [Operation -> Nat]

\* Past its claim, a sender holds a job.
SenderTypeOK ==
  /\ pc \in [Sender -> Stage]
  /\ held \in [Sender -> Claim]
  /\ plan \in [Sender -> Plan]
  /\ result \in [Sender -> Result]
  /\ seen \in [Sender -> SUBSET Job]
  /\ \A s \in Sender : pc[s] \in {"idle", "claiming"} \/ held[s].job \in Job

WireTypeOK ==
  /\ flight \in SUBSET Request
  /\ shown \in Seq(Message)
  /\ applied \in SUBSET Job
  /\ faults \in 0..MaxFaults

TypeOK == QueueTypeOK /\ BindingTypeOK /\ SenderTypeOK /\ WireTypeOK

\* A send is put on a Telegram chat at most once, whatever crashes, stalls,
\* lost answers and lease recoveries its job goes through
\* (quarantine_expired_sends, prepare_outbound_method, the attempt fence).
SendAtMostOnce ==
  \A m, n \in DOMAIN shown : shown[m].born = shown[n].born => m = n

\* A message of j is in its chat, or may still get there.
Posted(j) == \E m \in DOMAIN shown : shown[m].born = j

SendInFlight(j) == \E r \in flight : r.job = j /\ r.method = "send"

\* What a settled job says happened did happen: `sent' only after Telegram
\* applied the render, and a job that is to be tried again, was withdrawn or
\* has failed has created no message and cannot create one any more
\* (apply_failure, quarantine_expired_sends).
SettledTruthfully ==
  \A j \in Job :
    /\ state[j] = "sent" => j \in applied
    /\ state[j] \in {"superseded", "failed_permanent"} \cup Waiting
         => ~Posted(j) /\ ~SendInFlight(j)

\* No late settlement, acknowledgement, sweep or reclaim reopens or rewrites a
\* job that has ended (the fence `state = sending and attempts = claim').
FinalIsFinal == [][\A j \in Job : state[j] \in Final => state'[j] = state[j]]_vars

\* One job in flight per chat: never two rows of a chat `sending' under live
\* leases (the claim query's busy chats).
OneInFlightPerChat ==
  \A i, j \in Job :
    /\ i # j /\ state[i] = "sending" /\ state[j] = "sending"
    /\ lease[i] = "live" /\ lease[j] = "live"
    => row[i].chat # row[j].chat

\* Telegram edits message m for an attempt that is over: its sender took the answer
\* for lost, or died.
LateEdit(m) ==
  \E r \in flight \ flight' : /\ r.method = "edit" /\ r.msg = m
                            /\ \A s \in Sender : ~Waits(s, r)

\* A message that shows the newest acknowledged render is never rewritten to an
\* older one, but by an edit that Telegram carries out when nobody waits for it
\* (the revision guard of process_edit, and the monotonic last_rendered_revision).
AcknowledgedRenderStays ==
  [][\A m \in DOMAIN shown :
       LET j == shown[m].by IN
       HasRevision(j) /\ rendered[row[j].op] = row[j].rev
         => row[shown'[m].by].rev >= row[j].rev \/ LateEdit(m)]_vars

\* Every job enqueued ends: no crash, lost answer or expired lease leaves a row
\* that nothing claims again.
EveryJobEnds == \A j \in Job : state[j] = "ready" ~> state[j] \in Final

-----------------------------------------------------------------------------
(* The queue implements Delivery *)

Status(j) ==
  CASE state[j] = "absent"           -> "absent"
    [] state[j] = "sent"             -> "delivered"
    [] state[j] = "superseded"       -> "withdrawn"
    [] state[j] = "failed_permanent" -> "failed"
    [] state[j] = "outcome_unknown"  -> "unknown"
    [] OTHER -> "pending"

Posts(j) == Cardinality({m \in DOMAIN shown : shown[m].born = j})

D == INSTANCE Delivery WITH
       status  <- [j \in Job |-> Status(j)],
       posts   <- [j \in Job |-> Posts(j)],
       reached <- applied

\* Claims, leases, retries and recoveries only ever show producers the steps of
\* Delivery.
ImplementsDelivery == D!Spec

=============================================================================
