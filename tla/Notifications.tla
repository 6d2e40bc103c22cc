---------------------------- MODULE Notifications ----------------------------
(***************************************************************************)
(* Notifications: events of the bus admitted by the dispatcher's consumer  *)
(* under each chat's preferences, the settings commands that change those  *)
(* preferences meanwhile, and the outcome of each decision's job.          *)
(*                                                                         *)
(* One recipient is modelled, with the private chats bound to it.  An      *)
(* admission is two steps: the statement that selects the candidates takes *)
(* its snapshot, and the rest of the transaction runs once the preference  *)
(* rows are locked.  Under READ COMMITTED the locked rows are read again   *)
(* then, and the class overrides joined to them are not.  The sender is    *)
(* only what its transactions write here; OutboundQueue has its steps.  A  *)
(* day has Day instants.                                                   *)
(***************************************************************************)
EXTENDS Naturals, FiniteSets

CONSTANTS
  Event,          \* transport envelopes
  Notification,
  Loads,          \* what the envelopes may carry: a notification, or Unreadable
  Unreadable,
  Class,
  classOf, high, hints, \* of a notification: class, priority, at most one quiet window
  Chat,
  Setting,        \* settings commands
  Requests,       \* what they may ask: a chat, a field and the field's new value
  Consumer,       \* consumer tasks, one per dispatcher process
  Day,            \* instants of a day
  Start, Horizon, \* the first instant, and the one nothing arrives after
  MaxAttempts,
  MaxFaults       \* bound on crashes, storage errors and lost answers

Window   == (0 .. Day - 1) \X (0 .. Day - 1)
NoWindow == <<0, 0>>
Quiet    == [mode : {"disabled", "inherit"}, window : {NoWindow}]
            \cup [mode : {"custom"}, window : {w \in Window : w[1] # w[2]}]
Override == {"inherit", "on", "off"}
Policy   == [on : BOOLEAN, quiet : Quiet, bypass : BOOLEAN, classes : [Class -> Override]]

\* A settings command: one field of one chat, and a value the field can have.
Command(a) ==
  /\ a.chat \in Chat
  /\ \/ a.field \in {"on", "bypass"} /\ a.value \in BOOLEAN
     \/ a.field = "quiet" /\ a.value \in Quiet
     \/ a.field \in Class /\ a.value \in Override

ASSUME NotificationsAssumption ==
  /\ Event # {}
  /\ Class \cap {"on", "quiet", "bypass"} = {}
  /\ \A r \in Requests : DOMAIN r = Setting /\ \A s \in Setting : Command(r[s])
  /\ Unreadable \notin Notification
  /\ Loads \subseteq [Event -> Notification \cup {Unreadable}]
  /\ classOf \in [Notification -> Class] /\ high \in [Notification -> BOOLEAN]
  /\ hints \in [Notification -> {{}} \cup {{w} : w \in {x \in Window : x[1] # x[2]}}]
  /\ {Day, MaxAttempts} \subseteq Nat \ {0} /\ {Start, Horizon, MaxFaults} \subseteq Nat

VARIABLES
  linked,     \* the recipient's identity knows its Platform user
  bound,      \* private_chat_bindings
  policy,     \* notification_preferences and notification_class_preferences
  version,
  asks,       \* what each settings command asks
  spc,        \* its progress
  read,       \* what it has read: a policy and its version
  carries,    \* what each event carries
  bus,        \* JetStream's view of an event
  inbox,      \* telegram.inbox
  evidence,   \* notification_transport_failures
  pc,         \* progress of a consumer
  held,       \* the event it holds
  view,       \* what its candidate query saw
  decision,   \* notification_decisions, by notification and chat
  job,        \* the linked outbound job
  due, attempts,
  now, faults

settingVars  == <<linked, bound, policy, version, asks, spc, read>>
consumerVars == <<carries, bus, inbox, evidence, pc, held, view>>
jobVars      == <<decision, job, due, attempts>>
vars == <<settingVars, consumerVars, jobVars, now, faults>>

Slot     == Notification \X Chat
JobFinal == {"sent", "failed_permanent", "outcome_unknown"}
JobState == {"absent", "ready", "retry_wait", "sending"} \cup JobFinal
Outcome  == {"suppressed", "deferred", "enqueued", "delivered", "retry_wait",
             "failed_permanent", "outcome_unknown"}
Concluded == Outcome \ {"deferred", "enqueued", "retry_wait"}

DefaultPolicy ==
  [on |-> TRUE, quiet |-> [mode |-> "inherit", window |-> NoWindow], bypass |-> FALSE,
   classes |-> [k \in Class |-> "inherit"]]

NoView == [at |-> 0, chats |-> {}, overrides |-> [c \in Chat |-> "inherit"]]
NoRead == [policy |-> DefaultPolicy, version |-> 0]
Nobody == CHOOSE e \in Event : TRUE

Init ==
  /\ linked = FALSE
  /\ bound = {}
  /\ policy = [c \in Chat |-> DefaultPolicy]
  /\ version = [c \in Chat |-> 0]
  /\ asks \in Requests
  /\ spc = [s \in Setting |-> "waiting"]
  /\ read = [s \in Setting |-> NoRead]
  /\ carries \in Loads
  /\ bus = [e \in Event |-> "pending"]
  /\ inbox = {}
  /\ evidence = [e \in Event |-> 0]
  /\ pc = [d \in Consumer |-> "idle"]
  /\ held = [d \in Consumer |-> Nobody]
  /\ view = [d \in Consumer |-> NoView]
  /\ decision = [x \in Slot |-> "none"]
  /\ job = [x \in Slot |-> "absent"]
  /\ due = [x \in Slot |-> 0]
  /\ attempts = [x \in Slot |-> 0]
  /\ now = Start
  /\ faults = 0

SpendFault == faults < MaxFaults /\ faults' = faults + 1

-----------------------------------------------------------------------------
(* Who may be notified: the recipient's first session exchange, and the gate *)

Link ==
  /\ ~linked
  /\ linked' = TRUE
  /\ UNCHANGED <<bound, policy, version, asks, spc, read, consumerVars, jobVars, now, faults>>

\* The preference row is created with the binding, unless it is there.
Bind(c) ==
  /\ c \notin bound
  /\ bound' = bound \cup {c}
  /\ UNCHANGED <<linked, policy, version, asks, spc, read, consumerVars, jobVars, now, faults>>

-----------------------------------------------------------------------------
(* Settings commands *)

To(s, stage) == spc' = [spc EXCEPT ![s] = stage]

\* The command's chat is bound: the gate saw to it.
ReadSetting(s) ==
  LET c == asks[s].chat IN
  /\ spc[s] = "waiting" /\ c \in bound
  /\ read' = [read EXCEPT ![s] = [policy |-> policy[c], version |-> version[c]]]
  /\ To(s, "write")
  /\ UNCHANGED <<linked, bound, policy, version, asks, consumerVars, jobVars, now, faults>>

\* The chat-wide fields are written as they were read, but for the one asked
\* for; of the overrides only the one asked for is touched.
Edited(s) ==
  LET a == asks[s]
      base == [read[s].policy EXCEPT !.classes = policy[a.chat].classes]
  IN IF a.field \in Class THEN [base EXCEPT !.classes[a.field] = a.value]
                          ELSE [base EXCEPT ![a.field] = a.value]

\* Mutant of Unmoved: the version is not compared.
UnmovedUnchecked(s) == TRUE

Unmoved(s) == version[asks[s].chat] = read[s].version

\* update_notification_preferences and the reply to it.  A stale version fails
\* the command, a failed reply the update, and no one tries again; when the
\* process dies after the commit, the command starts over.
WriteSetting(s) ==
  LET c == asks[s].chat IN
  /\ spc[s] = "write"
  /\ IF Unmoved(s)
     THEN /\ policy' = [policy EXCEPT ![c] = Edited(s)]
          /\ version' = [version EXCEPT ![c] = @ + 1]
          /\ \/ To(s, "done") /\ UNCHANGED faults
             \/ To(s, "waiting") /\ SpendFault
     ELSE To(s, "done") /\ UNCHANGED <<policy, version, faults>>
  /\ read' = [read EXCEPT ![s] = NoRead]
  /\ UNCHANGED <<linked, bound, asks, consumerVars, jobVars, now>>

\* The command fails, or its process dies, before the commit.
SettingFails(s) ==
  /\ spc[s] = "write" /\ SpendFault
  /\ To(s, "done") \/ To(s, "waiting")
  /\ read' = [read EXCEPT ![s] = NoRead]
  /\ UNCHANGED <<linked, bound, policy, version, asks, consumerVars, jobVars, now>>

-----------------------------------------------------------------------------
(* Policy *)

\* The window in force: none, or one.
WindowsOf(p, n) ==
  CASE p.quiet.mode = "disabled" -> {}
    [] p.quiet.mode = "inherit"  -> hints[n]
    [] p.quiet.mode = "custom"   -> {p.quiet.window}

InQuiet(w, t) ==
  IF w[1] < w[2] THEN w[1] <= t /\ t < w[2] ELSE w[1] <= t \/ t < w[2]

UntilEnd(w, t) == IF t < w[2] THEN w[2] - t ELSE Day - t + w[2]

Suppresses(p, override) == ~p.on \/ override = "off"

\* release_time: the instants a delivery is put off to, none or one.
Releases(p, override, n, t) ==
  IF Suppresses(p, override) \/ (high[n] /\ p.bypass) THEN {}
  ELSE {t + UntilEnd(w, t % Day) : w \in {x \in WindowsOf(p, n) : InQuiet(x, t % Day)}}

Decide(p, override, n, t) ==
  IF Suppresses(p, override) THEN "suppressed"
  ELSE IF Releases(p, override, n, t) # {} THEN "deferred" ELSE "enqueued"

-----------------------------------------------------------------------------
(* Admission *)

Go(d, to) == pc' = [pc EXCEPT ![d] = to]

LetGo(d) ==
  /\ Go(d, "idle")
  /\ held' = [held EXCEPT ![d] = Nobody]
  /\ view' = [view EXCEPT ![d] = NoView]

Holds(d, e) == pc[d] # "idle" /\ held[d] = e

\* The bus hands a consumer an event that nobody has answered; to get one that
\* is held elsewhere, its holder has stalled past the ack wait.
Fetch(d) ==
  /\ pc[d] = "idle"
  /\ \E e \in Event :
       /\ bus[e] = "pending"
       /\ IF \E o \in Consumer : Holds(o, e) THEN SpendFault ELSE UNCHANGED faults
       /\ held' = [held EXCEPT ![d] = e]
       /\ view' = [view EXCEPT ![d] = [NoView EXCEPT !.at = now]]
  /\ Go(d, "received")
  /\ UNCHANGED <<settingVars, carries, bus, inbox, evidence, jobVars, now>>

\* An envelope that cannot be read, or names another tenant, leaves evidence.
Reject(d) ==
  /\ pc[d] = "received" /\ carries[held[d]] = Unreadable
  /\ evidence' = [evidence EXCEPT ![held[d]] = @ + 1]
  /\ Go(d, "term")
  /\ UNCHANGED <<settingVars, carries, bus, inbox, held, view, jobVars, now, faults>>

\* Mutant of Duplicate: the bus is asked to deliver again.
DuplicateRefused(d) ==
  /\ pc[d] = "received" /\ carries[held[d]] # Unreadable
  /\ held[d] \in inbox
  /\ LetGo(d)
  /\ UNCHANGED <<settingVars, carries, bus, inbox, evidence, jobVars, now, faults>>

\* The inbox insert found the envelope: nothing else is done.
Duplicate(d) ==
  /\ pc[d] = "received" /\ carries[held[d]] # Unreadable
  /\ held[d] \in inbox
  /\ Go(d, "ack")
  /\ UNCHANGED <<settingVars, carries, bus, inbox, evidence, held, view, jobVars, now, faults>>

\* The inbox row is inserted, which makes another admission of the envelope
\* wait, and the candidates are selected.
Select(d) ==
  LET e == held[d] IN
  /\ pc[d] = "received" /\ carries[e] # Unreadable
  /\ e \notin inbox
  /\ \A o \in Consumer : pc[o] = "deciding" => held[o] # e
  /\ view' = [view EXCEPT ![d].chats = IF linked THEN bound ELSE {},
                          ![d].overrides = [c \in Chat |-> policy[c].classes[classOf[carries[e]]]]]
  /\ Go(d, "deciding")
  /\ UNCHANGED <<settingVars, carries, bus, inbox, evidence, held, jobVars, now, faults>>

\* The candidates whose decision row can be inserted.
Undecided(d, n) == {c \in view[d].chats : decision[<<n, c>>] = "none"}

\* No eligible chat: the evidence of it is all there is to keep.
Trace(d) ==
  evidence' = IF view[d].chats = {} THEN [evidence EXCEPT ![held[d]] = @ + 1] ELSE evidence

\* The decisions, their jobs and the inbox row are committed together.  The
\* preference rows are read as they are once locked, the overrides as selected.
Commit(d) ==
  LET n == carries[held[d]]
      at == view[d].at
      new == {<<n, c>> : c \in Undecided(d, n)}
      Verdict(c) == Decide(policy[c], view[d].overrides[c], n, at)
      Release(c) == Releases(policy[c], view[d].overrides[c], n, at)
      DueAt(c) == IF Release(c) = {} THEN at ELSE CHOOSE t \in Release(c) : TRUE
      sends == {x \in new : Verdict(x[2]) # "suppressed"}
  IN
  /\ pc[d] = "deciding"
  /\ inbox' = inbox \cup {held[d]}
  /\ Trace(d)
  /\ decision' = [x \in Slot |-> IF x \in new THEN Verdict(x[2]) ELSE decision[x]]
  /\ job' = [x \in Slot |-> IF x \in sends THEN "ready" ELSE job[x]]
  /\ due' = [x \in Slot |-> IF x \in sends THEN DueAt(x[2]) ELSE due[x]]
  /\ UNCHANGED attempts

Admit(d) ==
  /\ Commit(d)
  /\ Go(d, "ack")
  /\ UNCHANGED <<settingVars, carries, bus, held, view, now, faults>>

\* A statement fails, or the commit does, or only its answer is lost: the bus is
\* asked to deliver again.
AdmissionFails(d) ==
  /\ pc[d] \in {"received", "deciding"} /\ SpendFault
  /\ Commit(d) \/ UNCHANGED <<inbox, evidence, jobVars>>
  /\ LetGo(d)
  /\ UNCHANGED <<settingVars, carries, bus, now>>

\* The consumer answers the bus; the answer may be lost.
Answer(d) ==
  LET answered == [ack |-> "acked", term |-> "termed"][pc[d]] IN
  /\ pc[d] \in {"ack", "term"}
  /\ \/ bus' = [bus EXCEPT ![held[d]] = IF @ = "pending" THEN answered ELSE @]
        /\ UNCHANGED faults
     \/ UNCHANGED bus /\ SpendFault
  /\ LetGo(d)
  /\ UNCHANGED <<settingVars, carries, inbox, evidence, jobVars, now>>

\* The process dies: an open transaction is rolled back.
Crash(d) ==
  /\ pc[d] # "idle" /\ SpendFault
  /\ LetGo(d)
  /\ UNCHANGED <<settingVars, carries, bus, inbox, evidence, jobVars, now>>

-----------------------------------------------------------------------------
(* Delivery *)

\* claim_due_outbound_job, of the jobs of notifications.
Claim(x) ==
  /\ job[x] \in {"ready", "retry_wait"} /\ due[x] <= now
  /\ job' = [job EXCEPT ![x] = "sending"]
  /\ attempts' = [attempts EXCEPT ![x] = @ + 1]
  /\ UNCHANGED <<settingVars, consumerVars, decision, due, now, faults>>

\* record_outbound_acknowledgement, with apply_notification_ack.
Acknowledge(x) ==
  /\ job[x] = "sending"
  /\ job' = [job EXCEPT ![x] = "sent"]
  /\ decision' = [decision EXCEPT ![x] = "delivered"]
  /\ UNCHANGED <<settingVars, consumerVars, due, attempts, now, faults>>

\* Mutant of Linked: only success and failure are copied.
LinkedFinal(x, s) ==
  CASE s = "sent" -> "delivered" [] s = "failed_permanent" -> s [] OTHER -> decision[x]

\* settle_notification.
Linked(x, s) ==
  CASE s = "sent" -> "delivered"
    [] s \in {"retry_wait", "failed_permanent", "outcome_unknown"} -> s
    [] OTHER -> decision[x]

Retryable(x) == attempts[x] < MaxAttempts

\* settle_outbound_job: retries are bounded, an unknown outcome is not retried.
\* The delay before a retry is left out.
Settle(x) ==
  /\ job[x] = "sending"
  /\ \E s \in {"retry_wait", "failed_permanent", "outcome_unknown"} :
       /\ s = "retry_wait" => Retryable(x)
       /\ job' = [job EXCEPT ![x] = s]
       /\ decision' = [decision EXCEPT ![x] = Linked(x, s)]
  /\ UNCHANGED <<settingVars, consumerVars, due, attempts, now, faults>>

\* quarantine_expired_sends: the sender died with the job.
Quarantine(x) ==
  /\ job[x] = "sending" /\ SpendFault
  /\ job' = [job EXCEPT ![x] = "outcome_unknown"]
  /\ decision' = [decision EXCEPT ![x] = "outcome_unknown"]
  /\ UNCHANGED <<settingVars, consumerVars, due, attempts, now>>

\* The clock runs to Horizon, and on to the last release.
Tick ==
  /\ now < Horizon \/ \E x \in Slot : job[x] \in {"ready", "retry_wait"} /\ due[x] > now
  /\ now' = now + 1
  /\ UNCHANGED <<settingVars, consumerVars, jobVars, faults>>

-----------------------------------------------------------------------------
ConsumerStep(d) == Fetch(d) \/ Reject(d) \/ Duplicate(d) \/ Select(d) \/ Admit(d) \/ Answer(d)

SettingStep(s) == ReadSetting(s) \/ WriteSetting(s)

SenderStep(x) == Claim(x) \/ Acknowledge(x) \/ Settle(x)

Next ==
  \/ Link \/ \E c \in Chat : Bind(c)
  \/ \E s \in Setting : SettingStep(s) \/ SettingFails(s)
  \/ \E d \in Consumer : ConsumerStep(d) \/ AdmissionFails(d) \/ Crash(d)
  \/ \E x \in Slot : SenderStep(x) \/ Quarantine(x)
  \/ Tick

Spec == Init /\ [][Next]_vars

\* The supervisor reopens a broken stream, the sender polls, and time passes.
FairSpec ==
  /\ Spec
  /\ \A d \in Consumer : WF_vars(ConsumerStep(d))
  /\ \A x \in Slot : WF_vars(SenderStep(x))
  /\ WF_vars(Tick)

-----------------------------------------------------------------------------
(* Properties *)

TypeOK ==
  /\ linked \in BOOLEAN /\ bound \subseteq Chat
  /\ policy \in [Chat -> Policy] /\ version \in [Chat -> Nat]
  /\ asks \in Requests
  /\ spc \in [Setting -> {"waiting", "write", "done"}]
  /\ read \in [Setting -> [policy : Policy, version : Nat]]
  /\ carries \in Loads
  /\ bus \in [Event -> {"pending", "acked", "termed"}]
  /\ inbox \subseteq Event /\ evidence \in [Event -> Nat]
  /\ pc \in [Consumer -> {"idle", "received", "deciding", "ack", "term"}]
  /\ held \in [Consumer -> Event]
  /\ view \in [Consumer -> [at : Nat, chats : SUBSET Chat, overrides : [Chat -> Override]]]
  /\ decision \in [Slot -> Outcome \cup {"none"}]
  /\ job \in [Slot -> JobState]
  /\ due \in [Slot -> Nat] /\ attempts \in [Slot -> 0 .. MaxAttempts]
  /\ now \in Nat /\ faults \in 0 .. MaxFaults

\* The decision row says what has become of its job, whichever transaction
\* moved the job: settlement, acknowledgement or quarantine (settle_notification,
\* apply_notification_ack, quarantine_expired_sends).
DecisionTracksJob ==
  \A x \in Slot :
    CASE job[x] = "absent"  -> decision[x] \in {"none", "suppressed"}
      [] job[x] = "ready"   -> decision[x] \in {"deferred", "enqueued"}
      [] job[x] = "sending" -> decision[x] \in {"deferred", "enqueued", "retry_wait"}
      [] job[x] = "sent"    -> decision[x] = "delivered"
      [] OTHER              -> decision[x] = job[x]

\* An envelope is only acknowledged once it has left a decision or evidence
\* behind, whatever was lost on the way (admit_notification commits before the
\* consumer acknowledges).
AnsweredLeftATrace ==
  \A e \in Event :
    bus[e] # "pending" =>
      \/ evidence[e] > 0
      \/ carries[e] # Unreadable /\ \E c \in Chat : decision[<<carries[e], c>>] # "none"

\* A notification is decided once for a chat: no redelivery, new envelope or
\* second consumer decides it again or starts its job over (the unique key of
\* notification_decisions).
DecidedOnce ==
  [][\A x \in Slot :
       decision[x] # "none" =>
         /\ decision'[x] # decision[x] => job'[x] # job[x] /\ job[x] = "sending"
         /\ job[x] = "absent" => job'[x] = "absent"]_vars

\* t is one of the instants of the arc from w[1] up to w[2], going round the day.
OnArc(w, t) ==
  LET length == (w[2] + Day - w[1]) % Day IN \E k \in 0 .. length - 1 : (w[1] + k) % Day = t % Day

\* A job is only created for a chat whose switch is on at that moment, however
\* long ago the candidates were selected, and it is due at the first instant from
\* its arrival on that the policy of that moment does not call quiet (the lock on
\* the preference row, and release_time).
GovernedByPolicy ==
  [][\A x \in Slot :
       job[x] = "absent" /\ job'[x] = "ready" =>
         LET p == policy[x[2]]
             loud(t) == (high[x[1]] /\ p.bypass) \/ \A w \in WindowsOf(p, x[1]) : ~OnArc(w, t)
             arrivals == {view[d].at : d \in {o \in Consumer : pc[o] = "deciding"}}
         IN /\ p.on
            /\ loud(due'[x])
            /\ \E a \in arrivals : a <= due'[x] /\ \A t \in a .. due'[x] - 1 : ~loud(t)]_vars

\* A settings command changes what it names in the policy of that moment and
\* nothing else, though it writes every field from what it read before
\* (update_notification_preferences, the version).
SettingsChangeWhatTheyName ==
  [][\A c \in Chat :
       policy'[c] # policy[c] =>
         \E s \in Setting :
           LET a == asks[s] IN
           /\ a.chat = c
           /\ policy'[c] = IF a.field \in Class
                           THEN [policy[c] EXCEPT !.classes[a.field] = a.value]
                           ELSE [policy[c] EXCEPT ![a.field] = a.value]]_vars

\* In the end every envelope has been answered and every decision has concluded:
\* faults, quiet hours and duplicates delay a notification and never park it
\* (the negative answer to the bus, and the release instant of a deferred job).
NotificationsConclude ==
  <>[](/\ \A e \in Event : bus[e] # "pending"
       /\ \A x \in Slot : decision[x] \in Concluded \cup {"none"})

\* What the rows say of a notification agrees: the decision with its job, and the
\* answer to the bus with either (settle_notification, admit_notification).
RecordsAgree == TypeOK /\ DecisionTracksJob /\ AnsweredLeftATrace

\* A chat gets a notification once, under the policy of the moment, and the policy
\* is what its commands have made it (admit_notification,
\* update_notification_preferences).
DecidedByThePolicy == DecidedOnce /\ GovernedByPolicy /\ SettingsChangeWhatTheyName

=============================================================================
