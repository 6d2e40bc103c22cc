----------------------------- MODULE AccessGate -----------------------------
(***************************************************************************)
(* The access gate of the webhook (intake/access.rs) over the tables       *)
(* telegram.identities, chats, private_chat_bindings and                   *)
(* notification_preferences (persistence/bindings.rs).  Every worker asks  *)
(* it before an update may act; it creates the chat row, the binding of    *)
(* the chat to its actor and the chat's policy, and never an identity.     *)
(* Start-up inserts the owner's identity when there is none, and the       *)
(* operator changes access by SQL at any time.                             *)
(*                                                                         *)
(* A statement is a step.  The binding's transaction is READ COMMITTED:    *)
(* what it inserted shows when it commits, and an insert that meets        *)
(* another transaction's waits for its end.                                *)
(***************************************************************************)
EXTENDS Naturals, FiniteSets

CONSTANTS
  Sender, Owner,    \* Telegram users, and access.owner_telegram_user_id
  Chat, Private,    \* conversations, and those that are private
  Worker,           \* worker tasks, one per webhook process
  MaxChanges,       \* bound on the operator's statements
  MaxFaults         \* bound on crashes and failing statements

Nobody == "nobody"

ASSUME GateAssumption ==
  /\ Owner \in Sender /\ Private \subseteq Chat
  /\ Nobody \notin Sender \cup Worker
  /\ MaxChanges \in Nat /\ MaxFaults \in Nat

VARIABLES
  identity,  \* telegram.identities
  chat,      \* telegram.chats
  owner,     \* telegram.private_chat_bindings: the actor of a chat
  policy,    \* telegram.notification_preferences: actors and chats
  inserted,  \* chats whose binding a transaction has inserted, and whose it is
  pc, sender, venue, verdict,  \* the workers
  \* history
  decided,   \* what the operator last said of a principal
  allowed,   \* whether the worker's principals were both enabled since it started
  changes, faults

rows       == <<identity, chat, owner, policy, inserted>>
workerVars == <<pc, sender, venue, verdict>>
vars == <<rows, workerVars, decided, allowed, changes, faults>>

Access == {"enabled", "disabled"}
Row    == Access \cup {"absent"}
Stage  == {"down", "idle", "identity", "insert_chat", "read_chat", "insert_binding",
           "read_owner", "commit"}

Init ==
  /\ identity \in [Sender -> Row]
  /\ chat = [c \in Chat |-> "absent"]
  /\ owner = [c \in Chat |-> Nobody]
  /\ policy = {}
  /\ inserted = [c \in Chat |-> Nobody]
  /\ pc = [w \in Worker |-> "down"]
  /\ sender = [w \in Worker |-> Owner]
  /\ venue \in {[w \in Worker |-> c] : c \in Chat}
  /\ verdict = [w \in Worker |-> "none"]
  /\ decided = identity
  /\ allowed = [w \in Worker |-> [sender |-> FALSE, venue |-> FALSE]]
  /\ changes = 0
  /\ faults = 0

-----------------------------------------------------------------------------
\* insert ... on conflict do nothing
Ensured(table, x) == [table EXCEPT ![x] = IF @ = "absent" THEN "enabled" ELSE @]

\* A process starts, and with it its worker.
Boot(w) ==
  /\ pc[w] = "down"
  /\ identity' = Ensured(identity, Owner)
  /\ decided' = [decided EXCEPT ![Owner] = IF @ = "absent" THEN "enabled" ELSE @]
  /\ pc' = [pc EXCEPT ![w] = "idle"]
  /\ UNCHANGED <<chat, owner, policy, inserted, sender, venue, verdict, allowed, changes, faults>>

IsEnabled(row) == row = "enabled"
MayEnter(row)  == row # "disabled"  \* of a chat: one without a row gets it enabled

\* An update of s in c has been claimed.
Start(w, s, c) ==
  /\ pc[w] = "idle"
  /\ pc' = [pc EXCEPT ![w] = "identity"]
  /\ sender' = [sender EXCEPT ![w] = s]
  /\ venue' = [venue EXCEPT ![w] = c]
  /\ verdict' = [verdict EXCEPT ![w] = "none"]
  /\ allowed' = [allowed EXCEPT ![w] = [sender |-> IsEnabled(identity[s]),
                                        venue |-> MayEnter(chat[c])]]
  /\ UNCHANGED <<rows, decided, changes, faults>>

Released(w) == [c \in Chat |-> IF inserted[c] = w THEN Nobody ELSE inserted[c]]

\* The worker's verdict; a transaction that has not committed is rolled back.
Conclude(w, v) ==
  /\ verdict' = [verdict EXCEPT ![w] = v]
  /\ pc' = [pc EXCEPT ![w] = "idle"]
  /\ inserted' = Released(w)
  /\ UNCHANGED <<sender, venue>>

To(w, stage) == pc' = [pc EXCEPT ![w] = stage] /\ UNCHANGED <<sender, venue, verdict>>

\* find_identity, and the test of the conversation's kind
ReadIdentity(w) ==
  /\ pc[w] = "identity"
  /\ IF IsEnabled(identity[sender[w]]) /\ venue[w] \in Private
     THEN To(w, "insert_chat") /\ UNCHANGED inserted
     ELSE Conclude(w, "denied")
  /\ UNCHANGED <<identity, chat, owner, policy, decided, allowed, changes, faults>>

InsertChat(w) ==
  /\ pc[w] = "insert_chat"
  /\ chat' = Ensured(chat, venue[w])
  /\ To(w, "read_chat")
  /\ UNCHANGED <<identity, owner, policy, inserted, decided, allowed, changes, faults>>

ReadChat(w) ==
  /\ pc[w] = "read_chat"
  /\ IF IsEnabled(chat[venue[w]])
     THEN To(w, "insert_binding") /\ UNCHANGED inserted
     ELSE Conclude(w, "denied")
  /\ UNCHANGED <<identity, chat, owner, policy, decided, allowed, changes, faults>>

\* Mutant of InsertBinding: the conflict updates the row that exists.
InsertBindingOver(w) ==
  /\ pc[w] = "insert_binding" /\ inserted[venue[w]] = Nobody
  /\ inserted' = [inserted EXCEPT ![venue[w]] = w]
  /\ To(w, "read_owner")
  /\ UNCHANGED <<identity, chat, owner, policy, decided, allowed, changes, faults>>

\* Nothing happens on a committed row; another transaction's is waited for.
InsertBinding(w) ==
  /\ pc[w] = "insert_binding"
  /\ LET c == venue[w]
     IN  \/ owner[c] # Nobody /\ UNCHANGED inserted
         \/ /\ owner[c] = Nobody /\ inserted[c] = Nobody
            /\ inserted' = [inserted EXCEPT ![c] = w]
  /\ To(w, "read_owner")
  /\ UNCHANGED <<identity, chat, owner, policy, decided, allowed, changes, faults>>

\* Mutant of Sees: the transaction trusts its own insert.
SeesItself(w) == sender[w]

\* Whose the chat is, as the worker's transaction sees it.
Sees(w) == IF inserted[venue[w]] = w THEN sender[w] ELSE owner[venue[w]]

ReadOwner(w) ==
  /\ pc[w] = "read_owner"
  /\ IF Sees(w) = sender[w] THEN To(w, "commit") /\ UNCHANGED inserted
                            ELSE Conclude(w, "failed")
  /\ UNCHANGED <<identity, chat, owner, policy, decided, allowed, changes, faults>>

\* The transaction's rows: the binding unless it was there, and its policy.
Published(w) ==
  LET c == venue[w]
  IN  /\ owner' = IF inserted[c] = w THEN [owner EXCEPT ![c] = sender[w]] ELSE owner
      /\ policy' = policy \cup {<<sender[w], c>>}

Commit(w) ==
  /\ pc[w] = "commit"
  /\ Published(w)
  /\ Conclude(w, "admitted")
  /\ UNCHANGED <<identity, chat, decided, allowed, changes, faults>>

-----------------------------------------------------------------------------
(* Faults and the operator *)

\* A statement fails: the update is settled as failed.  The commit may have
\* been carried out all the same.
Fails(w) ==
  /\ pc[w] \notin {"down", "idle"} /\ faults < MaxFaults
  /\ faults' = faults + 1
  /\ Conclude(w, "error")
  /\ \/ UNCHANGED <<owner, policy>>
     \/ pc[w] = "commit" /\ Published(w)
  /\ UNCHANGED <<identity, chat, decided, allowed, changes>>

\* The process stops; its transaction is rolled back.
Crash(w) ==
  /\ pc[w] # "down" /\ faults < MaxFaults
  /\ faults' = faults + 1
  /\ pc' = [pc EXCEPT ![w] = "down"]
  /\ inserted' = Released(w)
  /\ UNCHANGED <<identity, chat, owner, policy, sender, venue, verdict, decided, allowed, changes>>

\* The operator enables or disables a sender that has a row.
SetIdentity(s, a) ==
  /\ changes < MaxChanges /\ identity[s] # "absent"
  /\ changes' = changes + 1
  /\ identity' = [identity EXCEPT ![s] = a]
  /\ decided' = [decided EXCEPT ![s] = a]
  /\ allowed' = [w \in Worker |->
                   IF sender[w] = s /\ IsEnabled(a) THEN [allowed[w] EXCEPT !.sender = TRUE]
                   ELSE allowed[w]]
  /\ UNCHANGED <<chat, owner, policy, inserted, workerVars, faults>>

SetChat(c, a) ==
  /\ changes < MaxChanges /\ chat[c] # "absent"
  /\ changes' = changes + 1
  /\ chat' = [chat EXCEPT ![c] = a]
  /\ allowed' = [w \in Worker |->
                   IF venue[w] = c /\ MayEnter(a) THEN [allowed[w] EXCEPT !.venue = TRUE]
                   ELSE allowed[w]]
  /\ UNCHANGED <<identity, owner, policy, inserted, workerVars, decided, faults>>

Step(w) ==
  \/ ReadIdentity(w) \/ InsertChat(w) \/ ReadChat(w)
  \/ InsertBinding(w) \/ ReadOwner(w) \/ Commit(w)

Next ==
  \/ \E w \in Worker : Boot(w) \/ Step(w) \/ Fails(w) \/ Crash(w)
  \/ \E w \in Worker, s \in Sender, c \in Chat : Start(w, s, c)
  \/ \E s \in Sender, a \in Access : SetIdentity(s, a)
  \/ \E c \in Chat, a \in Access : SetChat(c, a)

Spec == Init /\ [][Next]_vars

-----------------------------------------------------------------------------
(* Properties *)

\* Every row and worker stays within its type; only private chats have rows
\* (design D5 of access.rs), and only a worker at work has inserted.
TypeOK ==
  /\ identity \in [Sender -> Row] /\ decided \in [Sender -> Row]
  /\ chat \in [Chat -> Row] /\ \A c \in Chat \ Private : chat[c] = "absent"
  /\ owner \in [Chat -> Sender \cup {Nobody}]
  /\ policy \subseteq Sender \X Chat
  /\ inserted \in [Chat -> Worker \cup {Nobody}]
  /\ \A c \in Chat : inserted[c] # Nobody =>
       venue[inserted[c]] = c /\ pc[inserted[c]] \in {"read_owner", "commit"}
  /\ pc \in [Worker -> Stage] /\ sender \in [Worker -> Sender] /\ venue \in [Worker -> Chat]
  /\ verdict \in [Worker -> {"none", "admitted", "denied", "failed", "error"}]
  /\ allowed \in [Worker -> [sender : BOOLEAN, venue : BOOLEAN]]
  /\ changes \in 0..MaxChanges /\ faults \in 0..MaxFaults

\* What the operator has said of a sender holds until the operator says
\* otherwise: neither a restart's bootstrap nor an update brings a disabled
\* one back (bindings.rs: "never resurrects a disabled principal").
OperatorDecides == identity = decided

\* An update is admitted only if its sender and its chat have both been enabled
\* at some time since its check began: one that comes after the operator has
\* disabled either is refused (access.rs: authorize).
DisabledIsRefused ==
  \A w \in Worker : verdict[w] = "admitted" => allowed[w].sender /\ allowed[w].venue

\* A chat is its actor's for good, however many actors and replays race for it
\* (bind_private_chat: "a chat already bound to another actor is refused").
ChatStaysBound == [][\A c \in Chat : owner[c] # Nobody => owner'[c] = owner[c]]_vars

\* Whoever is admitted owns the chat it wrote in.
AdmittedOwnsTheChat ==
  \A w \in Worker : verdict[w] = "admitted" => owner[venue[w]] = sender[w]

\* Every binding has its policy row, whatever stopped on the way: the
\* notification switch is found wherever delivery is (bind_private_chat).
BoundHasPolicy ==
  \A c \in Chat : owner[c] # Nobody => <<owner[c], c>> \in policy

\* The gate itself fails an update only because the chat is another actor's:
\* replays of one actor, racing or not, are all admitted (bind_private_chat:
\* "idempotent, including two replays racing each other").
ReplaysAreAdmitted ==
  \A w \in Worker : verdict[w] = "failed" => owner[venue[w]] \notin {sender[w], Nobody}

\* Who is admitted is what the operator and the first binding of the chat have
\* decided, whatever races, replays, fails or restarts (authorize,
\* bind_private_chat).
AccessIsAsDecided ==
  /\ TypeOK /\ OperatorDecides /\ DisabledIsRefused
  /\ AdmittedOwnsTheChat /\ BoundHasPolicy /\ ReplaysAreAdmitted

=============================================================================
