---------------------------- MODULE CaptureLinks ----------------------------
(***************************************************************************)
(* What an accepted capture leaves behind: the binding of its operation to *)
(* the chat, the acknowledgement, and the deep-link token that names the   *)
(* operation's owner, is offered in the terminal render and opens once.    *)
(* Captures of one link meet in capture_projection.rs; the follower, the   *)
(* consumer and the cleanup pass read and remove what they wrote.          *)
(*                                                                         *)
(* One sender in one private chat; a link stands for the submission's      *)
(* route and body.  Queueing, retries of updates and the projection's own  *)
(* guards are in UpdateIntake, OutboundQueue and Projection.               *)
(***************************************************************************)
EXTENDS Naturals, FiniteSets

CONSTANTS
  Update,       \* updates that carry a capture
  NoUpdate,     \* holder of a free row
  Link,         \* what they ask to capture
  Ttl,          \* INTENT_TTL_SECS
  MaxOperations, MaxTokens, MaxFaults  \* bounds on operations, tokens and failures

VARIABLES
  capture,  \* where each update's submission stands
  opOf,     \* Platform: the operation of an idempotency key
  status,   \* Platform: operations
  minted,
  token,    \* telegram.interaction_tokens
  bound,    \* telegram.message_bindings: none, live or terminal
  lock,     \* the transaction that holds the binding's row
  acks,     \* acknowledgement jobs
  looking,  \* operations whose terminal frame the consumer has in hand
  found,    \* and the token it read for its render
  shown,    \* the token in the terminal render
  faults

platformVars == <<opOf, status>>
tokenVars    == <<minted, token>>
renderVars   == <<looking, found, shown>>
vars == <<capture, platformVars, tokenVars, bound, lock, acks, renderVars, faults>>

Operation == 1..MaxOperations
Token     == 1..MaxTokens
Stage     == {"unsent", "submit", "record", "locked", "processed", "refused"}
Capture   == [at : Stage, link : Link, op : 0..MaxOperations, mint : BOOLEAN, ack : BOOLEAN]
Row       == [state : {"none", "issued", "consumed"}, op : 0..MaxOperations, age : 0..Ttl,
              releases : 0..1]

Init ==
  /\ capture = [u \in Update |-> [at |-> "unsent", link |-> CHOOSE l \in Link : TRUE, op |-> 0,
                                  mint |-> FALSE, ack |-> FALSE]]
  /\ opOf = [l \in Link |-> 0]
  /\ status = [o \in Operation |-> "none"]
  /\ minted = 0
  /\ token = [k \in Token |-> [state |-> "none", op |-> 0, age |-> 0, releases |-> 0]]
  /\ bound = [o \in Operation |-> "none"]
  /\ lock = [o \in Operation |-> NoUpdate]
  /\ acks = [o \in Operation |-> 0]
  /\ looking = {}
  /\ found = [o \in Operation |-> 0]
  /\ shown = [o \in Operation |-> 0]
  /\ faults = 0

Fail == faults < MaxFaults /\ faults' = faults + 1

-----------------------------------------------------------------------------
(* The capture *)

\* The user sends a link, perhaps again, perhaps after reading that it failed.
Send(u) ==
  /\ capture[u].at = "unsent"
  /\ \E l \in Link : capture' = [capture EXCEPT ![u].at = "submit", ![u].link = l]
  /\ UNCHANGED <<platformVars, tokenVars, bound, lock, acks, renderVars, faults>>

Used == Cardinality({o \in Operation : status[o] # "none"})

\* Platform answers one key with one operation, whatever became of it.
Accept(l) ==
  IF opOf[l] # 0 THEN UNCHANGED platformVars
  ELSE /\ Used < MaxOperations
       /\ opOf' = [opOf EXCEPT ![l] = Used + 1]
       /\ status' = [status EXCEPT ![Used + 1] = "running"]

\* The key is derived from the sender, the route and the body, and from
\* nothing else.
Submit(u) ==
  /\ capture[u].at = "submit"
  /\ Accept(capture[u].link)
  /\ capture' = [capture EXCEPT ![u].at = "record", ![u].op = opOf'[capture[u].link]]
  /\ UNCHANGED <<tokenVars, bound, lock, acks, renderVars, faults>>

\* No acceptance was heard of; Platform may have accepted all the same.
Refuse(u) ==
  /\ capture[u].at = "submit"
  /\ Fail
  /\ Accept(capture[u].link) \/ UNCHANGED platformVars
  /\ capture' = [capture EXCEPT ![u].at = "refused"]
  /\ UNCHANGED <<tokenVars, bound, lock, acks, renderVars>>

Live(k) == token[k].state = "issued" /\ token[k].age < Ttl

Authority(o) == {k \in Token : token[k].op = o /\ Live(k)}

\* Mutant of Record: no row is locked before the records are looked for.
RecordUnlocked(u) ==
  /\ capture[u].at = "record"
  /\ LET o == capture[u].op
     IN  /\ lock' = lock
         /\ capture' = [capture EXCEPT ![u].at = "locked", ![u].mint = Authority(o) = {},
                                       ![u].ack = acks[o] = 0]
  /\ UNCHANGED <<platformVars, tokenVars, bound, acks, renderVars, faults>>

\* The binding's row is inserted or locked, and what is there is looked for.
Record(u) ==
  /\ capture[u].at = "record"
  /\ LET o == capture[u].op
     IN  /\ lock[o] = NoUpdate
         /\ lock' = [lock EXCEPT ![o] = u]
         /\ capture' = [capture EXCEPT ![u].at = "locked", ![u].mint = Authority(o) = {},
                                       ![u].ack = acks[o] = 0]
  /\ UNCHANGED <<platformVars, tokenVars, bound, acks, renderVars, faults>>

\* A bound message id also stands for the acknowledgement; its job is then
\* in the queue's table as well.
Commit(u) ==
  /\ capture[u].at = "locked"
  /\ LET o == capture[u].op
     IN  /\ bound' = [bound EXCEPT ![o] = IF @ = "none" THEN "live" ELSE @]
         /\ IF capture[u].mint
            THEN /\ minted < MaxTokens
                 /\ minted' = minted + 1
                 /\ token' = [token EXCEPT ![minted + 1] =
                                [state |-> "issued", op |-> o, age |-> 0, releases |-> 0]]
            ELSE UNCHANGED tokenVars
         /\ acks' = [acks EXCEPT ![o] = @ + IF capture[u].ack THEN 1 ELSE 0]
         /\ lock' = [lock EXCEPT ![o] = NoUpdate]
  /\ capture' = [capture EXCEPT ![u].at = "processed"]
  /\ UNCHANGED <<platformVars, renderVars, faults>>

\* The transaction fails or the process stops: the update comes back.
Rollback(u) ==
  /\ capture[u].at \in {"record", "locked"}
  /\ Fail
  /\ lock' = [o \in Operation |-> IF lock[o] = u THEN NoUpdate ELSE lock[o]]
  /\ capture' = [capture EXCEPT ![u].at = "submit", ![u].op = 0]
  /\ UNCHANGED <<platformVars, tokenVars, bound, acks, renderVars>>

-----------------------------------------------------------------------------
(* The terminal render *)

End(o) ==
  /\ status[o] = "running"
  /\ \E s \in {"succeeded", "failed"} : status' = [status EXCEPT ![o] = s]
  /\ UNCHANGED <<capture, opOf, tokenVars, bound, lock, acks, renderVars, faults>>

\* The newest live token, read before the accept transaction.
Look(o) ==
  /\ status[o] \in {"succeeded", "failed"}
  /\ bound[o] = "live" /\ o \notin looking
  /\ looking' = looking \cup {o}
  /\ found' = [found EXCEPT ![o] = IF Authority(o) = {} THEN 0
                                   ELSE CHOOSE k \in Authority(o) :
                                          \A j \in Authority(o) : j <= k]
  /\ UNCHANGED <<capture, platformVars, tokenVars, bound, lock, acks, shown, faults>>

\* The accept transaction needs the binding's row too.
Project(o) ==
  /\ o \in looking
  /\ lock[o] = NoUpdate
  /\ looking' = looking \ {o}
  /\ bound' = [bound EXCEPT ![o] = "terminal"]
  /\ shown' = [shown EXCEPT ![o] = IF status[o] = "succeeded" THEN found[o] ELSE 0]
  /\ UNCHANGED <<capture, platformVars, tokenVars, lock, acks, found, faults>>

ProjectFails(o) ==
  /\ o \in looking
  /\ Fail
  /\ looking' = looking \ {o}
  /\ UNCHANGED <<capture, platformVars, tokenVars, bound, lock, acks, found, shown>>

-----------------------------------------------------------------------------
(* The token afterwards *)

\* The owner follows the link; every other presentation changes nothing.
Open(k) ==
  /\ \E o \in Operation : shown[o] = k
  /\ Live(k)
  /\ token' = [token EXCEPT ![k].state = "consumed", ![k].releases = @ + 1]
  /\ UNCHANGED <<capture, platformVars, minted, bound, lock, acks, renderVars, faults>>

\* Mutant of Removable: any binding keeps its tokens.
RemovableUnbound(k) == /\ token[k].state = "consumed" \/ token[k].age = Ttl
                       /\ bound[token[k].op] = "none"

\* Spent, and no live binding needs it to name the owner.
Removable(k) == /\ token[k].state # "none"
                /\ token[k].state = "consumed" \/ token[k].age = Ttl
                /\ bound[token[k].op] # "live"

Cleanup(k) ==
  /\ Removable(k)
  /\ token' = [token EXCEPT ![k].state = "none"]
  /\ UNCHANGED <<capture, platformVars, minted, bound, lock, acks, renderVars, faults>>

Aging == {k \in Token : token[k].state # "none" /\ token[k].age < Ttl}

Tick ==
  /\ Aging # {}
  /\ token' = [k \in Token |-> IF k \in Aging THEN [token[k] EXCEPT !.age = @ + 1]
                               ELSE token[k]]
  /\ UNCHANGED <<capture, platformVars, minted, bound, lock, acks, renderVars, faults>>

CaptureStep(u) == Submit(u) \/ Refuse(u) \/ Record(u) \/ Commit(u) \/ Rollback(u)
RenderStep(o)  == Look(o) \/ Project(o) \/ ProjectFails(o)

Next ==
  \/ \E u \in Update : Send(u) \/ CaptureStep(u)
  \/ \E o \in Operation : End(o) \/ RenderStep(o)
  \/ \E k \in Token : Open(k) \/ Cleanup(k)
  \/ Tick

\* Time passes, and the webhook's worker runs the cleanup pass every so often.
Spec == /\ Init /\ [][Next]_vars
        /\ WF_vars(Tick)
        /\ \A k \in Token : WF_vars(Cleanup(k))

-----------------------------------------------------------------------------
(* Properties *)

\* Every variable stays within its type; a token releases once
\* (consume_interaction_token).
TypeOK ==
  /\ capture \in [Update -> Capture]
  /\ opOf \in [Link -> 0..MaxOperations]
  /\ status \in [Operation -> {"none", "running", "succeeded", "failed"}]
  /\ minted \in 0..MaxTokens /\ token \in [Token -> Row]
  /\ bound \in [Operation -> {"none", "live", "terminal"}]
  /\ lock \in [Operation -> Update \cup {NoUpdate}]
  /\ acks \in [Operation -> Nat]
  /\ looking \subseteq Operation
  /\ found \in [Operation -> 0..MaxTokens] /\ shown \in [Operation -> 0..MaxTokens]
  /\ faults \in 0..MaxFaults

\* As long as an operation is to be followed, a token names the user to
\* authenticate as, however long the operation runs and whatever the cleanup
\* removes (find_operation_intent_owner: "Expiry and consumption do not remove
\* this ownership fact").
OwnerWhileFollowed ==
  \A o \in Operation : bound[o] = "live" =>
    \E k \in Token : token[k].op = o /\ token[k].state # "none"

\* Captures of one operation that race or are repeated after a lost commit
\* converge on one live token (record_accepted_capture_projection).
OneLiveIntent == \A o \in Operation : Cardinality(Authority(o)) <= 1

\* And on one acknowledgement, whether the operation still runs or has ended.
OneAcknowledgement == \A o \in Operation : acks[o] <= 1

\* The link in a finished operation's message works: until it expires or is
\* followed, nothing takes its token away, neither a repeated capture nor the
\* cleanup pass.
ShownLinkHolds ==
  \A o \in Operation : shown[o] # 0 =>
    LET k == shown[o]
    IN  token[k].op = o /\ (Live(k) \/ token[k].releases = 1 \/ token[k].age = Ttl)

\* Once an operation has ended, none of its tokens stays for good
\* (cleanup_interactions).
LinksLeave ==
  \A k \in Token :
    (token[k].state # "none" /\ bound[token[k].op] = "terminal") ~> (token[k].state = "none")

\* An operation has one acknowledgement and one live link, which names its owner as
\* long as that is needed and works as long as it is shown
\* (record_accepted_capture_projection, cleanup_interactions).
LinksAreKept ==
  /\ TypeOK /\ OwnerWhileFollowed /\ OneLiveIntent
  /\ OneAcknowledgement /\ ShownLinkHolds

=============================================================================
