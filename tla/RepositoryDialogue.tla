------------------------- MODULE RepositoryDialogue -------------------------
(***************************************************************************)
(* The GitHub repository dialogue: a preview with one button per mode, a   *)
(* confirmation prompt with Confirm and Cancel, the confirmed action sent  *)
(* to Platform and its result.  Buttons carry tokens; presses are durable  *)
(* updates processed by the webhook's workers, which crash, overlap and    *)
(* retry; a cleanup pass runs beside them.                                 *)
(*                                                                         *)
(* The actor, bot and chat of a press are the owner's; what is compared is *)
(* the message it was pressed in, and a message is named by the step its   *)
(* buttons belong to.  Time is what the SQL tests: a dialogue, with all    *)
(* its tokens, is `overdue' or not, and past its retention or not.  Of the *)
(* update ledger (module UpdateIntake) the claim is kept with its lease    *)
(* renewal, the settlement and the deferral.                               *)
(***************************************************************************)
EXTENDS Naturals, FiniteSets

CONSTANTS
  Dialogue,     \* dialogue ids
  Mode,         \* repository actions a preview offers
  Press,        \* callback updates in the order of their ids, one for each press
  Scripts,      \* the buttons the presses may be of
  Worker,       \* worker tasks, one per webhook process
  MaxAttempts,  \* UPDATE_RECOVERY_ATTEMPTS
  MaxFaults,    \* bound on crashes, stalls, storage errors and lost answers
  None          \* no message, mode or update

ASSUME DialogueAssumption ==
  /\ Mode \cap {"confirm", "cancel"} = {}
  /\ None \notin {"preview", "confirming"}
  /\ Press \subseteq Nat
  /\ Scripts \subseteq [Press -> Mode \cup {"confirm", "cancel"}]
  /\ MaxAttempts \in Nat \ {0}
  /\ MaxFaults \in Nat

VARIABLES
  \* telegram.dialog_states and telegram.interaction_tokens
  row,        \* the dialogue rows
  token,      \* the callback tokens
  overdue,    \* dialogues whose expires_at has passed
  aged,       \* terminal dialogues past their retention
  \* the chat
  prompt,     \* a dialogue's two messages on their way to the user
  prompted,   \* the mode a confirmation prompt names
  \* telegram.updates
  script,     \* the button each update presses
  press,      \* the dialogue it is pressed in
  state,
  attempts,
  \* the workers
  pc,
  held,       \* the claimed update
  verdict,    \* how processing ended
  \* Platform, and what has been done
  submitted,  \* the modes Platform was asked for, by idempotency key
  released,   \* updates that were given the confirmed action
  results,    \* result jobs of a dialogue
  faults

storeVars  == <<row, token>>
timeVars   == <<overdue, aged>>
chatVars   == <<prompt, prompted>>
ledgerVars == <<script, press, state, attempts>>
workerVars == <<pc, held, verdict>>
doneVars   == <<submitted, released, results>>
vars == <<storeVars, timeVars, chatVars, ledgerVars, workerVars, doneVars, faults>>

Button    == Mode \cup {"confirm", "cancel"}
Step      == {"preview", "confirming", "submitting", "completed"}
Message   == {"preview", "confirming"}
Lifecycle == {"unborn", "active", "completed", "cancelled", "expired", "deleted"}
Terminal  == {"completed", "cancelled", "expired"}
Row       == [step : Step, lifecycle : Lifecycle, version : 0..3,
              message : Message \cup {None}, mode : Mode \cup {None}, update : Press \cup {None}]
Token     == [state : {"absent", "live", "consumed"}, message : Message \cup {None}]
Unsettled == {"accepted", "processing"}
Stage     == {"start", "idle", "select", "prompt", "decide", "submit", "complete", "settle"}

NoRow    == [step |-> "preview", lifecycle |-> "unborn", version |-> 0,
             message |-> None, mode |-> None, update |-> None]
NoToken  == [state |-> "absent", message |-> None]
NewToken == [state |-> "live", message |-> None]

\* The message a button is shown in, and the dialogue version its token expects.
ShownIn(b)         == IF b \in Mode THEN "preview" ELSE "confirming"
ExpectedVersion(b) == IF b \in Mode THEN 0 ELSE 1

Init ==
  /\ row = [d \in Dialogue |-> NoRow]
  /\ token = [d \in Dialogue |-> [b \in Button |-> NoToken]]
  /\ overdue = {} /\ aged = {}
  /\ prompt = [d \in Dialogue |-> [m \in Message |-> "none"]]
  /\ prompted = [d \in Dialogue |-> None]
  /\ script \in Scripts
  /\ press = [u \in Press |-> None]
  /\ state = [u \in Press |-> "unsent"]
  /\ attempts = [u \in Press |-> 0]
  /\ pc = [w \in Worker |-> "idle"]
  /\ held = [w \in Worker |-> None]
  /\ verdict = [w \in Worker |-> "none"]
  /\ submitted = [d \in Dialogue |-> {}]
  /\ released = [d \in Dialogue |-> {}]
  /\ results = [d \in Dialogue |-> 0]
  /\ faults = 0

SpendFault == faults < MaxFaults /\ faults' = faults + 1

-----------------------------------------------------------------------------
(* The preview, the chat and time *)

\* The dialogue and its tokens are committed, then its message is enqueued; a
\* crash or storage error between the two leaves a dialogue nobody sees.
Preview(d) ==
  /\ row[d].lifecycle = "unborn"
  /\ row' = [row EXCEPT ![d].lifecycle = "active"]
  /\ token' = [token EXCEPT ![d] = [b \in Button |-> IF b \in Mode THEN NewToken ELSE NoToken]]
  /\ \/ prompt' = [prompt EXCEPT ![d]["preview"] = "queued"] /\ UNCHANGED faults
     \/ UNCHANGED prompt /\ SpendFault
  /\ UNCHANGED <<timeVars, prompted, ledgerVars, workerVars, doneVars>>

\* The dispatcher sends the message: its buttons can be pressed from here on.
Show(d, m) ==
  /\ prompt[d][m] = "queued"
  /\ prompt' = [prompt EXCEPT ![d][m] = "shown"]
  /\ UNCHANGED <<storeVars, timeVars, prompted, ledgerVars, workerVars, doneVars, faults>>

\* apply_callback_stamp, in the transaction that records the acknowledgement.
Acknowledge(d, m) ==
  /\ prompt[d][m] = "shown"
  /\ prompt' = [prompt EXCEPT ![d][m] = "acknowledged"]
  /\ IF row[d].lifecycle = "active" /\ row[d].step \in {"preview", "confirming"}
     THEN /\ row' = [row EXCEPT ![d].message = m]
          /\ token' = [token EXCEPT ![d] = [b \in Button |->
               IF @[b].state = "live" /\ ExpectedVersion(b) = row[d].version
               THEN [@[b] EXCEPT !.message = m] ELSE @[b]]]
     ELSE UNCHANGED storeVars
  /\ UNCHANGED <<timeVars, prompted, ledgerVars, workerVars, doneVars, faults>>

\* The owner presses a button of a message on the screen, again if they like.
PressButton(u, d) ==
  /\ state[u] = "unsent" /\ \A v \in Press : v < u => state[v] # "unsent"
  /\ prompt[d][ShownIn(script[u])] \in {"shown", "acknowledged"}
  /\ press' = [press EXCEPT ![u] = d]
  /\ state' = [state EXCEPT ![u] = "accepted"]
  /\ UNCHANGED <<storeVars, timeVars, chatVars, script, attempts, workerVars, doneVars, faults>>

\* Fifteen minutes after the preview, whatever the dialogue is at.
Overdue(d) ==
  /\ row[d].lifecycle # "unborn" /\ d \notin overdue
  /\ overdue' = overdue \cup {d}
  /\ UNCHANGED <<storeVars, aged, chatVars, ledgerVars, workerVars, doneVars, faults>>

\* Seven days after its end.
Age(d) ==
  /\ row[d].lifecycle \in Terminal /\ d \notin aged
  /\ aged' = aged \cup {d}
  /\ UNCHANGED <<storeVars, overdue, chatVars, ledgerVars, workerVars, doneVars, faults>>

-----------------------------------------------------------------------------
(* The worker's bookkeeping *)

Go(w, to) == pc' = [pc EXCEPT ![w] = to]

Conclude(w, v) == Go(w, "settle") /\ verdict' = [verdict EXCEPT ![w] = v]

HolderAtWork(u) == \E w \in Worker : pc[w] \notin {"start", "idle"} /\ held[w] = u

\* Accepted, or processing past its lease: its worker is gone, or has stalled.
Claimable(u) == \/ state[u] = "accepted" /\ UNCHANGED faults
                \/ state[u] = "processing" /\ ~HolderAtWork(u) /\ UNCHANGED faults
                \/ state[u] = "processing" /\ HolderAtWork(u) /\ SpendFault

Claim(w) ==
  /\ pc[w] = "idle"
  /\ \E u \in Press : /\ Claimable(u)
                      /\ state' = [state EXCEPT ![u] = "processing"]
                      /\ attempts' = [attempts EXCEPT ![u] = @ + 1]
                      /\ held' = [held EXCEPT ![w] = u]
  /\ Go(w, "select")
  /\ UNCHANGED <<storeVars, timeVars, chatVars, script, press, verdict, doneVars>>

\* A settlement writes over whatever the row has become; a deferral does not, and
\* leaves the update to the operator after its last claim.
Settle(w) ==
  LET u == held[w] IN
  /\ pc[w] = "settle"
  /\ state' = [state EXCEPT ![u] =
       IF verdict[w] = "settled" THEN "settled"
       ELSE IF @ # "processing" THEN @
       ELSE IF attempts[u] >= MaxAttempts THEN "recovery_required" ELSE "accepted"]
  /\ Go(w, "idle")
  /\ held' = [held EXCEPT ![w] = None]
  /\ verdict' = [verdict EXCEPT ![w] = "none"]
  /\ UNCHANGED <<storeVars, timeVars, chatVars, script, press, attempts, doneVars, faults>>

-----------------------------------------------------------------------------
(* Checks shared by selection, decision and cleanup *)

InScope(d, b) == token[d][b].message = ShownIn(b) /\ row[d].message = ShownIn(b)

\* validate_callback, in its order.
Refusal(d, b, step, version) ==
  CASE token[d][b].state = "absent"   -> "invalid"
    [] token[d][b].state = "consumed" -> "consumed"
    [] token[d][b].state = "live" /\ d \in overdue -> "expired"
    [] OTHER -> IF /\ InScope(d, b)
                   /\ row[d].lifecycle = "active"
                   /\ row[d].step = step /\ row[d].version = version
                   /\ ExpectedVersion(b) = version
                THEN "none" ELSE "invalid"

Expired(r) == IF r.lifecycle = "active"
              THEN [r EXCEPT !.lifecycle = "expired", !.version = @ + 1] ELSE r

Consume(d, b) == [token[d] EXCEPT ![b].state = "consumed"]

-----------------------------------------------------------------------------
(* consume_repository_selection and the confirmation prompt *)

Chosen(b) == b

Select(w) ==
  LET d == press[held[w]]
      b == script[held[w]]
      refusal == Refusal(d, b, "preview", 0)
  IN
  /\ pc[w] = "select"
  /\ \/ /\ refusal = "none"
        /\ row' = [row EXCEPT ![d].step = "confirming", ![d].version = 1,
                              ![d].message = None, ![d].mode = Chosen(b)]
        /\ token' = [token EXCEPT ![d] =
             [Consume(d, b) EXCEPT !["confirm"] = NewToken, !["cancel"] = NewToken]]
        /\ Go(w, "prompt") /\ UNCHANGED verdict
     \/ /\ refusal \in {"invalid", "consumed"}
        /\ Go(w, "decide") /\ UNCHANGED <<row, token, verdict>>
     \/ /\ refusal = "expired"
        /\ row' = [row EXCEPT ![d] = Expired(@)]
        /\ Conclude(w, "settled") /\ UNCHANGED token
  /\ UNCHANGED <<timeVars, chatVars, ledgerVars, held, doneVars, faults>>

Prompt(w) ==
  LET d == press[held[w]] IN
  /\ pc[w] = "prompt"
  /\ prompt' = [prompt EXCEPT ![d]["confirming"] = "queued"]
  /\ prompted' = [prompted EXCEPT ![d] = script[held[w]]]
  /\ Conclude(w, "settled")
  /\ UNCHANGED <<storeVars, timeVars, ledgerVars, held, doneVars, faults>>

-----------------------------------------------------------------------------
(* consume_repository_decision *)

\* Mutant of Resumes: any update that presents the consumed confirmation.
ResumesForAny(d, b, u) == b = "confirm" /\ token[d][b].message = ShownIn(b)

\* Only the update that released the action resumes it.
Resumes(d, b, u) ==
  b = "confirm" /\ token[d][b].message = ShownIn(b) /\ row[d].update = u

\* The cancellation or the common refusal is told in the chat; a reply that cannot
\* be stored is retried.
Tell(w) == \/ Conclude(w, "settled") /\ UNCHANGED faults
           \/ Conclude(w, "retry") /\ SpendFault

Release(w, d) == /\ released' = [released EXCEPT ![d] = @ \cup {held[w]}]
                 /\ Go(w, "submit") /\ UNCHANGED <<verdict, faults>>

\* The token's first consumption, by Cancel or by Confirm.
Decided(w, d, b) ==
  /\ token' = [token EXCEPT ![d] = Consume(d, b)]
  /\ \/ /\ b = "cancel"
        /\ row' = [row EXCEPT ![d].lifecycle = "cancelled", ![d].version = 2, ![d].message = None]
        /\ Tell(w) /\ UNCHANGED released
     \/ /\ b = "confirm"
        /\ row' = [row EXCEPT ![d].step = "submitting", ![d].version = 2, ![d].message = None,
                              ![d].update = held[w]]
        /\ Release(w, d)

\* A consumed confirmation presented by its own update.
Resumed(w, d) ==
  /\ UNCHANGED storeVars
  /\ \/ row[d].step = "submitting" /\ row[d].lifecycle = "active" /\ Release(w, d)
     \/ /\ row[d].lifecycle = "completed"
        /\ Conclude(w, "settled") /\ UNCHANGED <<released, faults>>
     \/ /\ row[d].lifecycle \notin {"active", "completed"}
        /\ Tell(w) /\ UNCHANGED released

Decide(w) ==
  LET d == press[held[w]]
      b == script[held[w]]
      refusal == Refusal(d, b, "confirming", 1)
  IN
  /\ pc[w] = "decide"
  /\ \/ refusal = "none" /\ Decided(w, d, b)
     \/ refusal = "consumed" /\ Resumes(d, b, held[w]) /\ Resumed(w, d)
     \/ /\ \/ refusal = "consumed" /\ ~Resumes(d, b, held[w]) /\ UNCHANGED row
           \/ refusal = "invalid" /\ UNCHANGED row
           \/ refusal = "expired" /\ row' = [row EXCEPT ![d] = Expired(@)]
        /\ Tell(w) /\ UNCHANGED <<token, released>>
  /\ UNCHANGED <<timeVars, chatVars, ledgerVars, held, submitted, results>>

-----------------------------------------------------------------------------
(* execute_confirmed_action *)

\* Platform applies the action or refuses it; either answer is to be reported.
Submit(w) ==
  LET d == press[held[w]] IN
  /\ pc[w] = "submit"
  /\ \/ submitted' = [submitted EXCEPT ![d] = @ \cup {row[d].mode}]
     \/ UNCHANGED submitted
  /\ Go(w, "complete")
  /\ UNCHANGED <<storeVars, timeVars, chatVars, ledgerVars, held, verdict, released, results, faults>>

Completable(r, u) == r.update = u /\ r.step = "submitting" /\ r.lifecycle = "active"

\* complete_repository_dialogue_projection: the end and its result job together.
Complete(d) ==
  /\ row' = [row EXCEPT ![d].step = "completed", ![d].lifecycle = "completed", ![d].version = @ + 1]
  /\ results' = [results EXCEPT ![d] = @ + 1]

Report(w) ==
  LET d == press[held[w]]
      u == held[w]
  IN
  /\ pc[w] = "complete"
  /\ \/ Completable(row[d], u) /\ Complete(d) /\ Conclude(w, "settled")
     \/ /\ ~Completable(row[d], u) /\ row[d].lifecycle = "completed" /\ row[d].update = u
        /\ Conclude(w, "settled") /\ UNCHANGED <<row, results>>
     \/ /\ ~Completable(row[d], u) /\ ~(row[d].lifecycle = "completed" /\ row[d].update = u)
        /\ Conclude(w, "retry") /\ UNCHANGED <<row, results>>
  /\ UNCHANGED <<token, timeVars, chatVars, ledgerVars, held, submitted, released, faults>>

-----------------------------------------------------------------------------
(* Faults and cleanup *)

\* No usable answer from Platform, which may have applied the action.
SubmitUnanswered(w) ==
  LET d == press[held[w]] IN
  /\ pc[w] = "submit" /\ SpendFault
  /\ \/ submitted' = [submitted EXCEPT ![d] = @ \cup {row[d].mode}]
     \/ UNCHANGED submitted
  /\ Conclude(w, "retry")
  /\ UNCHANGED <<storeVars, timeVars, chatVars, ledgerVars, held, released, results>>

\* A statement fails: around the selection the update fails, later it is retried.
\* A completion may have been committed all the same.
StorageError(w) ==
  LET d == press[held[w]] IN
  /\ SpendFault
  /\ \/ pc[w] \in {"select", "prompt"} /\ Conclude(w, "settled") /\ UNCHANGED <<row, results>>
     \/ pc[w] \in {"decide", "complete"} /\ Conclude(w, "retry") /\ UNCHANGED <<row, results>>
     \/ /\ pc[w] = "complete" /\ Completable(row[d], held[w])
        /\ Complete(d) /\ Conclude(w, "retry")
  /\ UNCHANGED <<token, timeVars, chatVars, ledgerVars, held, submitted, released>>

\* The process dies and starts again; what it held stays processing.
Crash(w) ==
  /\ pc[w] # "start" /\ SpendFault
  /\ Go(w, "start")
  /\ held' = [held EXCEPT ![w] = None]
  /\ verdict' = [verdict EXCEPT ![w] = "none"]
  /\ UNCHANGED <<storeVars, timeVars, chatVars, ledgerVars, doneVars>>

\* Mutant of Removable: unconsumed tokens stay.
RemovableConsumed(d, b, r) == token[d][b].state = "consumed"

Removable(d, b, r) ==
  \/ token[d][b].state = "consumed"
  \/ d \in overdue
  \/ r.lifecycle # "active"
  \/ r.version # ExpectedVersion(b)

\* cleanup_interactions, one transaction: expire, then remove tokens, then remove
\* terminal dialogues past their retention that no token refers to.  It runs when
\* a process starts, before the first claim, and every minute between two claims.
Cleanup(w) ==
  LET swept == [d \in Dialogue |-> IF d \in overdue THEN Expired(row[d]) ELSE row[d]]
      left  == [d \in Dialogue |-> [b \in Button |->
                  IF Removable(d, b, swept[d]) THEN NoToken ELSE token[d][b]]]
  IN
  /\ pc[w] \in {"start", "idle"}
  /\ token' = left
  /\ row' = [d \in Dialogue |->
       IF d \in aged /\ swept[d].lifecycle \in Terminal /\ \A b \in Button : left[d][b] = NoToken
       THEN [swept[d] EXCEPT !.lifecycle = "deleted"] ELSE swept[d]]
  /\ pc[w] = "start" \/ storeVars' # storeVars
  /\ Go(w, "idle")
  /\ UNCHANGED <<timeVars, chatVars, ledgerVars, held, verdict, doneVars, faults>>

-----------------------------------------------------------------------------
WorkerStep(w) == \/ Claim(w) \/ Select(w) \/ Prompt(w) \/ Decide(w)
                 \/ Submit(w) \/ Report(w) \/ Settle(w)

WorkerFault(w) == SubmitUnanswered(w) \/ StorageError(w) \/ Crash(w)

Next == \/ \E d \in Dialogue : \/ Preview(d) \/ Overdue(d) \/ Age(d)
                               \/ \E m \in Message : Show(d, m) \/ Acknowledge(d, m)
                               \/ \E u \in Press : PressButton(u, d)
        \/ \E w \in Worker : WorkerStep(w) \/ WorkerFault(w) \/ Cleanup(w)

Spec == Init /\ [][Next]_vars

\* Workers poll every second and clean every minute; deadlines pass.
Fairness == /\ \A w \in Worker : WF_vars(WorkerStep(w)) /\ WF_vars(Cleanup(w))
            /\ \A d \in Dialogue : WF_vars(Overdue(d)) /\ WF_vars(Age(d))

FairSpec == Spec /\ Fairness

-----------------------------------------------------------------------------
TypeOK ==
  /\ row \in [Dialogue -> Row]
  /\ token \in [Dialogue -> [Button -> Token]]
  /\ overdue \subseteq Dialogue /\ aged \subseteq Dialogue
  /\ prompt \in [Dialogue -> [Message -> {"none", "queued", "shown", "acknowledged"}]]
  /\ prompted \in [Dialogue -> Mode \cup {None}]
  /\ script \in [Press -> Button]
  /\ press \in [Press -> Dialogue \cup {None}]
  /\ state \in [Press -> {"unsent", "settled", "recovery_required"} \cup Unsettled]
  /\ attempts \in [Press -> Nat]
  /\ pc \in [Worker -> Stage]
  /\ held \in [Worker -> Press \cup {None}]
  /\ verdict \in [Worker -> {"none", "settled", "retry"}]
  /\ submitted \in [Dialogue -> SUBSET Mode]
  /\ released \in [Dialogue -> SUBSET Press]
  /\ results \in [Dialogue -> Nat]
  /\ faults \in 0..MaxFaults

\* A dialogue is decided once: whatever presses race, replay or are retried, one
\* update is given its action, and none once it is cancelled
\* (consume_repository_decision, recover_consumed_confirmation).
OneDecision ==
  \A d \in Dialogue : /\ Cardinality(released[d]) <= 1
                      /\ row[d].lifecycle = "cancelled" => released[d] = {}

\* Platform is asked for the mode the confirmation prompt named, and for no other
\* under the dialogue's idempotency key (confirmed_action).
SubmittedAsPrompted == \A d \in Dialogue : submitted[d] \subseteq {prompted[d]}

\* A dialogue has one result in the chat exactly when it is completed, by overlapping
\* workers, retries and lost answers together (complete_repository_dialogue_projection).
ReportedOnce ==
  \A d \in Dialogue : results[d] = IF row[d].step = "completed" THEN 1 ELSE 0

\* The message a dialogue and its live tokens are bound to is the one that shows its
\* current step: a late acknowledgement never binds them to the message before.
BoundToCurrentMessage ==
  \A d \in Dialogue : row[d].lifecycle = "active" =>
    /\ row[d].message \in {None, row[d].step}
    /\ \A b \in Button : token[d][b].state = "live" => token[d][b].message \in {None, ShownIn(b)}

\* Every dialogue ends and leaves the store, its tokens first.
DialoguesLeave ==
  \A d \in Dialogue : row[d].lifecycle = "active" ~> row[d].lifecycle = "deleted"

\* Every press is settled, or left to the operator after the bounded claims.
PressesEnd == \A u \in Press : state[u] = "accepted" ~> state[u] \notin Unsettled

\* What the user has decided in a dialogue is carried out once and as it was shown:
\* by one update, for the mode of the prompt, with one result, and with the buttons
\* of the current message (repository_decision.rs).
DecisionIsCarriedOut ==
  TypeOK /\ OneDecision /\ SubmittedAsPrompted /\ ReportedOnce /\ BoundToCurrentMessage

\* Neither a dialogue nor a press is left where it is (cleanup_interactions,
\* defer_update).
DialoguesEnd == DialoguesLeave /\ PressesEnd

=============================================================================
