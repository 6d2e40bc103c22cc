--------------------------- MODULE DialogueProofs ---------------------------
(***************************************************************************)
(* Proofs about RepositoryDialogue, for any dialogues, modes, presses,     *)
(* workers and bounds: what the user has decided is carried out once and   *)
(* as it was shown.                                                        *)
(***************************************************************************)
EXTENDS RepositoryDialogue, FiniteSetTheorems, TLAPS

\* The confirmation was accepted: from here on there is one action.
Far(d) == row[d].step \in {"submitting", "completed"}

VersionAt(step) == IF step = "preview" THEN 0 ELSE IF step = "confirming" THEN 1 ELSE 2

\* The step tells the version of an active dialogue and that it has a mode, and an end
\* tells the step.
RowInStep(d) ==
  /\ row[d].lifecycle = "unborn" =>
       row[d].step = "preview" /\ row[d].version = 0 /\ row[d].message = None
  /\ row[d].lifecycle = "active" =>
       row[d].step # "completed" /\ row[d].version = VersionAt(row[d].step)
  /\ row[d].lifecycle = "cancelled" => row[d].step = "confirming"
  /\ row[d].step # "preview" => row[d].mode \in Mode

\* A dialogue has passed a step only through the acknowledged message of it, and
\* the prompt names the mode of the row.
PromptInStep(d) ==
  /\ row[d].step = "preview" => prompt[d]["confirming"] = "none"
  /\ row[d].step # "preview" \/ row[d].message = "preview" => prompt[d]["preview"] = "acknowledged"
  /\ Far(d) \/ row[d].message = "confirming" => prompt[d]["confirming"] # "none"
  /\ prompt[d]["confirming"] # "none" => prompted[d] = row[d].mode

\* The action belongs to the update in the row, and Platform was asked for its mode.
DoneInStep(d) ==
  /\ released[d] \subseteq {row[d].update} /\ submitted[d] \subseteq {row[d].mode}
  /\ released[d] # {} \/ submitted[d] # {} => Far(d)
  /\ results[d] = IF row[d].step = "completed" THEN 1 ELSE 0

BoundInStep(d) ==
  row[d].lifecycle = "active" =>
    /\ row[d].message \in {None, row[d].step}
    /\ \A b \in Button : token[d][b].state = "live" => token[d][b].message \in {None, ShownIn(b)}

InStep(d) == RowInStep(d) /\ PromptInStep(d) /\ DoneInStep(d) /\ BoundInStep(d)

\* A worker that prompts has made the selection, and one that submits or reports
\* works on a confirmed dialogue.
WorkerInStep(w) ==
  pc[w] \notin {"start", "idle"} =>
    /\ held[w] \in Press /\ state[held[w]] # "unsent"
    /\ pc[w] = "prompt" => /\ script[held[w]] \in Mode
                           /\ row[press[held[w]]].step # "preview"
                           /\ row[press[held[w]]].mode = script[held[w]]
    /\ pc[w] \in {"submit", "complete"} => Far(press[held[w]])

PressPlaced(u) == state[u] # "unsent" => press[u] \in Dialogue

IInv == /\ TypeOK
        /\ \A d \in Dialogue : InStep(d)
        /\ \A w \in Worker : WorkerInStep(w)
        /\ \A u \in Press : PressPlaced(u)

-----------------------------------------------------------------------------
(* What stays *)

LEMMA Constants ==
  /\ None \notin {"preview", "confirming"} /\ Mode \subseteq Button
  /\ {"confirm", "cancel"} \subseteq Button /\ "confirm" \notin Mode /\ "cancel" \notin Mode
  /\ MaxFaults \in Nat /\ MaxAttempts \in Nat /\ Message = {"preview", "confirming"}
BY DialogueAssumption DEF Button, Message

\* Nothing of d changes.
Idle(d) ==
  /\ row'[d] = row[d] /\ token'[d] = token[d] /\ prompt'[d] = prompt[d]
  /\ prompted'[d] = prompted[d] /\ released'[d] = released[d]
  /\ submitted'[d] = submitted[d] /\ results'[d] = results[d]

LEMMA IdleStays ==
  ASSUME NEW d \in Dialogue, InStep(d), Idle(d)
  PROVE  InStep(d)'
<1>1. RowInStep(d)' /\ PromptInStep(d)'
  BY DEF Idle, InStep, RowInStep, PromptInStep, Far
<1>2. DoneInStep(d)' /\ BoundInStep(d)'
  BY DEF Idle, InStep, DoneInStep, BoundInStep, Far
<1> QED
  BY <1>1, <1>2 DEF InStep

\* A dialogue never goes back, and keeps its mode once it has one.
Forward(d) ==
  /\ row[d].step # "preview" => row'[d].step # "preview" /\ row'[d].mode = row[d].mode
  /\ Far(d) => Far(d)'

LEMMA IdleIsForward ==
  ASSUME NEW d \in Dialogue, row'[d] = row[d]
  PROVE  Forward(d)
BY DEF Forward, Far

\* The presses stay where they are.
PressesStay ==
  \A u \in Press : state[u] # "unsent" => state'[u] # "unsent" /\ press'[u] = press[u]

\* Worker o is left alone.
LEMMA WorkerStays ==
  ASSUME NEW o \in Worker, WorkerInStep(o), pc'[o] = pc[o], held'[o] = held[o],
         UNCHANGED script, PressesStay, \A d \in Dialogue : Forward(d),
         \A u \in Press : PressPlaced(u)
  PROVE  WorkerInStep(o)'
<1> SUFFICES ASSUME pc[o] \notin {"start", "idle"}
             PROVE  /\ held[o] \in Press /\ state'[held[o]] # "unsent"
                    /\ pc[o] = "prompt" => /\ script[held[o]] \in Mode
                                           /\ row'[press'[held[o]]].step # "preview"
                                           /\ row'[press'[held[o]]].mode = script[held[o]]
                    /\ pc[o] \in {"submit", "complete"} =>
                         row'[press'[held[o]]].step \in {"submitting", "completed"}
  BY DEF WorkerInStep, Far
<1>1. held[o] \in Press /\ state[held[o]] # "unsent"
  BY DEF WorkerInStep
<1>2. /\ state'[held[o]] # "unsent" /\ press'[held[o]] = press[held[o]]
      /\ press[held[o]] \in Dialogue
  BY <1>1 DEF PressesStay, PressPlaced
<1>3. Forward(press[held[o]])
  BY <1>2
<1> QED
  BY <1>1, <1>2, <1>3 DEF WorkerInStep, Forward, Far

\* All of them are, and the presses too.
LEMMA AllStay ==
  ASSUME \A w \in Worker : WorkerInStep(w), \A u \in Press : PressPlaced(u),
         UNCHANGED <<script, pc, held>>, PressesStay,
         \A d \in Dialogue : Forward(d)
  PROVE  \A w \in Worker : WorkerInStep(w)'
BY WorkerStays

-----------------------------------------------------------------------------
(* Before and beside the workers *)

LEMMA PreviewKeeps ==
  ASSUME IInv, NEW d \in Dialogue, Preview(d)
  PROVE  IInv'
<1>1. TypeOK /\ InStep(d)
  BY DEF IInv
<1>2. /\ row[d].lifecycle = "unborn"
      /\ row' = [row EXCEPT ![d].lifecycle = "active"]
      /\ token' = [token EXCEPT ![d] = [b \in Button |-> IF b \in Mode THEN NewToken ELSE NoToken]]
      /\ \/ prompt' = [prompt EXCEPT ![d]["preview"] = "queued"] /\ UNCHANGED faults
         \/ UNCHANGED prompt /\ SpendFault
      /\ UNCHANGED <<overdue, aged, prompted, script, press, state, attempts, pc, held, verdict,
                     submitted, released, results>>
  BY DEF Preview, timeVars, ledgerVars, workerVars, doneVars
<1>3. row \in [Dialogue -> Row] /\ row[d] \in Row /\ token \in [Dialogue -> [Button -> Token]]
      /\ prompt \in [Dialogue -> [Message -> {"none", "queued", "shown", "acknowledged"}]]
  BY <1>1 DEF TypeOK
<1>4. /\ row'[d] = [row[d] EXCEPT !.lifecycle = "active"] /\ row'[d] \in Row
      /\ \A p \in Dialogue : p # d => row'[p] = row[p] /\ token'[p] = token[p] /\ prompt'[p] = prompt[p]
      /\ prompt'[d]["confirming"] = prompt[d]["confirming"]
      /\ prompt' \in [Dialogue -> [Message -> {"none", "queued", "shown", "acknowledged"}]]
  <2>1. row'[d] = [row[d] EXCEPT !.lifecycle = "active"] /\ row'[d] \in Row
    BY <1>2, <1>3 DEF Row, Lifecycle
  <2>2. \A p \in Dialogue : p # d => row'[p] = row[p] /\ token'[p] = token[p]
    BY <1>2, <1>3
  <2>3. CASE prompt' = [prompt EXCEPT ![d]["preview"] = "queued"]
    <3>1. "preview" \in Message /\ "confirming" \in Message
      BY DEF Message
    <3>2. [prompt[d] EXCEPT !["preview"] = "queued"]
            \in [Message -> {"none", "queued", "shown", "acknowledged"}]
      BY <1>3, <3>1
    <3>3. prompt' = [prompt EXCEPT ![d] = [prompt[d] EXCEPT !["preview"] = "queued"]]
      BY <2>3
    <3> QED
      BY <1>3, <2>1, <2>2, <3>1, <3>2, <3>3
  <2>4. CASE UNCHANGED prompt
    BY <1>3, <2>1, <2>2, <2>4
  <2> QED
    BY <1>2, <2>3, <2>4
<1>5. /\ row'[d].step = row[d].step /\ row'[d].mode = row[d].mode /\ row'[d].update = row[d].update
      /\ row'[d].message = row[d].message /\ row'[d].version = row[d].version
      /\ row'[d].lifecycle = "active"
  BY <1>3, <1>4 DEF Row
<1>6. TypeOK'
  <2>1. row' \in [Dialogue -> Row]
    BY <1>2, <1>3, <1>4
  <2>2. [b \in Button |-> IF b \in Mode THEN NewToken ELSE NoToken] \in [Button -> Token]
    BY DEF NewToken, NoToken, Token
  <2>3. token' \in [Dialogue -> [Button -> Token]]
    BY <1>2, <1>3, <2>2
  <2>4. faults' \in 0..MaxFaults
    BY <1>1, <1>2, Constants DEF TypeOK, SpendFault
  <2> QED
    BY <1>1, <1>2, <1>4, <2>1, <2>3, <2>4 DEF TypeOK
<1>7. InStep(d)'
  <2>1. row[d].step = "preview" /\ row[d].version = 0 /\ row[d].message = None
    BY <1>1, <1>2 DEF InStep, RowInStep
  <2>2. RowInStep(d)'
    BY <1>5, <2>1 DEF RowInStep, VersionAt
  <2>3. PromptInStep(d)'
    BY <1>1, <1>2, <1>4, <1>5, <2>1, Constants DEF InStep, PromptInStep, Far
  <2>4. DoneInStep(d)'
    BY <1>1, <1>2, <1>5 DEF InStep, DoneInStep, Far
  <2>5. BoundInStep(d)'
    <3>1. \A b \in Button : token'[d][b].message = None
      BY <1>2, <1>3 DEF NewToken, NoToken
    <3> QED
      BY <1>5, <2>1, <3>1 DEF BoundInStep
  <2> QED
    BY <2>2, <2>3, <2>4, <2>5 DEF InStep
<1>8. ASSUME NEW p \in Dialogue PROVE InStep(p)' /\ Forward(p)
  <2>1. CASE p = d
    BY <1>5, <1>7, <2>1 DEF Forward, Far
  <2>2. CASE p # d
    BY <1>2, <1>4, <2>2, IdleStays, IdleIsForward DEF IInv, Idle
  <2> QED
    BY <2>1, <2>2
<1>9. \A w \in Worker : WorkerInStep(w)'
  BY <1>2, <1>8, AllStay DEF IInv, PressesStay
<1>10. \A u \in Press : PressPlaced(u)'
  BY <1>2 DEF IInv, PressPlaced
<1> QED
  BY <1>6, <1>8, <1>9, <1>10 DEF IInv

\* A message is shown.
LEMMA ShowKeeps ==
  ASSUME IInv, NEW d \in Dialogue, NEW m \in Message, Show(d, m)
  PROVE  IInv'
<1>1. TypeOK /\ InStep(d)
  BY DEF IInv
<1>2. /\ prompt[d][m] = "queued" /\ prompt' = [prompt EXCEPT ![d][m] = "shown"]
      /\ UNCHANGED <<row, token, overdue, aged, prompted, script, press, state, attempts, pc, held,
                     verdict, submitted, released, results, faults>>
  BY DEF Show, storeVars, timeVars, ledgerVars, workerVars, doneVars
<1>3. prompt \in [Dialogue -> [Message -> {"none", "queued", "shown", "acknowledged"}]]
  BY <1>1 DEF TypeOK
<1>4. TypeOK'
  <2>1. prompt' \in [Dialogue -> [Message -> {"none", "queued", "shown", "acknowledged"}]]
    BY <1>2, <1>3
  <2> QED
    BY <1>1, <1>2, <2>1 DEF TypeOK
<1>5. /\ \A p \in Dialogue : p # d => prompt'[p] = prompt[p]
      /\ \A k \in Message : prompt'[d][k] = IF k = m THEN "shown" ELSE prompt[d][k]
  BY <1>2, <1>3
<1>6. InStep(d)'
  <2>1. PromptInStep(d)'
    BY <1>1, <1>2, <1>5, Constants DEF InStep, PromptInStep, Far
  <2>2. RowInStep(d)' /\ DoneInStep(d)' /\ BoundInStep(d)'
    BY <1>1, <1>2 DEF InStep, RowInStep, DoneInStep, BoundInStep, Far
  <2> QED
    BY <2>1, <2>2 DEF InStep
<1>7. ASSUME NEW p \in Dialogue PROVE InStep(p)' /\ Forward(p)
  <2>1. CASE p # d
    BY <1>2, <1>5, <2>1, IdleStays, IdleIsForward DEF IInv, Idle
  <2> QED
    BY <1>2, <1>6, <2>1, IdleIsForward
<1>8. \A w \in Worker : WorkerInStep(w)'
  BY <1>2, <1>7, AllStay DEF IInv, PressesStay
<1>9. \A u \in Press : PressPlaced(u)'
  BY <1>2 DEF IInv, PressPlaced
<1> QED
  BY <1>4, <1>7, <1>8, <1>9 DEF IInv

\* An acknowledgement stamps the row and its live tokens, if at all, with the
\* message of the current step.
LEMMA AcknowledgeKeeps ==
  ASSUME IInv, NEW d \in Dialogue, NEW m \in Message, Acknowledge(d, m)
  PROVE  IInv'
<1> DEFINE stamps == row[d].lifecycle = "active" /\ row[d].step \in {"preview", "confirming"}
           stamped == [b \in Button |->
                         IF token[d][b].state = "live" /\ ExpectedVersion(b) = row[d].version
                         THEN [token[d][b] EXCEPT !.message = m] ELSE token[d][b]]
<1>1. TypeOK /\ InStep(d)
  BY DEF IInv
<1>2. /\ prompt[d][m] = "shown" /\ prompt' = [prompt EXCEPT ![d][m] = "acknowledged"]
      /\ UNCHANGED <<overdue, aged, prompted, script, press, state, attempts, pc, held,
                     verdict, submitted, released, results, faults>>
  BY DEF Acknowledge, timeVars, ledgerVars, workerVars, doneVars
<1>3. \/ stamps /\ row' = [row EXCEPT ![d].message = m] /\ token' = [token EXCEPT ![d] = stamped]
      \/ ~stamps /\ row' = row /\ token' = token
  BY DEF Acknowledge, storeVars
<1>4. /\ prompt \in [Dialogue -> [Message -> {"none", "queued", "shown", "acknowledged"}]]
      /\ row \in [Dialogue -> Row] /\ row[d] \in Row /\ token \in [Dialogue -> [Button -> Token]]
  BY <1>1 DEF TypeOK
<1>5. /\ \A p \in Dialogue : p # d => prompt'[p] = prompt[p]
      /\ \A k \in Message : prompt'[d][k] = IF k = m THEN "acknowledged" ELSE prompt[d][k]
      /\ prompt' \in [Dialogue -> [Message -> {"none", "queued", "shown", "acknowledged"}]]
  BY <1>2, <1>4
<1>6. stamps => m = row[d].step
  <2>1. row[d].step = "preview" => m # "confirming"
    BY <1>1, <1>2 DEF InStep, PromptInStep
  <2>2. row[d].step = "confirming" => m # "preview"
    BY <1>1, <1>2 DEF InStep, PromptInStep
  <2> QED
    BY <2>1, <2>2, Constants
<1>7. /\ row'[d] \in Row /\ row'[d].step = row[d].step /\ row'[d].mode = row[d].mode
      /\ row'[d].update = row[d].update /\ row'[d].version = row[d].version
      /\ row'[d].lifecycle = row[d].lifecycle
      /\ row'[d].message = IF stamps THEN m ELSE row[d].message
      /\ \A p \in Dialogue : p # d => row'[p] = row[p] /\ token'[p] = token[p]
  <2>1. [row[d] EXCEPT !.message = m] \in Row
    BY <1>4 DEF Row
  <2> QED
    BY <1>3, <1>4, <2>1 DEF Row
<1>8. stamped \in [Button -> Token]
  <2>1. ASSUME NEW b \in Button
        PROVE  [token[d][b] EXCEPT !.message = m] \in Token /\ token[d][b] \in Token
    <3>1. token[d][b] \in Token
      BY <1>4, <2>1
    <3> QED
      BY <3>1 DEF Token
  <2> QED
    BY <2>1
<1>9. TypeOK'
  <2>1. row' \in [Dialogue -> Row]
    BY <1>3, <1>4, <1>7
  <2>2. token' \in [Dialogue -> [Button -> Token]]
    BY <1>3, <1>4, <1>8
  <2> QED
    BY <1>1, <1>2, <1>5, <2>1, <2>2 DEF TypeOK
<1>10. BoundInStep(d)'
  <2> SUFFICES ASSUME row[d].lifecycle = "active"
               PROVE  /\ row'[d].message \in {None, row[d].step}
                      /\ \A b \in Button : token'[d][b].state = "live"
                                             => token'[d][b].message \in {None, ShownIn(b)}
    BY <1>7 DEF BoundInStep
  <2>1. CASE ~stamps
    BY <1>1, <1>3, <1>7, <2>1 DEF InStep, BoundInStep
  <2>2. CASE stamps
    <3>1. row'[d].message = row[d].step
      BY <1>6, <1>7, <2>2
    <3>2. ASSUME NEW b \in Button, token'[d][b].state = "live"
          PROVE  token'[d][b].message \in {None, ShownIn(b)}
      <4>1. token'[d][b] = stamped[b] /\ token[d][b] \in Token
        BY <1>3, <1>4, <2>2, <3>2
      <4>2. CASE token[d][b].state = "live" /\ ExpectedVersion(b) = row[d].version
        <5>1. token'[d][b].message = m
          BY <4>1, <4>2 DEF Token
        <5>2. row[d].version = VersionAt(row[d].step)
          BY <1>1 DEF InStep, RowInStep
        <5>3. ShownIn(b) = m
          BY <1>6, <2>2, <4>2, <5>2 DEF ExpectedVersion, VersionAt, ShownIn
        <5> QED
          BY <5>1, <5>3
      <4>3. CASE ~(token[d][b].state = "live" /\ ExpectedVersion(b) = row[d].version)
        <5>1. token'[d][b] = token[d][b]
          BY <4>1, <4>3
        <5> QED
          BY <1>1, <3>2, <5>1 DEF InStep, BoundInStep
      <4> QED
        BY <4>2, <4>3
    <3> QED
      BY <3>1, <3>2
  <2> QED
    BY <2>1, <2>2
<1>11. PromptInStep(d)'
  <2>1. prompt'[d]["confirming"] = "none" <=> prompt[d]["confirming"] = "none"
    BY <1>2, <1>5, Constants
  <2>2. prompt[d]["preview"] = "acknowledged" \/ m = "preview" => prompt'[d]["preview"] = "acknowledged"
    BY <1>5, Constants
  <2>3. row'[d].message = "preview" => row[d].message = "preview" \/ m = "preview"
    BY <1>7
  <2>4. row'[d].message = "confirming" => row[d].message = "confirming" \/ m = "confirming"
    BY <1>7
  <2>5. m = "confirming" => prompt[d]["confirming"] # "none"
    BY <1>2
  <2> QED
    BY <1>1, <1>2, <1>7, <2>1, <2>2, <2>3, <2>4, <2>5 DEF InStep, PromptInStep, Far
<1>12. RowInStep(d)'
  BY <1>1, <1>7 DEF InStep, RowInStep
<1>13. DoneInStep(d)'
  BY <1>1, <1>2, <1>7 DEF InStep, DoneInStep, Far
<1>14. ASSUME NEW p \in Dialogue PROVE InStep(p)' /\ Forward(p)
  <2>1. CASE p = d
    BY <1>7, <1>10, <1>11, <1>12, <1>13, <2>1 DEF InStep, Forward, Far
  <2>2. CASE p # d
    BY <1>2, <1>5, <1>7, <2>2, IdleStays, IdleIsForward DEF IInv, Idle
  <2> QED
    BY <2>1, <2>2
<1>15. \A w \in Worker : WorkerInStep(w)'
  BY <1>2, <1>14, AllStay DEF IInv, PressesStay
<1>16. \A u \in Press : PressPlaced(u)'
  BY <1>2 DEF IInv, PressPlaced
<1> QED
  BY <1>9, <1>14, <1>15, <1>16 DEF IInv

\* A press arrives; a deadline passes.
LEMMA OutsideKeeps ==
  ASSUME IInv, NEW d \in Dialogue, Overdue(d) \/ Age(d) \/ \E u \in Press : PressButton(u, d)
  PROVE  IInv'
<1>1. TypeOK
  BY DEF IInv
<1>2. UNCHANGED <<row, token, prompt, prompted, submitted, released, results, script, attempts,
                  pc, held, verdict, faults>>
  BY DEF Overdue, Age, PressButton, storeVars, chatVars, ledgerVars, workerVars, doneVars
<1>3. \A p \in Dialogue : InStep(p)' /\ Forward(p)
  BY <1>2, IdleStays, IdleIsForward DEF IInv, Idle
<1>4. CASE Overdue(d) \/ Age(d)
  <2>1. UNCHANGED <<press, state>>
    BY <1>4 DEF Overdue, Age, ledgerVars
  <2>2. TypeOK'
    BY <1>1, <1>2, <1>4, <2>1 DEF Overdue, Age, TypeOK
  <2>3. \A w \in Worker : WorkerInStep(w)'
    BY <1>2, <1>3, <2>1, AllStay DEF IInv, PressesStay
  <2> QED
    BY <1>3, <2>1, <2>2, <2>3 DEF IInv, PressPlaced
<1>5. ASSUME NEW u \in Press, PressButton(u, d) PROVE IInv'
  <2>1. /\ state[u] = "unsent" /\ press' = [press EXCEPT ![u] = d]
        /\ state' = [state EXCEPT ![u] = "accepted"] /\ UNCHANGED <<overdue, aged>>
    BY <1>5 DEF PressButton, timeVars
  <2>2. TypeOK'
    BY <1>1, <1>2, <2>1 DEF TypeOK, Unsettled
  <2>3. PressesStay
    BY <1>1, <2>1 DEF TypeOK, PressesStay
  <2>4. \A w \in Worker : WorkerInStep(w)'
    BY <1>2, <1>3, <2>3, AllStay DEF IInv
  <2>5. \A v \in Press : PressPlaced(v)'
    BY <1>1, <2>1 DEF IInv, TypeOK, PressPlaced
  <2> QED
    BY <1>3, <2>2, <2>4, <2>5 DEF IInv
<1> QED
  BY <1>4, <1>5

-----------------------------------------------------------------------------
(* The workers *)

\* A step of worker w, by what there is to show of it.
LEMMA WorkerMoves ==
  ASSUME IInv, NEW w \in Worker, TypeOK', \A d \in Dialogue : InStep(d)' /\ Forward(d),
         \A o \in Worker : o # w => pc'[o] = pc[o] /\ held'[o] = held[o],
         UNCHANGED script, PressesStay, \A u \in Press : PressPlaced(u)', WorkerInStep(w)'
  PROVE  IInv'
<1>1. ASSUME NEW o \in Worker PROVE WorkerInStep(o)'
  <2>1. CASE o # w
    BY <1>1, <2>1, WorkerStays DEF IInv
  <2> QED
    BY <2>1
<1> QED
  BY <1>1 DEF IInv

\* The dialogue a working worker is at.
LEMMA WorksOn ==
  ASSUME IInv, NEW w \in Worker, pc[w] \notin {"start", "idle"}
  PROVE  /\ held[w] \in Press /\ state[held[w]] # "unsent" /\ press[held[w]] \in Dialogue
         /\ script[held[w]] \in Button
BY DEF IInv, TypeOK, WorkerInStep, PressPlaced

\* What validate_callback has compared.
LEMMA Admitted ==
  ASSUME NEW d, NEW b, NEW step, NEW version, Refusal(d, b, step, version) = "none"
  PROVE  /\ row[d].message = ShownIn(b) /\ row[d].lifecycle = "active" /\ row[d].step = step
         /\ row[d].version = version /\ ExpectedVersion(b) = version
BY DEF Refusal, InScope

\* The dialogue d ends or loses tokens; what it has done stays.
Retires(d) ==
  /\ row'[d].step = row[d].step /\ row'[d].mode = row[d].mode
  /\ row'[d].update = row[d].update /\ row'[d].message = row[d].message
  /\ \/ row'[d].lifecycle = row[d].lifecycle /\ row'[d].version = row[d].version
     \/ row'[d].lifecycle \in {"expired", "deleted"}
  /\ \A b \in Button : token'[d][b] = token[d][b] \/ token'[d][b].state # "live"
  /\ prompt'[d] = prompt[d] /\ prompted'[d] = prompted[d] /\ released'[d] = released[d]
  /\ submitted'[d] = submitted[d] /\ results'[d] = results[d]

LEMMA RetireKeeps ==
  ASSUME NEW d \in Dialogue, InStep(d), Retires(d)
  PROVE  InStep(d)' /\ Forward(d)
<1>1. RowInStep(d)'
  BY DEF Retires, InStep, RowInStep
<1>2. PromptInStep(d)'
  BY DEF Retires, InStep, PromptInStep, Far
<1>3. DoneInStep(d)'
  BY DEF Retires, InStep, DoneInStep, Far
<1>4. BoundInStep(d)'
  BY DEF Retires, InStep, BoundInStep
<1> QED
  BY <1>1, <1>2, <1>3, <1>4 DEF InStep, Retires, Forward, Far

LEMMA ExpiredRow ==
  ASSUME TypeOK, NEW d \in Dialogue, InStep(d)
  PROVE  /\ Expired(row[d]) \in Row
         /\ Expired(row[d]).step = row[d].step /\ Expired(row[d]).mode = row[d].mode
         /\ Expired(row[d]).update = row[d].update /\ Expired(row[d]).message = row[d].message
         /\ Expired(row[d]) = row[d] \/ Expired(row[d]).lifecycle = "expired"
<1>1. row[d] \in Row
  BY DEF TypeOK
<1>2. CASE row[d].lifecycle = "active"
  <2>1. row[d].version + 1 \in 0..3
    BY <1>2 DEF InStep, RowInStep, VersionAt
  <2>2. Expired(row[d]) = [row[d] EXCEPT !.lifecycle = "expired", !.version = row[d].version + 1]
    BY <1>2 DEF Expired
  <2>3. Expired(row[d]) \in Row
    BY <1>1, <2>1, <2>2 DEF Row, Lifecycle
  <2> QED
    BY <1>1, <2>2, <2>3 DEF Row
<1>3. CASE row[d].lifecycle # "active"
  BY <1>1, <1>3 DEF Expired
<1> QED
  BY <1>2, <1>3

\* The claim, the settlement and the crash touch no dialogue.
LEMMA LedgerKeeps ==
  ASSUME IInv, NEW w \in Worker, Claim(w) \/ Settle(w) \/ Crash(w)
  PROVE  IInv'
<1>1. TypeOK /\ \A u \in Press : PressPlaced(u)
  BY DEF IInv
<1>2. UNCHANGED <<row, token, overdue, aged, prompt, prompted, script, press, submitted, released,
                  results>>
  BY DEF Claim, Settle, Crash, storeVars, timeVars, chatVars, ledgerVars, doneVars
<1>3. \A p \in Dialogue : InStep(p)' /\ Forward(p)
  BY <1>2, IdleStays, IdleIsForward DEF IInv, Idle
<1>4. /\ state \in [Press -> {"unsent", "settled", "recovery_required"} \cup Unsettled]
      /\ attempts \in [Press -> Nat] /\ pc \in [Worker -> Stage]
      /\ held \in [Worker -> Press \cup {None}]
      /\ verdict \in [Worker -> {"none", "settled", "retry"}] /\ faults \in 0..MaxFaults
      /\ MaxFaults \in Nat
  BY <1>1, Constants DEF TypeOK
<1>5. CASE Claim(w)
  <2>1. PICK u \in Press : /\ Claimable(u) /\ state' = [state EXCEPT ![u] = "processing"]
                           /\ attempts' = [attempts EXCEPT ![u] = @ + 1]
                           /\ held' = [held EXCEPT ![w] = u]
                           /\ pc' = [pc EXCEPT ![w] = "select"] /\ UNCHANGED verdict
    BY <1>5 DEF Claim, Go
  <2>2. state[u] # "unsent" /\ faults' \in 0..MaxFaults
    BY <1>4, <2>1 DEF Claimable, SpendFault
  <2>3. TypeOK'
    BY <1>1, <1>2, <1>4, <2>1, <2>2 DEF TypeOK, Unsettled, Stage
  <2>4. PressesStay /\ \A v \in Press : PressPlaced(v)'
    BY <1>1, <1>2, <1>4, <2>1, <2>2 DEF PressesStay, PressPlaced
  <2>5. pc'[w] = "select" /\ held'[w] = u /\ state'[u] = "processing"
    BY <1>4, <2>1
  <2>6. WorkerInStep(w)'
    BY <2>5 DEF WorkerInStep
  <2>7. \A o \in Worker : o # w => pc'[o] = pc[o] /\ held'[o] = held[o]
    BY <1>4, <2>1
  <2> QED
    BY <1>2, <1>3, <2>3, <2>4, <2>6, <2>7, WorkerMoves
<1>6. CASE Settle(w) \/ Crash(w)
  <2>1. /\ pc' = [pc EXCEPT ![w] = "idle"] \/ pc' = [pc EXCEPT ![w] = "start"]
        /\ held' = [held EXCEPT ![w] = None] /\ verdict' = [verdict EXCEPT ![w] = "none"]
        /\ UNCHANGED attempts
    BY <1>6 DEF Settle, Crash, Go, ledgerVars
  <2>2. faults' \in 0..MaxFaults
    BY <1>4, <1>6 DEF Settle, Crash, SpendFault
  <2>3. /\ state' \in [Press -> {"unsent", "settled", "recovery_required"} \cup Unsettled]
        /\ \A u \in Press : state[u] # "unsent" <=> state'[u] # "unsent"
    <3>1. CASE Settle(w)
      <4>1. held[w] \in Press /\ state[held[w]] # "unsent"
        BY <3>1, WorksOn DEF Settle
      <4>2. \A u \in Press : u # held[w] => state'[u] = state[u]
        BY <1>4, <3>1 DEF Settle
      <4>3. state'[held[w]] \in {"settled", "recovery_required", "accepted", state[held[w]]}
        BY <1>4, <3>1, <4>1 DEF Settle
      <4>4. state' \in [Press -> {"unsent", "settled", "recovery_required"} \cup Unsettled]
        BY <1>4, <3>1 DEF Settle, Unsettled
      <4> QED
        BY <4>1, <4>2, <4>3, <4>4
    <3>2. CASE Crash(w)
      BY <1>4, <3>2 DEF Crash, ledgerVars
    <3> QED
      BY <1>6, <3>1, <3>2
  <2>4. TypeOK'
    BY <1>1, <1>2, <1>4, <2>1, <2>2, <2>3 DEF TypeOK, Stage
  <2>5. PressesStay /\ \A v \in Press : PressPlaced(v)'
    BY <1>1, <1>2, <2>3 DEF PressesStay, PressPlaced
  <2>6. pc'[w] \in {"start", "idle"} /\ \A o \in Worker : o # w => pc'[o] = pc[o] /\ held'[o] = held[o]
    BY <1>4, <2>1
  <2>7. WorkerInStep(w)'
    BY <2>6 DEF WorkerInStep
  <2> QED
    BY <1>2, <1>3, <2>4, <2>5, <2>6, <2>7, WorkerMoves
<1> QED
  BY <1>5, <1>6

Tables ==
  /\ row \in [Dialogue -> Row] /\ token \in [Dialogue -> [Button -> Token]]
  /\ prompt \in [Dialogue -> [Message -> {"none", "queued", "shown", "acknowledged"}]]
  /\ prompted \in [Dialogue -> Mode \cup {None}]
  /\ submitted \in [Dialogue -> SUBSET Mode] /\ released \in [Dialogue -> SUBSET Press]
  /\ results \in [Dialogue -> Nat]

LEMMA TablesFit == TypeOK => Tables
BY DEF TypeOK, Tables

\* Worker w goes on to stage g with what it holds.
GoesOn(w, g) ==
  /\ pc' = [pc EXCEPT ![w] = g]
  /\ verdict' \in [Worker -> {"none", "settled", "retry"}]
  /\ UNCHANGED <<overdue, aged, script, press, state, attempts, held>>
  /\ faults' = faults \/ SpendFault

LEMMA StageKeeps ==
  ASSUME IInv, NEW w \in Worker, NEW g \in Stage \ {"start", "idle"}, NEW u \in Press,
         pc[w] \notin {"start", "idle"}, held[w] = u, GoesOn(w, g), Tables',
         \A d \in Dialogue : InStep(d)' /\ Forward(d),
         g = "prompt" => /\ script[u] \in Mode
                         /\ row'[press[u]].step # "preview" /\ row'[press[u]].mode = script[u],
         g \in {"submit", "complete"} => row'[press[u]].step \in {"submitting", "completed"}
  PROVE  IInv'
<1>1. TypeOK /\ state[u] # "unsent"
  BY WorksOn DEF IInv
<1>2. pc \in [Worker -> Stage] /\ faults \in 0..MaxFaults /\ MaxFaults \in Nat
  BY <1>1, Constants DEF TypeOK
<1>3. pc' \in [Worker -> Stage] /\ pc'[w] = g /\ \A o \in Worker : o # w => pc'[o] = pc[o]
  BY <1>2 DEF GoesOn
<1>4. TypeOK'
  <2>1. faults' \in 0..MaxFaults
    BY <1>2 DEF GoesOn, SpendFault
  <2> QED
    BY <1>1, <1>3, <2>1 DEF TypeOK, Tables, GoesOn
<1>5. PressesStay /\ \A v \in Press : PressPlaced(v)'
  BY DEF IInv, GoesOn, PressesStay, PressPlaced
<1>6. held' = held /\ script' = script /\ press' = press /\ state' = state
  BY DEF GoesOn
<1>7. WorkerInStep(w)'
  BY <1>1, <1>3, <1>6 DEF WorkerInStep, Far
<1> QED
  BY <1>3, <1>4, <1>5, <1>6, <1>7, WorkerMoves

\* Concluding always goes on to the settlement.
LEMMA Concludes ==
  ASSUME TypeOK, NEW w \in Worker, NEW v \in {"settled", "retry"}, Conclude(w, v),
         UNCHANGED <<overdue, aged, script, press, state, attempts, held>>,
         faults' = faults \/ SpendFault
  PROVE  GoesOn(w, "settle")
BY DEF Conclude, Go, GoesOn, TypeOK

\* Consuming a button leaves the other tokens.
LEMMA ConsumeFits ==
  ASSUME TypeOK, NEW d \in Dialogue, NEW b \in Button
  PROVE  /\ Consume(d, b) \in [Button -> Token]
         /\ Consume(d, b)[b].state = "consumed"
         /\ \A k \in Button : k # b => Consume(d, b)[k] = token[d][k]
<1>1. token[d] \in [Button -> Token] /\ token[d][b] \in Token
  BY DEF TypeOK
<1>2. [token[d][b] EXCEPT !.state = "consumed"] \in Token
  BY <1>1 DEF Token
<1>3. [token[d][b] EXCEPT !.state = "consumed"].state = "consumed"
  BY <1>1 DEF Token
<1>4. Consume(d, b) = [token[d] EXCEPT ![b] = [token[d][b] EXCEPT !.state = "consumed"]]
  BY DEF Consume
<1> QED
  BY <1>1, <1>2, <1>3, <1>4

\* The rows a selection, a cancellation and a completion write.
LEMMA Selected ==
  ASSUME NEW x \in Row, NEW b \in Mode,
         NEW r, r = [x EXCEPT !.step = "confirming", !.version = 1, !.message = None, !.mode = b]
  PROVE  /\ r \in Row /\ r.step = "confirming" /\ r.version = 1 /\ r.message = None /\ r.mode = b
         /\ r.lifecycle = x.lifecycle /\ r.update = x.update
<1> DEFINE y == [x EXCEPT !.step = "confirming"]
           z == [y EXCEPT !.version = 1]
           v == [z EXCEPT !.message = None]
<1>1. r = [v EXCEPT !.mode = b]
  OBVIOUS
<1>2. y \in Row /\ y.step = "confirming" /\ y.lifecycle = x.lifecycle /\ y.update = x.update
  BY DEF Row, Step
<1> HIDE DEF y
<1>3. z \in Row /\ z.step = y.step /\ z.version = 1 /\ z.lifecycle = y.lifecycle /\ z.update = y.update
  BY <1>2 DEF Row
<1> HIDE DEF z
<1>4. /\ v \in Row /\ v.step = z.step /\ v.version = z.version /\ v.message = None
      /\ v.lifecycle = z.lifecycle /\ v.update = z.update
  BY <1>3 DEF Row
<1> HIDE DEF v
<1>5. /\ r \in Row /\ r.step = v.step /\ r.version = v.version /\ r.message = v.message /\ r.mode = b
      /\ r.lifecycle = v.lifecycle /\ r.update = v.update
  BY <1>1, <1>4 DEF Row
<1> QED
  BY <1>2, <1>3, <1>4, <1>5

LEMMA Cancelled ==
  ASSUME NEW x \in Row, NEW r, r = [x EXCEPT !.lifecycle = "cancelled", !.version = 2, !.message = None]
  PROVE  /\ r \in Row /\ r.lifecycle = "cancelled" /\ r.message = None
         /\ r.step = x.step /\ r.mode = x.mode /\ r.update = x.update
<1> DEFINE y == [x EXCEPT !.lifecycle = "cancelled"]
           z == [y EXCEPT !.version = 2]
<1>1. r = [z EXCEPT !.message = None]
  OBVIOUS
<1>2. y \in Row
  BY DEF Row, Lifecycle
<1> HIDE DEF y
<1>3. z \in Row
  BY <1>2 DEF Row
<1> HIDE DEF z
<1>4. r \in Row
  BY <1>1, <1>3 DEF Row
<1>5. /\ r.lifecycle = "cancelled" /\ r.message = None
      /\ r.step = x.step /\ r.mode = x.mode /\ r.update = x.update
  BY DEF Row
<1> QED
  BY <1>4, <1>5

LEMMA Completed ==
  ASSUME NEW x \in Row, x.version = 2,
         NEW r, r = [x EXCEPT !.step = "completed", !.lifecycle = "completed", !.version = x.version + 1]
  PROVE  /\ r \in Row /\ r.step = "completed" /\ r.lifecycle = "completed"
         /\ r.message = x.message /\ r.mode = x.mode /\ r.update = x.update
<1> DEFINE y == [x EXCEPT !.step = "completed"]
           z == [y EXCEPT !.lifecycle = "completed"]
<1>1. r = [z EXCEPT !.version = 3]
  OBVIOUS
<1>2. y \in Row
  BY DEF Row, Step
<1> HIDE DEF y
<1>3. z \in Row
  BY <1>2 DEF Row, Lifecycle
<1> HIDE DEF z
<1>4. r \in Row
  BY <1>1, <1>3 DEF Row
<1>5. /\ r.step = "completed" /\ r.lifecycle = "completed"
      /\ r.message = x.message /\ r.mode = x.mode /\ r.update = x.update
  BY DEF Row
<1> QED
  BY <1>4, <1>5

\* The selection: the mode is written and the prompt's buttons come to life.
LEMMA SelectKeeps ==
  ASSUME IInv, NEW w \in Worker, Select(w)
  PROVE  IInv'
<1>1. pc[w] = "select" /\ TypeOK /\ Tables
  BY TablesFit DEF IInv, Select
<1>2. PICK u \in Press : held[w] = u
  BY <1>1, WorksOn
<1>3. PICK d \in Dialogue : press[u] = d
  BY <1>1, <1>2, WorksOn
<1>4. PICK b \in Button : script[u] = b
  BY <1>1, <1>2, WorksOn
<1>5. /\ UNCHANGED <<overdue, aged, script, press, state, attempts, held>>
      /\ UNCHANGED <<prompt, prompted, submitted, released, results, faults>>
  BY DEF Select, timeVars, chatVars, ledgerVars, doneVars
<1>6. InStep(d)
  BY DEF IInv
<1>7. CASE Refusal(d, b, "preview", 0) = "none"
  <2> DEFINE r == [row[d] EXCEPT !.step = "confirming", !.version = 1, !.message = None, !.mode = b]
             t == [Consume(d, b) EXCEPT !["confirm"] = NewToken, !["cancel"] = NewToken]
  <2>1. /\ row' = [row EXCEPT ![d].step = "confirming", ![d].version = 1, ![d].message = None,
                              ![d].mode = b]
        /\ token' = [token EXCEPT ![d] = t]
        /\ pc' = [pc EXCEPT ![w] = "prompt"] /\ UNCHANGED verdict
    BY <1>2, <1>3, <1>4, <1>7 DEF Select, Chosen, Go
  <2>2. /\ row[d].message = "preview" /\ row[d].lifecycle = "active" /\ row[d].step = "preview"
        /\ b \in Mode
    BY <1>7, Admitted DEF ShownIn, ExpectedVersion
  <2>3. row[d] \in Row /\ r \in Row
    <3>1. row[d] \in Row
      BY <1>1 DEF Tables
    <3> QED
      BY <2>2, <3>1, Selected
  <2>4. row'[d] = r /\ \A p \in Dialogue : p # d => row'[p] = row[p]
    BY <1>1, <2>1 DEF Tables
  <2>5. row' \in [Dialogue -> Row]
    BY <1>1, <2>1, <2>3, <2>4 DEF Tables
  <2>6. /\ row'[d].step = "confirming" /\ row'[d].version = 1 /\ row'[d].message = None
        /\ row'[d].mode = b /\ row'[d].lifecycle = "active" /\ row'[d].update = row[d].update
    BY <2>2, <2>3, <2>4 DEF Row
  <2>7. /\ t \in [Button -> Token] /\ t["confirm"] = NewToken /\ t["cancel"] = NewToken
        /\ \A k \in Button : k \notin {"confirm", "cancel"} => t[k] = Consume(d, b)[k]
    <3>1. NewToken \in Token /\ {"confirm", "cancel"} \subseteq Button
      BY Constants DEF NewToken, Token
    <3>2. Consume(d, b) \in [Button -> Token]
      BY <1>1, ConsumeFits
    <3> QED
      BY <3>1, <3>2
  <2> HIDE DEF r, t
  <2>8. token' \in [Dialogue -> [Button -> Token]] /\ token'[d] = t
        /\ \A p \in Dialogue : p # d => token'[p] = token[p]
    BY <1>1, <2>1, <2>7 DEF Tables
  <2>9. BoundInStep(d)'
    <3> SUFFICES ASSUME NEW k \in Button, token'[d][k].state = "live"
                 PROVE  token'[d][k].message \in {None, ShownIn(k)}
      BY <2>6 DEF BoundInStep
    <3>1. CASE k \in {"confirm", "cancel"}
      BY <2>7, <2>8, <3>1 DEF NewToken
    <3>2. CASE k \notin {"confirm", "cancel"}
      <4>1. token'[d][k] = Consume(d, b)[k]
        BY <2>7, <2>8, <3>2
      <4>2. k # b /\ token'[d][k] = token[d][k]
        BY <1>1, <4>1, ConsumeFits
      <4> QED
        BY <1>6, <2>2, <4>2 DEF InStep, BoundInStep
    <3> QED
      BY <3>1, <3>2
  <2>10. prompt[d]["confirming"] = "none" /\ prompt[d]["preview"] = "acknowledged"
    BY <1>6, <2>2 DEF InStep, PromptInStep
  <2>11. InStep(d)'
    <3>1. RowInStep(d)'
      BY <2>2, <2>6 DEF RowInStep, VersionAt
    <3>2. PromptInStep(d)'
      BY <1>5, <2>6, <2>10, Constants DEF PromptInStep, Far
    <3>3. released[d] = {} /\ submitted[d] = {} /\ results[d] = 0
      BY <1>6, <2>2 DEF InStep, DoneInStep, Far
    <3>4. DoneInStep(d)'
      BY <1>5, <2>6, <3>3 DEF DoneInStep
    <3> QED
      BY <2>9, <3>1, <3>2, <3>4 DEF InStep
  <2>12. ASSUME NEW p \in Dialogue PROVE InStep(p)' /\ Forward(p)
    <3>1. CASE p = d
      BY <2>2, <2>11, <3>1 DEF Forward, Far
    <3>2. CASE p # d
      BY <1>5, <2>4, <2>8, <3>2, IdleStays, IdleIsForward DEF IInv, Idle
    <3> QED
      BY <3>1, <3>2
  <2>13. GoesOn(w, "prompt")
    BY <1>1, <1>5, <2>1 DEF GoesOn, TypeOK
  <2>14. Tables'
    BY <1>1, <1>5, <2>5, <2>8 DEF Tables
  <2>15. row'[press[u]].step # "preview" /\ row'[press[u]].mode = script[u] /\ script[u] \in Mode
    BY <1>3, <1>4, <2>2, <2>6
  <2> QED
    BY <1>1, <1>2, <2>12, <2>13, <2>14, <2>15, StageKeeps DEF Stage
<1>8. CASE Refusal(d, b, "preview", 0) \in {"invalid", "consumed"}
  <2>1. pc' = [pc EXCEPT ![w] = "decide"] /\ UNCHANGED <<row, token, verdict>>
    BY <1>2, <1>3, <1>4, <1>8 DEF Select, Go
  <2>2. GoesOn(w, "decide") /\ Tables'
    BY <1>1, <1>5, <2>1 DEF GoesOn, TypeOK, Tables
  <2>3. \A p \in Dialogue : InStep(p)' /\ Forward(p)
    BY <1>5, <2>1, IdleStays, IdleIsForward DEF IInv, Idle
  <2> QED
    BY <1>1, <1>2, <2>2, <2>3, StageKeeps DEF Stage
<1>9. CASE Refusal(d, b, "preview", 0) = "expired"
  <2>1. row' = [row EXCEPT ![d] = Expired(row[d])] /\ Conclude(w, "settled") /\ UNCHANGED token
    BY <1>2, <1>3, <1>4, <1>9 DEF Select
  <2>2. GoesOn(w, "settle")
    BY <1>1, <1>5, <2>1, Concludes
  <2>3. /\ row' \in [Dialogue -> Row] /\ row'[d] = Expired(row[d])
        /\ \A p \in Dialogue : p # d => row'[p] = row[p]
    BY <1>1, <1>6, <2>1, ExpiredRow DEF Tables
  <2>4. Tables'
    BY <1>1, <1>5, <2>1, <2>3 DEF Tables
  <2>5. ASSUME NEW p \in Dialogue PROVE InStep(p)' /\ Forward(p)
    <3>1. CASE p = d
      <4>1. Retires(d)
        BY <1>1, <1>5, <1>6, <2>1, <2>3, ExpiredRow DEF Retires
      <4> QED
        BY <1>6, <3>1, <4>1, RetireKeeps
    <3>2. CASE p # d
      BY <1>5, <2>1, <2>3, <3>2, IdleStays, IdleIsForward DEF IInv, Idle
    <3> QED
      BY <3>1, <3>2
  <2> QED
    BY <1>1, <1>2, <2>2, <2>4, <2>5, StageKeeps DEF Stage
<1> QED
  BY <1>2, <1>3, <1>4, <1>7, <1>8, <1>9 DEF Select

\* The confirmation prompt names the mode of the row.
LEMMA PromptKeeps ==
  ASSUME IInv, NEW w \in Worker, Prompt(w)
  PROVE  IInv'
<1>1. pc[w] = "prompt" /\ TypeOK /\ Tables
  BY TablesFit DEF IInv, Prompt
<1>2. PICK u \in Press : held[w] = u
  BY <1>1, WorksOn
<1>3. PICK d \in Dialogue : press[u] = d
  BY <1>1, <1>2, WorksOn
<1>4. script[u] \in Mode /\ row[d].step # "preview" /\ row[d].mode = script[u]
  BY <1>1, <1>2, <1>3 DEF IInv, WorkerInStep
<1>5. /\ prompt' = [prompt EXCEPT ![d]["confirming"] = "queued"]
      /\ prompted' = [prompted EXCEPT ![d] = script[u]]
      /\ Conclude(w, "settled")
      /\ UNCHANGED <<row, token, overdue, aged, script, press, state, attempts, held, submitted,
                     released, results, faults>>
  BY <1>2, <1>3 DEF Prompt, storeVars, timeVars, ledgerVars, doneVars
<1>6. GoesOn(w, "settle")
  BY <1>1, <1>5, Concludes
<1>7. /\ prompt' \in [Dialogue -> [Message -> {"none", "queued", "shown", "acknowledged"}]]
      /\ prompt'[d]["confirming"] = "queued" /\ prompt'[d]["preview"] = prompt[d]["preview"]
      /\ \A p \in Dialogue : p # d => prompt'[p] = prompt[p]
  <2>1. "preview" \in Message /\ "confirming" \in Message
    BY DEF Message
  <2>2. prompt[d] \in [Message -> {"none", "queued", "shown", "acknowledged"}]
    BY <1>1 DEF Tables
  <2>3. [prompt[d] EXCEPT !["confirming"] = "queued"]
          \in [Message -> {"none", "queued", "shown", "acknowledged"}]
    BY <2>1, <2>2
  <2>4. prompt' = [prompt EXCEPT ![d] = [prompt[d] EXCEPT !["confirming"] = "queued"]]
    BY <1>5
  <2> QED
    BY <1>1, <2>1, <2>2, <2>3, <2>4 DEF Tables
<1>8. /\ prompted' \in [Dialogue -> Mode \cup {None}] /\ prompted'[d] = row[d].mode
      /\ \A p \in Dialogue : p # d => prompted'[p] = prompted[p]
  BY <1>1, <1>4, <1>5 DEF Tables
<1>9. Tables'
  BY <1>1, <1>5, <1>7, <1>8 DEF Tables
<1>10. InStep(d)'
  <2>1. InStep(d)
    BY DEF IInv
  <2>2. PromptInStep(d)'
    BY <1>4, <1>5, <1>7, <1>8, <2>1 DEF InStep, PromptInStep, Far
  <2>3. RowInStep(d)' /\ DoneInStep(d)' /\ BoundInStep(d)'
    BY <1>5, <2>1 DEF InStep, RowInStep, DoneInStep, BoundInStep, Far
  <2> QED
    BY <2>2, <2>3 DEF InStep
<1>11. ASSUME NEW p \in Dialogue PROVE InStep(p)' /\ Forward(p)
  <2>1. CASE p # d
    BY <1>5, <1>7, <1>8, <2>1, IdleStays, IdleIsForward DEF IInv, Idle
  <2> QED
    BY <1>5, <1>10, <2>1, IdleIsForward
<1> QED
  BY <1>1, <1>2, <1>6, <1>9, <1>11, StageKeeps DEF Stage

\* Only the results, the releases or the submissions of d change.
Accounts(d) ==
  /\ UNCHANGED <<row, token, prompt, prompted>>
  /\ \A p \in Dialogue : p # d => /\ released'[p] = released[p] /\ submitted'[p] = submitted[p]
                                  /\ results'[p] = results[p]

LEMMA AccountsKeep ==
  ASSUME IInv, NEW d \in Dialogue, Accounts(d), DoneInStep(d)'
  PROVE  \A p \in Dialogue : InStep(p)' /\ Forward(p)
<1>1. InStep(d)'
  BY DEF IInv, Accounts, InStep, RowInStep, PromptInStep, BoundInStep, Far
<1>2. ASSUME NEW p \in Dialogue PROVE InStep(p)' /\ Forward(p)
  <2>1. CASE p # d
    BY <2>1, IdleStays, IdleIsForward DEF IInv, Idle, Accounts
  <2> QED
    BY <1>1, <2>1, IdleIsForward DEF Accounts
<1> QED
  BY <1>2

\* The first consumption of a decision token.
LEMMA DecidedKeeps ==
  ASSUME IInv, NEW w \in Worker, NEW u \in Press, NEW d \in Dialogue, NEW b \in Button,
         pc[w] = "decide", held[w] = u, press[u] = d,
         Refusal(d, b, "confirming", 1) = "none", Decided(w, d, b),
         UNCHANGED <<overdue, aged, prompt, prompted, script, press, state, attempts, held,
                     submitted, results>>
  PROVE  IInv'
<1>1. TypeOK /\ Tables /\ InStep(d)
  BY TablesFit DEF IInv
<1>2. /\ row[d].message = "confirming" /\ row[d].lifecycle = "active"
      /\ row[d].step = "confirming" /\ row[d].version = 1
  BY Admitted DEF ShownIn, ExpectedVersion
<1>3. /\ prompt[d]["confirming"] # "none" /\ prompted[d] = row[d].mode
      /\ prompt[d]["preview"] = "acknowledged"
      /\ released[d] = {} /\ submitted[d] = {} /\ results[d] = 0
  BY <1>1, <1>2 DEF InStep, PromptInStep, DoneInStep, Far
<1>4. /\ token' \in [Dialogue -> [Button -> Token]] /\ token'[d] = Consume(d, b)
      /\ \A p \in Dialogue : p # d => token'[p] = token[p]
  BY <1>1, ConsumeFits DEF Tables, Decided
<1>5. row[d] \in Row
  BY <1>1 DEF Tables
<1>6. CASE b = "cancel"
  <2> DEFINE r == [row[d] EXCEPT !.lifecycle = "cancelled", !.version = 2, !.message = None]
  <2>1. /\ row' = [row EXCEPT ![d].lifecycle = "cancelled", ![d].version = 2, ![d].message = None]
        /\ Tell(w) /\ UNCHANGED released
    BY <1>6 DEF Decided
  <2>2. r \in Row /\ r.step = row[d].step /\ r.mode = row[d].mode /\ r.update = row[d].update
        /\ r.message = None /\ r.lifecycle = "cancelled"
    BY <1>5, Cancelled
  <2>3. row'[d] = r /\ row' = [row EXCEPT ![d] = r] /\ \A p \in Dialogue : p # d => row'[p] = row[p]
    BY <1>1, <2>1 DEF Tables
  <2> HIDE DEF r
  <2>4. row' \in [Dialogue -> Row]
    BY <1>1, <2>2, <2>3 DEF Tables
  <2>5. InStep(d)'
    <3>1. RowInStep(d)' /\ BoundInStep(d)'
      BY <1>1, <1>2, <2>2, <2>3 DEF InStep, RowInStep, BoundInStep
    <3>2. PromptInStep(d)' /\ DoneInStep(d)'
      BY <1>2, <1>3, <2>1, <2>2, <2>3, Constants DEF PromptInStep, DoneInStep, Far
    <3> QED
      BY <3>1, <3>2 DEF InStep
  <2>6. ASSUME NEW p \in Dialogue PROVE InStep(p)' /\ Forward(p)
    <3>1. CASE p = d
      BY <2>2, <2>3, <2>5, <3>1 DEF Forward, Far
    <3>2. CASE p # d
      BY <1>4, <2>1, <2>3, <3>2, IdleStays, IdleIsForward DEF IInv, Idle
    <3> QED
      BY <3>1, <3>2
  <2>7. GoesOn(w, "settle")
    BY <1>1, <2>1, Concludes DEF Tell
  <2>8. Tables'
    BY <1>1, <1>4, <2>1, <2>4 DEF Tables
  <2> QED
    BY <2>6, <2>7, <2>8, StageKeeps DEF Stage
<1>7. CASE b = "confirm"
  <2> DEFINE r == [row[d] EXCEPT !.step = "submitting", !.version = 2, !.message = None, !.update = u]
  <2>1. /\ row' = [row EXCEPT ![d].step = "submitting", ![d].version = 2, ![d].message = None,
                              ![d].update = u]
        /\ released' = [released EXCEPT ![d] = @ \cup {u}]
        /\ pc' = [pc EXCEPT ![w] = "submit"] /\ UNCHANGED <<verdict, faults>>
    BY <1>7 DEF Decided, Release, Go
  <2>2. r \in Row /\ r.step = "submitting" /\ r.mode = row[d].mode /\ r.update = u
        /\ r.message = None /\ r.lifecycle = "active" /\ r.version = 2
    <3> DEFINE y == [row[d] EXCEPT !.step = "submitting"]
               z == [y EXCEPT !.version = 2]
               v == [z EXCEPT !.message = None]
    <3>1. r = [v EXCEPT !.update = u]
      OBVIOUS
    <3> HIDE DEF r
    <3>2. /\ y \in Row /\ y.step = "submitting" /\ y.lifecycle = row[d].lifecycle
          /\ y.mode = row[d].mode
      BY <1>5 DEF Row, Step
    <3> HIDE DEF y
    <3>3. z \in Row /\ z.step = y.step /\ z.version = 2 /\ z.lifecycle = y.lifecycle /\ z.mode = y.mode
      BY <3>2 DEF Row
    <3> HIDE DEF z
    <3>4. /\ v \in Row /\ v.step = z.step /\ v.version = z.version /\ v.message = None
          /\ v.lifecycle = z.lifecycle /\ v.mode = z.mode
      BY <3>3 DEF Row
    <3> HIDE DEF v
    <3>5. /\ r \in Row /\ r.step = v.step /\ r.version = v.version /\ r.message = v.message
          /\ r.update = u /\ r.lifecycle = v.lifecycle /\ r.mode = v.mode
      BY <3>1, <3>4 DEF Row
    <3> QED
      BY <1>2, <3>2, <3>3, <3>4, <3>5
  <2>3. row'[d] = r /\ row' = [row EXCEPT ![d] = r] /\ \A p \in Dialogue : p # d => row'[p] = row[p]
    BY <1>1, <2>1 DEF Tables
  <2> HIDE DEF r
  <2>4. /\ row' \in [Dialogue -> Row] /\ released' \in [Dialogue -> SUBSET Press]
        /\ released'[d] = {u} /\ \A p \in Dialogue : p # d => released'[p] = released[p]
    BY <1>1, <1>3, <2>1, <2>2, <2>3 DEF Tables
  <2>5. InStep(d)'
    <3>1. RowInStep(d)'
      BY <1>1, <1>2, <2>2, <2>3 DEF InStep, RowInStep, VersionAt
    <3>2. PromptInStep(d)' /\ DoneInStep(d)'
      BY <1>3, <2>2, <2>3, <2>4, Constants DEF PromptInStep, DoneInStep, Far
    <3>3. BoundInStep(d)'
      <4>1. ASSUME NEW k \in Button, token'[d][k].state = "live"
            PROVE  token'[d][k].message \in {None, ShownIn(k)}
        <5>1. k # b /\ token'[d][k] = token[d][k]
          BY <1>1, <1>4, <4>1, ConsumeFits
        <5> QED
          BY <1>1, <1>2, <4>1, <5>1 DEF InStep, BoundInStep
      <4> QED
        BY <2>2, <2>3, <4>1 DEF BoundInStep
    <3> QED
      BY <3>1, <3>2, <3>3 DEF InStep
  <2>6. ASSUME NEW p \in Dialogue PROVE InStep(p)' /\ Forward(p)
    <3>1. CASE p = d
      BY <2>2, <2>3, <2>5, <3>1 DEF Forward, Far
    <3>2. CASE p # d
      BY <1>4, <2>3, <2>4, <3>2, IdleStays, IdleIsForward DEF IInv, Idle
    <3> QED
      BY <3>1, <3>2
  <2>7. GoesOn(w, "submit")
    BY <1>1, <2>1 DEF GoesOn, TypeOK
  <2>8. Tables' /\ row'[press[u]].step = "submitting"
    BY <1>1, <1>4, <2>2, <2>3, <2>4 DEF Tables
  <2> QED
    BY <2>6, <2>7, <2>8, StageKeeps DEF Stage
<1> QED
  BY <1>6, <1>7 DEF Decided

\* The confirmed action is given again, to its own update.
LEMMA ResumedKeeps ==
  ASSUME IInv, NEW w \in Worker, NEW u \in Press, NEW d \in Dialogue, NEW b,
         pc[w] = "decide", held[w] = u, press[u] = d, Resumes(d, b, u), Resumed(w, d),
         UNCHANGED <<overdue, aged, prompt, prompted, script, press, state, attempts, held,
                     submitted, results>>
  PROVE  IInv'
<1>1. TypeOK /\ Tables /\ InStep(d) /\ row[d].update = u /\ UNCHANGED <<row, token>>
  BY TablesFit DEF IInv, Resumes, Resumed, storeVars
<1>2. CASE row[d].step = "submitting" /\ Release(w, d)
  <2>1. /\ released' = [released EXCEPT ![d] = @ \cup {u}]
        /\ pc' = [pc EXCEPT ![w] = "submit"] /\ UNCHANGED <<verdict, faults>>
    BY <1>2 DEF Release, Go
  <2>2. /\ released' \in [Dialogue -> SUBSET Press] /\ released'[d] = released[d] \cup {u}
        /\ \A p \in Dialogue : p # d => released'[p] = released[p]
    BY <1>1, <2>1 DEF Tables
  <2>3. DoneInStep(d)'
    BY <1>1, <1>2, <2>2 DEF InStep, DoneInStep, Far
  <2>4. \A p \in Dialogue : InStep(p)' /\ Forward(p)
    BY <1>1, <2>2, <2>3, AccountsKeep DEF Accounts
  <2>5. GoesOn(w, "submit") /\ Tables' /\ row'[press[u]].step = "submitting"
    BY <1>1, <1>2, <2>1, <2>2 DEF GoesOn, TypeOK, Tables
  <2> QED
    BY <2>4, <2>5, StageKeeps DEF Stage
<1>3. CASE ((Conclude(w, "settled") /\ UNCHANGED faults) \/ Tell(w)) /\ UNCHANGED released
  <2>1. GoesOn(w, "settle")
    BY <1>1, <1>3, Concludes DEF Tell
  <2>2. \A p \in Dialogue : InStep(p)' /\ Forward(p)
    BY <1>1, <1>3, IdleStays, IdleIsForward DEF IInv, Idle
  <2>3. Tables'
    BY <1>1, <1>3 DEF Tables
  <2> QED
    BY <2>1, <2>2, <2>3, StageKeeps DEF Stage
<1> QED
  BY <1>2, <1>3 DEF Resumed

\* The decision: accepted, resumed, or refused in the chat.
LEMMA DecideKeeps ==
  ASSUME IInv, NEW w \in Worker, Decide(w)
  PROVE  IInv'
<1>1. pc[w] = "decide" /\ TypeOK /\ Tables
  BY TablesFit DEF IInv, Decide
<1>2. PICK u \in Press : held[w] = u
  BY <1>1, WorksOn
<1>3. PICK d \in Dialogue : press[u] = d
  BY <1>1, <1>2, WorksOn
<1>4. PICK b \in Button : script[u] = b
  BY <1>1, <1>2, WorksOn
<1>5. UNCHANGED <<overdue, aged, prompt, prompted, script, press, state, attempts, held,
                  submitted, results>>
  BY DEF Decide, timeVars, chatVars, ledgerVars
<1>6. \/ Refusal(d, b, "confirming", 1) = "none" /\ Decided(w, d, b)
      \/ Resumes(d, b, u) /\ Resumed(w, d)
      \/ /\ UNCHANGED row \/ row' = [row EXCEPT ![d] = Expired(row[d])]
         /\ Tell(w) /\ UNCHANGED <<token, released>>
  BY <1>2, <1>3, <1>4 DEF Decide
<1>7. CASE Refusal(d, b, "confirming", 1) = "none" /\ Decided(w, d, b)
  BY <1>1, <1>2, <1>3, <1>5, <1>7, DecidedKeeps
<1>8. CASE Resumes(d, b, u) /\ Resumed(w, d)
  BY <1>1, <1>2, <1>3, <1>5, <1>8, ResumedKeeps
<1>9. CASE /\ UNCHANGED row \/ row' = [row EXCEPT ![d] = Expired(row[d])]
           /\ Tell(w) /\ UNCHANGED <<token, released>>
  <2>1. GoesOn(w, "settle")
    BY <1>1, <1>5, <1>9, Concludes DEF Tell
  <2>2. InStep(d)
    BY DEF IInv
  <2>3. /\ row' \in [Dialogue -> Row] /\ row'[d] \in {row[d], Expired(row[d])}
        /\ \A p \in Dialogue : p # d => row'[p] = row[p]
    BY <1>1, <1>9, <2>2, ExpiredRow DEF Tables
  <2>4. Tables'
    BY <1>1, <1>5, <1>9, <2>3 DEF Tables
  <2>5. ASSUME NEW p \in Dialogue PROVE InStep(p)' /\ Forward(p)
    <3>1. CASE p = d
      <4>1. Retires(d)
        BY <1>1, <1>5, <1>9, <2>2, <2>3, ExpiredRow DEF Retires
      <4> QED
        BY <2>2, <3>1, <4>1, RetireKeeps
    <3>2. CASE p # d
      BY <1>5, <1>9, <2>3, <3>2, IdleStays, IdleIsForward DEF IInv, Idle
    <3> QED
      BY <3>1, <3>2
  <2> QED
    BY <1>1, <1>2, <2>1, <2>4, <2>5, StageKeeps DEF Stage
<1> QED
  BY <1>6, <1>7, <1>8, <1>9

-----------------------------------------------------------------------------
(* The confirmed action *)

\* Platform is asked for the mode of the row, whether or not it answers.
LEMMA SubmitKeeps ==
  ASSUME IInv, NEW w \in Worker, Submit(w) \/ SubmitUnanswered(w)
  PROVE  IInv'
<1>1. pc[w] = "submit" /\ TypeOK /\ Tables
  BY TablesFit DEF IInv, Submit, SubmitUnanswered
<1>2. PICK u \in Press : held[w] = u
  BY <1>1, WorksOn
<1>3. PICK d \in Dialogue : press[u] = d
  BY <1>1, <1>2, WorksOn
<1>4. /\ \/ submitted' = [submitted EXCEPT ![d] = submitted[d] \cup {row[d].mode}]
         \/ UNCHANGED submitted
      /\ UNCHANGED <<row, token, overdue, aged, prompt, prompted, script, press, state, attempts,
                     held, released, results>>
  BY <1>2, <1>3 DEF Submit, SubmitUnanswered, storeVars, timeVars, chatVars, ledgerVars
<1>5. InStep(d) /\ Far(d)
  BY <1>1, <1>2, <1>3 DEF IInv, WorkerInStep
<1>6. row[d].mode \in Mode
  BY <1>5 DEF InStep, RowInStep, Far
<1>7. /\ submitted' \in [Dialogue -> SUBSET Mode] /\ submitted'[d] \subseteq submitted[d] \cup {row[d].mode}
      /\ \A p \in Dialogue : p # d => submitted'[p] = submitted[p]
  BY <1>1, <1>4, <1>6 DEF Tables
<1>8. DoneInStep(d)'
  BY <1>4, <1>5, <1>7 DEF InStep, DoneInStep, Far
<1>9. \A p \in Dialogue : InStep(p)' /\ Forward(p)
  BY <1>4, <1>7, <1>8, AccountsKeep DEF Accounts
<1>10. Tables' /\ row'[press[u]].step \in {"submitting", "completed"}
  BY <1>1, <1>3, <1>4, <1>5, <1>7 DEF Tables, Far
<1>11. CASE Submit(w)
  <2>1. GoesOn(w, "complete")
    BY <1>1, <1>4, <1>11 DEF Submit, Go, GoesOn, TypeOK
  <2> QED
    BY <1>1, <1>2, <1>9, <1>10, <2>1, StageKeeps DEF Stage
<1>12. CASE SubmitUnanswered(w)
  <2>1. GoesOn(w, "settle")
    BY <1>1, <1>4, <1>12, Concludes DEF SubmitUnanswered
  <2> QED
    BY <1>1, <1>2, <1>9, <1>10, <2>1, StageKeeps DEF Stage
<1> QED
  BY <1>11, <1>12

\* The completion and its one result.
LEMMA CompleteKeeps ==
  ASSUME IInv, NEW d \in Dialogue, NEW u, Completable(row[d], u), Complete(d),
         UNCHANGED <<token, prompt, prompted, submitted, released>>
  PROVE  Tables' /\ \A p \in Dialogue : InStep(p)' /\ Forward(p)
<1> DEFINE r == [row[d] EXCEPT !.step = "completed", !.lifecycle = "completed",
                               !.version = row[d].version + 1]
<1>1. Tables /\ InStep(d) /\ row[d] \in Row
  BY TablesFit DEF IInv, TypeOK
<1>2. row[d].step = "submitting" /\ row[d].lifecycle = "active" /\ row[d].version = 2
  BY <1>1 DEF Completable, InStep, RowInStep, VersionAt
<1>3. /\ r \in Row /\ r.step = "completed" /\ r.lifecycle = "completed"
      /\ r.message = row[d].message /\ r.mode = row[d].mode /\ r.update = row[d].update
  BY <1>1, <1>2, Completed
<1>4. row' = [row EXCEPT ![d] = r] /\ results' = [results EXCEPT ![d] = results[d] + 1]
  BY DEF Complete
<1> HIDE DEF r
<1>5. /\ row' \in [Dialogue -> Row] /\ row'[d] = r /\ \A p \in Dialogue : p # d => row'[p] = row[p]
  BY <1>1, <1>3, <1>4 DEF Tables
<1>6. /\ results' \in [Dialogue -> Nat] /\ results'[d] = results[d] + 1
      /\ \A p \in Dialogue : p # d => results'[p] = results[p]
  BY <1>1, <1>4 DEF Tables
<1>7. results[d] = 0
  BY <1>1, <1>2 DEF InStep, DoneInStep
<1>8. InStep(d)'
  <2>1. RowInStep(d)' /\ BoundInStep(d)'
    BY <1>1, <1>2, <1>3, <1>5 DEF InStep, RowInStep, BoundInStep
  <2>2. PromptInStep(d)'
    BY <1>1, <1>2, <1>3, <1>5 DEF InStep, PromptInStep, Far
  <2>3. DoneInStep(d)'
    BY <1>1, <1>3, <1>5, <1>6, <1>7 DEF InStep, DoneInStep, Far
  <2> QED
    BY <2>1, <2>2, <2>3 DEF InStep
<1>9. ASSUME NEW p \in Dialogue PROVE InStep(p)' /\ Forward(p)
  <2>1. CASE p = d
    BY <1>3, <1>5, <1>8, <2>1 DEF Forward, Far
  <2>2. CASE p # d
    BY <1>5, <1>6, <2>2, IdleStays, IdleIsForward DEF IInv, Idle
  <2> QED
    BY <2>1, <2>2
<1>10. Tables'
  BY <1>1, <1>5, <1>6 DEF Tables
<1> QED
  BY <1>9, <1>10

\* The report and the statement that fails around it.
LEMMA ReportKeeps ==
  ASSUME IInv, NEW w \in Worker, Report(w) \/ StorageError(w)
  PROVE  IInv'
<1>1. pc[w] \notin {"start", "idle"} /\ TypeOK /\ Tables
  BY TablesFit DEF IInv, Report, StorageError
<1>2. PICK u \in Press : held[w] = u
  BY <1>1, WorksOn
<1>3. PICK d \in Dialogue : press[u] = d
  BY <1>1, <1>2, WorksOn
<1>4. /\ UNCHANGED <<token, overdue, aged, prompt, prompted, script, press, state, attempts, held,
                     submitted, released>>
      /\ faults' = faults \/ SpendFault
  BY DEF Report, StorageError, timeVars, chatVars, ledgerVars
<1>5. Conclude(w, "settled") \/ Conclude(w, "retry")
  BY DEF Report, StorageError
<1>6. (Completable(row[d], u) /\ Complete(d)) \/ UNCHANGED <<row, results>>
  BY <1>2, <1>3 DEF Report, StorageError
<1>7. GoesOn(w, "settle")
  BY <1>1, <1>4, <1>5, Concludes
<1>8. Tables' /\ \A p \in Dialogue : InStep(p)' /\ Forward(p)
  <2>1. CASE Completable(row[d], u) /\ Complete(d)
    BY <1>4, <2>1, CompleteKeeps
  <2>2. CASE UNCHANGED <<row, results>>
    BY <1>1, <1>4, <2>2, IdleStays, IdleIsForward DEF IInv, Idle, Tables
  <2> QED
    BY <1>6, <2>1, <2>2
<1> QED
  BY <1>1, <1>2, <1>7, <1>8, StageKeeps DEF Stage

-----------------------------------------------------------------------------
(* The cleanup, and the theorems *)

\* Whatever the cleanup expires or removes, what was done stays done.
LEMMA CleanupKeeps ==
  ASSUME IInv, NEW w \in Worker, Cleanup(w)
  PROVE  IInv'
<1> DEFINE swept == [d \in Dialogue |-> IF d \in overdue THEN Expired(row[d]) ELSE row[d]]
           left  == [d \in Dialogue |-> [b \in Button |->
                       IF Removable(d, b, swept[d]) THEN NoToken ELSE token[d][b]]]
           gone(d) == d \in aged /\ swept[d].lifecycle \in Terminal /\ \A b \in Button : left[d][b] = NoToken
<1>1. TypeOK /\ Tables
  BY TablesFit DEF IInv
<1>2. /\ token' = left
      /\ row' = [d \in Dialogue |->
           IF gone(d) THEN [swept[d] EXCEPT !.lifecycle = "deleted"] ELSE swept[d]]
      /\ pc' = [pc EXCEPT ![w] = "idle"]
      /\ UNCHANGED <<overdue, aged, prompt, prompted, script, press, state, attempts, held, verdict,
                     submitted, released, results, faults>>
  BY DEF Cleanup, Go, timeVars, chatVars, ledgerVars, doneVars
<1>3. ASSUME NEW d \in Dialogue
      PROVE  /\ swept[d] \in Row /\ swept[d].step = row[d].step /\ swept[d].mode = row[d].mode
             /\ swept[d].update = row[d].update /\ swept[d].message = row[d].message
             /\ swept[d] = row[d] \/ swept[d].lifecycle = "expired"
  <2>1. row[d] \in Row /\ InStep(d)
    BY <1>1 DEF Tables, IInv
  <2>2. swept[d] \in {row[d], Expired(row[d])}
    OBVIOUS
  <2> HIDE DEF swept
  <2> QED
    BY <1>1, <2>1, <2>2, ExpiredRow
<1>4. \A d \in Dialogue, b \in Button : token'[d][b] = token[d][b] \/ token'[d][b] = NoToken
  BY <1>2
<1>5. token' \in [Dialogue -> [Button -> Token]]
  <2>1. NoToken \in Token /\ \A d \in Dialogue, b \in Button : token[d][b] \in Token
    BY <1>1 DEF NoToken, Token, Tables
  <2> QED
    BY <1>2, <2>1
<1>6. \A d \in Dialogue : row'[d] \in {swept[d], [swept[d] EXCEPT !.lifecycle = "deleted"]}
  BY <1>2
<1>7. row' = [d \in Dialogue |-> row'[d]]
  BY <1>2
<1> HIDE DEF swept, left, gone
<1>8. ASSUME NEW d \in Dialogue
      PROVE  /\ row'[d] \in Row /\ row'[d].step = row[d].step /\ row'[d].mode = row[d].mode
             /\ row'[d].update = row[d].update /\ row'[d].message = row[d].message
             /\ row'[d] = row[d] \/ row'[d].lifecycle \in {"expired", "deleted"}
  <2>1. CASE row'[d] = swept[d]
    BY <1>3, <2>1
  <2>2. CASE row'[d] = [swept[d] EXCEPT !.lifecycle = "deleted"]
    <3>1. PICK x \in Row : x = swept[d]
      BY <1>3
    <3>2. [x EXCEPT !.lifecycle = "deleted"] \in Row
      BY DEF Row, Lifecycle
    <3>3. /\ row'[d].step = x.step /\ row'[d].mode = x.mode /\ row'[d].update = x.update
          /\ row'[d].message = x.message /\ row'[d].lifecycle = "deleted"
      BY <2>2, <3>1 DEF Row
    <3> QED
      BY <1>3, <2>2, <3>1, <3>2, <3>3
  <2> QED
    BY <1>6, <2>1, <2>2
<1>9. ASSUME NEW d \in Dialogue PROVE InStep(d)' /\ Forward(d)
  <2>1. \A b \in Button : token'[d][b] = token[d][b] \/ token'[d][b].state # "live"
    BY <1>4 DEF NoToken
  <2>2. Retires(d)
    BY <1>2, <1>8, <2>1 DEF Retires
  <2> QED
    BY <2>2, RetireKeeps DEF IInv
<1>10. row' \in [Dialogue -> Row]
  BY <1>7, <1>8
<1>11. TypeOK'
  BY <1>1, <1>2, <1>5, <1>10 DEF TypeOK, Stage
<1>12. pc'[w] = "idle" /\ \A o \in Worker : o # w => pc'[o] = pc[o] /\ held'[o] = held[o]
  BY <1>1, <1>2 DEF TypeOK
<1>13. WorkerInStep(w)'
  BY <1>12 DEF WorkerInStep
<1>14. PressesStay /\ \A u \in Press : PressPlaced(u)'
  BY <1>2 DEF IInv, PressesStay, PressPlaced
<1> QED
  BY <1>2, <1>9, <1>11, <1>12, <1>13, <1>14, WorkerMoves

LEMMA InitInv == Init => IInv
<1> SUFFICES ASSUME Init PROVE IInv
  OBVIOUS
<1>1. NoRow \in Row /\ NoToken \in Token
  BY DEF NoRow, Row, Step, Lifecycle, NoToken, Token
<1>2. script \in [Press -> Button]
  BY DialogueAssumption DEF Init, Button
<1>3. TypeOK
  <2>1. row \in [Dialogue -> Row] /\ token \in [Dialogue -> [Button -> Token]]
    BY <1>1 DEF Init
  <2>2. /\ prompt \in [Dialogue -> [Message -> {"none", "queued", "shown", "acknowledged"}]]
        /\ prompted \in [Dialogue -> Mode \cup {None}] /\ overdue \subseteq Dialogue
        /\ aged \subseteq Dialogue
    BY DEF Init
  <2>3. /\ press \in [Press -> Dialogue \cup {None}] /\ attempts \in [Press -> Nat]
        /\ state \in [Press -> {"unsent", "settled", "recovery_required"} \cup Unsettled]
    BY DEF Init, Unsettled
  <2>4. /\ pc \in [Worker -> Stage] /\ held \in [Worker -> Press \cup {None}]
        /\ verdict \in [Worker -> {"none", "settled", "retry"}]
    BY DEF Init, Stage
  <2>5. /\ submitted \in [Dialogue -> SUBSET Mode] /\ released \in [Dialogue -> SUBSET Press]
        /\ results \in [Dialogue -> Nat] /\ faults \in 0..MaxFaults
    BY Constants DEF Init
  <2> QED
    BY <1>2, <2>1, <2>2, <2>3, <2>4, <2>5 DEF TypeOK
<1>4. ASSUME NEW d \in Dialogue PROVE InStep(d)
  <2>1. /\ row[d].step = "preview" /\ row[d].version = 0 /\ row[d].message = None
        /\ row[d].lifecycle = "unborn"
    BY DEF Init, NoRow
  <2>2. /\ prompt[d]["confirming"] = "none" /\ released[d] = {} /\ submitted[d] = {}
        /\ results[d] = 0
    BY DEF Init, Message
  <2>3. RowInStep(d) /\ DoneInStep(d) /\ BoundInStep(d)
    BY <2>1, <2>2 DEF RowInStep, DoneInStep, BoundInStep
  <2>4. PromptInStep(d)
    BY <2>1, <2>2, Constants DEF PromptInStep, Far
  <2> QED
    BY <2>3, <2>4 DEF InStep
<1>5. \A w \in Worker : WorkerInStep(w)
  BY DEF Init, WorkerInStep
<1>6. \A u \in Press : PressPlaced(u)
  BY DEF Init, PressPlaced
<1> QED
  BY <1>3, <1>4, <1>5, <1>6 DEF IInv

LEMMA StepInv == IInv /\ [Next]_vars => IInv'
<1> SUFFICES ASSUME IInv, [Next]_vars PROVE IInv'
  OBVIOUS
<1>1. ASSUME NEW d \in Dialogue, Preview(d) PROVE IInv'
  BY <1>1, PreviewKeeps
<1>2. ASSUME NEW d \in Dialogue, Overdue(d) \/ Age(d) \/ \E u \in Press : PressButton(u, d) PROVE IInv'
  BY <1>2, OutsideKeeps
<1>3. ASSUME NEW d \in Dialogue, NEW m \in Message, Show(d, m) PROVE IInv'
  BY <1>3, ShowKeeps
<1>4. ASSUME NEW d \in Dialogue, NEW m \in Message, Acknowledge(d, m) PROVE IInv'
  BY <1>4, AcknowledgeKeeps
<1>5. ASSUME NEW w \in Worker, WorkerStep(w) PROVE IInv'
  BY <1>5, LedgerKeeps, SelectKeeps, PromptKeeps, DecideKeeps, SubmitKeeps, ReportKeeps
  DEF WorkerStep
<1>6. ASSUME NEW w \in Worker, WorkerFault(w) PROVE IInv'
  BY <1>6, LedgerKeeps, SubmitKeeps, ReportKeeps DEF WorkerFault
<1>7. ASSUME NEW w \in Worker, Cleanup(w) PROVE IInv'
  BY <1>7, CleanupKeeps
<1>8. CASE UNCHANGED vars
  <2>1. /\ UNCHANGED <<row, token, overdue, aged, prompt, prompted, script, press, state, attempts>>
        /\ UNCHANGED <<pc, held, verdict, submitted, released, results, faults>>
    BY <1>8 DEF vars, storeVars, timeVars, chatVars, ledgerVars, workerVars, doneVars
  <2>2. TypeOK'
    BY <2>1 DEF IInv, TypeOK
  <2>3. \A p \in Dialogue : InStep(p)' /\ Forward(p)
    BY <2>1, IdleStays, IdleIsForward DEF IInv, Idle
  <2>4. \A w \in Worker : WorkerInStep(w)'
    BY <2>1, <2>3, AllStay DEF IInv, PressesStay
  <2> QED
    BY <2>1, <2>2, <2>3, <2>4 DEF IInv, PressPlaced
<1> QED
  BY <1>1, <1>2, <1>3, <1>4, <1>5, <1>6, <1>7, <1>8 DEF Next

\* Step, version, messages and accounts of a dialogue fit together, and a worker is where
\* its dialogue is, whatever presses, workers, crashes and cleanups do (dialogues.rs,
\* repository_decision.rs).
THEOREM Invariance == Spec => []IInv
BY InitInv, StepInv, PTL DEF Spec

\* What the invariant says of one dialogue.
LEMMA InvDecides ==
  ASSUME IInv PROVE DecisionIsCarriedOut
<1>1. TypeOK
  BY DEF IInv
<1>2. ASSUME NEW d \in Dialogue
      PROVE  Cardinality(released[d]) <= 1 /\ (row[d].lifecycle = "cancelled" => released[d] = {})
  <2>1. RowInStep(d) /\ DoneInStep(d)
    BY DEF IInv, InStep
  <2>2. released[d] = {} \/ released[d] = {row[d].update}
    BY <2>1 DEF DoneInStep
  <2>3. Cardinality(released[d]) <= 1
    <3>1. Cardinality({}) = 0
      BY FS_EmptySet
    <3>2. Cardinality({row[d].update}) = 1
      BY FS_Singleton
    <3> QED
      BY <2>2, <3>1, <3>2
  <2> QED
    BY <2>1, <2>3 DEF RowInStep, DoneInStep, Far
<1>3. OneDecision
  BY <1>2 DEF OneDecision
<1>4. SubmittedAsPrompted
  <2> SUFFICES ASSUME NEW d \in Dialogue PROVE submitted[d] \subseteq {prompted[d]}
    BY DEF SubmittedAsPrompted
  <2>1. PromptInStep(d) /\ DoneInStep(d)
    BY DEF IInv, InStep
  <2> QED
    BY <2>1 DEF PromptInStep, DoneInStep
<1>5. ReportedOnce /\ BoundToCurrentMessage
  BY DEF IInv, InStep, DoneInStep, BoundInStep, ReportedOnce, BoundToCurrentMessage
<1> QED
  BY <1>1, <1>3, <1>4, <1>5 DEF DecisionIsCarriedOut

\* For any presses, workers and faults, one update is given the action of a dialogue and
\* none once it is cancelled, Platform is asked for the mode of the prompt only, the chat
\* has one result exactly when the dialogue is completed, and the row and its live tokens
\* are bound to the message of the current step (consume_repository_selection,
\* consume_repository_decision, complete_repository_dialogue_projection).
THEOREM CarriedOut == Spec => []DecisionIsCarriedOut
<1>1. IInv => DecisionIsCarriedOut
  BY InvDecides
<1> QED
  BY <1>1, Invariance, PTL

=============================================================================
