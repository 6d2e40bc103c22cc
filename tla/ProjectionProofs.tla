-------------------------- MODULE ProjectionProofs --------------------------
(***************************************************************************)
(* Proofs about Projection, for any operations and any bounds: the renders *)
(* in the queue follow the log of their operation, and the follower forgets*)
(* no frame.                                                               *)
(***************************************************************************)
EXTENDS Projection, SequenceTheorems, TLAPS

\* Times do not go back, and nothing follows a terminal frame.
LogsFit ==
  \A o \in Operation : \A i, j \in DOMAIN log[o] :
    i < j => log[o][i].at <= log[o][j].at /\ ~log[o][i].last

Published(e) == e.op \in Operation /\ e.n \in DOMAIN log[e.op]

\* Only published frames are fed and judged, and cursors stay within the log.
EventsPublished ==
  /\ \A i \in DOMAIN feed : Published(feed[i])
  /\ \A e \in inbox : Published(e)
  /\ \A o \in Operation : cursor[o] <= Len(log[o])

\* A render shows an event that was judged and is not ahead of the watermark.
RendersJudged ==
  \A o \in Operation : \A i \in DOMAIN edits[o] :
    /\ [op |-> o, n |-> edits[o][i].n] \in inbox
    /\ log[o][edits[o][i].n].at <= watermark[o]

\* An unbound operation is not followed: what the consumer ignores, no cursor passed.
FollowedAreBound ==
  \A o \in Operation : follow[o] # "none" \/ cursor[o] > 0 => o \in bound

IInv == /\ RendersFollowTheLog
        /\ PassedFramesAccountedFor
        /\ LogsFit
        /\ EventsPublished
        /\ RendersJudged
        /\ FollowedAreBound

\* What the renders rest on, and what the follower does.
Renders == RendersInOrder /\ TerminalRenderIsLast /\ OneFreshRender /\ LogsFit /\ RendersJudged
Feeds   == PassedFramesAccountedFor /\ EventsPublished /\ FollowedAreBound

-----------------------------------------------------------------------------
(* Sequences *)

LEMMA Appended ==
  ASSUME NEW S, NEW s \in Seq(S), NEW x \in S
  PROVE  /\ Append(s, x) \in Seq(S) /\ Len(s) \in Nat
         /\ DOMAIN s = 1..Len(s) /\ Len(Append(s, x)) = Len(s) + 1
         /\ DOMAIN Append(s, x) = 1..(Len(s) + 1)
         /\ \A i \in DOMAIN s : Append(s, x)[i] = s[i]
         /\ Append(s, x)[Len(s) + 1] = x
  OBVIOUS

LEMMA Tabled ==
  ASSUME NEW S, NEW n \in Nat, NEW f \in [1..n -> S]
  PROVE  f \in Seq(S) /\ Len(f) = n /\ DOMAIN f = 1..n
<1>1. f \in Seq(S)
  BY SeqDef
<1>2. DOMAIN f = 1..Len(f) /\ DOMAIN f = 1..n /\ Len(f) \in Nat
  BY <1>1, LenProperties
<1> QED
  BY <1>1, <1>2

LEMMA Tailed ==
  ASSUME NEW S, NEW s \in Seq(S), s # << >>
  PROVE  /\ Tail(s) \in Seq(S) /\ Head(s) \in S /\ 1 \in DOMAIN s /\ Head(s) = s[1]
         /\ \A i \in DOMAIN Tail(s) : i + 1 \in DOMAIN s /\ Tail(s)[i] = s[i + 1]
         /\ \A i \in DOMAIN s : s[i] = Head(s) \/ \E j \in DOMAIN Tail(s) : Tail(s)[j] = s[i]
<1>1. /\ Tail(s) \in Seq(S) /\ Head(s) \in S /\ Head(s) = s[1]
      /\ DOMAIN s = 1..Len(s) /\ DOMAIN Tail(s) = 1..(Len(s) - 1) /\ Len(s) \in Nat \ {0}
      /\ \A i \in 1..(Len(s) - 1) : Tail(s)[i] = s[i + 1]
  OBVIOUS
<1>2. ASSUME NEW i \in DOMAIN s, s[i] # Head(s)
      PROVE  i - 1 \in DOMAIN Tail(s) /\ Tail(s)[i - 1] = s[i]
  BY <1>1, <1>2
<1> QED
  BY <1>1, <1>2

-----------------------------------------------------------------------------
LEMMA InitInv == Init => IInv
<1> SUFFICES ASSUME Init PROVE IInv
  OBVIOUS
<1> USE ProjectionAssumption DEF Init
<1>1. TypeOK
  BY DEF TypeOK, Stage
<1>2. /\ \A o \in Operation : DOMAIN log[o] = {} /\ DOMAIN edits[o] = {} /\ cursor[o] = 0
      /\ DOMAIN feed = {}
  OBVIOUS
<1>3. RendersInOrder /\ TerminalRenderIsLast /\ OneFreshRender /\ LogsFit /\ RendersJudged
  BY <1>2 DEF RendersInOrder, TerminalRenderIsLast, OneFreshRender, LogsFit, RendersJudged
<1>4. PassedFramesAccountedFor /\ EventsPublished /\ FollowedAreBound
  BY <1>2 DEF PassedFramesAccountedFor, EventsPublished, FollowedAreBound
<1> QED
  BY <1>1, <1>3, <1>4 DEF IInv, RendersFollowTheLog

\* Publishing extends a log; the frames that are there stay.
LEMMA PublishKeeps ==
  ASSUME TypeOK, Renders, Feeds, NEW o \in Operation, Publish(o)
  PROVE  TypeOK' /\ Renders' /\ Feeds'
<1>1. PICK f \in Frame : /\ \A i \in DOMAIN log[o] : log[o][i].at <= f.at /\ ~log[o][i].last
                         /\ log' = [log EXCEPT ![o] = Append(@, f)]
  BY DEF Publish
<1>2. UNCHANGED <<bindingVars, followVars, feed, dropped, faults>>
  BY DEF Publish
<1>3. /\ log \in [Operation -> Seq(Frame)] /\ log' \in [Operation -> Seq(Frame)]
      /\ Len(log[o]) \in Nat /\ DOMAIN log[o] = 1..Len(log[o])
      /\ DOMAIN log'[o] = 1..(Len(log[o]) + 1) /\ Len(log'[o]) = Len(log[o]) + 1
      /\ \A i \in DOMAIN log[o] : log'[o][i] = log[o][i]
      /\ log'[o][Len(log[o]) + 1] = f
      /\ \A p \in Operation : p # o => log'[p] = log[p]
  BY <1>1, Appended DEF TypeOK
<1>4. \A p \in Operation : \A i \in DOMAIN log[p] :
        i \in DOMAIN log'[p] /\ log'[p][i] = log[p][i]
  <2> SUFFICES ASSUME NEW p \in Operation, NEW i \in DOMAIN log[p]
               PROVE  i \in DOMAIN log'[p] /\ log'[p][i] = log[p][i]
    OBVIOUS
  <2>1. CASE p = o
    BY <1>3, <2>1
  <2>2. CASE p # o
    BY <1>3, <2>2
  <2> QED
    BY <2>1, <2>2
<1>5. \A e : Published(e) => Published(e)'
  BY <1>4 DEF Published
<1>6. TypeOK'
  BY <1>2, <1>3 DEF TypeOK, bindingVars, followVars
<1>7. LogsFit'
  <2> SUFFICES ASSUME NEW p \in Operation, NEW i \in DOMAIN log'[p], NEW j \in DOMAIN log'[p], i < j
               PROVE  log'[p][i].at <= log'[p][j].at /\ ~log'[p][i].last
    BY DEF LogsFit
  <2>1. CASE p # o \/ j # Len(log[o]) + 1
    <3>1. i \in DOMAIN log[p] /\ j \in DOMAIN log[p]
      BY <1>3, <2>1
    <3> QED
      BY <1>4, <3>1 DEF Renders, LogsFit
  <2>2. CASE p = o /\ j = Len(log[o]) + 1
    <3>1. i \in DOMAIN log[o]
      BY <1>3, <2>2
    <3> QED
      BY <1>1, <1>3, <2>2, <3>1
  <2> QED
    BY <2>1, <2>2
<1>8. \A p \in Operation : \A i \in DOMAIN edits[p] :
        log'[p][edits[p][i].n] = log[p][edits[p][i].n]
  BY <1>4 DEF Renders, RendersJudged, Feeds, EventsPublished, Published
<1>9. RendersJudged' /\ RendersInOrder' /\ TerminalRenderIsLast' /\ OneFreshRender'
  <2>1. UNCHANGED <<edits, inbox, watermark, terminal>>
    BY <1>2 DEF bindingVars
  <2>2. RendersJudged'
    BY <1>8, <2>1 DEF Renders, RendersJudged
  <2>3. RendersInOrder'
    BY <1>8, <2>1 DEF Renders, RendersInOrder
  <2>4. TerminalRenderIsLast'
    BY <1>8, <2>1 DEF Renders, TerminalRenderIsLast
  <2>5. OneFreshRender'
    BY <2>1 DEF Renders, OneFreshRender
  <2> QED
    BY <2>2, <2>3, <2>4, <2>5
<1>10. Feeds'
  <2>1. UNCHANGED <<bound, inbox, follow, cursor, feed, dropped>>
    BY <1>2 DEF bindingVars, followVars
  <2>2. PassedFramesAccountedFor' /\ FollowedAreBound'
    BY <2>1 DEF Feeds, PassedFramesAccountedFor, FollowedAreBound
  <2>3. ASSUME NEW p \in Operation, cursor[p] \in Nat, cursor[p] <= Len(log[p])
        PROVE  cursor[p] <= Len(log'[p])
    <3>1. CASE p = o
      BY <1>3, <2>3, <3>1
    <3>2. CASE p # o
      BY <1>3, <2>3, <3>2
    <3> QED
      BY <3>1, <3>2
  <2>4. EventsPublished'
    BY <1>5, <2>1, <2>3 DEF Feeds, EventsPublished, TypeOK
  <2> QED
    BY <2>2, <2>4 DEF Feeds
<1> QED
  BY <1>6, <1>7, <1>9, <1>10 DEF Renders

\* The states of edits change, and none to "ready".
LEMMA StatesMove ==
  ASSUME Renders, UNCHANGED <<log, terminal, watermark, inbox>>,
         \A p \in Operation :
           /\ DOMAIN edits'[p] = DOMAIN edits[p] /\ Len(edits'[p]) = Len(edits[p])
           /\ \A k \in DOMAIN edits[p] :
                /\ edits'[p][k].n = edits[p][k].n /\ edits'[p][k].rev = edits[p][k].rev
                /\ edits'[p][k].state = "ready" => edits[p][k].state = "ready"
  PROVE  Renders'
<1>1. RendersInOrder' /\ RendersJudged'
  <2>1. RendersInOrder'
    BY DEF Renders, RendersInOrder
  <2>2. RendersJudged'
    BY DEF Renders, RendersJudged
  <2> QED
    BY <2>1, <2>2
<1>2. TerminalRenderIsLast'
  <2>1. \A p \in Operation : {k \in DOMAIN edits'[p] : log[p][edits'[p][k].n].last}
                             = {k \in DOMAIN edits[p] : log[p][edits[p][k].n].last}
    OBVIOUS
  <2> QED
    BY <2>1 DEF Renders, TerminalRenderIsLast
<1>3. OneFreshRender' /\ LogsFit'
  BY DEF Renders, OneFreshRender, LogsFit
<1> QED
  BY <1>1, <1>2, <1>3 DEF Renders

\* One of them does.
LEMMA ChangeKeeps ==
  ASSUME TypeOK, Renders, NEW o \in Operation, NEW i \in DOMAIN edits[o],
         NEW s \in EditState \ {"ready"}, Change(o, i, s),
         UNCHANGED <<log, terminal, watermark, inbox>>
  PROVE  edits' \in [Operation -> Seq(Edit)] /\ Renders'
<1>1. /\ edits \in [Operation -> Seq(Edit)] /\ edits[o] \in [1..Len(edits[o]) -> Edit]
      /\ Len(edits[o]) \in Nat /\ DOMAIN edits[o] = 1..Len(edits[o])
  BY DEF TypeOK
<1>2. /\ edits'[o] \in [1..Len(edits[o]) -> Edit]
      /\ \A k \in DOMAIN edits[o] :
           /\ edits'[o][k].n = edits[o][k].n /\ edits'[o][k].rev = edits[o][k].rev
           /\ edits'[o][k].state = "ready" => edits[o][k].state = "ready"
      /\ \A p \in Operation : p # o => edits'[p] = edits[p]
  BY <1>1 DEF Change, Edit
<1>3. edits'[o] \in Seq(Edit) /\ Len(edits'[o]) = Len(edits[o]) /\ DOMAIN edits'[o] = DOMAIN edits[o]
  BY <1>1, <1>2, Tabled
<1>4. edits' \in [Operation -> Seq(Edit)]
  BY <1>1, <1>3 DEF Change
<1>5. \A p \in Operation :
        /\ DOMAIN edits'[p] = DOMAIN edits[p] /\ Len(edits'[p]) = Len(edits[p])
        /\ \A k \in DOMAIN edits[p] :
             /\ edits'[p][k].n = edits[p][k].n /\ edits'[p][k].rev = edits[p][k].rev
             /\ edits'[p][k].state = "ready" => edits[p][k].state = "ready"
  BY <1>2, <1>3
<1> QED
  BY <1>4, <1>5, StatesMove

-----------------------------------------------------------------------------
(* An event is accepted *)

\* The sweep rewrites states in place and leaves nothing older than r fresh.
LEMMA SweptRows ==
  ASSUME TypeOK, NEW o \in Operation, NEW r \in Nat, Assigned(o, r)
  PROVE  /\ Swept(o, r) \in Seq(Edit) /\ Len(Swept(o, r)) = Len(edits[o])
         /\ DOMAIN Swept(o, r) = DOMAIN edits[o] /\ DOMAIN edits[o] = 1..Len(edits[o])
         /\ \A i \in DOMAIN edits[o] :
              /\ Swept(o, r)[i].n = edits[o][i].n /\ Swept(o, r)[i].rev = edits[o][i].rev
              /\ Swept(o, r)[i].rev < r /\ Swept(o, r)[i].state # "ready"
<1>1. /\ edits[o] \in [1..Len(edits[o]) -> Edit] /\ Len(edits[o]) \in Nat
      /\ DOMAIN edits[o] = 1..Len(edits[o])
  BY DEF TypeOK
<1>2. \A i \in DOMAIN edits[o] : edits[o][i].rev < r
  BY DEF Assigned
<1>3. ASSUME NEW i \in DOMAIN edits[o]
      PROVE  /\ Swept(o, r)[i] \in Edit
             /\ Swept(o, r)[i].n = edits[o][i].n /\ Swept(o, r)[i].rev = edits[o][i].rev
             /\ Swept(o, r)[i].state # "ready"
  <2>1. edits[o][i] \in Edit /\ [edits[o][i] EXCEPT !.state = "superseded"] \in Edit
    BY <1>1, <1>3 DEF Edit, EditState
  <2>2. /\ [edits[o][i] EXCEPT !.state = "superseded"].state = "superseded"
        /\ [edits[o][i] EXCEPT !.state = "superseded"].n = edits[o][i].n
        /\ [edits[o][i] EXCEPT !.state = "superseded"].rev = edits[o][i].rev
    BY <2>1 DEF Edit
  <2>3. Swept(o, r)[i] = IF edits[o][i].state \in {"ready", "retry"} /\ edits[o][i].rev < r
                         THEN [edits[o][i] EXCEPT !.state = "superseded"] ELSE edits[o][i]
    BY <1>3 DEF Swept
  <2> QED
    BY <1>2, <1>3, <2>1, <2>2, <2>3
<1>4. Swept(o, r) \in [1..Len(edits[o]) -> Edit]
  BY <1>1, <1>3 DEF Swept
<1> QED
  BY <1>1, <1>2, <1>3, <1>4, Tabled

\* The new render: the highest revision, an event not judged before, a time not
\* behind the watermark.
LEMMA AcceptKeeps ==
  ASSUME TypeOK, Renders, EventsPublished, NEW e \in Event, Published(e), e \notin inbox,
         ~Refused(e), Record(e), inbox' = inbox \cup {e}, UNCHANGED log
  PROVE  /\ edits' \in [Operation -> Seq(Edit)] /\ terminal' \in [Operation -> BOOLEAN]
         /\ watermark' \in [Operation -> 0..MaxTime] /\ Renders'
<1> DEFINE o == e.op  L == Len(edits[o])
<1>1. /\ o \in Operation /\ e = [op |-> o, n |-> e.n] /\ e.n \in Position
      /\ e.n \in DOMAIN log[o]
  BY DEF Event, Published
<1>2. PICK r \in Nat :
        /\ Assigned(o, r)
        /\ terminal' = [terminal EXCEPT ![o] = @ \/ log[o][e.n].last]
        /\ edits' = [edits EXCEPT ![o] =
                        Append(Swept(o, r), [n |-> e.n, rev |-> r, state |-> "ready"])]
        /\ watermark' = [watermark EXCEPT ![o] = log[o][e.n].at]
  <2>1. MaxFrames[o] \in Nat /\ 1..(MaxFrames[o] + 1) \subseteq Nat
    BY <1>1, ProjectionAssumption
  <2> QED
    BY <2>1 DEF Record
<1>3. ~terminal[o] /\ ~(log[o][e.n].at < watermark[o])
  BY DEF Refused
<1>4. \A p \in Operation : \A i \in DOMAIN log[p] :
        log[p][i] \in Frame /\ log[p][i].at \in 1..MaxTime /\ log[p][i].last \in BOOLEAN
  <2> SUFFICES ASSUME NEW p \in Operation, NEW i \in DOMAIN log[p] PROVE log[p][i] \in Frame
    BY DEF Frame
  <2> QED
    BY DEF TypeOK
<1>5. /\ edits \in [Operation -> Seq(Edit)] /\ terminal \in [Operation -> BOOLEAN]
      /\ watermark \in [Operation -> 0..MaxTime] /\ MaxTime \in Nat
  BY ProjectionAssumption DEF TypeOK
<1>6. [n |-> e.n, rev |-> r, state |-> "ready"] \in Edit
  BY <1>1 DEF Edit, EditState
<1>7. /\ edits'[o] \in Seq(Edit) /\ Len(edits'[o]) = L + 1 /\ L \in Nat
      /\ DOMAIN edits[o] = 1..L /\ DOMAIN edits'[o] = 1..(L + 1)
      /\ edits'[o][L + 1].n = e.n /\ edits'[o][L + 1].rev = r
      /\ \A i \in 1..L : /\ edits'[o][i].n = edits[o][i].n /\ edits'[o][i].rev = edits[o][i].rev
                         /\ edits'[o][i].rev < r /\ edits'[o][i].state # "ready"
  <2>1. edits'[o] = Append(Swept(o, r), [n |-> e.n, rev |-> r, state |-> "ready"])
    BY <1>1, <1>2, <1>5
  <2>2. Len(edits[o]) \in Nat
    BY <1>1, <1>5
  <2> QED
    BY <1>1, <1>2, <1>6, <2>1, <2>2, SweptRows, Appended
<1>8. \A p \in Operation : p # o => edits'[p] = edits[p] /\ terminal'[p] = terminal[p]
                                    /\ watermark'[p] = watermark[p]
  BY <1>1, <1>2, <1>5
<1>9. terminal'[o] = log[o][e.n].last /\ watermark'[o] = log[o][e.n].at
  BY <1>1, <1>2, <1>3, <1>4, <1>5
<1>10. /\ edits' \in [Operation -> Seq(Edit)] /\ terminal' \in [Operation -> BOOLEAN]
       /\ watermark' \in [Operation -> 0..MaxTime]
  <2>1. log[o][e.n].at \in 0..MaxTime /\ log[o][e.n].last \in BOOLEAN
    BY <1>1, <1>4, <1>5
  <2>2. edits' \in [Operation -> Seq(Edit)]
    BY <1>1, <1>2, <1>5, <1>7
  <2>3. terminal' \in [Operation -> BOOLEAN]
    BY <1>1, <1>2, <1>5, <2>1
  <2>4. watermark' \in [Operation -> 0..MaxTime]
    BY <1>1, <1>2, <1>5, <2>1
  <2> QED
    BY <2>2, <2>3, <2>4
\* What the renders that were there show.
<1>11. \A i \in 1..L :
         /\ [op |-> o, n |-> edits[o][i].n] \in inbox /\ edits[o][i].n \in DOMAIN log[o]
         /\ log[o][edits[o][i].n].at <= log[o][e.n].at /\ ~log[o][edits[o][i].n].last
         /\ edits[o][i].n # e.n
  <2> SUFFICES ASSUME NEW i \in 1..L
               PROVE  /\ [op |-> o, n |-> edits[o][i].n] \in inbox
                      /\ edits[o][i].n \in DOMAIN log[o]
                      /\ log[o][edits[o][i].n].at <= log[o][e.n].at
                      /\ ~log[o][edits[o][i].n].last /\ edits[o][i].n # e.n
    OBVIOUS
  <2>1. /\ [op |-> o, n |-> edits[o][i].n] \in inbox
        /\ log[o][edits[o][i].n].at <= watermark[o]
    BY <1>1, <1>7 DEF Renders, RendersJudged
  <2>2. edits[o][i].n \in DOMAIN log[o]
    BY <2>1 DEF EventsPublished, Published
  <2>3. ~log[o][edits[o][i].n].last
    BY <1>1, <1>3, <1>7 DEF Renders, TerminalRenderIsLast
  <2>4. log[o][edits[o][i].n].at <= log[o][e.n].at
    <3>1. /\ log[o][edits[o][i].n].at \in Nat /\ log[o][e.n].at \in Nat /\ watermark[o] \in Nat
      BY <1>1, <1>4, <1>5, <2>2
    <3> QED
      BY <1>3, <2>1, <3>1
  <2> QED
    BY <1>1, <2>1, <2>2, <2>3, <2>4
<1>12. RendersInOrder'
  <2> SUFFICES ASSUME NEW p \in Operation, NEW i \in DOMAIN edits'[p], NEW j \in DOMAIN edits'[p],
                      i < j
               PROVE  /\ edits'[p][i].rev < edits'[p][j].rev
                      /\ edits'[p][i].n # edits'[p][j].n
                      /\ log[p][edits'[p][i].n].at <= log[p][edits'[p][j].n].at
    BY DEF RendersInOrder
  <2>1. CASE p # o
    <3>1. edits'[p] = edits[p]
      BY <1>8, <2>1
    <3> QED
      BY <3>1 DEF Renders, RendersInOrder
  <2>2. CASE p = o /\ j # L + 1
    <3>1. i \in 1..L /\ j \in 1..L
      BY <1>7, <2>2
    <3>2. /\ edits'[p][i].n = edits[o][i].n /\ edits'[p][i].rev = edits[o][i].rev
          /\ edits'[p][j].n = edits[o][j].n /\ edits'[p][j].rev = edits[o][j].rev
      BY <1>7, <2>2, <3>1
    <3> QED
      BY <1>1, <1>7, <2>2, <3>1, <3>2 DEF Renders, RendersInOrder
  <2>3. CASE p = o /\ j = L + 1
    <3>1. i \in 1..L
      BY <1>7, <2>3
    <3> QED
      BY <1>7, <1>11, <2>3, <3>1
  <2> QED
    BY <2>1, <2>2, <2>3
<1>13. TerminalRenderIsLast'
  <2> SUFFICES ASSUME NEW p \in Operation
               PROVE  {i \in DOMAIN edits'[p] : log[p][edits'[p][i].n].last}
                      = IF terminal'[p] THEN {Len(edits'[p])} ELSE {}
    BY DEF TerminalRenderIsLast
  <2>1. CASE p # o
    <3>1. edits'[p] = edits[p] /\ terminal'[p] = terminal[p]
      BY <1>8, <2>1
    <3> QED
      BY <3>1 DEF Renders, TerminalRenderIsLast
  <2>2. CASE p = o
    <3>1. \A i \in 1..(L + 1) : log[o][edits'[o][i].n].last <=> i = L + 1 /\ log[o][e.n].last
      <4> SUFFICES ASSUME NEW i \in 1..(L + 1)
                   PROVE  log[o][edits'[o][i].n].last <=> i = L + 1 /\ log[o][e.n].last
        OBVIOUS
      <4>1. CASE i = L + 1
        BY <1>7, <4>1
      <4>2. CASE i # L + 1
        <5>1. i \in 1..L
          BY <1>7, <4>2
        <5> QED
          BY <1>7, <1>11, <4>2, <5>1
      <4> QED
        BY <4>1, <4>2
    <3>2. {i \in 1..(L + 1) : log[o][edits'[o][i].n].last}
          = IF log[o][e.n].last THEN {L + 1} ELSE {}
      <4>1. L + 1 \in 1..(L + 1)
        BY <1>7
      <4> QED
        BY <3>1, <4>1
    <3> QED
      BY <1>7, <1>9, <2>2, <3>2
  <2> QED
    BY <2>1, <2>2
<1>14. OneFreshRender'
  <2> SUFFICES ASSUME NEW p \in Operation, NEW i \in DOMAIN edits'[p], edits'[p][i].state = "ready"
               PROVE  i = Len(edits'[p])
    BY DEF OneFreshRender
  <2>1. CASE p # o
    <3>1. edits'[p] = edits[p]
      BY <1>8, <2>1
    <3> QED
      BY <3>1 DEF Renders, OneFreshRender
  <2>2. CASE p = o
    <3>1. i \notin 1..L /\ i \in 1..(L + 1)
      BY <1>7, <2>2
    <3> QED
      BY <1>7, <2>2, <3>1
  <2> QED
    BY <2>1, <2>2
<1>15. RendersJudged'
  <2> SUFFICES ASSUME NEW p \in Operation, NEW i \in DOMAIN edits'[p]
               PROVE  /\ [op |-> p, n |-> edits'[p][i].n] \in inbox'
                      /\ log[p][edits'[p][i].n].at <= watermark'[p]
    BY DEF RendersJudged
  <2>1. CASE p # o
    <3>1. edits'[p] = edits[p] /\ watermark'[p] = watermark[p]
      BY <1>8, <2>1
    <3> QED
      BY <3>1 DEF Renders, RendersJudged
  <2>2. CASE p = o /\ i # L + 1
    <3>1. i \in 1..L
      BY <1>7, <2>2
    <3> QED
      BY <1>7, <1>9, <1>11, <2>2, <3>1
  <2>3. CASE p = o /\ i = L + 1
    <3>1. log[o][e.n].at \in Nat
      BY <1>1, <1>4
    <3> QED
      BY <1>1, <1>7, <1>9, <2>3, <3>1
  <2> QED
    BY <2>1, <2>2, <2>3
<1>16. LogsFit'
  BY DEF Renders, LogsFit
<1> QED
  BY <1>10, <1>12, <1>13, <1>14, <1>15, <1>16 DEF Renders

-----------------------------------------------------------------------------
(* The follower, the feed and the consumer *)

\* The renders rest on nothing of the dispatcher's memory.
LEMMA RendersStay ==
  Renders /\ UNCHANGED <<log, terminal, watermark, inbox, edits>> => Renders'
<1> SUFFICES ASSUME Renders, UNCHANGED <<log, terminal, watermark, inbox, edits>> PROVE Renders'
  OBVIOUS
<1>1. RendersInOrder' /\ LogsFit' /\ RendersJudged' /\ OneFreshRender'
  BY DEF Renders, RendersInOrder, LogsFit, RendersJudged, OneFreshRender
<1>2. TerminalRenderIsLast'
  BY DEF Renders, TerminalRenderIsLast
<1> QED
  BY <1>1, <1>2 DEF Renders

\* Neither does the feed rest on the queue.
LEMMA FeedsStay ==
  Feeds /\ UNCHANGED <<log, bound, inbox, follow, cursor, feed, dropped>> => Feeds'
BY DEF Feeds, PassedFramesAccountedFor, EventsPublished, Published, FollowedAreBound

\* A task of o that keeps its cursor or starts over.
MovesOnly(o) ==
  /\ \A p \in Operation \ {o} : follow'[p] = follow[p] /\ cursor'[p] = cursor[p]
  /\ cursor'[o] \in {0, cursor[o]}
  /\ follow'[o] = "none" \/ o \in bound

LEMMA MoveKeeps ==
  ASSUME TypeOK, Feeds, NEW o \in Operation, MovesOnly(o),
         UNCHANGED <<log, bound, inbox, feed, dropped>>
  PROVE  Feeds'
<1>1. \A p \in Operation : /\ cursor[p] \in Nat /\ cursor'[p] \in {0, cursor[p]}
                           /\ Len(log[p]) \in Nat
                           /\ p # o => follow'[p] = follow[p] /\ cursor'[p] = cursor[p]
  BY DEF TypeOK, MovesOnly
<1>2. EventsPublished'
  BY <1>1 DEF Feeds, EventsPublished, Published
<1>3. PassedFramesAccountedFor'
  <2> SUFFICES ASSUME NEW p \in Operation, NEW n \in 1..cursor'[p]
               PROVE  \/ [op |-> p, n |-> n] \in inbox \cup dropped
                      \/ \E i \in DOMAIN feed : feed[i] = [op |-> p, n |-> n]
    BY DEF PassedFramesAccountedFor
  <2>1. n \in 1..cursor[p]
    BY <1>1
  <2> QED
    BY <2>1 DEF Feeds, PassedFramesAccountedFor
<1>4. FollowedAreBound'
  <2> SUFFICES ASSUME NEW p \in Operation, follow'[p] # "none" \/ cursor'[p] > 0 PROVE p \in bound
    BY DEF FollowedAreBound
  <2>1. CASE p # o
    BY <1>1, <2>1 DEF Feeds, FollowedAreBound
  <2>2. CASE p = o
    BY <1>1, <2>2 DEF Feeds, FollowedAreBound, MovesOnly
  <2> QED
    BY <2>1, <2>2
<1> QED
  BY <1>2, <1>3, <1>4 DEF Feeds

\* A published frame goes into the feed; a cursor may pass it.
LEMMA FeedKeeps ==
  ASSUME TypeOK, Feeds, NEW o \in Operation, NEW n \in DOMAIN log[o],
         feed' = Append(feed, [op |-> o, n |-> n]),
         \/ UNCHANGED <<follow, cursor>>
         \/ /\ cursor' = [cursor EXCEPT ![o] = n] /\ n = cursor[o] + 1
            /\ \A p \in Operation : follow'[p] # "none" => follow[p] # "none"
            /\ follow[o] # "none",
         UNCHANGED <<log, bound, inbox, dropped>>
  PROVE  feed' \in Seq(Event) /\ Feeds'
<1> DEFINE e == [op |-> o, n |-> n]
<1>1. n \in Position /\ e \in Event /\ feed \in Seq(Event) /\ Len(log[o]) \in Nat
      /\ DOMAIN log[o] = 1..Len(log[o]) /\ n <= Len(log[o]) /\ cursor \in [Operation -> Nat]
  BY DEF TypeOK, Event, Position
<1>2. /\ feed' \in Seq(Event) /\ Len(feed) \in Nat
      /\ DOMAIN feed = 1..Len(feed) /\ DOMAIN feed' = 1..(Len(feed) + 1)
      /\ \A i \in DOMAIN feed : feed'[i] = feed[i]
      /\ feed'[Len(feed) + 1] = e
  BY <1>1, Appended
<1>3. \A x : (\E i \in DOMAIN feed : feed[i] = x) \/ x = e => \E i \in DOMAIN feed' : feed'[i] = x
  <2>1. \A i \in DOMAIN feed : i \in DOMAIN feed'
    BY <1>2
  <2>2. Len(feed) + 1 \in DOMAIN feed'
    BY <1>2
  <2> QED
    BY <1>2, <2>1, <2>2
<1>4. \A p \in Operation : (p = o /\ cursor'[p] = n /\ n = cursor[p] + 1) \/ cursor'[p] = cursor[p]
  BY <1>1
<1>5. PassedFramesAccountedFor'
  <2> SUFFICES ASSUME NEW p \in Operation, NEW k \in 1..cursor'[p]
               PROVE  \/ [op |-> p, n |-> k] \in inbox \cup dropped
                      \/ \E i \in DOMAIN feed' : feed'[i] = [op |-> p, n |-> k]
    BY DEF PassedFramesAccountedFor
  <2>1. k \in 1..cursor[p] \/ [op |-> p, n |-> k] = e
    BY <1>1, <1>4
  <2> QED
    BY <1>3, <2>1 DEF Feeds, PassedFramesAccountedFor
<1>6. EventsPublished'
  <2>1. \A i \in DOMAIN feed' : Published(feed'[i])
    <3> SUFFICES ASSUME NEW i \in DOMAIN feed' PROVE Published(feed'[i])
      OBVIOUS
    <3>1. CASE i = Len(feed) + 1
      BY <1>2, <3>1 DEF Published
    <3>2. CASE i # Len(feed) + 1
      <4>1. i \in DOMAIN feed
        BY <1>2, <3>2
      <4> QED
        BY <1>2, <4>1 DEF Feeds, EventsPublished
    <3> QED
      BY <3>1, <3>2
  <2>2. \A p \in Operation : cursor'[p] <= Len(log[p])
    BY <1>1, <1>4 DEF Feeds, EventsPublished
  <2> QED
    BY <2>1, <2>2 DEF Feeds, EventsPublished, Published
<1>7. FollowedAreBound'
  BY <1>4 DEF Feeds, FollowedAreBound
<1> QED
  BY <1>2, <1>5, <1>6, <1>7 DEF Feeds

\* The head of the feed is judged, or lost with its transaction.
LEMMA DrainKeeps ==
  ASSUME TypeOK, Feeds, feed # << >>, feed' = Tail(feed),
         inbox \subseteq inbox', inbox' \subseteq inbox \cup {Head(feed)},
         dropped \subseteq dropped',
         Head(feed).op \in bound => Head(feed) \in inbox' \cup dropped',
         UNCHANGED <<log, bound, follow, cursor>>
  PROVE  Feeds'
<1> DEFINE e == Head(feed)
<1>1. /\ e = feed[1] /\ 1 \in DOMAIN feed
      /\ \A i \in DOMAIN Tail(feed) : i + 1 \in DOMAIN feed /\ Tail(feed)[i] = feed[i + 1]
      /\ \A i \in DOMAIN feed : feed[i] = e \/ \E j \in DOMAIN Tail(feed) : Tail(feed)[j] = feed[i]
  BY Tailed DEF TypeOK
<1>2. EventsPublished'
  BY <1>1 DEF Feeds, EventsPublished, Published
<1>3. PassedFramesAccountedFor'
  <2> SUFFICES ASSUME NEW p \in Operation, NEW n \in 1..cursor[p]
               PROVE  \/ [op |-> p, n |-> n] \in inbox' \cup dropped'
                      \/ \E i \in DOMAIN feed' : feed'[i] = [op |-> p, n |-> n]
    BY DEF PassedFramesAccountedFor
  <2>1. cursor[p] > 0 /\ p \in bound
    <3>1. cursor[p] \in Nat
      BY DEF TypeOK
    <3> QED
      BY <3>1 DEF Feeds, FollowedAreBound
  <2>2. \/ [op |-> p, n |-> n] \in inbox \cup dropped
        \/ \E i \in DOMAIN feed : feed[i] = [op |-> p, n |-> n]
    BY DEF Feeds, PassedFramesAccountedFor
  <2>3. CASE [op |-> p, n |-> n] = e
    <3>1. e.op = p
      BY <2>3
    <3> QED
      BY <2>1, <2>3, <3>1
  <2>4. CASE [op |-> p, n |-> n] # e
    BY <1>1, <2>2, <2>4
  <2> QED
    BY <2>3, <2>4
<1>4. FollowedAreBound'
  BY DEF Feeds, FollowedAreBound
<1> QED
  BY <1>2, <1>3, <1>4 DEF Feeds

-----------------------------------------------------------------------------
(* The steps *)

LEMMA Parts == IInv <=> TypeOK /\ Renders /\ Feeds
BY DEF IInv, RendersFollowTheLog, Renders, Feeds

\* A task opens, waits, reconnects or leaves.
LEMMA TaskKeeps ==
  ASSUME TypeOK, Renders, Feeds, NEW o \in Operation,
         Scan(o) \/ Open(o) \/ LoseSession(o) \/ Disconnect(o) \/ Confirm(o)
  PROVE  TypeOK' /\ Renders' /\ Feeds'
<1>1. /\ follow \in [Operation -> Stage] /\ cursor \in [Operation -> Nat]
      /\ closes \in [Operation -> Nat] /\ faults \in Nat /\ MaxFaults \in Nat
      /\ faults \in 0..MaxFaults
  BY ProjectionAssumption DEF TypeOK
<1>2. UNCHANGED <<log, bindingVars, feed, dropped>>
  BY DEF Scan, Open, LoseSession, Disconnect, Confirm
<1>3. /\ follow' \in [Operation -> Stage] /\ cursor' \in [Operation -> Nat]
      /\ closes' \in [Operation -> Nat] /\ faults' \in 0..MaxFaults
  BY <1>1 DEF Scan, Open, LoseSession, Disconnect, Confirm, Leave, Stage
<1>4. TypeOK'
  BY <1>2, <1>3 DEF TypeOK, bindingVars
<1>5. follow[o] # "none" => o \in bound
  BY DEF Feeds, FollowedAreBound
<1>6. MovesOnly(o)
  <2>1. CASE Scan(o)
    BY <1>1, <2>1 DEF Scan, Followable, MovesOnly
  <2>2. CASE Open(o)
    BY <1>1, <1>5, <2>2 DEF Open, MovesOnly
  <2>3. CASE LoseSession(o) \/ Confirm(o)
    BY <1>1, <2>3 DEF LoseSession, Confirm, Leave, MovesOnly
  <2>4. CASE Disconnect(o)
    BY <1>1, <1>5, <2>4 DEF Disconnect, Leave, MovesOnly
  <2> QED
    BY <2>1, <2>2, <2>3, <2>4
<1>7. Renders'
  BY <1>2, RendersStay DEF bindingVars
<1>8. Feeds'
  BY <1>2, <1>6, MoveKeeps DEF bindingVars
<1> QED
  BY <1>4, <1>7, <1>8

\* A frame is pumped or delivered again.
LEMMA ArriveKeeps ==
  ASSUME TypeOK, Renders, Feeds, NEW o \in Operation, Pump(o) \/ Redeliver(o)
  PROVE  TypeOK' /\ Renders' /\ Feeds'
<1>1. /\ follow \in [Operation -> Stage] /\ cursor \in [Operation -> Nat]
      /\ closes \in [Operation -> Nat] /\ faults \in Nat /\ MaxFaults \in Nat
      /\ faults \in 0..MaxFaults
  BY ProjectionAssumption DEF TypeOK
<1>2. UNCHANGED <<log, bindingVars, dropped>>
  BY DEF Pump, Redeliver
<1>3. /\ follow' \in [Operation -> Stage] /\ cursor' \in [Operation -> Nat]
      /\ closes' \in [Operation -> Nat] /\ faults' \in 0..MaxFaults
  <2>1. CASE Pump(o)
    BY <1>1, <2>1 DEF Pump, Stage
  <2>2. CASE Redeliver(o)
    BY <1>1, <2>2 DEF Redeliver, followVars
  <2> QED
    BY <2>1, <2>2
<1>4. PICK n \in DOMAIN log[o] :
        /\ feed' = Append(feed, [op |-> o, n |-> n])
        /\ \/ UNCHANGED <<follow, cursor>>
           \/ /\ cursor' = [cursor EXCEPT ![o] = n] /\ n = cursor[o] + 1
              /\ \A p \in Operation : follow'[p] # "none" => follow[p] # "none"
              /\ follow[o] # "none"
  <2>1. CASE Pump(o)
    BY <1>1, <2>1 DEF Pump
  <2>2. CASE Redeliver(o)
    BY <2>2 DEF Redeliver, followVars
  <2> QED
    BY <2>1, <2>2
<1>5. feed' \in Seq(Event) /\ Feeds'
  BY <1>2, <1>4, FeedKeeps DEF bindingVars
<1>6. TypeOK'
  BY <1>2, <1>3, <1>5 DEF TypeOK, bindingVars
<1>7. Renders'
  BY <1>2, RendersStay DEF bindingVars
<1> QED
  BY <1>5, <1>6, <1>7

\* The consumer takes an event from the feed.
LEMMA ConsumeKeeps ==
  ASSUME TypeOK, Renders, Feeds, Consume \/ FailConsume
  PROVE  TypeOK' /\ Renders' /\ Feeds'
<1> DEFINE e == Head(feed)
<1>1. /\ feed # << >> /\ feed' = Tail(feed)
      /\ UNCHANGED <<log, bound, rendered, followVars, faults>>
  BY DEF Consume, FailConsume, bindingVars
<1>2. e \in Event /\ feed' \in Seq(Event) /\ 1 \in DOMAIN feed /\ e = feed[1]
  BY <1>1, Tailed DEF TypeOK
<1>3. Published(e)
  BY <1>2 DEF Feeds, EventsPublished
<1>4. CASE Consume /\ (Seen(e) \/ e.op \notin bound)
  <2>1. UNCHANGED <<inbox, terminal, watermark, edits, dropped>>
    BY <1>4 DEF Consume, Judge
  <2>2. Feeds'
    <3>1. e.op \in bound => e \in inbox
      BY <1>4 DEF Seen
    <3> QED
      BY <1>1, <2>1, <3>1, DrainKeeps DEF followVars
  <2> QED
    BY <1>1, <1>2, <2>1, <2>2, RendersStay DEF TypeOK, followVars
<1>5. CASE Consume /\ ~Seen(e) /\ e.op \in bound
  <2>1. inbox' = inbox \cup {e} /\ dropped' = dropped
    BY <1>5 DEF Consume, Judge
  <2>2. Feeds'
    BY <1>1, <2>1, DrainKeeps DEF followVars
  <2>3. /\ edits' \in [Operation -> Seq(Edit)] /\ terminal' \in [Operation -> BOOLEAN]
        /\ watermark' \in [Operation -> 0..MaxTime] /\ Renders'
    <3>1. CASE Refused(e)
      <4>1. UNCHANGED <<terminal, watermark, edits>>
        BY <1>5, <3>1 DEF Consume, Judge
      <4>2. Renders'
        <5>1. RendersInOrder' /\ OneFreshRender' /\ LogsFit'
          BY <1>1, <4>1 DEF Renders, RendersInOrder, OneFreshRender, LogsFit
        <5>2. TerminalRenderIsLast'
          BY <1>1, <4>1 DEF Renders, TerminalRenderIsLast
        <5>3. RendersJudged'
          BY <1>1, <2>1, <4>1 DEF Renders, RendersJudged
        <5> QED
          BY <5>1, <5>2, <5>3 DEF Renders
      <4> QED
        BY <4>1, <4>2 DEF TypeOK
    <3>2. CASE ~Refused(e)
      <4>1. Record(e) /\ e \notin inbox
        BY <1>5, <3>2 DEF Consume, Judge, Seen
      <4> QED
        BY <1>1, <1>2, <1>3, <2>1, <3>2, <4>1, AcceptKeeps DEF Feeds
    <3> QED
      BY <3>1, <3>2
  <2> QED
    BY <1>1, <1>2, <2>1, <2>2, <2>3 DEF TypeOK, followVars
<1>6. CASE FailConsume
  <2>1. dropped' = dropped \cup {e} /\ UNCHANGED bindingVars
    BY <1>6 DEF FailConsume
  <2>2. Feeds'
    BY <1>1, <2>1, DrainKeeps DEF bindingVars, followVars
  <2> QED
    BY <1>1, <1>2, <2>1, <2>2, RendersStay DEF TypeOK, bindingVars, followVars
<1> QED
  BY <1>4, <1>5, <1>6

\* The sender takes, returns and ends edits, and records what it delivered.
LEMMA QueueKeeps ==
  ASSUME TypeOK, Renders, Feeds, NEW o \in Operation, QueueStep(o)
  PROVE  TypeOK' /\ Renders' /\ Feeds'
<1>1. UNCHANGED <<log, bound, terminal, watermark, inbox, follow, cursor, closes, feed, dropped,
                  faults>>
  BY DEF QueueStep, SenderTakes, SenderRetries, SenderEnds, SenderRecords, QueueRest, followVars
<1>2. edits' = edits \/ \E i \in DOMAIN edits[o], s \in EditState \ {"ready"} : Change(o, i, s)
  BY DEF QueueStep, SenderTakes, SenderRetries, SenderEnds, SenderRecords, EditState
<1>3. edits' \in [Operation -> Seq(Edit)] /\ Renders'
  <2>1. CASE edits' = edits
    BY <1>1, <2>1, RendersStay DEF TypeOK
  <2>2. CASE \E i \in DOMAIN edits[o], s \in EditState \ {"ready"} : Change(o, i, s)
    BY <1>1, <2>2, ChangeKeeps
  <2> QED
    BY <1>2, <2>1, <2>2
<1>4. rendered' \in [Operation -> Nat]
  <2>1. \A i \in DOMAIN edits[o] : edits[o][i].rev \in Nat
    <3> SUFFICES ASSUME NEW i \in DOMAIN edits[o] PROVE edits[o][i] \in Edit
      BY DEF Edit
    <3> QED
      BY DEF TypeOK
  <2>2. rendered' = rendered \/ \E i \in DOMAIN edits[o] : Delivered(o, i)
    BY DEF QueueStep, SenderTakes, SenderRetries, SenderEnds, SenderRecords
  <2> QED
    BY <2>1, <2>2 DEF TypeOK, Delivered
<1>5. TypeOK'
  BY <1>1, <1>3, <1>4 DEF TypeOK
<1>6. Feeds'
  BY <1>1, FeedsStay
<1> QED
  BY <1>3, <1>5, <1>6

\* Some that were taken end in one statement.
LEMMA QuarantineKeeps ==
  ASSUME TypeOK, Renders, Feeds, Quarantine
  PROVE  TypeOK' /\ Renders' /\ Feeds'
<1>1. UNCHANGED <<log, bound, terminal, watermark, rendered, inbox, follow, cursor, closes, feed,
                  dropped, faults>>
  BY DEF Quarantine, QueueRest, followVars
<1>2. PICK gone \in SUBSET Taken :
        edits' = [o \in Operation |-> [i \in DOMAIN edits[o] |->
                    IF <<o, i>> \in gone THEN [edits[o][i] EXCEPT !.state = "ended"]
                    ELSE edits[o][i]]]
  BY DEF Quarantine
<1>3. ASSUME NEW o \in Operation
      PROVE  /\ edits'[o] \in Seq(Edit)
             /\ DOMAIN edits'[o] = DOMAIN edits[o] /\ Len(edits'[o]) = Len(edits[o])
             /\ \A k \in DOMAIN edits[o] :
                  /\ edits'[o][k].n = edits[o][k].n /\ edits'[o][k].rev = edits[o][k].rev
                  /\ edits'[o][k].state = "ready" => edits[o][k].state = "ready"
  <2>1. /\ edits[o] \in [1..Len(edits[o]) -> Edit] /\ Len(edits[o]) \in Nat
        /\ DOMAIN edits[o] = 1..Len(edits[o])
    BY <1>3 DEF TypeOK
  <2>2. edits'[o] = [i \in 1..Len(edits[o]) |->
                       IF <<o, i>> \in gone THEN [edits[o][i] EXCEPT !.state = "ended"]
                       ELSE edits[o][i]]
    BY <1>2, <1>3, <2>1
  <2>3. \A e \in Edit : /\ [e EXCEPT !.state = "ended"] \in Edit
                        /\ [e EXCEPT !.state = "ended"].n = e.n
                        /\ [e EXCEPT !.state = "ended"].rev = e.rev
                        /\ [e EXCEPT !.state = "ended"].state = "ended"
    BY DEF Edit, EditState
  <2>4. /\ edits'[o] \in [1..Len(edits[o]) -> Edit]
        /\ \A k \in 1..Len(edits[o]) :
             /\ edits'[o][k].n = edits[o][k].n /\ edits'[o][k].rev = edits[o][k].rev
             /\ edits'[o][k].state = "ready" => edits[o][k].state = "ready"
    BY <2>1, <2>2, <2>3
  <2> QED
    BY <2>1, <2>4, Tabled
<1>4. edits' \in [Operation -> Seq(Edit)]
  BY <1>2, <1>3
<1>5. TypeOK'
  BY <1>1, <1>4 DEF TypeOK
<1>6. Renders'
  BY <1>1, <1>3, StatesMove
<1>7. Feeds'
  BY <1>1, FeedsStay
<1> QED
  BY <1>5, <1>6, <1>7

\* A capture binds an operation; a restart forgets.
LEMMA BindKeeps ==
  ASSUME TypeOK, Renders, Feeds, NEW o \in Operation, Bind(o)
  PROVE  TypeOK' /\ Renders' /\ Feeds'
<1>1. /\ bound' = bound \cup {o}
      /\ UNCHANGED <<log, terminal, watermark, rendered, inbox, edits, follow, cursor, closes,
                     feed, dropped, faults>>
  BY DEF Bind, followVars
<1>2. TypeOK' /\ Renders'
  BY <1>1, RendersStay DEF TypeOK
<1>3. Feeds'
  BY <1>1 DEF Feeds, PassedFramesAccountedFor, EventsPublished, Published, FollowedAreBound
<1> QED
  BY <1>2, <1>3

LEMMA RestartKeeps ==
  ASSUME TypeOK, Renders, Feeds, Restart
  PROVE  TypeOK' /\ Renders' /\ Feeds'
<1>1. /\ UNCHANGED <<log, bound, terminal, watermark, rendered, inbox, edits, dropped>>
      /\ follow' = [o \in Operation |-> "none"] /\ cursor' = [o \in Operation |-> 0]
      /\ closes' = [o \in Operation |-> 0] /\ feed' = << >>
      /\ faults' = faults + 1 /\ faults < MaxFaults
  BY DEF Restart, bindingVars
<1>2. TypeOK'
  BY <1>1, ProjectionAssumption DEF TypeOK, Stage
<1>3. /\ \A o \in Operation : follow'[o] = "none" /\ cursor'[o] = 0 /\ Len(log[o]) \in Nat
      /\ DOMAIN feed' = {}
  BY <1>1 DEF TypeOK
<1>4. Feeds'
  BY <1>1, <1>3 DEF Feeds, PassedFramesAccountedFor, EventsPublished, Published, FollowedAreBound
<1>5. Renders'
  BY <1>1, RendersStay
<1> QED
  BY <1>2, <1>4, <1>5

LEMMA StepInv == IInv /\ [Next]_vars => IInv'
<1> SUFFICES ASSUME TypeOK, Renders, Feeds, [Next]_vars PROVE TypeOK' /\ Renders' /\ Feeds'
  BY Parts DEF IInv, RendersFollowTheLog, Renders, Feeds
<1>1. CASE UNCHANGED vars
  <2>1. UNCHANGED <<log, bound, terminal, watermark, rendered, inbox, edits, follow, cursor,
                    closes, feed, dropped, faults>>
    BY <1>1 DEF vars, bindingVars, followVars
  <2> QED
    BY <2>1, RendersStay, FeedsStay DEF TypeOK
<1>2. ASSUME NEW o \in Operation, FollowerStep(o) \/ FollowerFault(o)
      PROVE  TypeOK' /\ Renders' /\ Feeds'
  BY <1>2, TaskKeeps, ArriveKeeps DEF FollowerStep, FollowerFault
<1> QED
  BY <1>1, <1>2, PublishKeeps, BindKeeps, QueueKeeps, QuarantineKeeps, ConsumeKeeps,
     RestartKeeps DEF Next

-----------------------------------------------------------------------------
\* The inductive invariant: beside the two safety properties, logs are ordered and
\* end at their terminal frame, only published frames are fed and judged, every
\* render shows a judged event behind the watermark, and what is followed is bound
\* (accept_operation_event, pump).
THEOREM Invariance == Spec => []IInv
BY InitInv, StepInv, PTL DEF Spec

\* The renders in the queue follow the log: in its order and each once, the result
\* at the end and no progress behind it, and of a burst only the newest, whatever
\* is delivered again, late or after a restart (accept_operation_event).
THEOREM Follow == Spec => []RendersFollowTheLog
<1>1. IInv => RendersFollowTheLog
  BY DEF IInv
<1> QED
  BY <1>1, Invariance, PTL

\* The follower forgets no frame: what its cursor has passed was judged, is in the
\* feed, or was lost to a failed accept (pump, consume_until_shutdown).
THEOREM Accounted == Spec => []PassedFramesAccountedFor
<1>1. IInv => PassedFramesAccountedFor
  BY DEF IInv
<1> QED
  BY <1>1, Invariance, PTL

=============================================================================
