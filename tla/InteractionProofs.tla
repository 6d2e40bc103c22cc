-------------------------- MODULE InteractionProofs --------------------------
(***************************************************************************)
(* Proofs about the three components of MCInteractions, each a             *)
(* specification of its own, for any actors, users and numbers:            *)
(*                                                                         *)
(*  - LibraryRead, any pages, reads and items, any lifetime of a token,    *)
(*    number of attempts and size of a batch: a token works for its owner, *)
(*    once, until it expires, and the reply claims no more than is known;  *)
(*  - CaptureLinks (C), any updates and operations: one acknowledgement    *)
(*    and at most one live link each, which is not lost while needed;      *)
(*  - Sessions (S), any processes and callers, any lifetime and margin:    *)
(*    a caller gets a session of its own sender that it has not seen       *)
(*    rejected, and none is replaced or dropped while it is good.          *)
(***************************************************************************)
EXTENDS MCInteractions, TLAPS, FiniteSetTheorems

-----------------------------------------------------------------------------
(* Tokens of the library commands *)


Unresolved(r) == read[r].at \in {"idle", "open", "resolve"}

\* A page that is stored stays as it was stored, and a token has a row only once its
\* page is: the row says what the page does.
RowsMatchPages ==
  /\ \A p \in Page : page[p].shown => page[p].at = "done"
  /\ \A t \in Token : row[t].state # "none" =>
       /\ page[t[1]].shown /\ row[t].expires = page[t[1]].until
       /\ row[t].actor = page[t[1]].actor /\ row[t].user = page[t[1]].user

\* A read that has begun presents a token that was shown.
ReadsOfShown ==
  \A r \in Read : read[r].at # "idle" =>
    read[r].token \in Token /\ read[r].actor \in Actor /\ page[read[r].token[1]].shown

\* The stage of a read says how far it came.
StagesFit ==
  \A r \in Read :
    /\ Unresolved(r) => read[r].tries = 0
    /\ read[r].at = "put" => read[r].tries < Attempts
    /\ read[r].at = "wait" => read[r].tries > 0
    /\ read[r].reply # None => read[r].at = "done"

\* A token that released a read, or was taken by one that is not known to have been
\* released, does not come back.
ReleasedIsUsed ==
  /\ \A r \in Read : Released(r) => row[read[r].token].state # "live"
  /\ \A t \in Token : row[t].state = "used" =>
       \E r \in Read : /\ read[r].token = t /\ read[r].actor = page[t[1]].actor
                       /\ ~Unresolved(r)

\* What a read has not sent cannot be applied. Of one that is sure, nothing was unless
\* Platform answered it with an error all the same, and only the attempt it waits for
\* may be.
SureOfNothing ==
  \A r \in Read :
    /\ read[r].tries = 0 => ~MayHaveApplied(r)
    /\ read[r].at \in {"put", "wait"} /\ ~read[r].unsure =>
         /\ r \in applied => r \in misled
         /\ \A n \in 1..Attempts : <<r, n>> \in wire => read[r].at = "wait" /\ n = read[r].tries

IInv == /\ TokensAreKept
        /\ RowsMatchPages
        /\ ReadsOfShown
        /\ StagesFit
        /\ ReleasedIsUsed
        /\ SureOfNothing

-----------------------------------------------------------------------------
LEMMA InitInv == Init => IInv
<1> SUFFICES ASSUME Init PROVE IInv
  OBVIOUS
<1> USE LibraryReadAssumption DEF Init
<1>1. TypeOK
  BY DEF TypeOK, PageState, ReadState, Row, NoRow, Token
<1>2. \A r \in Read : ~Released(r) /\ ~MayHaveApplied(r) /\ Unresolved(r)
  BY DEF Released, MayHaveApplied, Unresolved
<1>3. OneRelease /\ ActsForTheOwner /\ RepliesTruthful /\ OffersHonoured
  BY <1>2 DEF OneRelease, ActsForTheOwner, RepliesTruthful, OffersHonoured, Token, Reply
<1>4. RowsMatchPages /\ ReadsOfShown /\ StagesFit /\ ReleasedIsUsed /\ SureOfNothing
  BY <1>2 DEF RowsMatchPages, ReadsOfShown, StagesFit, ReleasedIsUsed, SureOfNothing, NoRow, Token
<1> QED
  BY <1>1, <1>3, <1>4 DEF IInv, TokensAreKept

Failed == faults' \in 0..MaxFaults

\* Steps that touch no page that is shown: the requests, the answers and the failures
\* of pages, a move of an account, a stuttering step.
LEMMA ShownPagesStay ==
  ASSUME IInv, page' \in [Page -> PageState], link' \in [Actor -> User], Failed,
         \A p \in Page : /\ page'[p].shown = page[p].shown
                         /\ page[p].shown => page'[p] = page[p],
         UNCHANGED <<now, read, row, wire, applied, misled>>
  PROVE  IInv'
<1> USE DEF IInv, TokensAreKept, TypeOK, Failed
<1>1. TypeOK'
  OBVIOUS
<1>2. RowsMatchPages' /\ ReadsOfShown'
  BY DEF RowsMatchPages, ReadsOfShown, Token, Row, ReadState, PageState
<1>3. StagesFit' /\ SureOfNothing' /\ RepliesTruthful'
  BY DEF StagesFit, SureOfNothing, RepliesTruthful, MayHaveApplied, Unresolved
<1>4. OneRelease'
  BY DEF OneRelease, Released
<1>5. ActsForTheOwner'
  <2>1. \A r \in Read : Released(r) =>
          read[r].token \in Token /\ page[read[r].token[1]].shown
    BY DEF Released, ReadsOfShown, StagesFit, Unresolved, ReadState
  <2> QED
    BY <2>1 DEF ActsForTheOwner, Released, Token
<1>6. OffersHonoured'
  BY DEF OffersHonoured, Token
<1>7. ReleasedIsUsed'
  <2>1. \A t \in Token : row[t].state = "used" => page[t[1]].shown
    BY DEF RowsMatchPages
  <2> QED
    BY <2>1 DEF ReleasedIsUsed, Released, Unresolved, Token
<1> QED
  BY <1>1, <1>2, <1>3, <1>4, <1>5, <1>6, <1>7

\* What holds before and after a step of a read: the others stay as they are.
OnlyOf(r) ==
  /\ read' \in [Read -> ReadState]
  /\ \A q \in Read : q # r =>
       /\ read'[q] = read[q]
       /\ q \in applied' <=> q \in applied
       /\ q \in misled' <=> q \in misled
       /\ \A n \in 1..Attempts : <<q, n>> \in wire' <=> <<q, n>> \in wire
  /\ wire' \subseteq Read \X (1..Attempts) /\ applied' \subseteq Read /\ misled' \subseteq Read
  /\ UNCHANGED <<now, link, page>> /\ Failed

\* A read begins, or ends before it is released: a row may be lost to it, if it was
\* its actor's.
LEMMA BeforeRelease ==
  ASSUME IInv, NEW r \in Read, OnlyOf(r), UNCHANGED <<wire, applied, misled>>,
         Unresolved(r), read'[r].tries = 0, read'[r].at \notin {"idle", "put", "wait"},
         read'[r].token \in Token, read'[r].actor \in Actor, page[read'[r].token[1]].shown,
         read'[r].reply \in {None, "expired", "unavailable"},
         read'[r].reply # None => read'[r].at = "done",
         \/ row' = row
         \/ /\ row' = [row EXCEPT ![read'[r].token].state = "used"] /\ ~Unresolved(r)'
            /\ row[read'[r].token].actor = read'[r].actor
            /\ row[read'[r].token].state = "live"
  PROVE  IInv'
<1> USE LibraryReadAssumption DEF IInv, TokensAreKept, TypeOK, OnlyOf, Failed
<1>1. TypeOK'
  BY DEF Row, Token
<1>2. /\ row' \in [Token -> Row]
      /\ \A t \in Token : /\ row'[t].expires = row[t].expires
                          /\ row'[t].actor = row[t].actor /\ row'[t].user = row[t].user
                          /\ \/ row'[t].state = row[t].state
                             \/ /\ row[t].state = "live" /\ row'[t].state = "used"
                                /\ t = read'[r].token /\ row[t].actor = read'[r].actor
                                /\ ~Unresolved(r)'
  <2> HIDE DEF IInv, TokensAreKept, OnlyOf
  <2> USE DEF Row
  <2>0. row \in [Token -> Row]
    BY DEF IInv, TokensAreKept
  <2>1. CASE row' = row
    BY <2>0, <2>1
  <2>2. CASE row' # row
    <3> DEFINE u == read'[r].token
    <3>1. /\ row' = [row EXCEPT ![u].state = "used"] /\ ~Unresolved(r)' /\ u \in Token
          /\ row[u].actor = read'[r].actor /\ row[u].state = "live"
      BY <2>2
    <3> HIDE DEF u
    <3>2. /\ row' \in [Token -> Row]
          /\ \A t \in Token : /\ row'[t].expires = row[t].expires
                              /\ row'[t].actor = row[t].actor /\ row'[t].user = row[t].user
                              /\ row'[t].state = IF t = u THEN "used" ELSE row[t].state
      BY <2>0, <3>1
    <3> QED
      BY <3>1, <3>2 DEF u
  <2> QED
    BY <2>1, <2>2
<1>3. ~Released(r) /\ ~Released(r)' /\ ~MayHaveApplied(r) /\ ~MayHaveApplied(r)'
  <2>1. read[r].tries = 0 /\ read[r].at # "put"
    BY DEF Unresolved, StagesFit
  <2>2. ~MayHaveApplied(r) /\ ~Released(r)
    BY <2>1 DEF SureOfNothing, Released
  <2>3. MayHaveApplied(r)' <=> MayHaveApplied(r)
    BY DEF MayHaveApplied
  <2> QED
    BY <2>2, <2>3 DEF Released
<1>4. RowsMatchPages'
  BY <1>2 DEF RowsMatchPages
<1>5. ReadsOfShown' /\ StagesFit'
  BY DEF ReadsOfShown, StagesFit, Unresolved, ReadState
<1>6. \A q \in Read : Released(q)' => q # r /\ Released(q)
  BY <1>3 DEF Released
<1>7. OneRelease' /\ ActsForTheOwner'
  BY <1>6 DEF OneRelease, ActsForTheOwner
<1>8. \A q \in Read : MayHaveApplied(q)' <=> MayHaveApplied(q)
  BY DEF MayHaveApplied
<1>9. RepliesTruthful' /\ SureOfNothing'
  BY <1>3, <1>8 DEF RepliesTruthful, SureOfNothing, Reply
<1>10. OffersHonoured'
  <2> SUFFICES ASSUME NEW t \in Token, page[t[1]].shown, t[2] \in page[t[1]].items,
                      now < page[t[1]].until, row'[t].state # "live"
               PROVE  \E q \in Read : /\ read'[q].token = t /\ read'[q].actor = page[t[1]].actor
                                      /\ read'[q].at \notin {"idle", "open", "resolve"}
    BY DEF OffersHonoured
  <2>1. CASE row[t].state # "live"
    BY <2>1 DEF OffersHonoured, Unresolved
  <2>2. CASE row[t].state = "live"
    BY <2>2, <1>2 DEF RowsMatchPages, Unresolved
  <2> QED
    BY <2>1, <2>2
<1>11. ReleasedIsUsed'
  <2>1. \A q \in Read : Released(q)' => row'[read'[q].token].state # "live"
    <3> SUFFICES ASSUME NEW q \in Read, Released(q)' PROVE row'[read'[q].token].state # "live"
      OBVIOUS
    <3>1. q # r /\ Released(q) /\ read'[q] = read[q] /\ read[q].token \in Token
      BY <1>6 DEF ReadsOfShown, Released, StagesFit, Unresolved
    <3> QED
      BY <3>1, <1>2 DEF ReleasedIsUsed
  <2>2. ASSUME NEW t \in Token, row'[t].state = "used"
        PROVE  \E q \in Read : /\ read'[q].token = t /\ read'[q].actor = page[t[1]].actor
                               /\ ~Unresolved(q)'
    <3>1. CASE row[t].state = "used"
      BY <3>1 DEF ReleasedIsUsed, Unresolved
    <3>2. CASE row[t].state # "used"
      BY <3>2, <2>2, <1>2 DEF RowsMatchPages
    <3> QED
      BY <3>1, <3>2
  <2> QED
    BY <2>1, <2>2 DEF ReleasedIsUsed
<1> QED
  BY <1>1, <1>4, <1>5, <1>7, <1>9, <1>10, <1>11

\* What a released read says, and what may still come of it.
TruthOf(r) ==
  /\ read[r].reply = "marked" => r \in applied
  /\ read[r].reply = "expired" => ~MayHaveApplied(r)
  /\ read[r].reply = "unavailable" /\ MayHaveApplied(r) => r \in misled \/ read[r].unsure
  /\ read[r].at \in {"put", "wait"} /\ ~read[r].unsure =>
       /\ r \in applied => r \in misled
       /\ \A n \in 1..Attempts : <<r, n>> \in wire => read[r].at = "wait" /\ n = read[r].tries

\* A released read asks again, hears an answer or is cut off; a late request arrives.
LEMMA AfterRelease ==
  ASSUME IInv, NEW r \in Read, OnlyOf(r), UNCHANGED row, Released(r), ~Unresolved(r), ~Unresolved(r)',
         read'[r].token = read[r].token, read'[r].actor = read[r].actor,
         read'[r].user = read[r].user, read'[r].when = read[r].when,
         read'[r].at = "put" => read'[r].tries < Attempts,
         read'[r].at = "wait" => read'[r].tries > 0,
         read'[r].reply # None => read'[r].at = "done",
         read'[r].tries = 0 => ~MayHaveApplied(r)',
         TruthOf(r)'
  PROVE  IInv'
<1> USE DEF IInv, TokensAreKept, TypeOK, OnlyOf, Failed
<1>1. TypeOK'
  OBVIOUS
<1>3. RowsMatchPages'
  BY DEF RowsMatchPages
<1>4. ReadsOfShown' /\ StagesFit'
  BY DEF ReadsOfShown, StagesFit, Unresolved
<1>5. \A q \in Read : /\ Released(q)' => Released(q)
                      /\ read'[q].token = read[q].token /\ read'[q].actor = read[q].actor
                      /\ read'[q].user = read[q].user /\ read'[q].when = read[q].when
                      /\ Unresolved(q)' <=> Unresolved(q)
  BY DEF Released, Unresolved
<1>6. OneRelease' /\ ActsForTheOwner'
  BY <1>5 DEF OneRelease, ActsForTheOwner
<1>7. \A q \in Read : q # r => (MayHaveApplied(q)' <=> MayHaveApplied(q))
  BY DEF MayHaveApplied
<1>8. RepliesTruthful' /\ SureOfNothing'
  BY <1>7 DEF RepliesTruthful, SureOfNothing, TruthOf
<1>9. OffersHonoured' /\ ReleasedIsUsed'
  BY <1>5 DEF OffersHonoured, ReleasedIsUsed, Unresolved
<1> QED
  BY <1>1, <1>3, <1>4, <1>6, <1>8, <1>9

\* A token releases the read that takes it: no other has, and none will.
LEMMA Release ==
  ASSUME IInv, NEW r \in Read, OnlyOf(r), UNCHANGED <<wire, applied, misled>>,
         read[r].at = "resolve", Usable(r, row[read[r].token]), Consume(r),
         read'[r] = [read[r] EXCEPT !.at = "put", !.when = now]
  PROVE  IInv'
<1> USE LibraryReadAssumption DEF IInv, TokensAreKept, TypeOK, OnlyOf, Failed
<1> DEFINE u == read[r].token
<1>1. /\ u \in Token /\ page[u[1]].shown /\ read[r].actor = page[u[1]].actor
      /\ read[r].user = page[u[1]].user /\ now < page[u[1]].until
      /\ row[u].state = "live" /\ read[r].reply = None /\ read[r].tries = 0
  BY DEF ReadsOfShown, RowsMatchPages, Usable, StagesFit, Unresolved, ReadState, Reply
<1>2. /\ read'[r].at = "put" /\ read'[r].when = now /\ read'[r].token = u
      /\ read'[r].actor = read[r].actor /\ read'[r].user = read[r].user
      /\ read'[r].tries = 0 /\ read'[r].reply = None
  BY <1>1 DEF ReadState
<1>3. /\ row' \in [Token -> Row]
      /\ \A t \in Token : /\ row'[t].expires = row[t].expires
                          /\ row'[t].actor = row[t].actor /\ row'[t].user = row[t].user
                          /\ row'[t].state = IF t = u THEN "used" ELSE row[t].state
  BY <1>1 DEF Consume, Row
<1>0. /\ UNCHANGED <<now, link, page, wire, applied, misled>>
      /\ \A q \in Read : q # r => read'[q] = read[q]
      /\ \A q \in Read : read[q].at # "idle" => read[q].token \in Token
  BY DEF ReadsOfShown
<1> HIDE DEF u, TypeOK, OnlyOf, Failed
<1>4. ~Released(r) /\ ~MayHaveApplied(r) /\ \A q \in Read : MayHaveApplied(q)' <=> MayHaveApplied(q)
  <2>1. ~Released(r) /\ ~MayHaveApplied(r)
    BY <1>1 DEF Released, SureOfNothing
  <2> QED
    BY <2>1, <1>0 DEF MayHaveApplied
<1>5. \A q \in Read : Released(q) => read[q].token # u
  BY <1>1 DEF ReleasedIsUsed
<1>6. \A q \in Read : q # r => (Released(q)' <=> Released(q))
  BY <1>0 DEF Released
<1>7. TypeOK' /\ RowsMatchPages'
  BY <1>0, <1>1, <1>3 DEF RowsMatchPages, TypeOK, OnlyOf, Failed
<1>8. ReadsOfShown' /\ StagesFit'
  <2> HIDE DEF IInv, TokensAreKept
  <2>1. ReadsOfShown /\ StagesFit /\ read[r].actor \in Actor
    BY DEF IInv, ReadsOfShown
  <2>2. ASSUME NEW q \in Read, q # r PROVE read'[q] = read[q]
    BY <2>2, <1>0
  <2>3. ReadsOfShown'
    BY <2>1, <2>2, <1>0, <1>1, <1>2 DEF ReadsOfShown
  <2>4. StagesFit'
    <3>1. 0 < Attempts
      OBVIOUS
    <3>2. /\ Unresolved(r)' => read'[r].tries = 0
          /\ read'[r].at = "put" => read'[r].tries < Attempts
          /\ read'[r].at = "wait" => read'[r].tries > 0
          /\ read'[r].reply # None => read'[r].at = "done"
      BY <3>1, <1>2 DEF Unresolved
    <3>3. \A q \in Read : q # r =>
            /\ Unresolved(q)' => read'[q].tries = 0
            /\ read'[q].at = "put" => read'[q].tries < Attempts
            /\ read'[q].at = "wait" => read'[q].tries > 0
            /\ read'[q].reply # None => read'[q].at = "done"
      BY <2>1, <2>2 DEF StagesFit, Unresolved
    <3> QED
      BY <3>2, <3>3 DEF StagesFit
  <2> QED
    BY <2>3, <2>4
<1>9. OneRelease'
  <2> HIDE DEF IInv, TokensAreKept
  <2>1. OneRelease
    BY DEF IInv, TokensAreKept
  <2>2. \A q \in Read : q # r /\ Released(q)' => read'[q].token # u /\ Released(q) /\ read'[q] = read[q]
    BY <1>0, <1>5, <1>6
  <2>3. read'[r].token = u
    BY <1>2
  <2> QED
    BY <2>1, <2>2, <2>3 DEF OneRelease
<1>10. ActsForTheOwner'
  <2> HIDE DEF IInv, TokensAreKept
  <2>1. ActsForTheOwner
    BY DEF IInv, TokensAreKept
  <2>2. \A q \in Read : q # r /\ Released(q)' => Released(q) /\ read'[q] = read[q]
    BY <1>0, <1>6
  <2> QED
    <3>1. UNCHANGED page
      BY <1>0
    <3>2. /\ read'[r].actor = page[u[1]].actor /\ read'[r].user = page[u[1]].user
          /\ read'[r].when < page[u[1]].until /\ read'[r].token = u
      BY <1>1, <1>2
    <3> QED
      BY <2>1, <2>2, <3>1, <3>2 DEF ActsForTheOwner
<1>11. RepliesTruthful'
  BY <1>0, <1>2, <1>4 DEF RepliesTruthful, Reply
<1>12. SureOfNothing'
  <2>1. r \notin applied /\ \A n \in 1..Attempts : <<r, n>> \notin wire
    BY <1>4 DEF MayHaveApplied
  <2> QED
    BY <2>1, <1>0, <1>2, <1>4 DEF SureOfNothing
<1>13. OffersHonoured'
  <2> HIDE DEF IInv, TokensAreKept
  <2> SUFFICES ASSUME NEW t \in Token, page[t[1]].shown, t[2] \in page[t[1]].items,
                      now < page[t[1]].until, row'[t].state # "live"
               PROVE  \E q \in Read : /\ read'[q].token = t /\ read'[q].actor = page[t[1]].actor
                                      /\ read'[q].at \notin {"idle", "open", "resolve"}
    BY <1>0 DEF OffersHonoured
  <2>1. CASE t = u
    BY <2>1, <1>1, <1>2
  <2>2. CASE t # u
    <3>1. PICK q \in Read : /\ read[q].token = t /\ read[q].actor = page[t[1]].actor
                            /\ read[q].at \notin {"idle", "open", "resolve"}
      BY <2>2, <1>3 DEF OffersHonoured, IInv, TokensAreKept
    <3>2. read'[q] = read[q]
      BY <3>1, <1>0
    <3> QED
      BY <3>1, <3>2
  <2> QED
    BY <2>1, <2>2
<1>14. \A q \in Read : Released(q)' => row'[read'[q].token].state # "live"
  <2> SUFFICES ASSUME NEW q \in Read, Released(q)' PROVE row'[read'[q].token].state # "live"
    OBVIOUS
  <2>1. CASE q = r
    BY <2>1, <1>1, <1>2, <1>3
  <2>2. CASE q # r
    <3>1. Released(q) /\ read'[q] = read[q] /\ read[q].token \in Token
      BY <2>2, <1>0, <1>6 DEF Released, StagesFit, Unresolved
    <3> QED
      BY <3>1, <1>3 DEF ReleasedIsUsed
  <2> QED
    BY <2>1, <2>2
<1>15. ReleasedIsUsed'
  <2> HIDE DEF IInv, TokensAreKept
  <2>1. ASSUME NEW t \in Token, row'[t].state = "used"
        PROVE  \E q \in Read : /\ read'[q].token = t /\ read'[q].actor = page[t[1]].actor
                               /\ ~Unresolved(q)'
    <3>1. CASE t = u
      BY <3>1, <1>1, <1>2 DEF Unresolved
    <3>2. CASE t # u
      <4>1. PICK q \in Read : /\ read[q].token = t /\ read[q].actor = page[t[1]].actor
                              /\ ~Unresolved(q)
        BY <2>1, <3>2, <1>3 DEF ReleasedIsUsed, IInv
      <4>2. read'[q] = read[q]
        BY <4>1, <1>0 DEF Unresolved
      <4> QED
        BY <4>1, <4>2 DEF Unresolved
    <3> QED
      BY <3>1, <3>2
  <2> QED
    BY <2>1, <1>0, <1>14 DEF ReleasedIsUsed
<1> QED
  BY <1>7, <1>8, <1>9, <1>10, <1>11, <1>12, <1>13, <1>15

\* No row is older than its page, and none is there before.
LEMMA Stored ==
  ASSUME IInv, NEW p \in Page, StorePage(p)
  PROVE  IInv'
<1> USE DEF IInv, TokensAreKept, TypeOK
<1>1. /\ page[p].at = "store" /\ ~page[p].shown /\ now + Ttl \in 0..MaxTime /\ now < now + Ttl
      /\ \A t \in Token : t[1] = p => row[t].state = "none"
  BY LibraryReadAssumption DEF StorePage, RowsMatchPages
<1>2. /\ page' \in [Page -> PageState]
      /\ \A q \in Page : q # p => page'[q] = page[q]
      /\ page'[p].at = "done" /\ page'[p].shown /\ page'[p].until = now + Ttl
      /\ page'[p].actor = page[p].actor /\ page'[p].user = page[p].user
      /\ page'[p].items = page[p].items
  BY <1>1 DEF StorePage, PageState
<1>3. /\ row' \in [Token -> Row]
      /\ \A t \in Token :
           IF t[1] = p /\ t[2] \in page[p].items
           THEN /\ row'[t].state = "live" /\ row'[t].expires = now + Ttl
                /\ row'[t].actor = page[p].actor /\ row'[t].user = page[p].user
           ELSE row'[t] = row[t]
  BY <1>1 DEF StorePage, PageState, Row, Token
<1>4. UNCHANGED <<now, link, read, wire, applied, misled, faults>>
  BY DEF StorePage
<1>5. \A r \in Read : read[r].at # "idle" => read[r].token \in Token /\ read[r].token[1] # p
  BY <1>1 DEF ReadsOfShown
<1>6. \A r \in Read : Released(r) => read[r].token \in Token /\ read[r].token[1] # p
  BY <1>5 DEF Released, StagesFit, Unresolved
<1>7. TypeOK'
  BY <1>2, <1>3, <1>4
<1>8. RowsMatchPages'
  <2>1. \A q \in Page : page'[q].shown => page'[q].at = "done"
    BY <1>2 DEF RowsMatchPages
  <2>2. ASSUME NEW t \in Token, row'[t].state # "none"
        PROVE  /\ page'[t[1]].shown /\ row'[t].expires = page'[t[1]].until
               /\ row'[t].actor = page'[t[1]].actor /\ row'[t].user = page'[t[1]].user
    <3>1. t[1] \in Page
      BY DEF Token
    <3>2. CASE t[1] = p
      BY <2>2, <3>2, <1>1, <1>2, <1>3
    <3>3. CASE t[1] # p
      BY <2>2, <3>1, <3>3, <1>2, <1>3 DEF RowsMatchPages
    <3> QED
      BY <3>2, <3>3
  <2> QED
    BY <2>1, <2>2 DEF RowsMatchPages
<1>9. ReadsOfShown'
  BY <1>2, <1>4, <1>5 DEF ReadsOfShown, Token
<1>10. StagesFit' /\ OneRelease' /\ RepliesTruthful' /\ SureOfNothing'
  BY <1>4 DEF StagesFit, OneRelease, RepliesTruthful, SureOfNothing, MayHaveApplied, Unresolved, Released
<1>11. ActsForTheOwner'
  BY <1>2, <1>4, <1>6 DEF ActsForTheOwner, Released, Token
<1>12. OffersHonoured'
  BY <1>2, <1>3, <1>4 DEF OffersHonoured, Token
<1>13. ReleasedIsUsed'
  BY <1>2, <1>3, <1>4, <1>6, <1>1 DEF ReleasedIsUsed, Released, Unresolved, Token
<1> QED
  BY <1>7, <1>8, <1>9, <1>10, <1>11, <1>12, <1>13

\* A pass takes rows that are used or expired, so none that is on offer.
LEMMA Cleaned ==
  ASSUME IInv, Cleanup
  PROVE  IInv'
<1> USE DEF IInv, TokensAreKept, TypeOK
<1>1. UNCHANGED <<now, link, page, read, wire, applied, misled, faults>>
  BY DEF Cleanup
<1>2. \A t \in Token : row'[t] = row[t] \/ (row'[t] = NoRow /\ Eligible(row[t]))
  BY DEF Cleanup
<1>3. row' \in [Token -> Row]
  BY LibraryReadAssumption DEF Cleanup, NoRow, Row
<1>4. TypeOK' /\ RowsMatchPages' /\ ReadsOfShown' /\ StagesFit'
  BY <1>1, <1>2, <1>3 DEF RowsMatchPages, ReadsOfShown, StagesFit, NoRow, Unresolved
<1>5. OneRelease' /\ ActsForTheOwner' /\ RepliesTruthful' /\ SureOfNothing'
  BY <1>1 DEF OneRelease, ActsForTheOwner, RepliesTruthful, SureOfNothing, Released, MayHaveApplied
<1>6. \A r \in Read : Released(r) => read[r].token \in Token
  BY DEF ReadsOfShown, Released, StagesFit, Unresolved
<1>7. ReleasedIsUsed'
  BY <1>1, <1>2, <1>6 DEF ReleasedIsUsed, Released, Unresolved, NoRow
<1>8. OffersHonoured'
  <2> SUFFICES ASSUME NEW t \in Token, page[t[1]].shown, t[2] \in page[t[1]].items,
                      now < page[t[1]].until, row'[t].state # "live"
               PROVE  \E q \in Read : /\ read[q].token = t /\ read[q].actor = page[t[1]].actor
                                      /\ read[q].at \notin {"idle", "open", "resolve"}
    BY <1>1 DEF OffersHonoured
  <2>1. CASE row[t].state # "live"
    BY <2>1 DEF OffersHonoured
  <2>2. CASE row[t].state = "live"
    BY <2>2, <1>2 DEF RowsMatchPages, Eligible, Row
  <2> QED
    BY <2>1, <2>2
<1> QED
  BY <1>4, <1>5, <1>7, <1>8

\* How an answer, and a failed attempt, leave a read.
LEMMA Answers ==
  ASSUME TypeOK, NEW r \in Read, NEW reply \in Reply, Answered(r, reply)
  PROVE  /\ read' \in [Read -> ReadState] /\ \A q \in Read : q # r => read'[q] = read[q]
         /\ read'[r].at = "done" /\ read'[r].reply = reply
         /\ read'[r].actor = read[r].actor /\ read'[r].user = read[r].user
         /\ read'[r].token = read[r].token /\ read'[r].tries = read[r].tries
         /\ read'[r].when = read[r].when /\ read'[r].unsure = read[r].unsure
  BY DEF TypeOK, ReadState, Answered, Reply

LEMMA Failures ==
  ASSUME TypeOK, NEW r \in Read, NEW unsure \in BOOLEAN, Onward(r, unsure)
  PROVE  /\ read' \in [Read -> ReadState] /\ \A q \in Read : q # r => read'[q] = read[q]
         /\ read'[r].unsure = unsure
         /\ \/ /\ read[r].tries < Attempts
               /\ read'[r].at = "put" /\ read'[r].reply = None
            \/ /\ read'[r].at = "done"
               /\ read'[r].reply = IF unsure THEN "unknown" ELSE "unavailable"
         /\ read'[r].actor = read[r].actor /\ read'[r].user = read[r].user
         /\ read'[r].token = read[r].token /\ read'[r].tries = read[r].tries
         /\ read'[r].when = read[r].when
<1> USE LibraryReadAssumption DEF TypeOK
<1> DEFINE at == IF read[r].tries < Attempts THEN "put" ELSE "done"
           reply == IF read[r].tries < Attempts THEN None
                    ELSE IF unsure THEN "unknown" ELSE "unavailable"
<1>1. /\ at \in {"put", "done"} /\ reply \in Reply \cup {None}
      /\ \/ read[r].tries < Attempts /\ at = "put" /\ reply = None
         \/ at = "done" /\ reply = IF unsure THEN "unknown" ELSE "unavailable"
  BY DEF Reply
<1>2. read' = [read EXCEPT ![r].unsure = unsure, ![r].at = at, ![r].reply = reply]
  BY DEF Onward
<1> HIDE DEF at, reply
<1>3. /\ read' \in [Read -> ReadState] /\ \A q \in Read : q # r => read'[q] = read[q]
      /\ read'[r].unsure = unsure /\ read'[r].at = at /\ read'[r].reply = reply
      /\ read'[r].actor = read[r].actor /\ read'[r].user = read[r].user
      /\ read'[r].token = read[r].token /\ read'[r].tries = read[r].tries
      /\ read'[r].when = read[r].when
  <2>1. read \in [Read -> ReadState] /\ at \in {"put", "done"} /\ reply \in Reply \cup {None}
    BY <1>1
  <2> HIDE DEF TypeOK
  <2> HIDE LibraryReadAssumption
  <2>2. PICK k : k = [read[r] EXCEPT !.unsure = unsure, !.at = at, !.reply = reply]
    OBVIOUS
  <2>3. /\ k \in ReadState /\ k.unsure = unsure /\ k.at = at /\ k.reply = reply
        /\ k.actor = read[r].actor /\ k.user = read[r].user /\ k.token = read[r].token
        /\ k.tries = read[r].tries /\ k.when = read[r].when
    <3>1. read[r] \in ReadState
      BY <2>1
    <3> QED
      BY <2>1, <2>2, <3>1 DEF ReadState
  <2>4. read' = [read EXCEPT ![r] = k]
    BY <1>2, <2>1, <2>2
  <2> QED
    BY <2>1, <2>3, <2>4
<1> QED
  BY <1>1, <1>3

LEMMA StepInv == IInv /\ [Next]_vars => IInv'
<1> SUFFICES ASSUME IInv, [Next]_vars PROVE IInv'
  OBVIOUS
<1> USE LibraryReadAssumption
<1>0. TypeOK
  BY DEF IInv, TokensAreKept
<1>1. ASSUME NEW p \in Page, AskPage(p) \/ SeePage(p) \/ PageFails(p) PROVE IInv'
  <2>1. ~page[p].shown
    BY <1>1 DEF AskPage, SeePage, PageFails, IInv, RowsMatchPages
  <2>2. page' \in [Page -> PageState] /\ page'[p].shown = page[p].shown
    <3>1. CASE AskPage(p)
      <4>1. PICK a \in Actor : page' = [page EXCEPT ![p].at = "ask", ![p].actor = a, ![p].user = link[a]]
        BY <3>1 DEF AskPage
      <4>2. link[a] \in User /\ page \in [Page -> PageState]
        BY <1>0 DEF TypeOK
      <4>3. [page[p] EXCEPT !.at = "ask", !.actor = a, !.user = link[a]] \in PageState
        BY <4>2 DEF PageState
      <4> QED
        BY <4>1, <4>2, <4>3 DEF PageState
    <3>2. CASE SeePage(p)
      <4>1. PICK items \in SUBSET Item : page' = [page EXCEPT ![p].at = "store", ![p].items = items]
        BY <3>2 DEF SeePage
      <4>2. page \in [Page -> PageState]
        BY <1>0 DEF TypeOK
      <4>3. [page[p] EXCEPT !.at = "store", !.items = items] \in PageState
        BY <4>2 DEF PageState
      <4> QED
        BY <4>1, <4>2, <4>3 DEF PageState
    <3>3. CASE PageFails(p)
      BY <1>0, <3>3 DEF PageFails, TypeOK, PageState
    <3> QED
      BY <1>1, <3>1, <3>2, <3>3
  <2>3. /\ \A q \in Page : q # p => page'[q] = page[q]
        /\ UNCHANGED <<now, link, read, row, wire, applied, misled>> /\ Failed
    <3>1. page \in [Page -> PageState] /\ faults \in 0..MaxFaults
      BY <1>0 DEF TypeOK
    <3>2. CASE AskPage(p)
      BY <3>1, <3>2 DEF AskPage, Failed
    <3>3. CASE SeePage(p)
      BY <3>1, <3>3 DEF SeePage, Failed
    <3>4. CASE PageFails(p)
      BY <3>1, <3>4 DEF PageFails, Fail, Failed
    <3> QED
      BY <1>1, <3>2, <3>3, <3>4
  <2> QED
    BY <1>0, <2>1, <2>2, <2>3, ShownPagesStay DEF TypeOK
<1>2. ASSUME NEW p \in Page, StorePage(p) PROVE IInv'
  BY <1>2, Stored
<1>3. ASSUME NEW r \in Read, Present(r) PROVE IInv'
  <2>1. PICK a \in Actor, t \in Token :
          /\ page[t[1]].shown
          /\ read' = [read EXCEPT ![r].at = "open", ![r].actor = a, ![r].token = t]
    BY <1>3 DEF Present
  <2>2. /\ read' \in [Read -> ReadState] /\ read'[r].at = "open" /\ read'[r].actor = a
        /\ read'[r].token = t /\ read'[r].tries = read[r].tries /\ read'[r].reply = read[r].reply
    <3>1. read \in [Read -> ReadState]
      BY <1>0 DEF TypeOK
    <3>2. a \in Actor \cup {None} /\ t \in Token \cup {None}
      OBVIOUS
    <3> DEFINE x == read[r]
    <3> HIDE LibraryReadAssumption
    <3>3. [x EXCEPT !.at = "open", !.actor = a, !.token = t] \in ReadState
      <4>1. x \in ReadState
        BY <3>1
      <4> HIDE DEF x
      <4> QED
        BY ONLY <4>1, <3>2 DEF ReadState
    <3>4. read'[r] = [read[r] EXCEPT !.at = "open", !.actor = a, !.token = t]
      BY <2>1, <3>1
    <3>5. read' \in [Read -> ReadState]
      BY <2>1, <3>1, <3>3
    <3> QED
      BY <3>1, <3>4, <3>5 DEF ReadState
  <2>3. read[r].at = "idle" /\ read[r].tries = 0 /\ read[r].reply = None
    BY <1>3 DEF Present, IInv, StagesFit, Unresolved
  <2>4. OnlyOf(r) /\ UNCHANGED <<row, wire, applied, misled>>
    BY <1>0, <1>3, <2>1, <2>2 DEF Present, OnlyOf, TypeOK, Failed
  <2> QED
    BY <2>1, <2>2, <2>3, <2>4, BeforeRelease DEF Unresolved
<1>4. ASSUME NEW r \in Read, Open(r) PROVE IInv'
  <2>1. /\ read[r].at = "open" /\ read[r].tries = 0 /\ read[r].reply = None /\ read[r].token \in Token
        /\ read[r].actor \in Actor /\ page[read[r].token[1]].shown
    BY <1>4 DEF Open, IInv, StagesFit, ReadsOfShown, Unresolved
  <2>2. /\ read' \in [Read -> ReadState] /\ read'[r].at = "resolve"
        /\ read'[r].actor = read[r].actor /\ read'[r].token = read[r].token
        /\ read'[r].tries = read[r].tries /\ read'[r].reply = read[r].reply
    <3> DEFINE u == link[read[r].actor]
    <3>1. read \in [Read -> ReadState] /\ u \in User
      BY <1>0, <2>1 DEF TypeOK
    <3>2. read' = [read EXCEPT ![r].at = "resolve", ![r].user = u]
      BY <1>4 DEF Open
    <3> HIDE DEF u
    <3> HIDE LibraryReadAssumption
    <3> QED
      BY <3>1, <3>2 DEF ReadState
  <2>3. OnlyOf(r) /\ UNCHANGED <<row, wire, applied, misled>>
    BY <1>0, <1>4, <2>2 DEF Open, OnlyOf, TypeOK, Failed
  <2> QED
    BY <2>1, <2>2, <2>3, BeforeRelease DEF Unresolved
<1>5. ASSUME NEW r \in Read, OpenFails(r) \/ Resolve(r) \/ ResolveFails(r) PROVE IInv'
  <2>1. /\ read[r].at \in {"open", "resolve"} /\ read[r].tries = 0 /\ read[r].reply = None
        /\ read[r].token \in Token /\ read[r].actor \in Actor /\ page[read[r].token[1]].shown
    BY <1>5 DEF OpenFails, Resolve, ResolveFails, IInv, StagesFit, ReadsOfShown, Unresolved
  <2>2. UNCHANGED <<now, link, page, wire, applied, misled>> /\ Failed
    BY <1>0, <1>5 DEF OpenFails, Resolve, ResolveFails, Fail, Failed, TypeOK
  <2>3. ASSUME NEW reply \in {"expired", "unavailable"}, Answered(r, reply),
               row' = row \/ (Usable(r, row[read[r].token]) /\ Consume(r))
        PROVE  IInv'
    <3>1. /\ read' \in [Read -> ReadState] /\ \A q \in Read : q # r => read'[q] = read[q]
          /\ read'[r].at = "done" /\ read'[r].reply = reply
          /\ read'[r].actor = read[r].actor /\ read'[r].token = read[r].token
          /\ read'[r].tries = read[r].tries
      BY <1>0, <2>3, Answers DEF Reply
    <3>2. OnlyOf(r)
      BY <1>0, <2>2, <3>1 DEF OnlyOf, TypeOK
    <3> QED
      BY <2>1, <2>2, <2>3, <3>1, <3>2, BeforeRelease DEF Unresolved, Usable, Consume
  <2>4. ASSUME read[r].at = "resolve", Usable(r, row[read[r].token]), Consume(r),
               read' = [read EXCEPT ![r].at = "put", ![r].when = now]
        PROVE  IInv'
    <3>1. read' \in [Read -> ReadState]
      <4>1. read \in [Read -> ReadState] /\ now \in 0..MaxTime
        BY <1>0 DEF TypeOK
      <4> DEFINE x == read[r]
      <4>2. [x EXCEPT !.at = "put", !.when = now] \in ReadState
        <5>1. x \in ReadState
          BY <4>1
        <5> HIDE DEF x
        <5> QED
          BY ONLY <5>1, <4>1 DEF ReadState
      <4>3. read' = [read EXCEPT ![r] = [read[r] EXCEPT !.at = "put", !.when = now]]
        BY <2>4, <4>1
      <4> QED
        BY <4>1, <4>2, <4>3
    <3>2. OnlyOf(r)
      BY <1>0, <2>2, <2>4, <3>1 DEF OnlyOf, TypeOK
    <3>3. read'[r] = [read[r] EXCEPT !.at = "put", !.when = now]
      BY <1>0, <2>4 DEF TypeOK
    <3> QED
      BY <2>2, <2>4, <3>2, <3>3, Release
  <2>5. CASE OpenFails(r)
    BY <2>3, <2>5 DEF OpenFails
  <2>6. CASE Resolve(r)
    BY <2>3, <2>4, <2>6 DEF Resolve
  <2>7. CASE ResolveFails(r)
    BY <2>3, <2>7 DEF ResolveFails
  <2> QED
    BY <1>5, <2>5, <2>6, <2>7
<1>6. ASSUME NEW r \in Read, Put(r) PROVE IInv'
  <2>1. /\ read[r].at = "put" /\ read[r].tries < Attempts /\ read[r].reply = None
    BY <1>6 DEF Put, IInv, StagesFit
  <2>2. /\ read' \in [Read -> ReadState] /\ read'[r].at = "wait"
        /\ read'[r].tries = read[r].tries + 1 /\ read'[r].reply = read[r].reply
        /\ read'[r].actor = read[r].actor /\ read'[r].token = read[r].token
        /\ read'[r].user = read[r].user /\ read'[r].when = read[r].when
        /\ read'[r].unsure = read[r].unsure
    BY <1>0, <1>6, <2>1 DEF Put, TypeOK, ReadState
  <2>3. read[r].tries + 1 \in 1..Attempts
    BY <1>0, <2>1 DEF TypeOK, ReadState
  <2>4. OnlyOf(r) /\ UNCHANGED <<row, applied, misled>>
    BY <1>0, <1>6, <2>2, <2>3 DEF Put, OnlyOf, TypeOK, Failed
  <2>5. TruthOf(r)'
    BY <1>6, <2>1, <2>2, <2>3 DEF TruthOf, Put, IInv, SureOfNothing, Reply
  <2> QED
    BY <2>1, <2>2, <2>3, <2>4, <2>5, AfterRelease DEF Unresolved, Released
<1>7. ASSUME NEW r \in Read, Cut(r) PROVE IInv'
  <2>1. /\ read' \in [Read -> ReadState] /\ read'[r].at = "cut"
        /\ read'[r].tries = read[r].tries /\ read'[r].reply = read[r].reply
        /\ read'[r].actor = read[r].actor /\ read'[r].token = read[r].token
        /\ read'[r].user = read[r].user /\ read'[r].when = read[r].when
    BY <1>0, <1>7 DEF Cut, TypeOK, ReadState
  <2>2. OnlyOf(r) /\ UNCHANGED <<row, wire, applied, misled>>
    BY <1>0, <1>7, <2>1 DEF Cut, OnlyOf, TypeOK, Fail, Failed
  <2>3. read[r].reply = None /\ (read[r].at = "wait" => read[r].tries > 0)
    BY <1>7 DEF Cut, IInv, StagesFit
  <2>4. CASE Unresolved(r)
    <3>1. /\ read[r].tries = 0 /\ read[r].token \in Token /\ read[r].actor \in Actor
          /\ page[read[r].token[1]].shown
      BY <1>7, <2>4 DEF Cut, IInv, StagesFit, ReadsOfShown
    <3> QED
      BY <2>1, <2>2, <2>3, <2>4, <3>1, BeforeRelease
  <2>5. CASE ~Unresolved(r)
    <3>1. Released(r) /\ TruthOf(r)'
      BY <1>7, <2>1, <2>3, <2>5 DEF Cut, Released, Unresolved, TruthOf, Reply
    <3> QED
      <4>1. ~Unresolved(r)' /\ (read'[r].tries = 0 => ~MayHaveApplied(r)')
        BY <1>7, <2>1, <2>2 DEF IInv, SureOfNothing, MayHaveApplied, Unresolved
      <4> QED
        BY <2>1, <2>2, <2>3, <2>5, <3>1, <4>1, AfterRelease
  <2> QED
    BY <2>4, <2>5
<1>8. ASSUME NEW r \in Read, Applied(r) \/ NotApplied(r) \/ Timeout(r) PROVE IInv'
  <2>1. /\ read[r].at = "wait" /\ read[r].tries > 0 /\ read[r].tries \in 1..Attempts
        /\ Released(r) /\ ~Unresolved(r) /\ read[r].reply = None /\ read[r].unsure \in BOOLEAN
    <3>1. read[r].at = "wait"
      BY <1>8 DEF Applied, NotApplied, Timeout
    <3>2. read[r].tries \in 0..Attempts /\ read[r].unsure \in BOOLEAN
      BY <1>0 DEF TypeOK, ReadState
    <3>3. read[r].tries > 0 /\ read[r].reply = None
      BY <3>1 DEF IInv, StagesFit
    <3> QED
      BY <3>1, <3>2, <3>3 DEF Released, Unresolved
  <2>2. /\ UNCHANGED <<now, link, page, row>> /\ Failed
        /\ wire' \subseteq wire /\ applied \subseteq applied' /\ applied' \subseteq applied \cup {r}
        /\ misled' \in {misled, misled \cup {r}}
        /\ wire \ {Sent(r)} \subseteq wire'
    <3>1. faults \in 0..MaxFaults
      BY <1>0 DEF TypeOK
    <3>2. CASE Applied(r)
      <4>1. Failed
        <5>1. UNCHANGED faults \/ Fail
          BY <3>2 DEF Applied
        <5> QED
          BY <3>1, <5>1 DEF Fail, Failed
      <4> QED
        BY <3>2, <4>1 DEF Applied
    <3>3. CASE NotApplied(r)
      BY <3>1, <3>3 DEF NotApplied, Fail, Failed
    <3>4. CASE Timeout(r)
      BY <3>1, <3>4 DEF Timeout, Fail, Failed
    <3> QED
      BY <1>8, <3>2, <3>3, <3>4
  <2>3. \A q \in Read : q # r =>
          /\ q \in applied' <=> q \in applied
          /\ q \in misled' <=> q \in misled
          /\ \A n \in 1..Attempts : <<q, n>> \in wire' <=> <<q, n>> \in wire
    BY <2>2 DEF Sent
  <2>4. wire' \subseteq Read \X (1..Attempts) /\ applied' \subseteq Read /\ misled' \subseteq Read
    BY <1>0, <2>2 DEF TypeOK
  <2>5. ASSUME NEW reply \in Reply \ {"expired"}, Answered(r, reply),
               reply = "marked" => r \in applied',
               reply = "unavailable" /\ MayHaveApplied(r)' => r \in misled' \/ read[r].unsure
        PROVE  IInv'
    <3>1. /\ read' \in [Read -> ReadState] /\ \A q \in Read : q # r => read'[q] = read[q]
          /\ read'[r].at = "done" /\ read'[r].reply = reply
          /\ read'[r].actor = read[r].actor /\ read'[r].user = read[r].user
          /\ read'[r].token = read[r].token /\ read'[r].tries = read[r].tries
          /\ read'[r].when = read[r].when /\ read'[r].unsure = read[r].unsure
      BY <1>0, <2>5, Answers
    <3>2. OnlyOf(r)
      BY <2>2, <2>3, <2>4, <3>1 DEF OnlyOf
    <3>3. TruthOf(r)'
      BY <2>5, <3>1 DEF TruthOf
    <3> QED
      BY <2>1, <2>2, <3>1, <3>2, <3>3, AfterRelease DEF Unresolved
  <2>6. ASSUME NEW unsure \in BOOLEAN, Onward(r, unsure), 
               ~unsure => \A n \in 1..Attempts : <<r, n>> \notin wire',
               ~unsure => (r \in applied' => r \in misled')
        PROVE  IInv'
    <3>1. /\ read' \in [Read -> ReadState] /\ \A q \in Read : q # r => read'[q] = read[q]
          /\ read'[r].unsure = unsure
          /\ \/ /\ read[r].tries < Attempts
                /\ read'[r].at = "put" /\ read'[r].reply = None
             \/ /\ read'[r].at = "done"
                /\ read'[r].reply = IF unsure THEN "unknown" ELSE "unavailable"
          /\ read'[r].actor = read[r].actor /\ read'[r].user = read[r].user
          /\ read'[r].token = read[r].token /\ read'[r].tries = read[r].tries
          /\ read'[r].when = read[r].when
      BY <1>0, <2>6, Failures
    <3>2. OnlyOf(r)
      BY <2>2, <2>3, <2>4, <3>1 DEF OnlyOf
    <3>3. TruthOf(r)'
      <4>1. None \notin Reply
        OBVIOUS
      <4>2. CASE unsure = TRUE
        BY <3>1, <4>1, <4>2 DEF TruthOf, Reply
      <4>3. CASE unsure = FALSE
        <5>1. (r \in applied' => r \in misled') /\ \A n \in 1..Attempts : <<r, n>> \notin wire'
          BY <2>6, <4>3
        <5>2. MayHaveApplied(r)' => r \in misled'
          BY <5>1 DEF MayHaveApplied
        <5>3. read'[r].reply \notin {"marked", "expired"}
          BY <3>1, <4>1, <4>3 DEF Reply
        <5> QED
          BY <5>1, <5>2, <5>3 DEF TruthOf
      <4> QED
        BY <4>2, <4>3
    <3> QED
      BY <2>1, <2>2, <3>1, <3>2, <3>3, AfterRelease DEF Unresolved
  <2>7. ~read[r].unsure => /\ r \in applied => r \in misled
                           /\ \A n \in 1..Attempts : <<r, n>> \in wire => n = read[r].tries
    BY <2>1 DEF IInv, SureOfNothing
  <2>8. ASSUME Denied(r), wire' = wire \ {Sent(r)}, r \in applied' => r \in misled' \/ read[r].unsure
        PROVE  IInv'
    <3>1. ~read[r].unsure => \A n \in 1..Attempts : <<r, n>> \notin wire'
      BY <2>7, <2>8 DEF Sent
    <3>2. MayHaveApplied(r)' => r \in misled' \/ read[r].unsure
      BY <2>8, <3>1 DEF MayHaveApplied
    <3> QED
      BY <2>1, <2>5, <2>6, <2>8, <3>1, <3>2 DEF Denied, Reply
  <2>10. CASE Applied(r)
    <3>1. /\ r \in applied' /\ wire' = wire \ {Sent(r)}
          /\ \/ Answered(r, "marked")
             \/ Onward(r, TRUE)
             \/ Denied(r) /\ misled' = misled \cup {r}
      BY <2>10 DEF Applied
    <3> QED
      BY <2>5, <2>6, <2>8, <3>1 DEF Reply
  <2>11. CASE NotApplied(r)
    <3>1. Denied(r) /\ wire' = wire \ {Sent(r)} /\ UNCHANGED <<applied, misled>>
      BY <2>11 DEF NotApplied
    <3> QED
      BY <2>7, <2>8, <3>1
  <2>9. CASE Timeout(r)
    BY <2>6, <2>9 DEF Timeout
  <2> QED
    BY <1>8, <2>9, <2>10, <2>11
<1>9. ASSUME NEW r \in Read, NEW n \in 1..Attempts, Late(r, n) PROVE IInv'
  <2>1. /\ <<r, n>> \in wire /\ wire' = wire \ {<<r, n>>}
        /\ applied' \in {applied, applied \cup {r}} /\ Failed
        /\ UNCHANGED <<now, link, page, read, row, misled>>
        /\ ~(read[r].at = "wait" /\ read[r].tries = n)
    BY <1>0, <1>9 DEF Late, TypeOK, Failed
  <2>2. MayHaveApplied(r) /\ read[r].tries # 0
    BY <2>1 DEF MayHaveApplied, IInv, SureOfNothing
  <2>3. /\ read[r].tries > 0 /\ Released(r) /\ ~Unresolved(r)
        /\ read[r].at = "put" => read[r].tries < Attempts
        /\ read[r].reply # None => read[r].at = "done"
    BY <1>0, <2>2 DEF IInv, StagesFit, Released, Unresolved, TypeOK, ReadState
  <2>4. OnlyOf(r)
    BY <1>0, <2>1 DEF OnlyOf, TypeOK
  <2>5. TruthOf(r)'
    BY <2>1, <2>2 DEF TruthOf, IInv, TokensAreKept, RepliesTruthful, SureOfNothing
  <2> QED
    BY <2>1, <2>3, <2>4, <2>5, AfterRelease DEF Unresolved
<1>10. ASSUME NEW a \in Actor, NEW u \in User, Relink(a, u) PROVE IInv'
  BY <1>0, <1>10, ShownPagesStay DEF Relink, Fail, Failed, TypeOK
<1>11. ASSUME Cleanup PROVE IInv'
  BY <1>11, Cleaned
<1>12. ASSUME Tick PROVE IInv'
  <2>1. TypeOK' /\ UNCHANGED <<link, page, read, row, wire, applied, misled, faults>>
    BY <1>0, <1>12 DEF Tick, TypeOK
  <2>2. OffersHonoured'
    <3>1. now' \in Nat /\ now \in Nat /\ now < now'
      BY <1>0, <1>12 DEF Tick, TypeOK
    <3>2. \A t \in Token : now' < page[t[1]].until => now < page[t[1]].until
      BY <1>0, <3>1 DEF TypeOK, Token, PageState
    <3> QED
      BY <2>1, <3>2 DEF IInv, TokensAreKept, OffersHonoured
  <2> QED
    BY <2>1, <2>2 DEF IInv, TokensAreKept, RowsMatchPages, ReadsOfShown, StagesFit, ReleasedIsUsed,
      SureOfNothing, OneRelease, ActsForTheOwner, RepliesTruthful, MayHaveApplied, Released, Unresolved
<1>13. CASE UNCHANGED vars
  BY <1>0, <1>13, ShownPagesStay DEF vars, Failed, TypeOK
<1> QED
  BY <1>1, <1>2, <1>3, <1>4, <1>5, <1>6, <1>7, <1>8, <1>9, <1>10, <1>11, <1>12, <1>13
  DEF Next, PageStep, ReadStep

-----------------------------------------------------------------------------
\* Everything the argument needs holds of every state.
THEOREM Invariance == Spec => []IInv
BY InitInv, StepInv, PTL DEF Spec

\* A token that is shown can be relied on (library.rs, interaction_tokens.rs): at most
\* one execution asks Platform for it, only for the actor and the user the page was
\* rendered for and before it expired; until then it works for its owner; and the
\* reply claims no more than is known, "unavailable" of a request that may have been
\* applied only where an applied one was answered with an error or an attempt was
\* refused after one in doubt.
THEOREM TokensKept == Spec => []TokensAreKept
<1>1. IInv => TokensAreKept
  BY DEF IInv
<1> QED
  BY <1>1, Invariance, PTL

-----------------------------------------------------------------------------
(* Links of captures (C) *)

\* A capture that is about to record or has its operation's row knows the operation,
\* and no other capture has the row meanwhile.
RowsHeld ==
  \A u \in Update :
    /\ capture[u].at \in {"record", "locked"} => capture[u].op \in C!Operation
    /\ capture[u].at = "locked" => lock[capture[u].op] = u

\* What a capture has looked for under the lock is true until it commits; a first
\* capture mints.
LookedUpHolds ==
  \A u \in Update : capture[u].at = "locked" =>
    LET o == capture[u].op
    IN  /\ capture[u].mint => C!Authority(o) = {}
        /\ capture[u].ack => acks[o] = 0
        /\ bound[o] = "none" => capture[u].mint

\* A row's past is in it, and there is none that was not minted.
RowsTell ==
  \A k \in C!Token :
    /\ token[k].state # "none" => k <= minted
    /\ token[k].state = "issued" => token[k].releases = 0
    /\ token[k].state = "consumed" => token[k].releases = 1

\* Tokens come with the binding.
TokensAreBound ==
  \A k \in C!Token : token[k].state # "none" =>
    token[k].op \in C!Operation /\ bound[token[k].op] # "none"

\* A token that was live at some time is, or its time is over, or it was followed.
Kept(k) == C!Live(k) \/ token[k].releases = 1 \/ token[k].age = Ttl

\* The token a render shows or is about to show is the operation's.
Offered(o, k) == k <= minted /\ token[k].op = o /\ Kept(k)

OffersAreOwn ==
  \A o \in C!Operation : /\ found[o] # 0 => Offered(o, found[o])
                         /\ shown[o] # 0 => Offered(o, shown[o])

\* No two tokens of one operation are live.
OneLive == \A o \in C!Operation : \A j, k \in C!Authority(o) : j = k

LinksInv == /\ C!TypeOK /\ C!OwnerWhileFollowed /\ C!OneAcknowledgement
            /\ OneLive /\ RowsHeld /\ LookedUpHolds /\ RowsTell /\ TokensAreBound /\ OffersAreOwn

LEMMA LinksInit == C!Init => LinksInv
<1> SUFFICES ASSUME C!Init PROVE LinksInv
  OBVIOUS
<1> USE LibraryReadAssumption, InteractionsAssumption DEF C!Init
<1>1. C!TypeOK
  BY DEF C!TypeOK, C!Capture, C!Stage, C!Operation, C!Token, C!Row
<1>2. \A u \in Update : capture[u].at = "unsent"
  OBVIOUS
<1>3. \A k \in C!Token : token[k].state = "none"
  OBVIOUS
<1>4. C!OwnerWhileFollowed /\ C!OneAcknowledgement
  BY DEF C!OwnerWhileFollowed, C!OneAcknowledgement
<1>5. OneLive /\ RowsTell /\ TokensAreBound
  BY <1>3 DEF OneLive, RowsTell, TokensAreBound, C!Authority, C!Live
<1>6. RowsHeld /\ LookedUpHolds
  BY <1>2 DEF RowsHeld, LookedUpHolds
<1>7. OffersAreOwn
  BY DEF OffersAreOwn
<1> QED
  BY <1>1, <1>4, <1>5, <1>6, <1>7 DEF LinksInv

LinkFaults == linkFaults' \in 0..MaxFaults

\* Platform's answer is an operation.
LEMMA AcceptTyped ==
  ASSUME C!TypeOK, NEW l \in Link, C!Accept(l)
  PROVE  /\ opOf' \in [Link -> 0..MaxOperations]
         /\ status' \in [C!Operation -> {"none", "running", "succeeded", "failed"}]
         /\ opOf'[l] \in C!Operation
<1> USE InteractionsAssumption DEF C!Operation
<1>1. C!Used \in Nat
  <2> DEFINE taken == {o \in C!Operation : status[o] # "none"}
  <2>1. IsFiniteSet(1..MaxOperations)
    BY FS_Interval
  <2>2. IsFiniteSet(taken)
    BY <2>1, FS_Subset
  <2>3. Cardinality(taken) \in Nat
    BY <2>2, FS_CardinalityType
  <2>4. C!Cardinality(taken) = Cardinality(taken)
    BY DEF C!Cardinality, Cardinality
  <2> QED
    BY <2>3, <2>4 DEF C!Used
<1>2. opOf \in [Link -> 0..MaxOperations]
  BY DEF C!TypeOK
<1>3. status \in [C!Operation -> {"none", "running", "succeeded", "failed"}]
  BY DEF C!TypeOK
<1>4. CASE opOf[l] # 0
  BY <1>2, <1>3, <1>4 DEF C!Accept, C!platformVars
<1>5. CASE opOf[l] = 0
  <2> DEFINE n == C!Used + 1
  <2>1. n \in 1..MaxOperations
    BY <1>1, <1>5 DEF C!Accept
  <2>2. opOf' = [opOf EXCEPT ![l] = n] /\ status' = [status EXCEPT ![n] = "running"]
    BY <1>5 DEF C!Accept
  <2> HIDE DEF n
  <2> QED
    BY <2>1, <2>2, <1>2, <1>3
<1> QED
  BY <1>4, <1>5

\* Tokens, bindings, acknowledgements and renders stay, and no capture comes by a row:
\* one is sent, submitted, refused or rolled back, or none moves at all.
LEMMA CapturesMove ==
  ASSUME LinksInv, capture' \in [Update -> C!Capture],
         opOf' \in [Link -> 0..MaxOperations],
         status' \in [C!Operation -> {"none", "running", "succeeded", "failed"}],
         lock' \in [C!Operation -> Update \cup {NoUpdate}],
         \A u \in Update :
           \/ /\ capture'[u] = capture[u]
              /\ \A o \in C!Operation : lock[o] = u => lock'[o] = u
           \/ /\ capture'[u].at # "locked"
              /\ capture'[u].at = "record" => capture'[u].op \in C!Operation,
         UNCHANGED <<minted, token, bound, acks, looking, found, shown>>, LinkFaults
  PROVE  LinksInv'
<1> USE DEF LinksInv
<1>1. C!TypeOK'
  BY DEF C!TypeOK, LinkFaults
<1>2. C!OwnerWhileFollowed' /\ C!OneAcknowledgement'
  BY DEF C!OwnerWhileFollowed, C!OneAcknowledgement
<1>3. \A k : C!Live(k)' = C!Live(k) /\ Kept(k)' = Kept(k)
  BY DEF C!Live, Kept
<1>4. \A o : C!Authority(o)' = C!Authority(o)
  BY <1>3 DEF C!Authority
<1>5. OneLive' /\ RowsTell' /\ TokensAreBound'
  BY <1>4 DEF OneLive, RowsTell, TokensAreBound
<1>6. OffersAreOwn'
  BY <1>3 DEF OffersAreOwn, Offered
<1>7. RowsHeld'
  BY DEF RowsHeld
<1>8. LookedUpHolds'
  BY <1>4 DEF LookedUpHolds
<1> QED
  BY <1>1, <1>2, <1>5, <1>6, <1>7, <1>8

\* Tokens only fade, and none goes that a live binding needs.
LEMMA TokensFade ==
  ASSUME LinksInv, token' \in [C!Token -> C!Row],
         \A k \in C!Token :
           /\ token'[k].op = token[k].op
           /\ C!Live(k)' => C!Live(k)
           /\ Kept(k) => Kept(k)'
           /\ token'[k].state # "none" => token[k].state # "none"
           /\ token'[k].state = "none" =>
                token[k].state = "none" \/ bound[token[k].op] # "live"
           /\ token'[k].state = "issued" => token'[k].releases = 0
           /\ token'[k].state = "consumed" => token'[k].releases = 1,
         UNCHANGED <<capture, opOf, status, minted, bound, lock, acks, looking, found, shown>>,
         LinkFaults
  PROVE  LinksInv'
<1> USE DEF LinksInv
<1>1. C!TypeOK'
  BY DEF C!TypeOK, LinkFaults
<1>2. C!OwnerWhileFollowed' /\ C!OneAcknowledgement'
  BY DEF C!OwnerWhileFollowed, C!OneAcknowledgement
<1>3. \A o : C!Authority(o)' \subseteq C!Authority(o)
  BY DEF C!Authority
<1>4. OneLive'
  BY <1>3 DEF OneLive
<1>5. RowsTell' /\ TokensAreBound'
  BY DEF RowsTell, TokensAreBound
<1>6. OffersAreOwn'
  <2>1. \A k \in 1..MaxTokens : \A o : Offered(o, k) => Offered(o, k)'
    BY DEF Offered, C!Token
  <2>2. found \in [C!Operation -> 0..MaxTokens] /\ shown \in [C!Operation -> 0..MaxTokens]
    BY DEF C!TypeOK
  <2> QED
    BY <2>1, <2>2, InteractionsAssumption DEF OffersAreOwn
<1>7. RowsHeld'
  BY DEF RowsHeld
<1>8. LookedUpHolds'
  BY <1>3 DEF LookedUpHolds
<1> QED
  BY <1>1, <1>2, <1>4, <1>5, <1>6, <1>7, <1>8

\* The operation's row is taken, and what was looked for is noted.
LEMMA RecordKeeps ==
  ASSUME LinksInv, NEW u \in Update, C!Record(u)
  PROVE  LinksInv'
<1> USE DEF LinksInv
<1> DEFINE o == capture[u].op
           d == [capture[u] EXCEPT !.at = "locked", !.mint = C!Authority(o) = {},
                                   !.ack = acks[o] = 0]
<1>1. /\ capture[u].at = "record" /\ lock[o] = NoUpdate
      /\ lock' = [lock EXCEPT ![o] = u] /\ capture' = [capture EXCEPT ![u] = d]
      /\ UNCHANGED <<opOf, status, minted, token, bound, acks, looking, found, shown, linkFaults>>
  BY DEF C!Record, C!platformVars, C!tokenVars, C!renderVars
<1>2. capture[u] \in C!Capture
  BY DEF C!TypeOK
<1>3. d \in C!Capture
  BY <1>2 DEF C!Capture, C!Stage
<1>4. /\ d.at = "locked" /\ d.op = o
      /\ d.mint = (C!Authority(o) = {}) /\ d.ack = (acks[o] = 0)
  BY <1>2 DEF C!Capture
<1> HIDE DEF d
<1>5. o \in C!Operation
  BY <1>1 DEF RowsHeld
<1>6. C!TypeOK'
  BY <1>1, <1>3, <1>5 DEF C!TypeOK
<1>7. C!OwnerWhileFollowed' /\ C!OneAcknowledgement'
  BY <1>1 DEF C!OwnerWhileFollowed, C!OneAcknowledgement
<1>8. \A k : C!Live(k)' = C!Live(k) /\ Kept(k)' = Kept(k)
  BY <1>1 DEF C!Live, Kept
<1>9. \A p : C!Authority(p)' = C!Authority(p)
  BY <1>1, <1>8 DEF C!Authority
<1>10. OneLive' /\ RowsTell' /\ TokensAreBound' /\ OffersAreOwn'
  BY <1>1, <1>8, <1>9 DEF OneLive, RowsTell, TokensAreBound, OffersAreOwn, Offered
<1>11. capture'[u] = d /\ \A v \in Update : v # u => capture'[v] = capture[v]
  BY <1>1 DEF C!TypeOK
<1>12. RowsHeld'
  <2> SUFFICES ASSUME NEW v \in Update
               PROVE  /\ capture'[v].at \in {"record", "locked"} => capture'[v].op \in C!Operation
                      /\ capture'[v].at = "locked" => lock'[capture'[v].op] = v
    BY DEF RowsHeld
  <2>1. CASE v = u
    BY <2>1, <1>1, <1>4, <1>5, <1>11 DEF C!TypeOK
  <2>2. CASE v # u
    <3>1. capture[v].at = "locked" => capture[v].op # o
      BY <1>1, InteractionsAssumption DEF RowsHeld
    <3> QED
      BY <2>2, <3>1, <1>1, <1>5, <1>11 DEF C!TypeOK, RowsHeld
  <2> QED
    BY <2>1, <2>2
<1>13. LookedUpHolds'
  <2>1. bound[o] = "none" => C!Authority(o) = {}
    BY DEF TokensAreBound, C!Authority, C!Live
  <2>2. /\ d.mint => C!Authority(o) = {}
        /\ d.ack => acks[o] = 0
        /\ bound[o] = "none" => d.mint
    BY <2>1, <1>4
  <2> QED
    BY <2>2, <1>1, <1>4, <1>9, <1>11 DEF LookedUpHolds
<1> QED
  BY <1>6, <1>7, <1>10, <1>12, <1>13

\* The records are written as the row's holder found them missing.
LEMMA CommitKeeps ==
  ASSUME LinksInv, NEW u \in Update, C!Commit(u)
  PROVE  LinksInv'
<1> USE InteractionsAssumption DEF LinksInv
<1> DEFINE o == capture[u].op
           d == [capture[u] EXCEPT !.at = "processed"]
           b == IF bound[o] = "none" THEN "live" ELSE bound[o]
           n == minted + 1
           new == [state |-> "issued", op |-> o, age |-> 0, releases |-> 0]
           a == acks[o] + IF capture[u].ack THEN 1 ELSE 0
<1>1. /\ capture[u].at = "locked"
      /\ lock' = [lock EXCEPT ![o] = NoUpdate] /\ bound' = [bound EXCEPT ![o] = b]
      /\ acks' = [acks EXCEPT ![o] = a] /\ capture' = [capture EXCEPT ![u] = d]
      /\ UNCHANGED <<opOf, status, looking, found, shown, linkFaults>>
  BY DEF C!Commit, C!platformVars, C!renderVars
<1>2. \/ /\ capture[u].mint /\ minted < MaxTokens /\ minted' = n
         /\ token' = [token EXCEPT ![n] = new]
      \/ ~capture[u].mint /\ minted' = minted /\ token' = token
  BY DEF C!Commit, C!tokenVars
<1>3. /\ o \in C!Operation /\ lock[o] = u
      /\ capture[u].mint => C!Authority(o) = {}
      /\ capture[u].ack => acks[o] = 0
      /\ bound[o] = "none" => capture[u].mint
  BY <1>1 DEF RowsHeld, LookedUpHolds
<1>4. capture[u] \in C!Capture /\ minted \in 0..MaxTokens /\ acks[o] \in Nat
  BY <1>3 DEF C!TypeOK
<1>5. d \in C!Capture /\ d.at = "processed"
  BY <1>4 DEF C!Capture, C!Stage
<1>6. b \in {"live", "terminal"} /\ (bound[o] # "none" => b = bound[o])
  BY <1>3 DEF C!TypeOK
<1>7. a \in Nat /\ a <= 1
  BY <1>3, <1>4 DEF C!OneAcknowledgement
<1>8. minted < MaxTokens => n \in C!Token /\ new \in C!Row
  BY <1>3, <1>4, LibraryReadAssumption DEF C!Token, C!Row, C!Operation
<1> HIDE DEF b, d, a
<1>9. C!TypeOK'
  <2>1. minted' \in 0..MaxTokens
    BY <1>2, <1>4
  <2>2. token' \in [C!Token -> C!Row]
    BY <1>2, <1>8 DEF C!TypeOK
  <2>3. capture' \in [Update -> C!Capture] /\ acks' \in [C!Operation -> Nat]
    BY <1>1, <1>5, <1>7 DEF C!TypeOK
  <2>4. bound' \in [C!Operation -> {"none", "live", "terminal"}]
    BY <1>1, <1>6 DEF C!TypeOK
  <2>5. lock' \in [C!Operation -> Update \cup {NoUpdate}]
    BY <1>1 DEF C!TypeOK
  <2> QED
    BY <2>1, <2>2, <2>3, <2>4, <2>5, <1>1 DEF C!TypeOK
\* What becomes of the tokens: nothing, or one more that is the operation's.
<1>10. \A k \in C!Token :
          \/ token'[k] = token[k]
          \/ capture[u].mint /\ k = n /\ minted' = n /\ token[k].state = "none" /\ token'[k] = new
  <2>1. minted < MaxTokens => n \in C!Token /\ token[n].state = "none"
    BY <1>4, <1>8 DEF RowsTell
  <2> QED
    BY <1>2, <2>1 DEF C!TypeOK
<1>11. minted <= minted' /\ (capture[u].mint => minted' = n)
  BY <1>2, <1>4
<1>12. capture[u].mint => n \in C!Token /\ token'[n] = new
  BY <1>2, <1>8 DEF C!TypeOK
<1>13. new.state = "issued" /\ new.op = o /\ new.releases = 0 /\ new.age = 0
  OBVIOUS
<1> HIDE DEF new
<1>14. \A p \in C!Operation : bound'[p] = IF p = o THEN b ELSE bound[p]
  BY <1>1, <1>3 DEF C!TypeOK
<1>15. C!OwnerWhileFollowed'
  <2> SUFFICES ASSUME NEW p \in C!Operation, bound'[p] = "live"
               PROVE  \E k \in C!Token : token'[k].op = p /\ token'[k].state # "none"
    BY DEF C!OwnerWhileFollowed
  <2>1. CASE bound[p] = "live"
    <3>1. PICK k \in C!Token : token[k].op = p /\ token[k].state # "none"
      BY <2>1 DEF C!OwnerWhileFollowed
    <3>2. token'[k] = token[k]
      BY <3>1, <1>10
    <3> QED
      BY <3>1, <3>2
  <2>2. CASE bound[p] # "live"
    <3>1. p = o /\ bound[o] = "none"
      BY <2>2, <1>14, <1>6
    <3> QED
      BY <3>1, <1>3, <1>12, <1>13
  <2> QED
    BY <2>1, <2>2
<1>16. C!OneAcknowledgement'
  BY <1>1, <1>3, <1>7 DEF C!OneAcknowledgement, C!TypeOK
<1>17. \A p : \A k \in C!Authority(p)' :
          \/ k \in C!Authority(p) /\ (p = o => ~capture[u].mint)
          \/ p = o /\ k = n /\ capture[u].mint
  <2> SUFFICES ASSUME NEW p, NEW k \in C!Token, token'[k].op = p, C!Live(k)'
               PROVE  \/ k \in C!Authority(p) /\ (p = o => ~capture[u].mint)
                      \/ p = o /\ k = n /\ capture[u].mint
    BY DEF C!Authority
  <2>1. CASE token'[k] = token[k]
    <3>1. k \in C!Authority(p)
      BY <2>1 DEF C!Authority, C!Live
    <3> QED
      BY <3>1, <1>3
  <2>2. CASE token'[k] # token[k]
    BY <2>2, <1>10, <1>13
  <2> QED
    BY <2>1, <2>2
<1>18. OneLive'
  BY <1>17 DEF OneLive
<1>19. RowsTell'
  <2> SUFFICES ASSUME NEW k \in C!Token
               PROVE  /\ token'[k].state # "none" => k <= minted'
                      /\ token'[k].state = "issued" => token'[k].releases = 0
                      /\ token'[k].state = "consumed" => token'[k].releases = 1
    BY DEF RowsTell
  <2>1. CASE token'[k] = token[k]
    BY <2>1, <1>4, <1>2 DEF RowsTell, C!Token
  <2>2. CASE token'[k] # token[k]
    BY <2>2, <1>4, <1>10, <1>13
  <2> QED
    BY <2>1, <2>2
<1>20. TokensAreBound'
  BY <1>3, <1>6, <1>10, <1>13, <1>14 DEF TokensAreBound
<1>21. \A k \in 1..MaxTokens : \A p : Offered(p, k) => Offered(p, k)'
  <2> SUFFICES ASSUME NEW k \in 1..MaxTokens, NEW p, Offered(p, k) PROVE Offered(p, k)'
    OBVIOUS
  <2>1. k <= minted /\ k <= minted'
    BY <1>2, <1>4 DEF Offered
  <2>2. token'[k] = token[k]
    BY <2>1, <1>4, <1>10 DEF C!Token
  <2> QED
    BY <2>1, <2>2 DEF Offered, Kept, C!Live
<1>22. OffersAreOwn'
  <2>1. found \in [C!Operation -> 0..MaxTokens] /\ shown \in [C!Operation -> 0..MaxTokens]
    BY DEF C!TypeOK
  <2> QED
    BY <2>1, <1>1, <1>21 DEF OffersAreOwn
<1>23. capture'[u] = d /\ \A v \in Update : v # u => capture'[v] = capture[v]
  BY <1>1 DEF C!TypeOK
<1>24. \A v \in Update : capture'[v].at = "locked" =>
          v # u /\ capture[v].at = "locked" /\ capture[v].op # o
  BY <1>3, <1>5, <1>23 DEF RowsHeld
<1>25. RowsHeld'
  <2>1. \A v \in Update : capture'[v].at = "record" => v # u
    BY <1>5, <1>23
  <2>2. \A p \in C!Operation : p # o => lock'[p] = lock[p]
    BY <1>1 DEF C!TypeOK
  <2> QED
    BY <2>1, <2>2, <1>23, <1>24 DEF RowsHeld
<1>26. LookedUpHolds'
  <2> SUFFICES ASSUME NEW v \in Update, capture'[v].at = "locked"
               PROVE  LET p == capture'[v].op
                      IN  /\ capture'[v].mint => {k \in C!Token : token'[k].op = p /\ C!Live(k)'} = {}
                          /\ capture'[v].ack => acks'[p] = 0
                          /\ bound'[p] = "none" => capture'[v].mint
    BY DEF LookedUpHolds, C!Authority
  <2> DEFINE p == capture[v].op
  <2>1. capture'[v] = capture[v] /\ p \in C!Operation /\ p # o /\ capture[v].at = "locked"
    BY <1>23, <1>24 DEF RowsHeld
  <2> DEFINE left == {k \in C!Token : token'[k].op = p /\ C!Live(k)'}
  <2>2. left \subseteq C!Authority(p)
    BY <2>1, <1>10, <1>13 DEF C!Authority, C!Live
  <2>3. acks'[p] = acks[p] /\ bound'[p] = bound[p]
    BY <2>1, <1>1 DEF C!TypeOK
  <2>4. /\ capture[v].mint => C!Authority(p) = {}
        /\ capture[v].ack => acks[p] = 0
        /\ bound[p] = "none" => capture[v].mint
    BY <2>1 DEF LookedUpHolds
  <2>5. capture[v].mint => left = {}
    BY <2>2, <2>4
  <2>6. capture'[v].op = p
    BY <2>1
  <2> HIDE DEF p
  <2> QED
    BY <2>1, <2>3, <2>4, <2>5, <2>6
<1> QED
  BY <1>9, <1>15, <1>16, <1>18, <1>19, <1>20, <1>22, <1>25, <1>26

\* Renders take what is live, and take nothing else with them.
LEMMA RendersKeep ==
  ASSUME LinksInv,
         status' \in [C!Operation -> {"none", "running", "succeeded", "failed"}],
         looking' \subseteq C!Operation,
         found' \in [C!Operation -> 0..MaxTokens], shown' \in [C!Operation -> 0..MaxTokens],
         bound' \in [C!Operation -> {"none", "live", "terminal"}],
         \A o \in C!Operation : /\ bound'[o] = bound[o] \/ bound'[o] = "terminal"
                                /\ found'[o] # 0 => Offered(o, found'[o])
                                /\ shown'[o] # 0 => Offered(o, shown'[o]),
         UNCHANGED <<capture, opOf, minted, token, lock, acks>>, LinkFaults
  PROVE  LinksInv'
<1> USE DEF LinksInv
<1>1. C!TypeOK'
  BY DEF C!TypeOK, LinkFaults
<1>2. C!OwnerWhileFollowed' /\ C!OneAcknowledgement'
  BY DEF C!OwnerWhileFollowed, C!OneAcknowledgement
<1>3. \A o : C!Authority(o)' = C!Authority(o)
  BY DEF C!Authority, C!Live
<1>4. OneLive' /\ RowsTell' /\ TokensAreBound' /\ RowsHeld'
  BY <1>3 DEF OneLive, RowsTell, TokensAreBound, RowsHeld
<1>5. LookedUpHolds'
  BY <1>3 DEF LookedUpHolds, RowsHeld
<1>6. OffersAreOwn'
  BY DEF OffersAreOwn, Offered, Kept, C!Live
<1> QED
  BY <1>1, <1>2, <1>4, <1>5, <1>6

LEMMA LookKeeps ==
  ASSUME LinksInv, NEW o \in C!Operation, C!Look(o)
  PROVE  LinksInv'
<1> USE DEF LinksInv
<1> DEFINE k == IF C!Authority(o) = {} THEN 0
                ELSE CHOOSE k \in C!Authority(o) : \A j \in C!Authority(o) : j <= k
<1>1. k # 0 => k \in C!Authority(o)
  <2> SUFFICES ASSUME C!Authority(o) # {} PROVE k \in C!Authority(o)
    OBVIOUS
  <2>1. PICK i \in C!Authority(o) : \A j \in C!Authority(o) : j = i
    BY DEF OneLive
  <2>2. i \in Nat
    BY DEF C!Authority, C!Token
  <2>3. \E m \in C!Authority(o) : \A j \in C!Authority(o) : j <= m
    BY <2>1, <2>2
  <2> QED
    BY <2>3, Zenon
<1>2. /\ looking' = looking \cup {o} /\ found' = [found EXCEPT ![o] = k]
      /\ UNCHANGED <<capture, opOf, status, minted, token, bound, lock, acks, shown, linkFaults>>
  BY DEF C!Look, C!platformVars, C!tokenVars
<1> HIDE DEF k
<1>3. k # 0 => k \in C!Token /\ Offered(o, k)
  BY <1>1 DEF C!Authority, Offered, Kept, RowsTell, C!Live
<1>4. /\ found \in [C!Operation -> 0..MaxTokens] /\ looking \subseteq C!Operation
      /\ \A p \in C!Operation : /\ found[p] # 0 => Offered(p, found[p])
                                /\ shown[p] # 0 => Offered(p, shown[p])
  BY DEF C!TypeOK, OffersAreOwn
<1>5. found' \in [C!Operation -> 0..MaxTokens]
  BY <1>2, <1>3, <1>4, InteractionsAssumption DEF C!Token
<1>6. \A p \in C!Operation : found'[p] # 0 => Offered(p, found'[p])
  BY <1>2, <1>3, <1>4
<1> QED
  BY <1>2, <1>4, <1>5, <1>6, RendersKeep DEF C!TypeOK, LinkFaults

LEMMA ProjectKeeps ==
  ASSUME LinksInv, NEW o \in C!Operation, C!Project(o)
  PROVE  LinksInv'
<1> USE DEF LinksInv
<1> DEFINE k == IF status[o] = "succeeded" THEN found[o] ELSE 0
<1>1. /\ looking' = looking \ {o} /\ shown' = [shown EXCEPT ![o] = k]
      /\ bound' = [bound EXCEPT ![o] = "terminal"]
      /\ UNCHANGED <<capture, opOf, status, minted, token, lock, acks, found, linkFaults>>
  BY DEF C!Project, C!platformVars, C!tokenVars
<1>2. /\ shown \in [C!Operation -> 0..MaxTokens] /\ looking \subseteq C!Operation
      /\ found \in [C!Operation -> 0..MaxTokens]
      /\ bound \in [C!Operation -> {"none", "live", "terminal"}]
      /\ \A p \in C!Operation : /\ found[p] # 0 => Offered(p, found[p])
                                /\ shown[p] # 0 => Offered(p, shown[p])
  BY DEF C!TypeOK, OffersAreOwn
<1>3. k \in 0..MaxTokens /\ (k # 0 => Offered(o, k))
  BY <1>2, InteractionsAssumption
<1> HIDE DEF k
<1>4. shown' \in [C!Operation -> 0..MaxTokens]
  BY <1>1, <1>2, <1>3
<1>5. \A p \in C!Operation : /\ bound'[p] = bound[p] \/ bound'[p] = "terminal"
                             /\ shown'[p] # 0 => Offered(p, shown'[p])
  BY <1>1, <1>2, <1>3
<1>6. bound' \in [C!Operation -> {"none", "live", "terminal"}]
  BY <1>1, <1>2
<1> QED
  BY <1>1, <1>2, <1>4, <1>5, <1>6, RendersKeep DEF C!TypeOK, LinkFaults

LEMMA LinksStep == LinksInv /\ [C!Next]_(C!vars) => LinksInv'
<1> SUFFICES ASSUME LinksInv, [C!Next]_(C!vars) PROVE LinksInv'
  OBVIOUS
<1> USE LibraryReadAssumption, InteractionsAssumption
    DEF C!platformVars, C!tokenVars, C!renderVars
<1>0. LinksInv /\ C!TypeOK
  BY DEF LinksInv
<1>1. ASSUME NEW u \in Update, NEW c, c \in C!Capture, capture' = [capture EXCEPT ![u] = c],
             c.at # "locked", c.at = "record" => c.op \in C!Operation,
             opOf' \in [Link -> 0..MaxOperations],
             status' \in [C!Operation -> {"none", "running", "succeeded", "failed"}],
             \/ lock' = lock
             \/ lock' = [o \in C!Operation |-> IF lock[o] = u THEN NoUpdate ELSE lock[o]],
             UNCHANGED <<minted, token, bound, acks, looking, found, shown>>, LinkFaults
      PROVE  LinksInv'
  <2>1. lock' \in [C!Operation -> Update \cup {NoUpdate}]
    BY <1>0, <1>1 DEF C!TypeOK
  <2>2. capture' \in [Update -> C!Capture]
    BY <1>0, <1>1 DEF C!TypeOK
  <2>3. \A v \in Update : capture'[v] = IF v = u THEN c ELSE capture[v]
    BY <1>0, <1>1 DEF C!TypeOK
  <2>4. \A v \in Update : v # u =>
          /\ capture'[v] = capture[v]
          /\ \A o \in C!Operation : lock[o] = v => lock'[o] = v
    BY <2>3, <1>1
  <2> QED
    BY <2>1, <2>2, <2>3, <2>4, <1>0, <1>1, CapturesMove
<1>2. ASSUME NEW u \in Update, C!Send(u) PROVE LinksInv'
  <2>1. PICK l \in Link : capture' = [capture EXCEPT ![u].at = "submit", ![u].link = l]
    BY <1>2 DEF C!Send
  <2> DEFINE c == [capture[u] EXCEPT !.at = "submit", !.link = l]
  <2>2. capture' = [capture EXCEPT ![u] = c]
    BY <2>1
  <2>3. capture[u] \in C!Capture
    BY <1>0 DEF C!TypeOK
  <2>4. c \in C!Capture /\ c.at = "submit"
    BY <2>3 DEF C!Capture, C!Stage
  <2> HIDE DEF c
  <2> QED
    BY <2>2, <2>4, <1>0, <1>1, <1>2 DEF C!Send, C!TypeOK, LinkFaults
<1>3. ASSUME NEW u \in Update, C!Submit(u) PROVE LinksInv'
  <2>1. PICK l \in Link : l = capture[u].link
    BY <1>0 DEF C!TypeOK, C!Capture
  <2>2. C!Accept(l)
    BY <2>1, <1>3 DEF C!Submit
  <2>3. /\ opOf' \in [Link -> 0..MaxOperations] /\ opOf'[l] \in C!Operation
        /\ status' \in [C!Operation -> {"none", "running", "succeeded", "failed"}]
    BY <2>2, <1>0, AcceptTyped
  <2> DEFINE c == [capture[u] EXCEPT !.at = "record", !.op = opOf'[l]]
  <2>4. capture' = [capture EXCEPT ![u] = c]
    BY <1>3, <2>1 DEF C!Submit
  <2>5. capture[u] \in C!Capture
    BY <1>0 DEF C!TypeOK
  <2>6. c \in C!Capture /\ c.at = "record" /\ c.op \in C!Operation
    BY <2>3, <2>5 DEF C!Capture, C!Stage, C!Operation
  <2> HIDE DEF c
  <2> QED
    BY <2>3, <2>4, <2>6, <1>0, <1>1, <1>3 DEF C!Submit, C!TypeOK, LinkFaults
<1>4. ASSUME NEW u \in Update, C!Refuse(u) PROVE LinksInv'
  <2>1. capture[u] \in C!Capture /\ capture[u].link \in Link
    BY <1>0 DEF C!TypeOK, C!Capture
  <2>2. /\ opOf' \in [Link -> 0..MaxOperations]
        /\ status' \in [C!Operation -> {"none", "running", "succeeded", "failed"}]
    BY <2>1, <1>0, <1>4, AcceptTyped DEF C!Refuse, C!TypeOK
  <2> DEFINE c == [capture[u] EXCEPT !.at = "refused"]
  <2>3. capture' = [capture EXCEPT ![u] = c]
    BY <1>4 DEF C!Refuse
  <2>4. c \in C!Capture /\ c.at = "refused"
    BY <2>1 DEF C!Capture, C!Stage
  <2>5. LinkFaults
    BY <1>0, <1>4 DEF C!Refuse, C!Fail, C!TypeOK, LinkFaults
  <2> HIDE DEF c
  <2> QED
    BY <2>2, <2>3, <2>4, <2>5, <1>0, <1>1, <1>4 DEF C!Refuse
<1>5. ASSUME NEW u \in Update, C!Rollback(u) PROVE LinksInv'
  <2>1. capture[u] \in C!Capture
    BY <1>0 DEF C!TypeOK
  <2> DEFINE c == [capture[u] EXCEPT !.at = "submit", !.op = 0]
  <2>2. capture' = [capture EXCEPT ![u] = c]
    BY <1>5 DEF C!Rollback
  <2> DEFINE back == [capture[u] EXCEPT !.at = "submit"]
  <2>3. back \in C!Capture /\ back.at = "submit" /\ c = [back EXCEPT !.op = 0]
    BY <2>1 DEF C!Capture, C!Stage
  <2> HIDE DEF back, c
  <2>4. c \in C!Capture /\ c.at = "submit"
    BY <2>3 DEF C!Capture
  <2>5. LinkFaults
    BY <1>0, <1>5 DEF C!Rollback, C!Fail, C!TypeOK, LinkFaults
  <2> QED
    BY <2>2, <2>3, <2>4, <2>5, <1>0, <1>1, <1>5 DEF C!Rollback, C!TypeOK
<1>6. ASSUME NEW o \in C!Operation, C!End(o) PROVE LinksInv'
  <2>1. status' \in [C!Operation -> {"none", "running", "succeeded", "failed"}]
    BY <1>0, <1>6 DEF C!End, C!TypeOK
  <2> QED
    BY <2>1, <1>0, <1>6, RendersKeep DEF C!End, C!TypeOK, LinkFaults, LinksInv, OffersAreOwn
<1>7. ASSUME NEW o \in C!Operation, C!ProjectFails(o) PROVE LinksInv'
  <2>1. LinkFaults /\ looking' \subseteq C!Operation
    BY <1>0, <1>7 DEF C!ProjectFails, C!Fail, C!TypeOK, LinkFaults
  <2> QED
    BY <2>1, <1>0, <1>7, RendersKeep DEF C!ProjectFails, C!TypeOK, LinksInv, OffersAreOwn
<1>8. ASSUME NEW k \in C!Token, C!Open(k) PROVE LinksInv'
  <2> DEFINE t == [token[k] EXCEPT !.state = "consumed", !.releases = @ + 1]
  <2>1. /\ token' = [token EXCEPT ![k] = t] /\ token[k] \in C!Row /\ C!Live(k)
        /\ token[k].releases = 0
    BY <1>0, <1>8 DEF C!Open, C!TypeOK, C!Live, LinksInv, RowsTell
  <2>2. /\ t \in C!Row /\ t.state = "consumed" /\ t.releases = 1 /\ t.op = token[k].op
        /\ t.age = token[k].age
    <3> DEFINE spent == [token[k] EXCEPT !.state = "consumed"]
    <3>1. /\ spent \in C!Row /\ spent.state = "consumed" /\ spent.releases = 0
          /\ spent.op = token[k].op /\ spent.age = token[k].age
      BY <2>1 DEF C!Row
    <3>2. t = [spent EXCEPT !.releases = @ + 1]
      BY <2>1 DEF C!Row
    <3> HIDE DEF spent, t
    <3>3. t \in C!Row /\ t.releases = 1
      BY <3>1, <3>2 DEF C!Row
    <3> QED
      BY <3>1, <3>2, <3>3 DEF C!Row
  <2> HIDE DEF t
  <2>3. token' \in [C!Token -> C!Row]
    BY <2>1, <2>2, <1>0 DEF C!TypeOK
  <2>4. \A j \in C!Token : token'[j] = IF j = k THEN t ELSE token[j]
    BY <2>1, <1>0 DEF C!TypeOK
  <2>5. LinkFaults
    BY <1>0, <1>8 DEF C!Open, C!TypeOK, LinkFaults
  <2> QED
    BY <2>1, <2>2, <2>3, <2>4, <2>5, <1>0, <1>8, TokensFade
    DEF C!Open, C!Live, Kept, LinksInv, RowsTell
<1>9. ASSUME NEW k \in C!Token, C!Cleanup(k) PROVE LinksInv'
  <2> DEFINE t == [token[k] EXCEPT !.state = "none"]
  <2>1. /\ token' = [token EXCEPT ![k] = t] /\ token[k] \in C!Row
        /\ bound[token[k].op] # "live"
        /\ token[k].releases = 1 \/ token[k].age = Ttl
        /\ token[k].state # "none"
    BY <1>0, <1>9 DEF C!Cleanup, C!Removable, C!TypeOK, LinksInv, RowsTell
  <2>2. /\ t \in C!Row /\ t.state = "none" /\ t.releases = token[k].releases
        /\ t.op = token[k].op /\ t.age = token[k].age
    BY <2>1 DEF C!Row
  <2> HIDE DEF t
  <2>3. token' \in [C!Token -> C!Row]
    BY <2>1, <2>2, <1>0 DEF C!TypeOK
  <2>4. \A j \in C!Token : token'[j] = IF j = k THEN t ELSE token[j]
    BY <2>1, <1>0 DEF C!TypeOK
  <2>5. LinkFaults
    BY <1>0, <1>9 DEF C!Cleanup, C!TypeOK, LinkFaults
  <2> QED
    BY <2>1, <2>2, <2>3, <2>4, <2>5, <1>0, <1>9, TokensFade
    DEF C!Cleanup, C!Live, Kept, LinksInv, RowsTell
<1>10. CASE C!Tick
  <2>1. \A k \in C!Token :
          \/ token'[k] = token[k]
          \/ /\ token[k].age < Ttl
             /\ token'[k] = [token[k] EXCEPT !.age = @ + 1]
    BY <1>10 DEF C!Tick, C!Aging
  <2>2. \A k \in C!Token : token[k] \in C!Row
    BY <1>0 DEF C!TypeOK
  <2>3. \A k \in C!Token :
          /\ token'[k] \in C!Row /\ token'[k].state = token[k].state
          /\ token'[k].op = token[k].op /\ token'[k].releases = token[k].releases
          /\ token'[k].age = token[k].age \/ (token[k].age < Ttl /\ token'[k].age = token[k].age + 1)
    <3> SUFFICES ASSUME NEW k \in C!Token, NEW t, t \in C!Row, t = token[k]
                 PROVE  /\ token'[k] \in C!Row /\ token'[k].state = t.state
                        /\ token'[k].op = t.op /\ token'[k].releases = t.releases
                        /\ token'[k].age = t.age \/ (t.age < Ttl /\ token'[k].age = t.age + 1)
      BY <2>2
    <3>1. token'[k] = t \/ (t.age < Ttl /\ token'[k] = [t EXCEPT !.age = @ + 1])
      BY <2>1
    <3>2. CASE token'[k] = t
      BY <3>2
    <3>3. CASE t.age < Ttl /\ token'[k] = [t EXCEPT !.age = @ + 1]
      BY <3>3 DEF C!Row
    <3> QED
      BY <3>1, <3>2, <3>3
  <2>4. token' \in [C!Token -> C!Row]
    BY <2>3, <1>10 DEF C!Tick
  <2>5. \A k \in C!Token : token[k].age \in 0..Ttl
    BY <2>2 DEF C!Row
  <2>6. LinkFaults
    BY <1>0, <1>10 DEF C!Tick, C!TypeOK, LinkFaults
  <2>7. \A k \in C!Token : (C!Live(k)' => C!Live(k)) /\ (Kept(k) => Kept(k)')
    BY <2>3, <2>5 DEF C!Live, Kept
  <2>8. \A k \in C!Token :
          /\ token'[k].state = "issued" => token'[k].releases = 0
          /\ token'[k].state = "consumed" => token'[k].releases = 1
    BY <2>3, <1>0 DEF LinksInv, RowsTell
  <2> QED
    BY <2>3, <2>4, <2>6, <2>7, <2>8, <1>0, <1>10, TokensFade DEF C!Tick
<1>11. CASE UNCHANGED C!vars
  BY <1>0, <1>11, RendersKeep DEF C!vars, C!TypeOK, LinkFaults, LinksInv, OffersAreOwn
<1> QED
  BY <1>0, <1>2, <1>3, <1>4, <1>5, <1>6, <1>7, <1>8, <1>9, <1>10, <1>11,
     RecordKeeps, CommitKeeps, LookKeeps, ProjectKeeps
  DEF C!Next, C!CaptureStep, C!RenderStep

\* Whatever races, repeats or fails, the inductive invariant holds of the links: what
\* a capture looked for under the lock is true when it writes
\* (record_accepted_capture_projection, cleanup_interactions).
THEOREM LinksInvariance == C!Spec => []LinksInv
  BY LinksInit, LinksStep, PTL DEF C!Spec

\* An operation has one acknowledgement and one live link, which names its owner as
\* long as that is needed and works as long as it is shown
\* (record_accepted_capture_projection, cleanup_interactions).
THEOREM LinksKept == C!Spec => []LinksAreKept
<1>1. LinksInv => LinksAreKept
  <2> SUFFICES ASSUME LinksInv PROVE LinksAreKept
    OBVIOUS
  <2> USE DEF LinksInv
  <2>1. C!OneLiveIntent
    <3> SUFFICES ASSUME NEW o \in C!Operation PROVE Cardinality(C!Authority(o)) <= 1
      BY DEF C!OneLiveIntent, C!Cardinality, Cardinality
    <3>1. CASE C!Authority(o) = {}
      BY <3>1, FS_EmptySet
    <3>2. CASE C!Authority(o) # {}
      <4>1. PICK k \in C!Authority(o) : C!Authority(o) = {k}
        BY <3>2 DEF OneLive
      <4> QED
        BY <4>1, FS_Singleton
    <3> QED
      BY <3>1, <3>2
  <2>2. C!ShownLinkHolds
    BY DEF OffersAreOwn, Offered, Kept, C!ShownLinkHolds
  <2> QED
    BY <2>1, <2>2 DEF LinksAreKept, C!LinksAreKept
<1> QED
  BY <1>1, LinksInvariance, PTL

-----------------------------------------------------------------------------
(* Platform sessions (S) *)

\* At most one caller of a process exchanges.
LockHeld ==
  \A c \in Caller : call[c].at \in {"recheck", "mint", "insert"} => mutex[Home[c]] = c

\* What a caller holds, has tried or finds in the cache was minted, and is of its sender.
Minted ==
  /\ \A c \in Caller :
       /\ call[c].held <= sessions /\ \A k \in call[c].tried : k <= sessions /\ k # 0
       /\ call[c].at \in {"insert", "hook", "use", "rejected"} => call[c].held # 0
       /\ call[c].at = "idle" => call[c].tried = {}
  /\ \A p \in Process, a \in Actor :
       /\ cache[p][a] <= sessions
       /\ cache[p][a] # 0 => session[cache[p][a]].subject = a

\* A session is its minter's alone until it is in the cache.
InsertIsNew ==
  \A c \in Caller : call[c].at = "insert" =>
    /\ \A p \in Process, a \in Actor : cache[p][a] # call[c].held
    /\ \A d \in Caller : call[c].held \notin call[d].tried /\ (d # c => call[d].held # call[c].held)

\* The cache may have what a caller has tried only before the caller has dropped it.
TriedIsOut ==
  \A c \in Caller :
    /\ call[c].at \in {"look", "queue", "recheck", "mint", "insert", "hook", "use"} =>
         S!Cached(c) \notin call[c].tried
    /\ call[c].at \in {"insert", "hook", "use"} => call[c].held \notin call[c].tried
    /\ call[c].at = "rejected" => S!Cached(c) \notin call[c].tried \ {call[c].held}

\* An exchange goes on because there is no fresh session, a rejection comes of a dead one.
NeedHolds ==
  \A c \in Caller :
    /\ call[c].at \in {"mint", "insert"} => ~S!Fresh(S!Cached(c))
    /\ call[c].at = "rejected" => ~S!Alive(call[c].held)

SessionsInv == /\ S!TypeOK /\ S!OwnSession
               /\ LockHeld /\ Minted /\ InsertIsNew /\ TriedIsOut /\ NeedHolds

LEMMA SessionsInit == S!Init => SessionsInv
<1> SUFFICES ASSUME S!Init PROVE SessionsInv
  OBVIOUS
<1> USE LibraryReadAssumption, InteractionsAssumption DEF S!Init
<1>1. PICK subject \in [Caller -> Actor] :
        call = [c \in Caller |-> [at |-> "idle", subject |-> subject[c], held |-> 0,
                                  round |-> 1, tried |-> {}]]
  OBVIOUS
<1>2. \A c \in Caller : call[c].at = "idle" /\ call[c].held = 0 /\ call[c].tried = {}
  BY <1>1
<1>3. S!TypeOK
  BY <1>1 DEF S!TypeOK, S!Session, S!Credential, S!CallState, S!Stage
<1>4. S!OwnSession
  BY <1>2 DEF S!OwnSession
<1>5. LockHeld /\ Minted /\ InsertIsNew /\ TriedIsOut /\ NeedHolds
  BY <1>2 DEF LockHeld, Minted, InsertIsNew, TriedIsOut, NeedHolds
<1> QED
  BY <1>3, <1>4, <1>5 DEF SessionsInv

\* A stale credential stays stale, a dead one dead, and what was minted is kept.
Older ==
  /\ clock' \in 0..SessionTime /\ clock <= clock'
  /\ account' \in [Actor -> User]
  /\ sessions' = sessions
  /\ session' \in [1..MaxSessions -> S!Session]
  /\ \A k \in 1..MaxSessions :
       /\ session'[k].user = session[k].user /\ session'[k].subject = session[k].subject
       /\ session'[k].expires = session[k].expires
       /\ session[k].revoked => session'[k].revoked
  /\ sessionFaults' \in 0..SessionFaults

LEMMA StaleStays ==
  ASSUME S!TypeOK, Older, NEW k \in 1..MaxSessions
  PROVE  /\ S!Fresh(k)' => S!Fresh(k)
         /\ S!Alive(k)' => S!Alive(k)
<1>1. clock \in Nat /\ clock' \in Nat /\ clock <= clock' /\ session'[k].expires = session[k].expires
  BY DEF S!TypeOK, Older
<1>2. session[k] \in S!Session
  BY DEF S!TypeOK
<1>3. session[k].expires \in Nat /\ session[k].revoked \in BOOLEAN
  BY <1>2 DEF S!Session
<1>4. session'[k] \in S!Session /\ (session[k].revoked => session'[k].revoked)
  BY DEF Older
<1>5. session'[k].revoked \in BOOLEAN
  BY <1>4 DEF S!Session
<1> QED
  BY <1>1, <1>3, <1>4, <1>5, InteractionsAssumption DEF S!Fresh, S!Alive

\* Platform and the clock.
LEMMA WorldMoves ==
  ASSUME SessionsInv, Older, UNCHANGED <<cache, mutex, binding, call>>
  PROVE  SessionsInv'
<1> USE DEF SessionsInv
<1>1. S!TypeOK'
  BY DEF S!TypeOK, Older
<1>2. LockHeld' /\ Minted' /\ InsertIsNew'
  <2>1. \A k \in S!Credential : k # 0 => session'[k].subject = session[k].subject
    BY InteractionsAssumption DEF Older, S!Credential
  <2>2. \A p \in Process, a \in Actor : cache[p][a] \in S!Credential
    BY DEF S!TypeOK
  <2> QED
    BY <2>1, <2>2 DEF LockHeld, Minted, InsertIsNew, Older
<1>3. TriedIsOut'
  BY DEF TriedIsOut, S!Cached
<1>4. S!OwnSession'
  <2>1. \A k \in S!Credential : k # 0 => session'[k].subject = session[k].subject
    BY InteractionsAssumption DEF Older, S!Credential
  <2>2. \A c \in Caller : call[c].held \in S!Credential
    BY DEF S!TypeOK, S!CallState
  <2>3. 1..sessions \subseteq 1..MaxSessions
    BY InteractionsAssumption DEF S!TypeOK
  <2> QED
    BY <2>1, <2>2, <2>3 DEF S!OwnSession, Older
<1>5. NeedHolds'
  <2> SUFFICES ASSUME NEW c \in Caller
               PROVE  /\ call[c].at \in {"mint", "insert"} => ~S!Fresh(S!Cached(c))'
                      /\ call[c].at = "rejected" => ~S!Alive(call[c].held)'
    BY DEF NeedHolds
  <2>1. PICK n \in S!Credential : n = S!Cached(c)
    BY InteractionsAssumption DEF S!TypeOK, S!Cached, S!CallState
  <2>2. PICK h \in S!Credential : h = call[c].held
    BY DEF S!TypeOK, S!CallState
  <2>3. call[c].at = "rejected" => h # 0
    BY <2>2 DEF Minted
  <2>4. S!Fresh(n)' => S!Fresh(n)
    <3>1. CASE n = 0
      BY <3>1 DEF S!Fresh
    <3>2. CASE n # 0
      <4>1. n \in 1..MaxSessions
        BY <3>2, InteractionsAssumption DEF S!Credential
      <4> QED
        BY <4>1, StaleStays
    <3> QED
      BY <3>1, <3>2
  <2>5. h # 0 => (S!Alive(h)' => S!Alive(h))
    <3> SUFFICES ASSUME h # 0 PROVE S!Alive(h)' => S!Alive(h)
      OBVIOUS
    <3>1. h \in 1..MaxSessions
      BY InteractionsAssumption DEF S!Credential
    <3> QED
      BY <3>1, StaleStays
  <2>6. S!Cached(c)' = n /\ call'[c].held = h
    BY <2>1, <2>2 DEF S!Cached
  <2>7. call[c].at \in {"mint", "insert"} => ~S!Fresh(n)
    BY <2>1 DEF NeedHolds
  <2>8. call[c].at = "rejected" => ~S!Alive(h)
    BY <2>2 DEF NeedHolds
  <2> QED
    BY <2>3, <2>4, <2>5, <2>6, <2>7, <2>8 DEF S!Fresh, S!Alive
<1> QED
  BY <1>1, <1>2, <1>3, <1>4, <1>5

Entry(c) == cache'[Home[c]][call[c].subject]

Bindings == \A a \in Actor : binding[a] # None =>
              \E k \in 1..sessions : session[k].subject = a /\ session[k].user = binding[a]

\* A caller goes on without a new session: it takes what the cache has, notes what was
\* rejected, drops an entry, binds its sender or gives up.
LEMMA CallerMoves ==
  ASSUME SessionsInv, NEW c \in Caller, NEW d \in S!CallState, call' = [call EXCEPT ![c] = d],
         UNCHANGED <<clock, account, sessions, session>>,
         cache' \in [Process -> [Actor -> S!Credential]],
         \A p \in Process, a \in Actor : cache'[p][a] \in {cache[p][a], 0},
         mutex' \in [Process -> Caller \cup {None}],
         \A p \in Process : mutex'[p] = mutex[p] \/ mutex[p] \in {c, None},
         binding' \in [Actor -> User \cup {None}], Bindings',
         sessionFaults' \in 0..SessionFaults,
         d.subject = call[c].subject, d.at \notin {"idle", "insert"},
         d.held \in {call[c].held, S!Cached(c)},
         \/ d.tried = call[c].tried
         \/ call[c].held # 0 /\ d.tried = call[c].tried \cup {call[c].held},
         d.at \in {"recheck", "mint"} => mutex'[Home[c]] = c,
         d.at \in {"hook", "use", "rejected"} => d.held # 0,
         d.at \in {"look", "queue", "recheck", "mint", "hook", "use"} => Entry(c) \notin d.tried,
         d.at \in {"hook", "use"} => d.held \notin d.tried,
         d.at = "rejected" => Entry(c) \notin d.tried \ {d.held} /\ ~S!Alive(d.held),
         d.at = "mint" => ~S!Fresh(Entry(c))
  PROVE  SessionsInv'
<1> USE InteractionsAssumption DEF SessionsInv
<1>1. \A x \in Caller : call'[x] = IF x = c THEN d ELSE call[x]
  BY DEF S!TypeOK
<1>2. S!TypeOK'
  BY DEF S!TypeOK
<1>3. /\ \A x \in Caller : Home[x] \in Process /\ call[x].subject \in Actor
      /\ \A p \in Process, a \in Actor : cache[p][a] \in Nat
      /\ sessions \in Nat
  <2>1. \A x \in Caller : call[x] \in S!CallState
    BY DEF S!TypeOK
  <2>2. \A p \in Process, a \in Actor : cache[p][a] \in S!Credential
    BY DEF S!TypeOK
  <2>3. \A x \in Caller : call[x].subject \in Actor
    BY <2>1 DEF S!CallState
  <2>4. \A p \in Process, a \in Actor : cache[p][a] \in Nat
    BY <2>2 DEF S!Credential
  <2>5. sessions \in Nat
    BY DEF S!TypeOK
  <2> QED
    BY <2>3, <2>4, <2>5
<1>4. \A x \in Caller : /\ call'[x].subject = call[x].subject
                        /\ S!Cached(x)' = Entry(x) /\ Entry(x) \in {S!Cached(x), 0}
  BY <1>1, <1>3 DEF S!Cached, Entry
<1>5. S!OwnSession'
  <2>1. \A x \in Caller : S!Cached(x) # 0 => session[S!Cached(x)].subject = call[x].subject
    BY <1>3 DEF Minted, S!Cached
  <2> QED
    BY <1>1, <2>1 DEF S!OwnSession, Bindings
<1>6. LockHeld'
  <2> SUFFICES ASSUME NEW x \in Caller, call'[x].at \in {"recheck", "mint", "insert"}
               PROVE  mutex'[Home[x]] = x
    BY DEF LockHeld
  <2>1. CASE x = c
    BY <2>1, <1>1
  <2>2. CASE x # c
    BY <2>2, <1>1, <1>3 DEF LockHeld
  <2> QED
    BY <2>1, <2>2
<1>7. Minted'
  <2>1. S!Cached(c) <= sessions /\ call[c].held <= sessions
    BY <1>3 DEF Minted, S!Cached
  <2>2. \A k \in d.tried : k <= sessions /\ k # 0
    BY <2>1 DEF Minted
  <2>3. \A x \in Caller :
          /\ call'[x].held <= sessions /\ \A k \in call'[x].tried : k <= sessions /\ k # 0
          /\ call'[x].at \in {"insert", "hook", "use", "rejected"} => call'[x].held # 0
          /\ call'[x].at = "idle" => call'[x].tried = {}
    BY <1>1, <2>1, <2>2 DEF Minted
  <2>4. \A p \in Process, a \in Actor :
          /\ cache'[p][a] <= sessions
          /\ cache'[p][a] # 0 => session[cache'[p][a]].subject = a
    BY <1>3 DEF Minted
  <2> QED
    BY <2>3, <2>4 DEF Minted
<1>8. InsertIsNew'
  <2> SUFFICES ASSUME NEW x \in Caller, call'[x].at = "insert"
               PROVE  /\ \A p \in Process, a \in Actor : cache'[p][a] # call'[x].held
                      /\ \A y \in Caller : /\ call'[x].held \notin call'[y].tried
                                           /\ y # x => call'[y].held # call'[x].held
    BY DEF InsertIsNew
  <2>1. x # c /\ call'[x] = call[x]
    BY <1>1
  <2>2. call[x].held # 0
    BY <2>1 DEF Minted
  <2>3. \A p \in Process, a \in Actor : cache[p][a] # call[x].held
    BY <2>1 DEF InsertIsNew
  <2>4. \A y \in Caller : call[x].held \notin call[y].tried /\ (y # x => call[y].held # call[x].held)
    BY <2>1 DEF InsertIsNew
  <2>5. call[x].held \notin d.tried /\ d.held # call[x].held
    BY <2>1, <2>3, <2>4, <1>3 DEF S!Cached
  <2> QED
    BY <2>1, <2>2, <2>3, <2>4, <2>5, <1>1
<1>9. TriedIsOut'
  <2> SUFFICES ASSUME NEW x \in Caller
               PROVE  /\ call'[x].at \in {"look", "queue", "recheck", "mint", "insert", "hook", "use"} =>
                           Entry(x) \notin call'[x].tried
                      /\ call'[x].at \in {"insert", "hook", "use"} => call'[x].held \notin call'[x].tried
                      /\ call'[x].at = "rejected" => Entry(x) \notin call'[x].tried \ {call'[x].held}
    BY <1>4 DEF TriedIsOut
  <2>1. CASE x = c
    BY <2>1, <1>1
  <2>2. CASE x # c
    BY <2>2, <1>1, <1>4 DEF TriedIsOut, Minted
  <2> QED
    BY <2>1, <2>2
<1>10. NeedHolds'
  <2>1. \A k : S!Fresh(k)' = S!Fresh(k) /\ S!Alive(k)' = S!Alive(k)
    BY DEF S!Fresh, S!Alive
  <2> SUFFICES ASSUME NEW x \in Caller
               PROVE  /\ call'[x].at \in {"mint", "insert"} => ~S!Fresh(Entry(x))
                      /\ call'[x].at = "rejected" => ~S!Alive(call'[x].held)
    BY <1>4 DEF NeedHolds, S!Fresh, S!Alive
  <2>2. CASE x = c
    BY <2>2, <1>1
  <2>3. CASE x # c
    BY <2>3, <1>1, <1>4 DEF NeedHolds, S!Fresh
  <2> QED
    BY <2>2, <2>3
<1> QED
  BY <1>2, <1>5, <1>6, <1>7, <1>8, <1>9, <1>10

\* A session is minted: nobody else has it.
LEMMA MintKeeps ==
  ASSUME SessionsInv, NEW c \in Caller, S!Mint(c)
  PROVE  SessionsInv'
<1> USE InteractionsAssumption DEF SessionsInv
<1> DEFINE n == sessions + 1
           made == [user |-> account[call[c].subject], subject |-> call[c].subject,
                    expires |-> clock + Life, revoked |-> FALSE]
           d == [call[c] EXCEPT !.at = "insert", !.held = n]
<1>1. /\ call[c].at = "mint" /\ sessions < MaxSessions /\ sessions' = n
      /\ session' = [session EXCEPT ![n] = made] /\ call' = [call EXCEPT ![c] = d]
      /\ UNCHANGED <<clock, account, cache, mutex, binding, sessionFaults>>
  BY DEF S!Mint
<1>2. /\ sessions \in Nat /\ n \in 1..MaxSessions /\ n \in S!Credential
      /\ call[c] \in S!CallState /\ call[c].subject \in Actor
  BY <1>1 DEF S!TypeOK, S!CallState, S!Credential
<1>3. made \in S!Session
  BY <1>2 DEF S!TypeOK, S!Session
<1>4. /\ d \in S!CallState /\ d.at = "insert" /\ d.held = n /\ d.subject = call[c].subject
      /\ d.tried = call[c].tried
  BY <1>2 DEF S!CallState, S!Stage
<1> HIDE DEF made, d
<1>5. S!TypeOK'
  BY <1>1, <1>2, <1>3, <1>4 DEF S!TypeOK
<1>6. /\ \A x \in Caller : call'[x] = IF x = c THEN d ELSE call[x]
      /\ \A k \in 1..MaxSessions : k <= sessions => session'[k] = session[k]
      /\ \A x \in Caller : /\ Home[x] \in Process /\ call[x].subject \in Actor
                           /\ call[x].held \in Nat /\ call[x].held <= sessions
                           /\ \A k \in call[x].tried : k <= sessions /\ k # 0
  <2>1. \A x \in Caller : call[x] \in S!CallState
    BY DEF S!TypeOK
  <2>2. \A x \in Caller : call[x].subject \in Actor /\ call[x].held \in Nat
    BY <2>1 DEF S!CallState, S!Credential
  <2> QED
    BY <2>2, <1>1, <1>2 DEF Minted, S!TypeOK
<1>7. \A p \in Process, a \in Actor : cache[p][a] \in Nat /\ cache[p][a] <= sessions
  <2>1. \A p \in Process, a \in Actor : cache[p][a] \in S!Credential
    BY DEF S!TypeOK
  <2> QED
    BY <2>1 DEF Minted, S!Credential
<1>8. session'[n].subject = call[c].subject
  <2>1. made.subject = call[c].subject
    BY DEF made
  <2> QED
    BY <2>1, <1>1, <1>2 DEF S!TypeOK
<1>9. S!OwnSession'
  <2>1. \A x \in Caller : call'[x].held # 0 => session'[call'[x].held].subject = call'[x].subject
    <3> SUFFICES ASSUME NEW x \in Caller, call'[x].held # 0
                 PROVE  session'[call'[x].held].subject = call'[x].subject
      OBVIOUS
    <3>1. CASE x = c
      BY <3>1, <1>4, <1>6, <1>8
    <3>2. CASE x # c
      <4>1. call'[x] = call[x] /\ call[x].held \in 1..MaxSessions /\ call[x].held <= sessions
        BY <3>2, <1>1, <1>2, <1>6
      <4> QED
        BY <4>1, <1>6 DEF S!OwnSession
    <3> QED
      BY <3>1, <3>2
  <2>2. \A k \in 1..sessions : k \in 1..sessions' /\ session'[k] = session[k]
    BY <1>1, <1>2, <1>6
  <2> QED
    BY <2>1, <2>2, <1>1 DEF S!OwnSession
<1>10. LockHeld'
  BY <1>1, <1>4, <1>6 DEF LockHeld
<1>11. Minted'
  <2>1. \A p \in Process, a \in Actor : cache[p][a] # 0 => session'[cache[p][a]] = session[cache[p][a]]
    BY <1>2, <1>6, <1>7
  <2>2. \A x \in Caller :
          /\ call'[x].held <= n /\ \A k \in call'[x].tried : k <= n /\ k # 0
          /\ call'[x].at \in {"insert", "hook", "use", "rejected"} => call'[x].held # 0
          /\ call'[x].at = "idle" => call'[x].tried = {}
    <3> SUFFICES ASSUME NEW x \in Caller
                 PROVE  /\ call'[x].held <= n /\ \A k \in call'[x].tried : k <= n /\ k # 0
                        /\ call'[x].at \in {"insert", "hook", "use", "rejected"} => call'[x].held # 0
                        /\ call'[x].at = "idle" => call'[x].tried = {}
      OBVIOUS
    <3>1. \A k \in call[x].tried : k <= n /\ k # 0
      <4>1. call[x].tried \subseteq Nat
        BY DEF S!TypeOK, S!CallState, S!Credential
      <4> QED
        BY <4>1, <1>2, <1>6
    <3>2. CASE x = c
      BY <3>1, <3>2, <1>2, <1>4, <1>6
    <3>3. CASE x # c
      BY <3>1, <3>3, <1>2, <1>6 DEF Minted
    <3> QED
      BY <3>2, <3>3
  <2> QED
    BY <2>1, <2>2, <1>1, <1>2, <1>7 DEF Minted
<1>12. InsertIsNew'
  <2> SUFFICES ASSUME NEW x \in Caller, call'[x].at = "insert"
               PROVE  /\ \A p \in Process, a \in Actor : cache[p][a] # call'[x].held
                      /\ \A y \in Caller : /\ call'[x].held \notin call'[y].tried
                                           /\ y # x => call'[y].held # call'[x].held
    BY <1>1 DEF InsertIsNew
  <2>1. \A y \in Caller : n \notin call[y].tried /\ call[y].held # n
    BY <1>2, <1>6
  <2>2. CASE x = c
    BY <2>1, <2>2, <1>2, <1>4, <1>6, <1>7
  <2>3. CASE x # c
    BY <2>1, <2>3, <1>4, <1>6 DEF InsertIsNew
  <2> QED
    BY <2>2, <2>3
<1>13. \A x \in Caller : S!Cached(x)' = S!Cached(x)
  BY <1>1, <1>4, <1>6 DEF S!Cached
<1>14. TriedIsOut'
  <2>1. n \notin call[c].tried
    BY <1>2, <1>6
  <2>2. S!Cached(c) \notin call[c].tried
    BY <1>1 DEF TriedIsOut
  <2> SUFFICES ASSUME NEW x \in Caller
               PROVE  /\ call'[x].at \in {"look", "queue", "recheck", "mint", "insert", "hook", "use"} =>
                           S!Cached(x) \notin call'[x].tried
                      /\ call'[x].at \in {"insert", "hook", "use"} => call'[x].held \notin call'[x].tried
                      /\ call'[x].at = "rejected" => S!Cached(x) \notin call'[x].tried \ {call'[x].held}
    BY <1>13 DEF TriedIsOut
  <2>3. CASE x = c
    BY <2>1, <2>2, <2>3, <1>4, <1>6
  <2>4. CASE x # c
    BY <2>4, <1>6 DEF TriedIsOut
  <2> QED
    BY <2>3, <2>4
<1>15. NeedHolds'
  <2> SUFFICES ASSUME NEW x \in Caller
               PROVE  /\ call'[x].at \in {"mint", "insert"} => ~S!Fresh(S!Cached(x))'
                      /\ call'[x].at = "rejected" => ~(clock < session'[call'[x].held].expires
                                                      /\ ~session'[call'[x].held].revoked)
    BY <1>1 DEF NeedHolds, S!Alive
  <2>1. S!Cached(x) \in Nat /\ S!Cached(x) <= sessions
    BY <1>6, <1>7 DEF S!Cached
  <2>2. PICK k : k = S!Cached(x)
    OBVIOUS
  <2>3. k # 0 => session'[k] = session[k]
    BY <2>1, <2>2, <1>2, <1>6
  <2>4. S!Fresh(S!Cached(x))' = S!Fresh(S!Cached(x))
    BY <2>2, <2>3, <1>1, <1>13 DEF S!Fresh
  <2>5. CASE x = c
    BY <2>4, <2>5, <1>1, <1>4, <1>6 DEF NeedHolds
  <2>6. CASE x # c
    <3>1. call[x].at = "rejected" => session'[call[x].held] = session[call[x].held]
      BY <1>2, <1>6 DEF Minted
    <3> QED
      BY <3>1, <2>4, <2>6, <1>6 DEF NeedHolds, S!Alive
  <2> QED
    BY <2>5, <2>6
<1> QED
  BY <1>5, <1>9, <1>10, <1>11, <1>12, <1>14, <1>15

\* It is cached, and only then may the next caller exchange.
LEMMA InsertKeeps ==
  ASSUME SessionsInv, NEW c \in Caller, S!Insert(c)
  PROVE  SessionsInv'
<1> USE InteractionsAssumption DEF SessionsInv
<1> DEFINE h == call[c].held
           a == call[c].subject
           d == [call[c] EXCEPT !.at = "hook"]
<1>1. /\ call[c].at = "insert"
      /\ cache' = [cache EXCEPT ![Home[c]][a] = h] /\ call' = [call EXCEPT ![c] = d]
      /\ mutex' = [mutex EXCEPT ![Home[c]] = None]
      /\ UNCHANGED <<clock, account, sessions, session, binding, sessionFaults>>
  BY DEF S!Insert, S!Goto, S!Release
<1>2. \A x \in Caller : call[x] \in S!CallState
  BY DEF S!TypeOK
<1>3. \A x \in Caller : Home[x] \in Process /\ call[x].subject \in Actor /\ call[x].held \in S!Credential
  BY <1>2 DEF S!CallState
<1>4. /\ d \in S!CallState /\ d.at = "hook" /\ d.held = h /\ d.subject = a
      /\ d.tried = call[c].tried
  BY <1>2 DEF S!CallState, S!Stage
<1> HIDE DEF d
<1>5. \A p \in Process, b \in Actor :
         cache'[p][b] = IF p = Home[c] /\ b = a THEN h ELSE cache[p][b]
  BY <1>1, <1>3 DEF S!TypeOK
<1>6. \A x \in Caller : call'[x] = IF x = c THEN d ELSE call[x]
  BY <1>1 DEF S!TypeOK
<1>7. S!TypeOK'
  <2>1. cache' \in [Process -> [Actor -> S!Credential]]
    BY <1>1, <1>3 DEF S!TypeOK
  <2> QED
    BY <2>1, <1>1, <1>4 DEF S!TypeOK
<1>8. S!OwnSession'
  <2>1. \A x \in Caller : call'[x].held = call[x].held /\ call'[x].subject = call[x].subject
    BY <1>4, <1>6
  <2> QED
    BY <2>1, <1>1 DEF S!OwnSession
<1>9. h # 0 /\ h <= sessions /\ session[h].subject = a
  BY <1>1 DEF Minted, S!OwnSession
<1>10. LockHeld'
  <2> SUFFICES ASSUME NEW x \in Caller, call'[x].at \in {"recheck", "mint", "insert"}
               PROVE  mutex'[Home[x]] = x
    BY DEF LockHeld
  <2>1. x # c /\ call'[x] = call[x]
    BY <1>4, <1>6
  <2>2. mutex[Home[x]] = x /\ mutex[Home[c]] = c
    BY <2>1, <1>1 DEF LockHeld
  <2> QED
    BY <2>1, <2>2, <1>1, <1>3 DEF S!TypeOK
<1>11. Minted'
  <2>1. \A x \in Caller :
          /\ call'[x].held <= sessions /\ \A k \in call'[x].tried : k <= sessions /\ k # 0
          /\ call'[x].at \in {"insert", "hook", "use", "rejected"} => call'[x].held # 0
          /\ call'[x].at = "idle" => call'[x].tried = {}
    BY <1>4, <1>6, <1>9 DEF Minted
  <2>2. \A p \in Process, b \in Actor :
          /\ cache'[p][b] <= sessions /\ (cache'[p][b] # 0 => session[cache'[p][b]].subject = b)
    BY <1>5, <1>9 DEF Minted
  <2> QED
    BY <2>1, <2>2, <1>1 DEF Minted
<1>12. \A y \in Caller : h \notin call[y].tried /\ (y # c => call[y].held # h)
  BY <1>1 DEF InsertIsNew
<1>13. InsertIsNew'
  <2> SUFFICES ASSUME NEW x \in Caller, call'[x].at = "insert"
               PROVE  /\ \A p \in Process, b \in Actor : cache'[p][b] # call'[x].held
                      /\ \A y \in Caller : /\ call'[x].held \notin call'[y].tried
                                           /\ y # x => call'[y].held # call'[x].held
    BY DEF InsertIsNew
  <2>1. x # c /\ call'[x] = call[x]
    BY <1>4, <1>6
  <2>2. \A p \in Process, b \in Actor : cache[p][b] # call[x].held
    BY <2>1 DEF InsertIsNew
  <2>3. \A y \in Caller : call[x].held \notin call[y].tried /\ (y # x => call[y].held # call[x].held)
    BY <2>1 DEF InsertIsNew
  <2> QED
    BY <2>1, <2>2, <2>3, <1>4, <1>5, <1>6, <1>12
<1>14. \A x \in Caller : S!Cached(x)' \in {S!Cached(x), h}
  BY <1>3, <1>4, <1>5, <1>6 DEF S!Cached
<1>15. TriedIsOut'
  <2> SUFFICES ASSUME NEW x \in Caller, NEW k, k = S!Cached(x)'
               PROVE  /\ call'[x].at \in {"look", "queue", "recheck", "mint", "insert", "hook", "use"} =>
                           k \notin call'[x].tried
                      /\ call'[x].at \in {"insert", "hook", "use"} => call'[x].held \notin call'[x].tried
                      /\ call'[x].at = "rejected" => k \notin call'[x].tried \ {call'[x].held}
    BY DEF TriedIsOut
  <2>1. k \in {S!Cached(x), h}
    BY <1>14
  <2>2. CASE x = c
    BY <2>1, <2>2, <1>1, <1>4, <1>6, <1>12 DEF TriedIsOut
  <2>3. CASE x # c
    BY <2>1, <2>3, <1>6, <1>12 DEF TriedIsOut
  <2> QED
    BY <2>2, <2>3
<1>16. NeedHolds'
  <2>1. \A k : S!Fresh(k)' = S!Fresh(k) /\ S!Alive(k)' = S!Alive(k)
    BY <1>1 DEF S!Fresh, S!Alive
  <2> SUFFICES ASSUME NEW x \in Caller, NEW k, k = S!Cached(x)'
               PROVE  /\ call'[x].at \in {"mint", "insert"} => ~S!Fresh(k)
                      /\ call'[x].at = "rejected" => ~S!Alive(call'[x].held)
    BY <1>1 DEF NeedHolds, S!Fresh, S!Alive
  <2>2. CASE x = c
    BY <2>2, <1>4, <1>6
  <2>3. CASE x # c
    <3>1. call'[x] = call[x]
      BY <2>3, <1>6
    <3>2. call[x].at \in {"mint", "insert"} => Home[x] # Home[c]
      BY <2>3, <1>1 DEF LockHeld
    <3>3. Home[x] # Home[c] => k = S!Cached(x)
      BY <3>1, <1>3, <1>5 DEF S!Cached
    <3> QED
      BY <3>1, <3>2, <3>3 DEF NeedHolds
  <2> QED
    BY <2>2, <2>3
<1> QED
  BY <1>7, <1>8, <1>10, <1>11, <1>13, <1>15, <1>16

LEMMA SessionsStep == SessionsInv /\ [S!Next]_(S!vars) => SessionsInv'
<1> SUFFICES ASSUME SessionsInv, [S!Next]_(S!vars) PROVE SessionsInv'
  OBVIOUS
<1> USE InteractionsAssumption
<1>0. S!TypeOK /\ Bindings /\ SessionsInv
  BY DEF SessionsInv, S!OwnSession, Bindings
<1>1. UNCHANGED <<sessions, session, binding>> => Bindings'
  BY <1>0 DEF Bindings
<1>2. \A c \in Caller :
         /\ call[c] \in S!CallState /\ Home[c] \in Process /\ S!Cached(c) \in S!Credential
         /\ cache[Home[c]][call[c].subject] = S!Cached(c)
  <2>1. \A c \in Caller : call[c] \in S!CallState /\ call[c].subject \in Actor
    BY <1>0 DEF S!TypeOK, S!CallState
  <2> QED
    BY <2>1, <1>0 DEF S!TypeOK, S!Cached
<1>3. ASSUME NEW c \in Caller, NEW at \in S!Stage, S!Goto(c, at)
      PROVE  \E d \in S!CallState :
               /\ call' = [call EXCEPT ![c] = d] /\ d.at = at /\ d.subject = call[c].subject
               /\ d.held = call[c].held /\ d.tried = call[c].tried
  <2> DEFINE d == [call[c] EXCEPT !.at = at]
  <2>1. call' = [call EXCEPT ![c] = d]
    BY <1>3 DEF S!Goto
  <2>2. /\ d \in S!CallState /\ d.at = at /\ d.subject = call[c].subject
        /\ d.held = call[c].held /\ d.tried = call[c].tried
    BY <1>2 DEF S!CallState
  <2> QED
    BY <2>1, <2>2
<1>4. ASSUME NEW c \in Caller, S!Take(c, S!Cached(c))
      PROVE  \E d \in S!CallState :
               /\ call' = [call EXCEPT ![c] = d] /\ d.at = "use" /\ d.subject = call[c].subject
               /\ d.held = S!Cached(c) /\ d.tried = call[c].tried
  <2> DEFINE e == [call[c] EXCEPT !.at = "use"]
             d == [e EXCEPT !.held = S!Cached(c)]
  <2>1. call' = [call EXCEPT ![c] = d]
    BY <1>2, <1>4 DEF S!Take, S!CallState
  <2>2. e \in S!CallState /\ e.at = "use" /\ e.subject = call[c].subject /\ e.tried = call[c].tried
    BY <1>2 DEF S!CallState, S!Stage
  <2> HIDE DEF e
  <2>3. /\ d \in S!CallState /\ d.at = "use" /\ d.subject = call[c].subject
        /\ d.held = S!Cached(c) /\ d.tried = call[c].tried
    BY <2>2, <1>2 DEF S!CallState
  <2> QED
    BY <2>1, <2>3
<1>5. ASSUME NEW c \in Caller, S!Begin(c) PROVE SessionsInv'
  <2>1. PICK d \in S!CallState :
          /\ call' = [call EXCEPT ![c] = d] /\ d.at = "look" /\ d.subject = call[c].subject
          /\ d.held = call[c].held /\ d.tried = call[c].tried
    BY <1>3, <1>5 DEF S!Begin, S!Stage
  <2>2. call[c].tried = {}
    BY <1>0, <1>5 DEF S!Begin, SessionsInv, Minted
  <2> QED
    BY <2>1, <2>2, <1>0, <1>1, <1>5, CallerMoves DEF S!Begin, S!TypeOK
<1>6. ASSUME NEW c \in Caller, S!Look(c) PROVE SessionsInv'
  <2>1. S!Cached(c) \notin call[c].tried
    BY <1>0, <1>6 DEF S!Look, SessionsInv, TriedIsOut
  <2>2. Entry(c) = S!Cached(c)
    BY <1>6 DEF S!Look, Entry, S!Cached
  <2>3. CASE S!Fresh(S!Cached(c))
    <3>1. PICK d \in S!CallState :
            /\ call' = [call EXCEPT ![c] = d] /\ d.at = "use" /\ d.subject = call[c].subject
            /\ d.held = S!Cached(c) /\ d.tried = call[c].tried
      BY <2>3, <1>4, <1>6 DEF S!Look
    <3> QED
      BY <3>1, <2>1, <2>2, <2>3, <1>0, <1>1, <1>6, CallerMoves DEF S!Look, S!TypeOK, S!Fresh
  <2>4. CASE ~S!Fresh(S!Cached(c))
    <3>1. PICK d \in S!CallState :
            /\ call' = [call EXCEPT ![c] = d] /\ d.at = "queue" /\ d.subject = call[c].subject
            /\ d.held = call[c].held /\ d.tried = call[c].tried
      BY <2>4, <1>3, <1>6 DEF S!Look, S!Stage
    <3> QED
      BY <3>1, <2>1, <2>2, <1>0, <1>1, <1>6, CallerMoves DEF S!Look, S!TypeOK
  <2> QED
    BY <2>3, <2>4
<1>7. ASSUME NEW c \in Caller, S!Acquire(c) PROVE SessionsInv'
  <2>1. PICK d \in S!CallState :
          /\ call' = [call EXCEPT ![c] = d] /\ d.at = "recheck" /\ d.subject = call[c].subject
          /\ d.held = call[c].held /\ d.tried = call[c].tried
    BY <1>3, <1>7 DEF S!Acquire, S!Stage
  <2>2. S!Cached(c) \notin call[c].tried /\ Entry(c) = S!Cached(c)
    BY <1>0, <1>7 DEF S!Acquire, SessionsInv, TriedIsOut, Entry, S!Cached
  <2>3. /\ mutex' \in [Process -> Caller \cup {None}] /\ mutex'[Home[c]] = c
        /\ \A p \in Process : mutex'[p] = mutex[p] \/ mutex[p] \in {c, None}
    BY <1>0, <1>2, <1>7 DEF S!Acquire, S!TypeOK
  <2> QED
    BY <2>1, <2>2, <2>3, <1>0, <1>1, <1>7, CallerMoves DEF S!Acquire, S!TypeOK
<1>8. ASSUME NEW c \in Caller, S!Recheck(c) PROVE SessionsInv'
  <2>1. S!Cached(c) \notin call[c].tried /\ mutex[Home[c]] = c
    BY <1>0, <1>8 DEF S!Recheck, SessionsInv, TriedIsOut, LockHeld
  <2>2. Entry(c) = S!Cached(c)
    BY <1>8 DEF S!Recheck, Entry, S!Cached
  <2>3. CASE S!Fresh(S!Cached(c))
    <3>1. PICK d \in S!CallState :
            /\ call' = [call EXCEPT ![c] = d] /\ d.at = "use" /\ d.subject = call[c].subject
            /\ d.held = S!Cached(c) /\ d.tried = call[c].tried
      BY <2>3, <1>4, <1>8 DEF S!Recheck
    <3>2. /\ mutex' \in [Process -> Caller \cup {None}]
          /\ \A p \in Process : mutex'[p] = mutex[p] \/ mutex[p] \in {c, None}
      BY <2>1, <2>3, <1>0, <1>2, <1>8 DEF S!Recheck, S!Release, S!TypeOK
    <3> QED
      BY <3>1, <3>2, <2>1, <2>2, <2>3, <1>0, <1>1, <1>8, CallerMoves DEF S!Recheck, S!TypeOK, S!Fresh
  <2>4. CASE ~S!Fresh(S!Cached(c))
    <3>1. PICK d \in S!CallState :
            /\ call' = [call EXCEPT ![c] = d] /\ d.at = "mint" /\ d.subject = call[c].subject
            /\ d.held = call[c].held /\ d.tried = call[c].tried
      BY <2>4, <1>3, <1>8 DEF S!Recheck, S!Stage
    <3>2. mutex' = mutex
      BY <2>4, <1>8 DEF S!Recheck
    <3> QED
      BY <3>1, <3>2, <2>1, <2>2, <2>4, <1>0, <1>1, <1>8, CallerMoves DEF S!Recheck, S!TypeOK
  <2> QED
    BY <2>3, <2>4
<1>9. ASSUME NEW c \in Caller, S!Abort(c) PROVE SessionsInv'
  <2>1. PICK d \in S!CallState :
          /\ call' = [call EXCEPT ![c] = d] /\ d.at = "failed" /\ d.subject = call[c].subject
          /\ d.held = call[c].held /\ d.tried = call[c].tried
    BY <1>3, <1>9 DEF S!Abort, S!Stage
  <2>2. /\ mutex' \in [Process -> Caller \cup {None}]
        /\ \A p \in Process : mutex'[p] = mutex[p] \/ mutex[p] \in {c, None}
    BY <1>0, <1>2, <1>9 DEF S!Abort, S!Release, S!TypeOK
  <2>3. sessionFaults' \in 0..SessionFaults
    BY <1>0, <1>9 DEF S!Abort, S!Fail, S!TypeOK
  <2> QED
    BY <2>1, <2>2, <2>3, <1>0, <1>1, <1>9, CallerMoves DEF S!Abort, S!TypeOK
<1>10. ASSUME NEW c \in Caller, S!Hook(c) PROVE SessionsInv'
  <2>1. PICK d \in S!CallState :
          /\ call' = [call EXCEPT ![c] = d] /\ d.at = "use" /\ d.subject = call[c].subject
          /\ d.held = call[c].held /\ d.tried = call[c].tried
    BY <1>3, <1>10 DEF S!Hook, S!Stage
  <2> DEFINE h == call[c].held
             a == call[c].subject
  <2>2. /\ S!Cached(c) \notin call[c].tried /\ h # 0 /\ h \notin call[c].tried
        /\ h <= sessions /\ session[h].subject = a
    BY <1>0, <1>10 DEF S!Hook, SessionsInv, TriedIsOut, Minted, S!OwnSession
  <2>3. h \in 1..sessions /\ h \in 1..MaxSessions /\ a \in Actor
    BY <2>2, <1>0, <1>2 DEF S!CallState, S!Credential, S!TypeOK
  <2>4. Entry(c) = S!Cached(c)
    BY <1>10 DEF S!Hook, Entry, S!Cached
  <2>5. binding' = binding \/ binding' = [binding EXCEPT ![a] = session[h].user]
    BY <1>10 DEF S!Hook
  <2>6. session[h].user \in User \cup {None}
    BY <2>3, <1>0 DEF S!TypeOK, S!Session
  <2>7. binding' \in [Actor -> User \cup {None}]
    BY <2>3, <2>5, <2>6, <1>0 DEF S!TypeOK
  <2>8. Bindings'
    <3> SUFFICES ASSUME NEW b \in Actor, binding'[b] # None
                 PROVE  \E k \in 1..sessions : session[k].subject = b /\ session[k].user = binding'[b]
      BY <1>10 DEF Bindings, S!Hook
    <3>1. CASE binding'[b] = binding[b]
      BY <3>1, <1>0 DEF Bindings
    <3>2. CASE binding'[b] # binding[b]
      <4>1. b = a /\ binding'[b] = session[h].user
        BY <3>2, <2>3, <2>5, <1>0 DEF S!TypeOK
      <4> QED
        BY <4>1, <2>2, <2>3
    <3> QED
      BY <3>1, <3>2
  <2>9. sessionFaults' \in 0..SessionFaults
    BY <1>0, <1>10 DEF S!Hook, S!Fail, S!TypeOK
  <2> HIDE DEF h, a
  <2> QED
    BY <2>1, <2>2, <2>4, <2>7, <2>8, <2>9, <1>0, <1>10, CallerMoves DEF S!Hook, S!TypeOK, h, a
<1>11. ASSUME NEW c \in Caller, S!Use(c) PROVE SessionsInv'
  <2>1. /\ S!Cached(c) \notin call[c].tried /\ call[c].held # 0
    BY <1>0, <1>11 DEF S!Use, SessionsInv, TriedIsOut, Minted
  <2>2. Entry(c) = S!Cached(c)
    BY <1>11 DEF S!Use, Entry, S!Cached
  <2>3. CASE S!Alive(call[c].held)
    <3>1. PICK d \in S!CallState :
            /\ call' = [call EXCEPT ![c] = d] /\ d.at = "done" /\ d.subject = call[c].subject
            /\ d.held = call[c].held /\ d.tried = call[c].tried
      BY <2>3, <1>3, <1>11 DEF S!Use, S!Stage
    <3> QED
      BY <3>1, <1>0, <1>1, <1>11, CallerMoves DEF S!Use, S!TypeOK
  <2>4. CASE ~S!Alive(call[c].held)
    <3> DEFINE tried == call[c].tried \cup {call[c].held}
               e == [call[c] EXCEPT !.at = "rejected"]
               d == [e EXCEPT !.tried = tried]
    <3>1. call' = [call EXCEPT ![c] = d]
      BY <2>4, <1>2, <1>11 DEF S!Use, S!CallState
    <3>2. tried \subseteq S!Credential
      BY <1>2 DEF S!CallState
    <3>3. /\ e \in S!CallState /\ e.at = "rejected" /\ e.subject = call[c].subject
          /\ e.held = call[c].held
      BY <1>2 DEF S!CallState, S!Stage
    <3> HIDE DEF e, tried
    <3>4. /\ d \in S!CallState /\ d.at = "rejected" /\ d.subject = call[c].subject
          /\ d.held = call[c].held /\ d.tried = tried
      BY <3>2, <3>3 DEF S!CallState
    <3> HIDE DEF d
    <3> QED
      BY <3>1, <3>4, <2>1, <2>2, <2>4, <1>0, <1>1, <1>11, CallerMoves DEF S!Use, S!TypeOK, tried
  <2> QED
    BY <2>3, <2>4
<1>12. ASSUME NEW c \in Caller, S!Reject(c) PROVE SessionsInv'
  <2>1. /\ S!Cached(c) \notin call[c].tried \ {call[c].held} /\ call[c].held # 0
        /\ \A k \in call[c].tried : k # 0
    BY <1>0, <1>12 DEF S!Reject, SessionsInv, TriedIsOut, Minted
  <2>2. CASE call[c].round = Rounds
    <3>1. PICK d \in S!CallState :
            /\ call' = [call EXCEPT ![c] = d] /\ d.at = "refused" /\ d.subject = call[c].subject
            /\ d.held = call[c].held /\ d.tried = call[c].tried
      BY <2>2, <1>3, <1>12 DEF S!Reject, S!Stage
    <3> QED
      BY <3>1, <2>2, <1>0, <1>1, <1>12, CallerMoves DEF S!Reject, S!TypeOK
  <2>3. CASE call[c].round # Rounds
    <3> DEFINE e == [call[c] EXCEPT !.at = "look"]
               d == [e EXCEPT !.round = @ + 1]
    <3>1. call' = [call EXCEPT ![c] = d]
      BY <2>3, <1>2, <1>12 DEF S!Reject, S!CallState
    <3>2. /\ e \in S!CallState /\ e.at = "look" /\ e.subject = call[c].subject
          /\ e.held = call[c].held /\ e.tried = call[c].tried /\ e.round = call[c].round
      BY <1>2 DEF S!CallState, S!Stage
    <3>3. e.round + 1 \in 1..Rounds
      BY <3>2, <2>3 DEF S!CallState
    <3> HIDE DEF e
    <3>4. /\ d \in S!CallState /\ d.at = "look" /\ d.subject = call[c].subject
          /\ d.held = call[c].held /\ d.tried = call[c].tried
      BY <3>2, <3>3 DEF S!CallState
    <3> HIDE DEF d
    <3>5. /\ cache' \in [Process -> [Actor -> S!Credential]]
          /\ \A p \in Process, a \in Actor : cache'[p][a] \in {cache[p][a], 0}
          /\ Entry(c) = IF S!Cached(c) = call[c].held THEN 0 ELSE S!Cached(c)
      <4>1. \/ cache' = cache /\ S!Cached(c) # call[c].held
            \/ /\ cache' = [cache EXCEPT ![Home[c]][call[c].subject] = 0]
               /\ S!Cached(c) = call[c].held
        BY <2>3, <1>12 DEF S!Reject, S!Drop
      <4>2. call[c].subject \in Actor /\ 0 \in S!Credential
        BY <1>2 DEF S!CallState, S!Credential
      <4>3. cache \in [Process -> [Actor -> S!Credential]]
        BY <1>0 DEF S!TypeOK
      <4>4. Home[c] \in Process /\ S!Cached(c) = cache[Home[c]][call[c].subject]
        BY <1>2 DEF S!Cached
      <4>5. CASE cache' = cache /\ S!Cached(c) # call[c].held
        BY <4>3, <4>4, <4>5 DEF Entry
      <4>6. CASE /\ cache' = [cache EXCEPT ![Home[c]][call[c].subject] = 0]
                 /\ S!Cached(c) = call[c].held
        BY <4>2, <4>3, <4>4, <4>6 DEF Entry
      <4> QED
        BY <4>1, <4>5, <4>6
    <3>6. Entry(c) \notin call[c].tried
      BY <3>5, <2>1
    <3> QED
      BY <3>1, <3>4, <3>5, <3>6, <1>0, <1>1, <1>12, CallerMoves DEF S!Reject, S!TypeOK
  <2> QED
    BY <2>2, <2>3
<1>13. ASSUME NEW k \in 1..MaxSessions, S!Revoke(k) PROVE SessionsInv'
  <2> DEFINE s == [session[k] EXCEPT !.revoked = TRUE]
  <2>1. session' = [session EXCEPT ![k] = s] /\ session[k] \in S!Session
    BY <1>0, <1>13 DEF S!Revoke, S!TypeOK
  <2>2. /\ s \in S!Session /\ s.user = session[k].user /\ s.subject = session[k].subject
        /\ s.expires = session[k].expires /\ s.revoked
    BY <2>1 DEF S!Session
  <2> HIDE DEF s
  <2>3. sessionFaults' \in 0..SessionFaults
    BY <1>0, <1>13 DEF S!Revoke, S!Fail, S!TypeOK
  <2>4. Older
    BY <2>1, <2>2, <2>3, <1>0, <1>13 DEF S!Revoke, Older, S!TypeOK
  <2> QED
    BY <2>4, <1>0, <1>13, WorldMoves DEF S!Revoke
<1>14. ASSUME NEW s \in Actor, NEW u \in User, S!Relink(s, u) PROVE SessionsInv'
  <2>1. Older
    BY <1>0, <1>14 DEF S!Relink, S!Fail, Older, S!TypeOK
  <2> QED
    BY <2>1, <1>0, <1>14, WorldMoves DEF S!Relink
<1>15. CASE S!Tick
  <2>1. Older
    BY <1>0, <1>15 DEF S!Tick, Older, S!TypeOK
  <2> QED
    BY <2>1, <1>0, <1>15, WorldMoves DEF S!Tick
<1>16. CASE UNCHANGED S!vars
  <2>1. Older
    BY <1>0, <1>16 DEF S!vars, Older, S!TypeOK
  <2> QED
    BY <2>1, <1>0, <1>16, WorldMoves DEF S!vars
<1> QED
  BY <1>0, <1>5, <1>6, <1>7, <1>8, <1>9, <1>10, <1>11, <1>12, <1>13, <1>14, <1>15, <1>16,
     MintKeeps, InsertKeeps DEF S!Next, S!Step, S!Exchange

\* Whatever callers, Platform and the clock do, the inductive invariant holds of the
\* sessions: one caller of a process exchanges at a time, and has its session to itself
\* until it is cached (session, exchange).
THEOREM SessionsInvariance == S!Spec => []SessionsInv
  BY SessionsInit, SessionsStep, PTL DEF S!Spec

\* Callers get sessions of their own sender and none they have seen rejected, and a
\* sender is bound to users of its own sessions (session, invalidate_credential,
\* identity_binding_hook).
THEOREM SessionsOwn == S!Spec => []SessionsAreOwn
<1>1. SessionsInv => SessionsAreOwn
  BY DEF SessionsInv, SessionsAreOwn, S!SessionsAreOwn, S!RejectedStaysOut, TriedIsOut
<1> QED
  BY <1>1, SessionsInvariance, PTL

\* What a step does to an entry of the cache.
LEMMA CacheStep ==
  ASSUME SessionsInv, [S!Next]_(S!vars), NEW p \in Process, NEW a \in Actor
  PROVE  /\ cache'[p][a] \notin {0, cache[p][a]} => ~S!Fresh(cache[p][a])
         /\ cache'[p][a] # cache[p][a] /\ cache'[p][a] = 0 => ~S!Alive(cache[p][a])
<1> USE InteractionsAssumption DEF SessionsInv
<1>1. cache \in [Process -> [Actor -> S!Credential]]
  BY DEF S!TypeOK
<1>2. \A c \in Caller : Home[c] \in Process /\ call[c].subject \in Actor
  BY DEF S!TypeOK, S!CallState
<1>3. ASSUME NEW c \in Caller, S!Insert(c)
      PROVE  /\ cache'[p][a] \notin {0, cache[p][a]} => ~S!Fresh(cache[p][a])
             /\ cache'[p][a] # 0 \/ cache'[p][a] = cache[p][a]
  <2>1. /\ call[c].held # 0 /\ ~S!Fresh(cache[Home[c]][call[c].subject])
        /\ cache' = [cache EXCEPT ![Home[c]][call[c].subject] = call[c].held]
    BY <1>3 DEF S!Insert, Minted, NeedHolds, S!Cached
  <2> QED
    BY <2>1, <1>1, <1>2
<1>4. ASSUME NEW c \in Caller, S!Reject(c)
      PROVE  /\ cache'[p][a] \in {0, cache[p][a]}
             /\ cache'[p][a] # cache[p][a] => ~S!Alive(cache[p][a])
  <2>1. \/ cache' = cache
        \/ /\ cache' = [cache EXCEPT ![Home[c]][call[c].subject] = 0]
           /\ cache[Home[c]][call[c].subject] = call[c].held /\ ~S!Alive(call[c].held)
    BY <1>4 DEF S!Reject, S!Drop, S!Cached, NeedHolds
  <2> QED
    BY <2>1, <1>1, <1>2
<1>5. \/ cache' = cache
      \/ \E c \in Caller : S!Insert(c) \/ S!Reject(c)
  BY DEF S!Next, S!vars, S!Step, S!Exchange, S!Begin, S!Look, S!Acquire, S!Recheck, S!Mint, S!Abort,
         S!Hook, S!Use, S!Revoke, S!Relink, S!Tick
<1> QED
  BY <1>3, <1>4, <1>5

\* No session is replaced while it is fresh or dropped while it is alive: an exchange
\* is still needed when its session is cached, and only the rejected credential is
\* dropped (exchange, invalidate_credential).
THEOREM CacheKept == S!Spec => CacheIsKept
<1>1. ASSUME SessionsInv, [S!Next]_(S!vars)
      PROVE  \A p \in Process, s \in Actor :
               cache'[p][s] \notin {0, cache[p][s]} => ~S!Fresh(cache[p][s])
  BY <1>1, CacheStep
<1>2. ASSUME SessionsInv, [S!Next]_(S!vars)
      PROVE  \A p \in Process, s \in Actor :
               cache'[p][s] # cache[p][s] /\ cache'[p][s] = 0 => ~S!Alive(cache[p][s])
  BY <1>2, CacheStep
<1>3. S!Spec => S!ExchangedOnNeed
  BY <1>1, SessionsInvariance, PTL DEF S!Spec, S!ExchangedOnNeed
<1>4. S!Spec => S!OnlyDeadIsDropped
  BY <1>2, SessionsInvariance, PTL DEF S!Spec, S!OnlyDeadIsDropped
<1> QED
  BY <1>3, <1>4 DEF CacheIsKept, S!CacheIsKept

=============================================================================
