---------------------------- MODULE LibraryRead ----------------------------
(***************************************************************************)
(* The library commands of a private chat (intake/library.rs) and the      *)
(* read authorities they store (interaction_tokens.rs): /search and        *)
(* /unread post a page whose unread items each carry a single-use token,   *)
(* /read presents a token and asks Platform to mark the item read.         *)
(*                                                                         *)
(* A page or a read is one execution of the handler; an update that is     *)
(* claimed again, by an overlapping worker or after a crash, is another    *)
(* execution that presents the same token.  Telegram user and private chat *)
(* are one actor, and the token of item i on page p is <<p, i>>.           *)
(***************************************************************************)
EXTENDS Naturals, FiniteSets

CONSTANTS
  Page,      \* executions of /search or /unread
  Read,      \* executions of /read
  Actor, User, Item,
  Ttl,       \* READ_TOKEN_TTL_SECS
  Attempts,  \* requests a read may send
  Batch,     \* rows a cleanup pass may remove
  None,
  MaxTime, MaxFaults  \* bounds on the clock and on failures

Reply == {"marked", "expired", "notfound", "unknown", "unavailable"}

ASSUME LibraryReadAssumption ==
  /\ Ttl \in Nat \ {0} /\ Attempts \in Nat \ {0} /\ Batch \in Nat \ {0}
  /\ MaxTime \in Nat /\ MaxFaults \in Nat
  /\ None \notin Page \cup Read \cup Actor \cup User \cup Item \cup Reply

VARIABLES
  now,
  link,     \* the Platform user a session of each actor is for
  page, read,  \* where each execution stands
  row,      \* telegram.interaction_tokens
  wire,     \* requests Platform may still apply, as <<read, attempt>>
  applied,  \* reads of which Platform has applied a request
  misled,   \* history: reads that were answered with an error by an applied request
  faults

vars == <<now, link, page, read, row, wire, applied, misled, faults>>

Token == Page \X Item

PageState == [at : {"idle", "ask", "store", "done"}, actor : Actor \cup {None},
              user : User \cup {None}, items : SUBSET Item, shown : BOOLEAN,
              until : 0..MaxTime]
ReadState == [at : {"idle", "open", "resolve", "put", "wait", "done", "cut"},
              actor : Actor \cup {None}, user : User \cup {None},
              token : Token \cup {None}, tries : 0..Attempts, unsure : BOOLEAN,
              when : 0..MaxTime, reply : Reply \cup {None}]
Row       == [state : {"none", "live", "used"}, expires : 0..MaxTime,
              actor : Actor \cup {None}, user : User \cup {None}]

NoRow == [state |-> "none", expires |-> 0, actor |-> None, user |-> None]

Init ==
  /\ now = 0
  /\ link \in [Actor -> User]
  /\ page = [p \in Page |-> [at |-> "idle", actor |-> None, user |-> None, items |-> {},
                             shown |-> FALSE, until |-> 0]]
  /\ read = [r \in Read |-> [at |-> "idle", actor |-> None, user |-> None, token |-> None,
                             tries |-> 0, unsure |-> FALSE, when |-> 0, reply |-> None]]
  /\ row = [t \in Token |-> NoRow]
  /\ wire = {} /\ applied = {} /\ misled = {}
  /\ faults = 0

Fail == faults < MaxFaults /\ faults' = faults + 1

-----------------------------------------------------------------------------
(* /search and /unread *)

AskPage(p) ==
  /\ page[p].at = "idle"
  /\ \E a \in Actor :
       page' = [page EXCEPT ![p].at = "ask", ![p].actor = a, ![p].user = link[a]]
  /\ UNCHANGED <<now, link, read, row, wire, applied, misled, faults>>

\* Platform answers with the items it has; those unread will carry a token when
\* library.read_state is advertised.
SeePage(p) ==
  /\ page[p].at = "ask"
  /\ \E items \in SUBSET Item :
       page' = [page EXCEPT ![p].at = "store", ![p].items = items]
  /\ UNCHANGED <<now, link, read, row, wire, applied, misled, faults>>

\* The tokens and the message that shows them are one transaction.  (The bound leaves
\* every token the time to expire.)
StorePage(p) ==
  /\ page[p].at = "store" /\ now + Ttl <= MaxTime
  /\ page' = [page EXCEPT ![p].at = "done", ![p].shown = TRUE, ![p].until = now + Ttl]
  /\ row' = [t \in Token |->
       IF t[1] = p /\ t[2] \in page[p].items
       THEN [state |-> "live", expires |-> now + Ttl, actor |-> page[p].actor,
             user |-> page[p].user]
       ELSE row[t]]
  /\ UNCHANGED <<now, link, read, wire, applied, misled, faults>>

\* No session, no capability, no answer, no storage, or the process stops.
PageFails(p) ==
  /\ page[p].at \in {"ask", "store"} /\ Fail
  /\ page' = [page EXCEPT ![p].at = "done"]
  /\ UNCHANGED <<now, link, read, row, wire, applied, misled>>

-----------------------------------------------------------------------------
(* /read *)

\* Anyone who has seen a token may present it, again and again.
Present(r) ==
  /\ read[r].at = "idle"
  /\ \E a \in Actor, t \in Token :
       /\ page[t[1]].shown /\ t[2] \in page[t[1]].items
       /\ read' = [read EXCEPT ![r].at = "open", ![r].actor = a, ![r].token = t]
  /\ UNCHANGED <<now, link, page, row, wire, applied, misled, faults>>

\* A session of the actor, and the capability to mark items read.
Open(r) ==
  /\ read[r].at = "open"
  /\ read' = [read EXCEPT ![r].at = "resolve", ![r].user = link[read[r].actor]]
  /\ UNCHANGED <<now, link, page, row, wire, applied, misled, faults>>

Answered(r, reply) == read' = [read EXCEPT ![r].at = "done", ![r].reply = reply]

OpenFails(r) ==
  /\ read[r].at = "open" /\ Fail
  /\ Answered(r, "unavailable")
  /\ UNCHANGED <<now, link, page, row, wire, applied, misled>>

Usable(r, k) ==
  /\ k.state = "live" /\ k.expires > now
  /\ k.actor = read[r].actor /\ k.user = read[r].user

Consume(r) == row' = [row EXCEPT ![read[r].token].state = "used"]

\* The row is locked, judged and consumed in one transaction.
Resolve(r) ==
  /\ read[r].at = "resolve"
  /\ \/ /\ Usable(r, row[read[r].token])
        /\ Consume(r)
        /\ read' = [read EXCEPT ![r].at = "put", ![r].when = now]
     \/ /\ ~Usable(r, row[read[r].token])
        /\ Answered(r, "expired")
        /\ UNCHANGED row
  /\ UNCHANGED <<now, link, page, wire, applied, misled, faults>>

\* The transaction fails, or it commits and its answer is lost.
ResolveFails(r) ==
  /\ read[r].at = "resolve" /\ Fail
  /\ Answered(r, "unavailable")
  /\ (Usable(r, row[read[r].token]) /\ Consume(r)) \/ UNCHANGED row
  /\ UNCHANGED <<now, link, page, wire, applied, misled>>

Put(r) ==
  /\ read[r].at = "put"
  /\ read' = [read EXCEPT ![r].at = "wait", ![r].tries = @ + 1]
  /\ wire' = wire \cup {<<r, read[r].tries + 1>>}
  /\ UNCHANGED <<now, link, page, row, applied, misled, faults>>

\* Mutant of Onward: only the last attempt decides.
OnwardLast(r, unsure) ==
  read' = [read EXCEPT ![r].unsure = FALSE,
             ![r].at = IF read[r].tries < Attempts THEN "put" ELSE "done",
             ![r].reply = IF read[r].tries < Attempts THEN None
                          ELSE IF unsure THEN "unknown" ELSE "unavailable"]

\* What is left of a read whose attempt came to nothing.
Onward(r, unsure) ==
  read' = [read EXCEPT ![r].unsure = unsure,
             ![r].at = IF read[r].tries < Attempts THEN "put" ELSE "done",
             ![r].reply = IF read[r].tries < Attempts THEN None
                          ELSE IF unsure THEN "unknown" ELSE "unavailable"]

Sent(r) == <<r, read[r].tries>>

\* What an answer that reports an error leads to: another attempt after a 5xx or 429,
\* and the end after a 404 or any other refusal, whatever was in doubt before.
Denied(r) == \/ Onward(r, read[r].unsure)
             \/ Answered(r, "notfound")
             \/ Answered(r, "unavailable")

\* Platform applies the request; its answer says so, says that the item is unread, is
\* lost on the way, or is an error: of Platform, of what stands before it, or of a body
\* that cannot be read.
Applied(r) ==
  /\ read[r].at = "wait" /\ Sent(r) \in wire
  /\ wire' = wire \ {Sent(r)} /\ applied' = applied \cup {r}
  /\ \/ Answered(r, "marked") /\ UNCHANGED <<misled, faults>>
     \/ Onward(r, TRUE) /\ Fail /\ UNCHANGED misled
     \/ Denied(r) /\ Fail /\ misled' = misled \cup {r}
  /\ UNCHANGED <<now, link, page, row>>

\* The request is denied and not applied, or Platform was not reached.
NotApplied(r) ==
  /\ read[r].at = "wait" /\ Sent(r) \in wire /\ Fail
  /\ wire' = wire \ {Sent(r)}
  /\ Denied(r)
  /\ UNCHANGED <<now, link, page, row, applied, misled>>

\* The wait is over, or the connection breaks, and the request is on its way still.
Timeout(r) ==
  /\ read[r].at = "wait" /\ Fail
  /\ Onward(r, TRUE)
  /\ UNCHANGED <<now, link, page, row, wire, applied, misled>>

\* A request nobody waits for is applied late, or lost.
Late(r, n) ==
  /\ <<r, n>> \in wire /\ ~(read[r].at = "wait" /\ read[r].tries = n)
  /\ wire' = wire \ {<<r, n>>}
  /\ applied' \in {applied, applied \cup {r}}
  /\ UNCHANGED <<now, link, page, read, row, misled, faults>>

\* The process stops, or the handler is aborted at the end of the grace window.
Cut(r) ==
  /\ read[r].at \in {"open", "resolve", "put", "wait"} /\ Fail
  /\ read' = [read EXCEPT ![r].at = "cut"]
  /\ UNCHANGED <<now, link, page, row, wire, applied, misled>>

-----------------------------------------------------------------------------
(* The cleanup pass, the clock, and Platform's side of an actor *)

Eligible(k) == k.state # "none" /\ (k.state = "used" \/ k.expires <= now)

\* Oldest first, at most a batch.
Cleanup ==
  LET dead == {t \in Token : Eligible(row[t])} IN
  /\ dead # {}
  /\ \E gone \in SUBSET dead :
       /\ Cardinality(gone) = Batch \/ (Cardinality(gone) < Batch /\ gone = dead)
       /\ \A t \in gone, u \in dead \ gone : row[t].expires <= row[u].expires
       /\ row' = [t \in Token |-> IF t \in gone THEN NoRow ELSE row[t]]
  /\ UNCHANGED <<now, link, page, read, wire, applied, misled, faults>>

Tick ==
  /\ now < MaxTime /\ now' = now + 1
  /\ UNCHANGED <<link, page, read, row, wire, applied, misled, faults>>

\* The account of an actor moves to another user.
Relink(a, u) ==
  /\ link[a] # u /\ Fail
  /\ link' = [link EXCEPT ![a] = u]
  /\ UNCHANGED <<now, page, read, row, wire, applied, misled>>

PageStep(p) == AskPage(p) \/ SeePage(p) \/ StorePage(p) \/ PageFails(p)
ReadStep(r) == \/ Present(r) \/ Open(r) \/ OpenFails(r) \/ Resolve(r) \/ ResolveFails(r)
               \/ Put(r) \/ Applied(r) \/ NotApplied(r) \/ Timeout(r) \/ Cut(r)
               \/ \E n \in 1..Attempts : Late(r, n)

Next == \/ \E p \in Page : PageStep(p)
        \/ \E r \in Read : ReadStep(r)
        \/ \E a \in Actor, u \in User : Relink(a, u)
        \/ Cleanup \/ Tick

\* Passes run on an interval for as long as the process lives.
Fairness == WF_vars(Cleanup) /\ WF_vars(Tick)

Spec == Init /\ [][Next]_vars /\ Fairness

-----------------------------------------------------------------------------
TypeOK ==
  /\ now \in 0..MaxTime
  /\ link \in [Actor -> User]
  /\ page \in [Page -> PageState]
  /\ read \in [Read -> ReadState]
  /\ row \in [Token -> Row]
  /\ wire \subseteq Read \X (1..Attempts)
  /\ applied \subseteq Read /\ misled \subseteq Read
  /\ faults \in 0..MaxFaults

Released(r) == read[r].tries > 0 \/ read[r].at = "put"

\* However often a token is presented, by whoever, in whatever order with the
\* cleanup, at most one execution asks Platform for it, and with bounded attempts
\* (resolve_library_read_intent, run_read).
OneRelease ==
  \A q, r \in Read : q # r /\ Released(q) /\ Released(r) => read[q].token # read[r].token

\* Platform is asked only for the actor and the user the page was rendered for, also
\* when the account moved in between, and before the token expired
\* (resolve_library_read_intent).
ActsForTheOwner ==
  \A r \in Read : Released(r) =>
    LET p == page[read[r].token[1]] IN
    read[r].actor = p.actor /\ read[r].user = p.user /\ read[r].when < p.until

MayHaveApplied(r) == r \in applied \/ \E n \in 1..Attempts : <<r, n>> \in wire

\* "Marked" is said of what Platform applied and "expired" of what was never asked.
\* "Unavailable" is said of a read that something may have come of in two cases only:
\* an applied request was answered with an error, which tells run_read nothing, or an
\* attempt was refused after one in doubt, which README.md has as unknown. A timeout, a
\* broken connection or a late request never leads to it by itself (run_read).
RepliesTruthful ==
  \A r \in Read :
    /\ read[r].reply = "marked" => r \in applied
    /\ read[r].reply = "expired" => ~MayHaveApplied(r)
    /\ read[r].reply = "unavailable" /\ MayHaveApplied(r) => r \in misled \/ read[r].unsure

\* A token that was shown opens its item for its owner until it expires or the owner
\* uses it: no page outruns its tokens, no stranger uses one up, and no cleanup pass
\* takes a live one (enqueue_library_read_delivery, cleanup_interactions).
OffersHonoured ==
  \A t \in Token : page[t[1]].shown /\ t[2] \in page[t[1]].items /\ now < page[t[1]].until =>
    \/ row[t].state = "live"
    \/ \E r \in Read : /\ read[r].token = t /\ read[r].actor = page[t[1]].actor
                       /\ read[r].at \notin {"idle", "open", "resolve"}

\* Used and expired tokens leave the table (cleanup_interactions).
TokensLeave == \A t \in Token : row[t].state # "none" ~> row[t].state = "none"

\* A token that is shown can be relied on: it works for its owner and for nobody
\* else, once, and no timeout or lost answer makes the reply claim more than is known
\* (library.rs, interaction_tokens.rs).
TokensAreKept ==
  TypeOK /\ OneRelease /\ ActsForTheOwner /\ RepliesTruthful /\ OffersHonoured

=============================================================================
