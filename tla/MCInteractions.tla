--------------------------- MODULE MCInteractions ---------------------------
(***************************************************************************)
(* The three components that keep credentials and authorities: tokens of   *)
(* the library commands (LibraryRead, extended), deep links of captures    *)
(* (CaptureLinks, C) and Platform sessions (Sessions, S).  They share no   *)
(* state, so every behaviour of their composition is one of each, and it   *)
(* is enough that a behaviour here runs one of them, picked at the start,  *)
(* while the others rest.                                                  *)
(***************************************************************************)
EXTENDS LibraryRead

CONSTANTS
  Update, NoUpdate, Link, MaxOperations, MaxTokens,          \* CaptureLinks
  Process, Caller, Home, Life, Margin, Rounds, MaxSessions,  \* Sessions
  SessionTime, SessionFaults                                 \* its MaxTime and MaxFaults

ASSUME InteractionsAssumption ==
  /\ NoUpdate \notin Update /\ Link # {} /\ MaxOperations \in Nat /\ MaxTokens \in Nat
  /\ Home \in [Caller -> Process] /\ None \notin Caller /\ Actor # {}
  /\ Life \in Nat /\ Margin \in Nat /\ Rounds \in Nat \ {0}
  /\ MaxSessions \in Nat /\ SessionTime \in Nat /\ SessionFaults \in Nat

VARIABLES
  part,  \* the component that runs
  capture, opOf, status, minted, token, bound, lock, acks, looking, found, shown, linkFaults,
  clock, account, sessions, session, cache, mutex, binding, call, sessionFaults

C == INSTANCE CaptureLinks WITH faults <- linkFaults

S == INSTANCE Sessions WITH
       Subject <- Actor, Nobody <- None, MaxTime <- SessionTime, MaxFaults <- SessionFaults,
       now <- clock, link <- account, minted <- sessions, lock <- mutex, bound <- binding,
       faults <- sessionFaults

linkVars == <<capture, opOf, status, minted, token, bound, lock, acks, looking, found, shown,
              linkFaults>>
accountVars == <<clock, account, sessions, session, cache, mutex, binding, call, sessionFaults>>
allVars == <<part, vars, linkVars, accountVars>>

OneHome == [c \in Caller |-> CHOOSE p \in Process : TRUE]

AnyActor  == CHOOSE a \in Actor : TRUE
AnyUser   == CHOOSE u \in User : TRUE
AnyCaller == CHOOSE c \in Caller : TRUE

\* One initial state of each component stands for those that differ in the names of
\* actors and users, and a component that rests does so in one.
MCInit ==
  /\ part \in {"library", "links", "sessions"}
  /\ Init /\ C!Init /\ S!Init
  /\ link[AnyActor] = AnyUser
  /\ account[AnyActor] = AnyUser /\ call[AnyCaller].subject = AnyActor
  /\ part # "library" => \A a \in Actor : link[a] = AnyUser
  /\ part # "sessions" => /\ \A a \in Actor : account[a] = AnyUser
                         /\ \A c \in Caller : call[c].subject = AnyActor

Library(A)  == part = "library" /\ UNCHANGED <<part, linkVars, accountVars>> /\ A
Links(A)    == part = "links" /\ UNCHANGED <<part, vars, accountVars>> /\ A
Accounts(A) == part = "sessions" /\ UNCHANGED <<part, vars, linkVars>> /\ A

MCNext == Library(Next) \/ Links(C!Next) \/ Accounts(S!Next)

\* What the three ask for.
MCFairness ==
  /\ WF_allVars(Library(Cleanup)) /\ WF_allVars(Library(Tick))
  /\ WF_allVars(Links(C!Tick))
  /\ \A k \in 1..MaxTokens : WF_allVars(Links(C!Cleanup(k)))
  /\ \A c \in Caller : /\ WF_allVars(Accounts(S!Exchange(c)))
                       /\ SF_allVars(Accounts(S!Acquire(c)))

MCSpec == MCInit /\ [][MCNext]_allVars /\ MCFairness

-----------------------------------------------------------------------------
(* The properties of C and S, stated where they are defined *)

\* One acknowledgement and one live link per operation, for as long as it is needed
\* (record_accepted_capture_projection, cleanup_interactions).
LinksAreKept == C!LinksAreKept

\* Callers get sessions of their own sender and none they have seen rejected
\* (session, invalidate_credential).
SessionsAreOwn == S!SessionsAreOwn

\* No session is replaced while it is fresh or dropped while it is alive (exchange,
\* invalidate_credential).
CacheIsKept == S!CacheIsKept

\* Read tokens that are used or expired and the links of an ended operation leave
\* the table in the end (cleanup_interactions).
AuthoritiesLeave == TokensLeave /\ C!LinksLeave

\* A binding that hangs holds up its own caller only (session).
ExchangesEnd == S!ExchangesEnd

=============================================================================
