----------------------------- MODULE Sessions -----------------------------
(***************************************************************************)
(* Platform sessions of Telegram senders (platform-api/src/session.rs):    *)
(* each process caches one bearer credential per sender, exchanges a fresh *)
(* one under a lock, and after the lock is released binds the sender to    *)
(* the Platform user the session is for (http/src/identity.rs).  A caller  *)
(* is a capture or a follower, which uses the credential, drops it when    *)
(* Platform rejects it, and asks once more.                                *)
(*                                                                         *)
(* A credential is the number of its session; 0 is none.                   *)
(***************************************************************************)
EXTENDS Naturals

CONSTANTS
  Process,      \* processes, each with a cache and a lock
  Caller, Home, \* tasks, and the process each runs in
  Subject,      \* Telegram senders
  User,         \* Platform users
  Nobody,       \* no caller, no user
  Life,         \* how long a session is valid
  Margin,       \* REFRESH_MARGIN_SECS
  Rounds,       \* credentials a caller tries
  MaxTime, MaxSessions, MaxFaults  \* bounds on the clock, exchanges and failures

VARIABLES
  now,
  link,    \* the user Platform has for each sender
  minted,  \* sessions minted so far
  session, \* Platform's sessions
  cache, lock,
  bound,   \* identities.internal_user_id
  call,    \* where each caller stands
  faults

vars == <<now, link, minted, session, cache, lock, bound, call, faults>>

Credential == 0..MaxSessions
Stage == {"idle", "look", "queue", "recheck", "mint", "insert", "hook", "use", "rejected",
          "done", "refused", "failed"}
CallState == [at : Stage, subject : Subject, held : Credential, round : 1..Rounds,
              tried : SUBSET Credential]
Session == [user : User \cup {Nobody}, subject : Subject, expires : Nat, revoked : BOOLEAN]

Init ==
  /\ now = 0
  /\ link \in [Subject -> User]
  /\ minted = 0
  /\ session = [k \in 1..MaxSessions |-> [user |-> Nobody, subject |-> CHOOSE s \in Subject : TRUE,
                                          expires |-> 0, revoked |-> FALSE]]
  /\ cache = [p \in Process |-> [s \in Subject |-> 0]]
  /\ lock = [p \in Process |-> Nobody]
  /\ bound = [s \in Subject |-> Nobody]
  /\ \E subject \in [Caller -> Subject] :
       call = [c \in Caller |-> [at |-> "idle", subject |-> subject[c], held |-> 0,
                                 round |-> 1, tried |-> {}]]
  /\ faults = 0

Fail == faults < MaxFaults /\ faults' = faults + 1

Goto(c, at) == call' = [call EXCEPT ![c].at = at]
Take(c, k)  == call' = [call EXCEPT ![c].at = "use", ![c].held = k]

Cached(c) == cache[Home[c]][call[c].subject]

\* Inside its refresh margin.
Fresh(k) == k # 0 /\ now < session[k].expires - Margin

\* Platform takes it.
Alive(k) == now < session[k].expires /\ ~session[k].revoked

Begin(c) ==
  /\ call[c].at = "idle"
  /\ Goto(c, "look")
  /\ UNCHANGED <<now, link, minted, session, cache, lock, bound, faults>>

Look(c) ==
  /\ call[c].at = "look"
  /\ IF Fresh(Cached(c)) THEN Take(c, Cached(c)) ELSE Goto(c, "queue")
  /\ UNCHANGED <<now, link, minted, session, cache, lock, bound, faults>>

Acquire(c) ==
  /\ call[c].at = "queue" /\ lock[Home[c]] = Nobody
  /\ lock' = [lock EXCEPT ![Home[c]] = c]
  /\ Goto(c, "recheck")
  /\ UNCHANGED <<now, link, minted, session, cache, bound, faults>>

Release(c) == lock' = [lock EXCEPT ![Home[c]] = Nobody]

\* Whoever queued behind an exchange finds its result.
Recheck(c) ==
  /\ call[c].at = "recheck"
  /\ IF Fresh(Cached(c))
     THEN Take(c, Cached(c)) /\ Release(c)
     ELSE Goto(c, "mint") /\ UNCHANGED lock
  /\ UNCHANGED <<now, link, minted, session, cache, bound, faults>>

\* Platform mints a session for the user it has for the sender.
Mint(c) ==
  /\ call[c].at = "mint" /\ minted < MaxSessions
  /\ minted' = minted + 1
  /\ session' = [session EXCEPT ![minted + 1] =
       [user |-> link[call[c].subject], subject |-> call[c].subject, expires |-> now + Life,
        revoked |-> FALSE]]
  /\ call' = [call EXCEPT ![c].at = "insert", ![c].held = minted + 1]
  /\ UNCHANGED <<now, link, cache, lock, bound, faults>>

\* The exchange is refused, its answer is lost, or the task is aborted: the lock goes
\* with the caller.
Abort(c) ==
  /\ call[c].at \notin {"idle", "done", "refused", "failed"} /\ Fail
  /\ Goto(c, "failed")
  /\ IF lock[Home[c]] = c THEN Release(c) ELSE UNCHANGED lock
  /\ UNCHANGED <<now, link, minted, session, cache, bound>>

\* Mutant of Insert: the lock is held until the hook is done.
InsertLocked(c) ==
  /\ call[c].at = "insert"
  /\ cache' = [cache EXCEPT ![Home[c]][call[c].subject] = call[c].held]
  /\ Goto(c, "hook") /\ UNCHANGED lock
  /\ UNCHANGED <<now, link, minted, session, bound, faults>>

\* The session is cached before the lock is released, and the hook waits for neither.
Insert(c) ==
  /\ call[c].at = "insert"
  /\ cache' = [cache EXCEPT ![Home[c]][call[c].subject] = call[c].held]
  /\ Goto(c, "hook") /\ Release(c)
  /\ UNCHANGED <<now, link, minted, session, bound, faults>>

\* The hook writes what it was given, or fails and says so in the log only.
Hook(c) ==
  /\ call[c].at = "hook"
  /\ \/ bound' = [bound EXCEPT ![call[c].subject] = session[call[c].held].user]
        /\ UNCHANGED faults
     \/ Fail /\ UNCHANGED bound
  /\ Goto(c, "use")
  /\ UNCHANGED <<now, link, minted, session, cache, lock>>

\* Platform answers for the session it is shown.
Use(c) ==
  /\ call[c].at = "use"
  /\ IF Alive(call[c].held)
     THEN Goto(c, "done")
     ELSE call' = [call EXCEPT ![c].at = "rejected", ![c].tried = @ \cup {call[c].held}]
  /\ UNCHANGED <<now, link, minted, session, cache, lock, bound, faults>>

\* Mutants of Drop: the entry is removed whatever it is, or left where it is.
DropAny(c) == cache' = [cache EXCEPT ![Home[c]][call[c].subject] = 0]
DropNone(c) == UNCHANGED cache

\* Only the rejected credential is dropped, not the one that may have replaced it.
Drop(c) ==
  cache' = IF Cached(c) = call[c].held
           THEN [cache EXCEPT ![Home[c]][call[c].subject] = 0]
           ELSE cache

\* The rejection of the last round is final.
Reject(c) ==
  /\ call[c].at = "rejected"
  /\ IF call[c].round = Rounds
     THEN Goto(c, "refused") /\ UNCHANGED cache
     ELSE /\ Drop(c)
          /\ call' = [call EXCEPT ![c].at = "look", ![c].round = @ + 1]
  /\ UNCHANGED <<now, link, minted, session, lock, bound, faults>>

-----------------------------------------------------------------------------
(* Platform and the clock *)

\* A session is revoked, or lost with Platform's database.
Revoke(k) ==
  /\ k <= minted /\ ~session[k].revoked /\ Fail
  /\ session' = [session EXCEPT ![k].revoked = TRUE]
  /\ UNCHANGED <<now, link, minted, cache, lock, bound, call>>

\* The account of a sender moves to another user.
Relink(s, u) ==
  /\ link[s] # u /\ Fail
  /\ link' = [link EXCEPT ![s] = u]
  /\ UNCHANGED <<now, minted, session, cache, lock, bound, call>>

Tick ==
  /\ now < MaxTime /\ now' = now + 1
  /\ UNCHANGED <<link, minted, session, cache, lock, bound, call, faults>>

Exchange(c) == Look(c) \/ Acquire(c) \/ Recheck(c) \/ Mint(c) \/ Insert(c)

Step(c) == Begin(c) \/ Exchange(c) \/ Hook(c) \/ Use(c) \/ Reject(c) \/ Abort(c)

Next == \/ \E c \in Caller : Step(c)
        \/ \E k \in 1..MaxSessions : Revoke(k)
        \/ \E s \in Subject, u \in User : Relink(s, u)
        \/ Tick

\* The lock is fair, and an exchange ends within the client's timeout.  Nothing is asked
\* of the hook, which may wait for the database as long as it likes.
Fairness == \A c \in Caller : WF_vars(Exchange(c)) /\ SF_vars(Acquire(c))

Spec == Init /\ [][Next]_vars /\ Fairness

-----------------------------------------------------------------------------
TypeOK ==
  /\ now \in 0..MaxTime
  /\ link \in [Subject -> User]
  /\ minted \in 0..MaxSessions
  /\ session \in [1..MaxSessions -> Session]
  /\ cache \in [Process -> [Subject -> Credential]]
  /\ lock \in [Process -> Caller \cup {Nobody}]
  /\ bound \in [Subject -> User \cup {Nobody}]
  /\ call \in [Caller -> CallState]
  /\ faults \in 0..MaxFaults

\* A caller is only ever handed a session of its own sender, whoever exchanged it, and
\* a sender is only bound to a user that a session of its own was for (session,
\* identity_binding_hook).
OwnSession ==
  /\ \A c \in Caller : call[c].held # 0 => session[call[c].held].subject = call[c].subject
  /\ \A s \in Subject : bound[s] # Nobody =>
       \E k \in 1..minted : session[k].subject = s /\ session[k].user = bound[s]

\* No caller gets back a credential it has reported as rejected, whoever exchanges,
\* inserts or drops entries of the cache meanwhile (session, invalidate_credential).
RejectedStaysOut ==
  \A c \in Caller : call[c].at \in {"look", "queue", "recheck", "mint", "insert", "hook", "use"} =>
    Cached(c) \notin call[c].tried /\ (call[c].at = "use" => call[c].held \notin call[c].tried)

\* However many callers need a session at once, it is exchanged once: no entry is
\* replaced while it is fresh (exchange).
ExchangedOnNeed ==
  [][\A p \in Process, s \in Subject :
       cache'[p][s] \notin {0, cache[p][s]} => ~Fresh(cache[p][s])]_vars

\* Only what Platform refuses is dropped: a late rejection does not throw away the
\* session that has replaced the rejected one (invalidate_credential).
OnlyDeadIsDropped ==
  [][\A p \in Process, s \in Subject :
       cache'[p][s] # cache[p][s] /\ cache'[p][s] = 0 => ~Alive(cache[p][s])]_vars

\* A binding that hangs holds up its own caller and nobody else's exchange (session).
ExchangesEnd ==
  \A c \in Caller : call[c].at = "look" ~>
    (call[c].at \in {"hook", "use", "rejected", "done", "refused", "failed"} \/ minted = MaxSessions)

\* A caller works with a session of its own sender that it has not seen rejected
\* (session, invalidate_credential).
SessionsAreOwn == TypeOK /\ OwnSession /\ RejectedStaysOut

\* Callers do not spoil one another's sessions: none is replaced while fresh or
\* dropped while alive (exchange, invalidate_credential).
CacheIsKept == ExchangedOnNeed /\ OnlyDeadIsDropped

=============================================================================
