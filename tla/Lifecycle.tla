------------------------------ MODULE Lifecycle ------------------------------
(***************************************************************************)
(* One process from its start to its exit: the startup of crates/http      *)
(* (lib.rs) with its rollbacks, the readiness facts (lifecycle.rs), and    *)
(* the shutdown sequence (shutdown.rs, public.rs) over the tasks of the    *)
(* process.                                                                *)
(*                                                                         *)
(* A process of either role runs the main sequence (phase) and a set of    *)
(* tokio tasks (stage).  What a task does with one unit of work is the     *)
(* subject of the other modules; here a unit is begun and, unless it       *)
(* hangs, finished.  A task that is aborted ends at its next suspension    *)
(* point, and loses the unit it was in.                                    *)
(***************************************************************************)
EXTENDS Naturals, FiniteSets

CONSTANT FeedCapacity  \* events the projection feed holds

ASSUME FeedCapacityAssumption == FeedCapacity \in Nat \ {0}

Server == {"admin", "public"}

\* The workers the dispatcher hands to its BackgroundRuntime.
Registered == {"sender", "consumer", "follower", "notifications"}

\* What the shutdown sequence waits for, the task that closes admission included.
Owned == Server \cup Registered \cup {"fence"}

\* The stream is a child of the follower; the webhook worker belongs to nobody.
Task == Owned \cup {"prober", "stream", "worker"}

Stage == {"absent",            \* not started
          "check",             \* at the top of its loop
          "queued", "fenced",  \* waiting for, or holding, the admission lock
          "claiming",          \* asking the store for a unit, under the lock
          "unit",              \* in a unit of work
          "idle",              \* waiting for work, a timer or the end
          "joining",           \* waiting for its own child to end
          "sealed",            \* the fence was reached: nobody is admitting
          "ended"}

Phase == {"prepare", "background", "public", "admin", "serving", "draining",
          "closing", "aborting", "rollback", "reaped", "exited"}

VARIABLES
  role,      \* "webhook" or "dispatcher"
  phase,     \* where the main sequence stands
  outcome,   \* what it has come to: "none", "graceful", "forced", "failed", "panicked"
  started, draining, database, bus,  \* RuntimeState, what readiness is computed from
  pool,      \* the database pool: "none", "open", "closed"
  closed,    \* admission is closed and cancellation requested
  closing,   \* the servers have been told to stop accepting
  awaited,   \* a wait has taken the end of its first handle, the admin server's
  stage,     \* where each task stands
  aborted,   \* the tasks that have been aborted
  cut,       \* the tasks that lost a unit to an abort or to the exit
  feed,      \* events in the projection feed
  feedOpen   \* whether the feed accepts events

readiness == <<started, draining, database, bus>>
taskVars == <<stage, aborted, cut, feed, feedOpen>>
vars == <<role, phase, outcome, readiness, pool, closed, closing, awaited, taskVars>>

Ended(t) == stage[t] \in {"absent", "ended", "sealed"}

is_ready == started /\ ~draining /\ database # "down" /\ bus # "down"

Init ==
  /\ role \in {"webhook", "dispatcher"} /\ phase = "prepare" /\ outcome = "none"
  /\ started = FALSE /\ draining = FALSE /\ database = "absent" /\ bus = "absent"
  /\ pool = "none" /\ closed = FALSE /\ closing = FALSE /\ awaited = FALSE
  /\ stage = [t \in Task |-> "absent"] /\ aborted = {} /\ cut = {}
  /\ feed = 0 /\ feedOpen = TRUE

-----------------------------------------------------------------------------
(* Startup *)

Goto(p) == phase' = p /\ UNCHANGED role

Fail == Goto("exited") /\ outcome' = "failed"

\* The database is configured, so it is down until the first probe; a database that
\* cannot be prepared refuses the start.
Prepare ==
  /\ phase = "prepare"
  /\ \/ /\ database' \in {"up", "down"} /\ pool' = "open"
        /\ Goto("background") /\ UNCHANGED outcome
     \/ /\ database' = "down" /\ Fail /\ UNCHANGED pool
  /\ UNCHANGED <<started, draining, bus, closed, closing, awaited, taskVars>>

\* Only the dispatcher brings background workers; its factory may fail before it
\* starts any of them, with the bus marked or not.
StartBackground ==
  /\ phase = "background"
  /\ \/ /\ Goto(IF role = "webhook" THEN "public" ELSE "admin")
        /\ stage' = [t \in Task |-> IF role = "webhook" \/ t \notin Registered THEN stage[t]
                                    ELSE IF t = "consumer" THEN "idle" ELSE "check"]
        /\ bus' = IF role = "webhook" THEN bus ELSE "down"
        /\ UNCHANGED <<outcome, pool>>
     \/ /\ role = "dispatcher" /\ pool' = "closed" /\ bus' \in {bus, "down"}
        /\ Fail /\ UNCHANGED stage
  /\ UNCHANGED <<started, draining, database, closed, closing, awaited, aborted, cut, feed, feedOpen>>

\* The webhook builds its router, which spawns the intake worker, and binds it. A build
\* that fails ends the process; a bind that fails drops the router and goes on.
StartPublic ==
  /\ phase = "public"
  /\ \/ /\ \E bound \in BOOLEAN :
             stage' = [stage EXCEPT !["worker"] = "check",
                                    !["public"] = IF bound THEN "idle" ELSE "ended"]
        /\ Goto("admin") /\ UNCHANGED <<outcome, pool>>
     \/ pool' = "closed" /\ Fail /\ UNCHANGED stage
  /\ UNCHANGED <<readiness, closed, closing, awaited, aborted, cut, feed, feedOpen>>

\* request_shutdown: admission and cancellation first, then the task that waits for
\* whoever is being admitted. A process without background workers has neither.
request_shutdown(s) ==
  /\ closed' = (role = "dispatcher")
  /\ stage' = IF role = "webhook" THEN s ELSE [s EXCEPT !["fence"] = "queued"]

\* The admin listener is the last step: failing it rolls the others back.
StartAdmin ==
  /\ phase = "admin"
  /\ \/ /\ stage' = [stage EXCEPT !["admin"] = "idle", !["prober"] = "idle"]
        /\ started' = TRUE
        /\ Goto("serving") /\ UNCHANGED <<closed, aborted>>
     \/ /\ request_shutdown(stage)
        /\ aborted' = Owned
        /\ Goto("rollback") /\ UNCHANGED started
  /\ UNCHANGED <<outcome, draining, database, bus, pool, closing, awaited, cut, feed, feedOpen>>

\* Everything that was started has ended; the pool goes last.
Rollback ==
  /\ phase = "rollback" /\ pool = "open"
  /\ \A t \in Owned : Ended(t)
  /\ pool' = "closed" /\ outcome' = "failed"
  /\ UNCHANGED <<role, phase, readiness, closed, closing, awaited, taskVars>>

-----------------------------------------------------------------------------
(* Shutdown *)

\* Mutant of begin_draining: the flag is forgotten.
StayReady == draining' = draining

begin_draining == draining' = TRUE

\* SIGTERM or SIGINT: not ready at once, the listeners stay open, the workers stop
\* taking work.
Signal ==
  /\ phase = "serving"
  /\ begin_draining
  /\ request_shutdown(stage)
  /\ Goto("draining")
  /\ UNCHANGED <<outcome, started, database, bus, pool, closing, awaited, aborted, cut, feed, feedOpen>>

\* Mutant of abort_all and wait_for_all: the background tasks are left out.
ServersOnly == Server

\* What a forced end aborts.
abort_all == Owned

\* The handles a wait goes through, the admin server's first. It keeps no record of
\* those whose end it has taken, and polling one of these again panics (tokio).
wait_for_all == Owned

\* The drain window passes, or a second signal cuts it and the grace window short.
CloseServers ==
  /\ phase = "draining"
  /\ closing' = TRUE
  /\ \/ Goto("closing") /\ UNCHANGED aborted
     \/ Goto("aborting") /\ aborted' = abort_all
  /\ UNCHANGED <<outcome, readiness, pool, closed, awaited, stage, cut, feed, feedOpen>>

\* The wait of the grace window takes the end of its first handle.
Await ==
  /\ phase = "closing" /\ ~awaited /\ Ended("admin")
  /\ awaited' = TRUE
  /\ UNCHANGED <<role, phase, outcome, readiness, pool, closed, closing, taskVars>>

AllDone ==
  /\ phase = "closing"
  /\ \A t \in wait_for_all : Ended(t)
  /\ awaited' = TRUE /\ outcome' = "graceful"
  /\ Goto("reaped")
  /\ UNCHANGED <<readiness, pool, closed, closing, taskVars>>

\* The grace window expires, or a second signal arrives.
GraceExpires ==
  /\ phase = "closing"
  /\ aborted' = abort_all
  /\ Goto("aborting")
  /\ UNCHANGED <<outcome, readiness, pool, closed, closing, awaited, stage, cut, feed, feedOpen>>

\* The second wait, when the first has taken nothing.
AllReaped ==
  /\ phase = "aborting" /\ ~awaited
  /\ \A t \in wait_for_all : Ended(t)
  /\ awaited' = TRUE /\ outcome' = "forced"
  /\ Goto("reaped")
  /\ UNCHANGED <<readiness, pool, closed, closing, taskVars>>

\* The runtime drops whatever task is left when main is over.
DropTasks ==
  /\ cut' = cut \cup {t \in Task : stage[t] = "unit"}
  /\ stage' = [t \in Task |-> IF Ended(t) THEN stage[t] ELSE "ended"]

\* The second wait, when the first has taken the admin server's end already: main
\* panics, and the prober, the pool and the telemetry are not seen to.
Panic ==
  /\ phase = "aborting" /\ awaited
  /\ outcome' = "panicked" /\ Goto("exited") /\ DropTasks
  /\ UNCHANGED <<readiness, pool, closed, closing, awaited, aborted, feed, feedOpen>>

StopProber ==
  /\ phase = "reaped" /\ "prober" \notin aborted
  /\ aborted' = aborted \cup {"prober"}
  /\ UNCHANGED <<role, phase, outcome, readiness, pool, closed, closing, awaited, stage, cut, feed, feedOpen>>

ClosePool ==
  /\ phase = "reaped" /\ Ended("prober") /\ pool = "open"
  /\ pool' = "closed"
  /\ UNCHANGED <<role, phase, outcome, readiness, closed, closing, awaited, taskVars>>

\* main returns: the webhook's worker, which nobody waits for, may be in the middle of
\* an update.
Exit ==
  /\ phase \in {"reaped", "rollback"} /\ pool = "closed"
  /\ Goto("exited") /\ DropTasks
  /\ UNCHANGED <<outcome, readiness, pool, closed, closing, awaited, aborted, feed, feedOpen>>

MainStep == \/ Prepare \/ StartBackground \/ StartPublic \/ StartAdmin \/ Rollback
            \/ CloseServers \/ Await \/ AllDone \/ GraceExpires \/ AllReaped
            \/ Panic \/ StopProber \/ ClosePool \/ Exit

-----------------------------------------------------------------------------
(* Tasks *)

Move(t, to) == stage' = [stage EXCEPT ![t] = to]

\* What no task but the consumer and the stream touches, and no task at all.
TaskRest == UNCHANGED <<role, phase, outcome, started, draining, pool, closed, closing, awaited>>

At(t, s) == stage[t] = s /\ phase # "exited" /\ TaskRest

\* A request arrives at an open listener, or a message from the bus; it is finished,
\* or hangs.
Begin(t) ==
  /\ At(t, "idle") /\ t \in Server \cup {"notifications"}
  /\ t \in Server => ~closing
  /\ Move(t, "unit")
  /\ UNCHANGED <<database, bus, aborted, cut, feed, feedOpen>>

\* A server leaves once it is told to and has no request left.
ServerCloses(t) ==
  /\ At(t, "idle") /\ t \in Server /\ closing
  /\ Move(t, "ended")
  /\ UNCHANGED <<database, bus, aborted, cut, feed, feedOpen>>

Finish(t) ==
  /\ At(t, "unit")
  /\ Move(t, IF t \in {"sender", "worker"} THEN "check" ELSE "idle")
  /\ UNCHANGED <<database, bus, aborted, cut, feed, feedOpen>>

\* The prober records what it found, until it is stopped.
Probe ==
  /\ At("prober", "idle")
  /\ database' = IF database = "up" THEN "down" ELSE "up"
  /\ UNCHANGED <<bus, taskVars>>

\* The sender and the follower look at the end first, then wait for the admission
\* lock; the lock is fair, so nobody overtakes the waiting fence.
Check(t) ==
  /\ At(t, "check") /\ t \in {"sender", "follower"}
  /\ Move(t, IF ~closed THEN "queued" ELSE IF t = "follower" THEN "joining" ELSE "ended")
  /\ aborted' = IF closed /\ t = "follower" THEN aborted \cup {"stream"} ELSE aborted
  /\ UNCHANGED <<database, bus, cut, feed, feedOpen>>

Lock(t) ==
  /\ At(t, "queued") /\ t \in {"sender", "follower"} /\ stage["fence"] # "queued"
  /\ Move(t, "fenced")
  /\ UNCHANGED <<database, bus, aborted, cut, feed, feedOpen>>

\* Mutant of MayAdmit: no second look.
AlwaysAdmit == TRUE

\* Under the lock they look again.
MayAdmit == ~closed

\* The sender claims a job under the lock, which takes a while.
Claim ==
  /\ At("sender", "fenced")
  /\ Move("sender", IF MayAdmit THEN "claiming" ELSE "ended")
  /\ UNCHANGED <<database, bus, aborted, cut, feed, feedOpen>>

Claimed ==
  /\ At("sender", "claiming")
  /\ \E to \in {"unit", "idle"} : Move("sender", to)
  /\ UNCHANGED <<database, bus, aborted, cut, feed, feedOpen>>

\* The follower spawns the stream it lacks, if the scan found its operation.
Spawn ==
  /\ At("follower", "fenced")
  /\ \E found \in BOOLEAN :
       stage' = [stage EXCEPT !["follower"] = "idle",
                              !["stream"] = IF found /\ MayAdmit /\ Ended("stream")
                                            THEN "idle" ELSE @]
  /\ UNCHANGED <<database, bus, aborted, cut, feed, feedOpen>>

\* An idle loop is woken by its timer, or by the cancellation.
Wake(t) ==
  /\ At(t, "idle") /\ t \in {"sender", "follower"}
  /\ Move(t, IF ~closed THEN "check" ELSE IF t = "follower" THEN "joining" ELSE "ended")
  /\ aborted' = IF closed /\ t = "follower" THEN aborted \cup {"stream"} ELSE aborted
  /\ UNCHANGED <<database, bus, cut, feed, feedOpen>>

\* The follower leaves after its child.
Joined ==
  /\ At("follower", "joining") /\ Ended("stream")
  /\ Move("follower", "ended")
  /\ UNCHANGED <<database, bus, aborted, cut, feed, feedOpen>>

HasRoom == feed < FeedCapacity

\* The stream hands a frame to the feed, waiting for a place, or ends.
Stream ==
  /\ At("stream", "idle")
  /\ \/ feedOpen /\ HasRoom /\ feed' = feed + 1 /\ UNCHANGED stage
     \/ Move("stream", "ended") /\ UNCHANGED feed
  /\ UNCHANGED <<database, bus, aborted, cut, feedOpen>>

\* The cancellation closes the feed; what it holds is still consumed.
CloseFeed ==
  /\ At("consumer", "idle") /\ closed /\ feedOpen
  /\ feedOpen' = FALSE
  /\ UNCHANGED <<database, bus, stage, aborted, cut, feed>>

\* Mutant of Drained: a closed feed is left with what it holds.
DropsFeed == ~feedOpen \/ (feed = 0 /\ Ended("follower") /\ Ended("stream"))

\* The feed has ended: it is empty, and closed or left by everybody who writes to it.
Drained == feed = 0 /\ (~feedOpen \/ (Ended("follower") /\ Ended("stream")))

Consume ==
  /\ At("consumer", "idle")
  /\ \/ /\ feed > 0 /\ (closed => ~feedOpen)
        /\ feed' = feed - 1
        /\ Move("consumer", "unit")
     \/ Drained /\ Move("consumer", "ended") /\ UNCHANGED feed
  /\ UNCHANGED <<database, bus, aborted, cut, feedOpen>>

\* The supervisor opens the durable, or fails and retries; a lost transport brings it
\* back to the opening; it leaves with the bus marked down.
Supervise ==
  /\ At("notifications", stage["notifications"])
  /\ \/ stage["notifications"] = "check" /\ ~closed /\ Move("notifications", "idle") /\ bus' = "up"
     \/ stage["notifications"] \in {"idle", "unit"} /\ Move("notifications", "check") /\ bus' = "down"
     \/ /\ stage["notifications"] \in {"check", "idle"} /\ closed
        /\ Move("notifications", "ended") /\ bus' = "down"
  /\ UNCHANGED <<database, aborted, cut, feed, feedOpen>>

\* The intake worker claims until nothing is left, then waits for a hint; it ends
\* when the router that sends the hints is gone.
IntakeWorker ==
  /\ \/ At("worker", "check") /\ \E to \in {"unit", "idle"} : Move("worker", to)
     \/ At("worker", "idle") /\ Move("worker", IF Ended("public") THEN "ended" ELSE "check")
  /\ UNCHANGED <<database, bus, aborted, cut, feed, feedOpen>>

\* The fence is reached once nobody holds the admission lock.
Seal ==
  /\ At("fence", "queued")
  /\ \A t \in {"sender", "follower"} : stage[t] \notin {"fenced", "claiming"}
  /\ Move("fence", "sealed")
  /\ UNCHANGED <<database, bus, aborted, cut, feed, feedOpen>>

\* An aborted task ends where it is suspended. An aborted follower drops its child.
Reap(t) ==
  /\ At(t, stage[t]) /\ t \in aborted /\ ~Ended(t)
  /\ Move(t, "ended")
  /\ cut' = IF stage[t] = "unit" THEN cut \cup {t} ELSE cut
  /\ aborted' = IF t = "follower" THEN aborted \cup {"stream"} ELSE aborted
  /\ UNCHANGED <<database, bus, feed, feedOpen>>

TaskStep(t) == Begin(t) \/ ServerCloses(t) \/ Finish(t) \/ Check(t) \/ Lock(t) \/ Wake(t) \/ Reap(t)

Next == \/ MainStep \/ Signal
        \/ \E t \in Task : TaskStep(t)
        \/ Probe \/ Claim \/ Claimed \/ Spawn \/ Joined \/ Stream \/ CloseFeed \/ Consume
        \/ Supervise \/ IntakeWorker \/ Seal

Spec == Init /\ [][Next]_vars

\* The windows of the sequence elapse and aborted tasks are dropped; no unit of work
\* is assumed to finish, and no signal to arrive.
Fairness == WF_vars(MainStep) /\ \A t \in Task : WF_vars(Reap(t))

FairSpec == Spec /\ Fairness

-----------------------------------------------------------------------------
(* Properties *)

TypeOK ==
  /\ role \in {"webhook", "dispatcher"} /\ phase \in Phase
  /\ outcome \in {"none", "graceful", "forced", "failed", "panicked"}
  /\ started \in BOOLEAN /\ draining \in BOOLEAN
  /\ database \in {"absent", "up", "down"} /\ bus \in {"absent", "up", "down"}
  /\ pool \in {"none", "open", "closed"}
  /\ closed \in BOOLEAN /\ closing \in BOOLEAN /\ awaited \in BOOLEAN
  /\ stage \in [Task -> Stage]
  /\ aborted \subseteq Task /\ cut \subseteq Task
  /\ feed \in 0 .. FeedCapacity /\ feedOpen \in BOOLEAN

\* The pool is closed after every task the process owns has ended, and never while the
\* prober runs, on every way out of startup and shutdown that closes it, a failed
\* start and a forced end included (wait_for_all, abort_background, close_database).
PoolOutlivesOwned ==
  pool = "closed" => \A t \in Owned \cup {"prober"} : Ended(t)

\* A process that was told to end stops its prober and closes its pool before it
\* leaves, as run documents its step 9. It does not: see Panic.
ShutdownClosesPool == phase = "exited" /\ draining => pool = "closed"

\* A shutdown is only called graceful when no owned task lost a unit of work and
\* every event that had reached the feed was consumed (wait_for_all,
\* consume_until_shutdown).
GracefulIsWhole == outcome = "graceful" => cut \cap Owned = {} /\ feed = 0

\* Once the fence has been reached, no worker takes another unit: one that was
\* being admitted when the end was requested is in before it, the others are
\* turned away (request_shutdown, the check under the admission lock).
NothingAdmittedPastFence ==
  [][stage["fence"] = "sealed" =>
       /\ stage'["sender"] = "unit" => stage["sender"] = "unit"
       /\ stage'["stream"] = "idle" => stage["stream"] = "idle"]_vars

\* A process that says it is ready can do its work: its pool and admin listener are
\* open, its background workers there, and no end was requested, whatever order their
\* reports come in (mark_startup_complete, set_database_reachable, begin_draining).
ReadyIsServing ==
  is_ready =>
    /\ phase = "serving" /\ pool = "open" /\ ~closed /\ ~closing
    /\ \A t \in {"admin", "prober"} \cup (IF role = "dispatcher" THEN Registered ELSE {}) : ~Ended(t)

\* A process told to end ends, in order or by the panic of its second wait, whatever
\* its units of work do: none of them can hold it up (drain_and_close).
ShutdownEnds == phase = "draining" ~> phase = "exited"

=============================================================================
