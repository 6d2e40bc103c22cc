--------------------------- MODULE LifecycleProofs ---------------------------
(***************************************************************************)
(* Proofs about Lifecycle, for either role and any capacity of the feed:   *)
(* the pool outlives its users, a graceful end is whole, nothing is        *)
(* admitted past the fence, and readiness is not claimed wrongly.          *)
(***************************************************************************)
EXTENDS Lifecycle, TLAPS

Early == {"prepare", "background", "public", "admin"}

\* Until the end is requested, or forced, nothing owned is aborted.
Unforced == Early \cup {"serving", "draining", "closing"}

\* What startup has not reached is absent.
StartsInOrder ==
  phase \in Early =>
    /\ ~started /\ ~draining /\ ~closed /\ ~closing
    /\ stage["admin"] = "absent" /\ stage["prober"] = "absent" /\ stage["fence"] = "absent"
    /\ phase # "admin" => \A t \in Owned : stage[t] = "absent"
    /\ phase = "public" => role = "webhook"
    /\ pool = IF phase = "prepare" THEN "none" ELSE "open"

\* A serving process has its pool, its admin listener and its prober.
Serves ==
  phase = "serving" =>
    /\ started /\ ~draining /\ ~closed /\ ~closing /\ pool = "open"
    /\ ~Ended("admin") /\ ~Ended("prober") /\ stage["fence"] = "absent"

\* The dispatcher's workers do not end of themselves.
WorkersStay ==
  phase \in {"admin", "serving"} /\ role = "dispatcher" =>
    /\ \A t \in Registered : ~Ended(t)
    /\ stage["follower"] # "joining"

\* Past serving, the process is not ready again.
NotReady == phase \notin Early \cup {"serving"} => ~started \/ draining

\* A stream has no unit of its own: it waits for a frame, or for room.
FenceSeals ==
  /\ stage["stream"] \in {"absent", "idle", "ended"}
  /\ stage["fence"] \in {"queued", "sealed"} => closed
  /\ stage["fence"] = "sealed" => stage["sender"] # "claiming"
  /\ ~closed => feedOpen

\* The pool closes last.
ClosesLast ==
  /\ phase \in {"reaped", "exited"} \/ pool = "closed" => \A t \in Owned : Ended(t)
  /\ phase = "exited" \/ pool = "closed" => Ended("prober")
  /\ pool = "closed" => phase \in {"rollback", "reaped", "exited"}
  /\ phase = "rollback" => stage["prober"] = "absent"

\* Unless the end is forced, nothing owned is cut and the consumer leaves an
\* empty feed nobody writes to.
Whole ==
  /\ phase \in Unforced => outcome = "none" /\ aborted \subseteq {"stream"}
  /\ outcome = "graceful" => phase \in {"reaped", "exited"}
  /\ phase \in Unforced \/ outcome = "graceful" =>
       /\ cut \cap Owned = {}
       /\ Ended("consumer") =>
            feed = 0 /\ (~feedOpen \/ (Ended("follower") /\ Ended("stream")))

IInv == /\ TypeOK
        /\ StartsInOrder
        /\ Serves
        /\ WorkersStay
        /\ NotReady
        /\ FenceSeals
        /\ ClosesLast
        /\ Whole

-----------------------------------------------------------------------------
(* The invariant *)

LEMMA InitInv == Init => IInv
<1> SUFFICES ASSUME Init PROVE IInv
  OBVIOUS
<1>1. /\ ~started /\ ~draining /\ ~closed /\ ~closing /\ ~awaited /\ feedOpen
      /\ started \in BOOLEAN /\ draining \in BOOLEAN /\ closed \in BOOLEAN
      /\ closing \in BOOLEAN /\ awaited \in BOOLEAN /\ feedOpen \in BOOLEAN
  BY Zenon DEF Init
<1>2. /\ role \in {"webhook", "dispatcher"} /\ phase = "prepare" /\ outcome = "none"
      /\ database = "absent" /\ bus = "absent" /\ pool = "none"
      /\ stage = [t \in Task |-> "absent"] /\ aborted = {} /\ cut = {} /\ feed = 0
  BY Zenon DEF Init
<1>3. TypeOK
  BY <1>1, <1>2, FeedCapacityAssumption DEF TypeOK, Phase, Stage
<1>4. \A t \in Task : stage[t] = "absent" /\ Ended(t)
  BY <1>2 DEF Ended
<1>5. Owned \cup {"admin", "prober", "fence", "stream", "follower", "consumer", "sender"}
        \subseteq Task
  BY DEF Task, Owned, Server, Registered
<1>6. StartsInOrder /\ Serves /\ WorkersStay /\ NotReady
  BY <1>1, <1>2, <1>4, <1>5 DEF StartsInOrder, Serves, WorkersStay, NotReady, Early
<1>7. FenceSeals /\ ClosesLast /\ Whole
  BY <1>1, <1>2, <1>4, <1>5 DEF FenceSeals, ClosesLast, Whole, Unforced, Early
<1> QED
  BY <1>3, <1>6, <1>7 DEF IInv

LEMMA StepInv == IInv /\ [Next]_vars => IInv'
<1> SUFFICES ASSUME IInv, [Next]_vars PROVE IInv'
  OBVIOUS
<1> USE FeedCapacityAssumption
    DEF IInv, TypeOK, StartsInOrder, Serves, WorkersStay, NotReady, FenceSeals, ClosesLast, Whole,
        Early, Unforced, Server, Registered, Owned, Task, Stage, Phase, Ended, readiness,
        taskVars, Goto, Fail, request_shutdown, begin_draining, abort_all, wait_for_all, Move,
        TaskRest, At, MayAdmit, HasRoom, Drained, DropTasks
<1>1. ASSUME Prepare PROVE IInv'
  BY <1>1 DEF Prepare
<1>2. ASSUME StartBackground PROVE IInv'
  BY <1>2 DEF StartBackground
<1>3. ASSUME StartPublic PROVE IInv'
  BY <1>3 DEF StartPublic
<1>4. ASSUME StartAdmin PROVE IInv'
  <2> HIDE DEF request_shutdown
  <2>1. request_shutdown(stage) =>
          /\ closed' \in BOOLEAN /\ (closed' <=> role = "dispatcher")
          /\ stage' = IF role = "webhook" THEN stage ELSE [stage EXCEPT !["fence"] = "queued"]
    BY Zenon DEF request_shutdown
  <2>2. CASE /\ stage' = [stage EXCEPT !["admin"] = "idle", !["prober"] = "idle"]
             /\ started' = TRUE
             /\ Goto("serving") /\ UNCHANGED <<closed, aborted>>
    BY <1>4, <2>2 DEF StartAdmin
  <2>3. CASE /\ request_shutdown(stage)
             /\ aborted' = Owned
             /\ Goto("rollback") /\ UNCHANGED started
    <3>1. /\ closed' \in BOOLEAN /\ (closed' <=> role = "dispatcher")
          /\ stage' = IF role = "webhook" THEN stage ELSE [stage EXCEPT !["fence"] = "queued"]
      BY <2>1, <2>3, Zenon
    <3>2. /\ phase = "admin" /\ phase' = "rollback" /\ role' = role /\ aborted' = Owned
          /\ UNCHANGED <<started, outcome, draining, database, bus, pool, closing, awaited, cut,
                         feed, feedOpen>>
      BY <1>4, <2>3 DEF StartAdmin
    <3>3. TypeOK'
      BY <3>1, <3>2
    <3>4. StartsInOrder' /\ Serves' /\ WorkersStay' /\ NotReady'
      BY <3>1, <3>2
    <3>5. FenceSeals' /\ ClosesLast' /\ Whole'
      BY <3>1, <3>2
    <3> QED
      BY <3>3, <3>4, <3>5
  <2> QED
    BY <1>4, <2>2, <2>3 DEF StartAdmin
<1>5. ASSUME Rollback PROVE IInv'
  BY <1>5 DEF Rollback
<1>6. ASSUME CloseServers PROVE IInv'
  <2>1. TypeOK'
    BY <1>6 DEF CloseServers
  <2>2. StartsInOrder' /\ Serves' /\ WorkersStay' /\ NotReady'
    BY <1>6 DEF CloseServers
  <2>3. FenceSeals' /\ ClosesLast' /\ Whole'
    BY <1>6 DEF CloseServers
  <2> QED
    BY <2>1, <2>2, <2>3
<1>7. ASSUME AllDone PROVE IInv'
  BY <1>7 DEF AllDone
<1>8. ASSUME GraceExpires PROVE IInv'
  BY <1>8 DEF GraceExpires
<1>9. ASSUME AllReaped PROVE IInv'
  BY <1>9 DEF AllReaped
<1>10. ASSUME StopProber PROVE IInv'
  BY <1>10 DEF StopProber
<1>11. ASSUME ClosePool PROVE IInv'
  BY <1>11 DEF ClosePool
<1>12. ASSUME Exit PROVE IInv'
  <2>1. \A t \in Task : Ended(t)'
    BY <1>12 DEF Exit
  <2>2. \A t \in Owned : Ended(t) /\ stage'[t] = stage[t]
    BY <1>12 DEF Exit
  <2>3. TypeOK'
    <3>1. stage' \in [Task -> Stage] /\ cut' \subseteq Task
      BY <1>12 DEF Exit
    <3>2. /\ phase' = "exited" /\ UNCHANGED <<role, outcome, pool, database, bus, aborted, feed>>
          /\ UNCHANGED <<started, draining, closed, closing, awaited, feedOpen>>
      BY <1>12 DEF Exit
    <3> QED
      BY <3>1, <3>2
  <2>4. StartsInOrder' /\ Serves' /\ WorkersStay' /\ NotReady'
    BY <1>12 DEF Exit
  <2>5. FenceSeals' /\ ClosesLast'
    BY <1>12, <2>1, <2>2 DEF Exit
  <2>6. Whole'
    BY <1>12, <2>1, <2>2 DEF Exit
  <2> QED
    BY <2>3, <2>4, <2>5, <2>6
<1>13. ASSUME Signal PROVE IInv'
  BY <1>13 DEF Signal
<1>14. ASSUME Probe PROVE IInv'
  BY <1>14 DEF Probe
<1>15. ASSUME Claim PROVE IInv'
  BY <1>15 DEF Claim
<1>16. ASSUME Claimed PROVE IInv'
  BY <1>16 DEF Claimed
<1>17. ASSUME Spawn PROVE IInv'
  BY <1>17 DEF Spawn
<1>18. ASSUME Joined PROVE IInv'
  BY <1>18 DEF Joined
<1>19. ASSUME Stream PROVE IInv'
  BY <1>19 DEF Stream
<1>20. ASSUME CloseFeed PROVE IInv'
  <2>1. feedOpen' \in BOOLEAN /\ ~feedOpen'
    BY <1>20 DEF CloseFeed
  <2>2. TypeOK'
    BY <1>20, <2>1 DEF CloseFeed
  <2>3. StartsInOrder' /\ Serves' /\ WorkersStay' /\ NotReady'
    BY <1>20 DEF CloseFeed
  <2>4. FenceSeals' /\ ClosesLast' /\ Whole'
    BY <1>20, <2>1 DEF CloseFeed
  <2> QED
    BY <2>2, <2>3, <2>4
<1>21. ASSUME Consume PROVE IInv'
  BY <1>21 DEF Consume
<1>22. ASSUME Supervise PROVE IInv'
  BY <1>22 DEF Supervise
<1>23. ASSUME IntakeWorker PROVE IInv'
  BY <1>23 DEF IntakeWorker
<1>24. ASSUME Seal PROVE IInv'
  BY <1>24 DEF Seal
<1>25. ASSUME NEW t \in Task, Begin(t) PROVE IInv'
  BY <1>25 DEF Begin
<1>26. ASSUME NEW t \in Task, ServerCloses(t) PROVE IInv'
  BY <1>26 DEF ServerCloses
<1>27. ASSUME NEW t \in Task, Finish(t) PROVE IInv'
  BY <1>27 DEF Finish
<1>28. ASSUME NEW t \in Task, Check(t) PROVE IInv'
  BY <1>28 DEF Check
<1>29. ASSUME NEW t \in Task, Lock(t) PROVE IInv'
  BY <1>29 DEF Lock
<1>30. ASSUME NEW t \in Task, Wake(t) PROVE IInv'
  BY <1>30 DEF Wake
<1>31. ASSUME NEW t \in Task, Reap(t) PROVE IInv'
  BY <1>31 DEF Reap
<1>32. ASSUME Await PROVE IInv'
  BY <1>32 DEF Await
<1>33. ASSUME Panic PROVE IInv'
  <2>1. \A t \in Task : Ended(t)'
    BY <1>33 DEF Panic
  <2>2. TypeOK'
    BY <1>33 DEF Panic
  <2>3. StartsInOrder' /\ Serves' /\ WorkersStay' /\ NotReady'
    BY <1>33 DEF Panic
  <2>4. FenceSeals' /\ ClosesLast'
    BY <1>33, <2>1 DEF Panic
  <2>5. Whole'
    BY <1>33 DEF Panic
  <2> QED
    BY <2>2, <2>3, <2>4, <2>5
<1>34. CASE UNCHANGED vars
  BY <1>34 DEF vars
<1> QED
  BY <1>1, <1>2, <1>3, <1>4, <1>5, <1>6, <1>7, <1>8, <1>9, <1>10, <1>11, <1>12,
     <1>13, <1>14, <1>15, <1>16, <1>17, <1>18, <1>19, <1>20, <1>21, <1>22, <1>23, <1>24,
     <1>25, <1>26, <1>27, <1>28, <1>29, <1>30, <1>31, <1>32, <1>33, <1>34
  DEF Next, MainStep, TaskStep

-----------------------------------------------------------------------------
(* The theorems *)

\* Of either role, through every failed start, every shutdown and any capacity of
\* the feed, the invariant holds (run_with_background, drain_and_close).
THEOREM Invariance == Spec => []IInv
  BY InitInv, StepInv, PTL DEF Spec

\* Every variable keeps its type: tasks are only ever where their loops stand, and
\* the feed within its capacity (BackgroundRuntime, PROJECTION_FEED_CAPACITY).
THEOREM TypeCorrect == Spec => []TypeOK
<1>1. IInv => TypeOK
  BY DEF IInv
<1> QED
  BY <1>1, Invariance, PTL

\* Whenever the pool is closed, by a failed start, a graceful or a forced end, every
\* task the process owns and the prober have ended (abort_background, wait_for_all,
\* close_database).
THEOREM PoolLast == Spec => []PoolOutlivesOwned
<1>1. IInv => PoolOutlivesOwned
  BY DEF IInv, ClosesLast, PoolOutlivesOwned
<1> QED
  BY <1>1, Invariance, PTL

\* A shutdown that reports itself graceful has cut no owned unit and left no event in
\* the feed (wait_for_all, consume_until_shutdown).
THEOREM Graceful == Spec => []GracefulIsWhole
<1>1. IInv => GracefulIsWhole
  <2> SUFFICES ASSUME IInv, outcome = "graceful" PROVE cut \cap Owned = {} /\ feed = 0
    BY DEF GracefulIsWhole
  <2>1. Ended("consumer")
    BY DEF IInv, Whole, ClosesLast, Owned, Registered
  <2> QED
    BY <2>1 DEF IInv, Whole
<1> QED
  BY <1>1, Invariance, PTL

\* Readiness is claimed by serving processes only, whatever order their tasks report
\* in (is_ready, mark_startup_complete, begin_draining).
THEOREM Ready == Spec => []ReadyIsServing
<1>1. IInv => ReadyIsServing
  <2> SUFFICES ASSUME IInv, is_ready PROVE ReadyIsServing
    BY DEF ReadyIsServing
  <2>1. phase = "serving"
    BY DEF IInv, StartsInOrder, NotReady, is_ready
  <2> QED
    BY <2>1 DEF IInv, Serves, WorkersStay, ReadyIsServing
<1> QED
  BY <1>1, Invariance, PTL

LEMMA StepFenced ==
  ASSUME IInv, [Next]_vars, stage["fence"] = "sealed"
  PROVE  /\ stage'["sender"] = "unit" => stage["sender"] = "unit"
         /\ stage'["stream"] = "idle" => stage["stream"] = "idle"
<1> USE DEF readiness, taskVars
<1>1. /\ closed /\ stage["sender"] # "claiming" /\ phase \notin Early
      /\ stage \in [Task -> Stage] /\ {"sender", "stream", "fence"} \subseteq Task
      /\ stage["stream"] # "unit"
  BY DEF IInv, TypeOK, StartsInOrder, FenceSeals, Task, Owned, Registered
<1>2. CASE MainStep \/ Signal
  <2>1. phase # "serving"
    BY <1>1 DEF IInv, Serves
  <2>2. stage' = stage \/ Exit \/ Panic
    BY <1>1, <1>2, <2>1
    DEF MainStep, Signal, Prepare, StartBackground, StartPublic, StartAdmin, Rollback,
        CloseServers, Await, AllDone, GraceExpires, AllReaped, StopProber, ClosePool, Early
  <2> QED
    BY <1>1, <2>2 DEF Exit, Panic, DropTasks
<1>3. ASSUME NEW t \in Task, TaskStep(t)
      PROVE  /\ stage'["sender"] = "unit" => stage["sender"] = "unit"
             /\ stage'["stream"] = "idle" => stage["stream"] = "idle"
  BY <1>1, <1>3
  DEF TaskStep, Begin, ServerCloses, Finish, Check, Lock, Wake, Reap, Move, At, Server
<1>4. CASE Spawn \/ Claim \/ Claimed \/ Joined
  BY <1>1, <1>4 DEF Spawn, Claim, Claimed, Joined, Move, At, MayAdmit
<1>5. CASE Probe \/ Stream \/ CloseFeed \/ Consume \/ Supervise \/ IntakeWorker \/ Seal
  BY <1>1, <1>5
  DEF Probe, Stream, CloseFeed, Consume, Supervise, IntakeWorker, Seal, Move, At
<1>6. CASE UNCHANGED vars
  BY <1>6 DEF vars
<1> QED
  BY <1>2, <1>3, <1>4, <1>5, <1>6 DEF Next

\* Once the fence is reached neither the sender nor a stream is given a new unit
\* (request_shutdown, and the second look under the admission lock).
THEOREM Sealed == Spec => NothingAdmittedPastFence
<1> DEFINE Turned == stage["fence"] = "sealed" =>
             /\ stage'["sender"] = "unit" => stage["sender"] = "unit"
             /\ stage'["stream"] = "idle" => stage["stream"] = "idle"
<1>1. IInv /\ [Next]_vars => [Turned]_vars
  BY StepFenced
<1> QED
  BY <1>1, InitInv, StepInv, PTL DEF Spec, NothingAdmittedPastFence

=============================================================================
