------------------------------ MODULE Delivery ------------------------------
(***************************************************************************)
(* What the outbound queue promises its producers, without claims, leases, *)
(* attempts or a network: every accepted job ends in a truthful state, is  *)
(* posted at most once, and never changes its mind.                        *)
(***************************************************************************)
EXTENDS Naturals

CONSTANT Job

VARIABLES
  status,   \* what the queue says of a job
  posts,    \* how many messages the job created
  reached   \* jobs whose render Telegram has applied

Ended == {"delivered", "withdrawn", "failed", "unknown"}

Init == /\ status = [j \in Job |-> "absent"]
        /\ posts = [j \in Job |-> 0]
        /\ reached = {}

\* A producer enqueues j; older renders W that have not been posted give way.
Accept(j, W) ==
  /\ status[j] = "absent"
  /\ \A i \in W : status[i] = "pending" /\ posts[i] = 0
  /\ status' = [i \in Job |-> IF i = j THEN "pending"
                              ELSE IF i \in W THEN "withdrawn" ELSE status[i]]
  /\ UNCHANGED <<posts, reached>>

\* The job's message appears, at most once, and never after the queue said
\* that it would not.
Post(j) ==
  /\ status[j] \in {"pending", "unknown"} /\ posts[j] = 0
  /\ posts' = [posts EXCEPT ![j] = 1]
  /\ reached' = reached \cup {j}
  /\ UNCHANGED status

\* The job's render replaces the content of an existing message; rewriting is
\* idempotent and may come late.
Rewrite(j) ==
  /\ status[j] # "absent"
  /\ reached' = reached \cup {j}
  /\ UNCHANGED <<status, posts>>

Conclude(j) ==
  /\ status[j] = "pending" /\ j \in reached
  /\ status' = [status EXCEPT ![j] = "delivered"]
  /\ UNCHANGED <<posts, reached>>

\* Withdrawn or failed: no message was created and none will be.
Abandon(j) ==
  /\ status[j] = "pending" /\ posts[j] = 0
  /\ \E x \in {"withdrawn", "failed"} : status' = [status EXCEPT ![j] = x]
  /\ UNCHANGED <<posts, reached>>

\* Jobs whose outcome nobody can know are set aside together.
Quarantine(J) ==
  /\ J # {} /\ \A j \in J : status[j] = "pending"
  /\ status' = [j \in Job |-> IF j \in J THEN "unknown" ELSE status[j]]
  /\ UNCHANGED <<posts, reached>>

Next == \/ \E j \in Job : \/ \E W \in SUBSET Job : Accept(j, W)
                          \/ Post(j) \/ Rewrite(j) \/ Conclude(j) \/ Abandon(j)
        \/ \E J \in SUBSET Job : Quarantine(J)

Spec == Init /\ [][Next]_<<status, posts, reached>>
=============================================================================
