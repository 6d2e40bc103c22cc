----------------------- MODULE OutboundQueueInvariant -----------------------
(***************************************************************************)
(* The inductive invariant of OutboundQueue: the reasons for which a send  *)
(* is posted at most once.  MCQueue checks it on small instances, and      *)
(* OutboundQueueProofs proves it.                                          *)
(***************************************************************************)
EXTENDS OutboundQueue

\* The job created no message and cannot create one unless it is sent again.
Clean(j) == ~Posted(j) /\ ~SendInFlight(j)

\* The sender may still give its job back to the queue.
Retryable(s) ==
  \/ pc[s] \in {"resolve", "prepare"}
  \/ pc[s] = "await" /\ (plan[s].method = "edit" \/ result[s] \in Refusal)
  \/ pc[s] = "settle" /\ result[s] \notin {"unknown", "not_modified"}

\* Rows beyond the last insertion do not exist.
AbsentRows == \A j \in Job : state[j] = "absent" <=> j > jobs

\* Waiting, withdrawn and failed jobs, and edits that an expired lease may hand
\* to another claim, can be delivered or forgotten without a second message.
CleanJobs ==
  \A j \in Job : \/ state[j] \in {"absent", "superseded", "failed_permanent"} \cup Waiting
                 \/ state[j] = "sending" /\ kind[j] = "edit"
                 => Clean(j)

CleanHolders == \A s \in Sender : Current(s) /\ Retryable(s) => Clean(held[s].job)

\* A claim's snapshot holds no send whose lease has expired.
SnapshotOfEdits ==
  \A s \in Sender : \A j \in seen[s] : state[j] = "sending" => kind[j] = "edit"

\* Only a claim has a snapshot, and results belong to their stage.
Stages ==
  \A s \in Sender :
    /\ pc[s] # "claiming" => seen[s] = {}
    /\ pc[s] \in {"idle", "claiming", "resolve", "prepare"} => result[s] = "none"
    /\ pc[s] = "await" => result[s] \in Refusal \cup {"none", "ok", "not_modified"}

\* At most one send of a job is on its way, and none once it has been posted.
SingleSend ==
  \A r \in flight : r.method = "send" =>
    /\ ~Posted(r.job)
    /\ \A q \in flight : q.method = "send" /\ q.job = r.job => q = r

\* A success the sender has seen is a render Telegram applied.
KnownSuccess ==
  \A s \in Sender :
    \/ pc[s] = "ack"
    \/ pc[s] = "await" /\ result[s] \in {"ok", "not_modified"}
    \/ pc[s] = "settle" /\ result[s] = "not_modified"
    => held[s].job \in applied

SentApplied == \A j \in Job : state[j] = "sent" => j \in applied

IInv == /\ TypeOK
        /\ AbsentRows
        /\ CleanJobs
        /\ CleanHolders
        /\ SnapshotOfEdits
        /\ Stages
        /\ SingleSend
        /\ KnownSuccess
        /\ SentApplied
        /\ SendAtMostOnce

=============================================================================
