-------------------------- MODULE MCRenderPipeline --------------------------
(***************************************************************************)
(* One operation with a frame of progress and its result, one mishap of    *)
(* any kind, of the wire, the follower, the accept or the operator, and    *)
(* one row that needs a second attempt.                                    *)
(***************************************************************************)
EXTENDS RenderPipeline

CONSTANT chat

OneOperation == {1}
TwoFrames == <<2>>
ItsChat == <<chat>>

Recovered == {j \in Rows : row[j].recovers # 0}

OneMishap == faults + losses + Cardinality(dropped) + Cardinality(Recovered) <= 1

\* The rows have room for a recovered one beside the result only.
RoomForResult == Recovered' # Recovered => \A o \in Operation : terminal[o]

OneRetry == Cardinality({j \in Rows : state[j] = "retry_wait" \/ attempts[j] > 1}) <= 1

\* A frame that Platform has not published and one that waits there look the same
\* to the follower, so Platform publishes first.
Published == \A o \in Operation : \E i \in DOMAIN log[o] : log[o][i].last

MCNext == PipeNext /\ OneMishap' /\ OneRetry' /\ RoomForResult /\ (log' = log => Published)

MCSpec == PipeInit /\ [][MCNext]_pipeVars /\ PipeFairness

=============================================================================
