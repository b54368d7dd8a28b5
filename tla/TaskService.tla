----------------------------- MODULE TaskService -----------------------------
(***************************************************************************)
(* What the worker pool promises to whoever submits tasks to it, with no   *)
(* workers, queues or threads: a task accepted while the service is open   *)
(* is answered at most once, a task refused is answered on the spot, no    *)
(* answer follows the end of the service, and the tasks that are still     *)
(* unanswered when it ends (and only those) are abandoned.                 *)
(***************************************************************************)
CONSTANT Task

VARIABLES
    phase,   \* of the service as a whole
    status   \* of every task

svars == <<phase, status>>

Phase == {"closed", "open", "closing", "ended"}
Status == {"new", "accepted", "answered", "abandoned"}

SInit ==
    /\ phase = "closed"
    /\ status = [t \in Task |-> "new"]

Move(t, from, to) ==
    /\ status[t] = from
    /\ status' = [status EXCEPT ![t] = to]

Open == phase = "closed" /\ phase' = "open" /\ UNCHANGED status

Accept(t) == phase = "open" /\ Move(t, "new", "accepted") /\ UNCHANGED phase

Refuse(t) ==
    phase \in {"closed", "ended"} /\ Move(t, "new", "answered") /\ UNCHANGED phase

Answer(t) ==
    phase \in {"open", "closing"} /\ Move(t, "accepted", "answered") /\ UNCHANGED phase

Close == phase = "open" /\ phase' = "closing" /\ UNCHANGED status

End ==
    /\ phase = "closing"
    /\ phase' = "ended"
    /\ status' = [t \in Task |-> IF status[t] = "accepted" THEN "abandoned"
                                                           ELSE status[t]]

SNext ==
    \/ Open \/ Close \/ End
    \/ \E t \in Task : Accept(t) \/ Refuse(t) \/ Answer(t)

SSpec == SInit /\ [][SNext]_svars
=============================================================================
