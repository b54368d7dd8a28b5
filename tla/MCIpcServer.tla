---------------------------- MODULE MCIpcServer ----------------------------
(* Instances of IpcServer for TLC. *)
EXTENDS IpcServer, TLC

CONSTANTS c1, c2, task1, task2, query1, query2, noJson, tooLong, stop

Connections == {c1, c2}
Requests == {task1, task2, query1, query2, noJson, tooLong, stop}
KindOf ==
    task1 :> "run" @@ task2 :> "run" @@ query1 :> "query" @@ query2 :> "query"
    @@ noJson :> "bad" @@ tooLong :> "huge" @@ stop :> "shutdown"

(* Two clients with a task each: descriptors are closed and reused while   *)
(* tasks are running.                                                      *)
TwoClients == c1 :> <<task1>> @@ c2 :> <<task2>>

(* A frame that is too long leaves an entry whose descriptor is reused. *)
StaleEntry == c1 :> <<tooLong>> @@ c2 :> <<task2>>

(* One client whose requests are all answered at once. *)
Pipelined == c1 :> <<query1, noJson, query2, stop>> @@ c2 :> <<>>

(* One client whose tasks and queries overlap. *)
Mixed == c1 :> <<task1, query1, task2>> @@ c2 :> <<>>

(* A frame that is too long while a task of the same client is running. *)
MixedStale == c1 :> <<task1, tooLong>> @@ c2 :> <<>>

Scenarios == {TwoClients, StaleEntry, Pipelined, Mixed, MixedStale}
=============================================================================
