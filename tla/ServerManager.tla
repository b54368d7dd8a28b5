---------------------------- MODULE ServerManager ----------------------------
(***************************************************************************)
(* The life of the leapvm_server process as the Node side manages it:      *)
(* leap-env/src/client/server-manager.js.                                  *)
(*                                                                         *)
(* One manager; every start() that does not return at once spawns a server *)
(* of its own.  The handlers of a server close over it, but write to the   *)
(* fields of the manager, whichever server those are about by then.        *)
(*                                                                         *)
(* A handler and the promise continuations it triggers are one action: the *)
(* rest of stop() runs in the microtasks of the event that ends its race,  *)
(* before any other code sees the manager.                                 *)
(*                                                                         *)
(* Name_Fault, as in OnClose_OwnOnly, is Name with a mistake; Spec does    *)
(* not use it.                                                             *)
(***************************************************************************)
EXTENDS Naturals

CONSTANTS
    MaxServers,  \* bound: how many servers are spawned
    StopCall,    \* calls of stop()
    None

Server == 1 .. MaxServers

ASSUME ServersAssumption == MaxServers \in Nat \ {0}
ASSUME NoneAssumption == None \notin Server

VARIABLES
    patient,     \* do callers start again only after the last 'close'?  Never changes
    process,     \* this._process
    running,     \* this._running
    registered,  \* the manager is in ACTIVE_SERVER_MANAGERS
    timer,       \* servers whose startup timer is armed
    start,       \* the promise of the start() that spawned each server
    stop,        \* each call of stop()
    target,      \* the server each stop() waits for
    server,      \* each child process
    signalled,   \* servers sent a signal: proc.killed
    line,        \* the ready line of each server: not printed, printed, read
    parentGone   \* the Node process has exited

managerVars == <<process, running, registered, timer>>
promiseVars == <<start, stop, target>>
serverVars == <<server, signalled, line>>
vars == <<patient, managerVars, promiseVars, serverVars, parentGone>>

(* failed: spawn() could not run the binary, 'error' is due; exited: its   *)
(* output may still be read, then 'close' is due.                          *)
ServerState == {"unspawned", "failed", "alive", "exited", "closed"}

Init ==
    /\ patient \in BOOLEAN
    /\ process = None
    /\ running = FALSE
    /\ registered = FALSE
    /\ timer = {}
    /\ start = [p \in Server |-> "unmade"]
    /\ stop = [k \in StopCall |-> "unmade"]
    /\ target = [k \in StopCall |-> None]
    /\ server = [p \in Server |-> "unspawned"]
    /\ signalled = {}
    /\ line = [p \in Server |-> "none"]
    /\ parentGone = FALSE

Settle(p, how) == start' = [start EXCEPT ![p] = IF @ = "waiting" THEN how ELSE @]

Kill_Current(p) ==
    /\ server' = IF process = None THEN server
                 ELSE [server EXCEPT ![process] = IF @ = "alive" THEN "exited" ELSE @]
    /\ signalled' = signalled \cup {process}

(* SIGKILL on a child: it exits.  On one that is not there: nothing. *)
Kill(p) ==
    /\ server' = [server EXCEPT ![p] = IF @ = "alive" THEN "exited" ELSE @]
    /\ signalled' = IF server[p] = "alive" THEN signalled \cup {p} ELSE signalled

-----------------------------------------------------------------------------
(* start(). *)

Spawnable(p) ==
    /\ server[p] = "unspawned"
    /\ \A q \in Server : q < p => server[q] # "unspawned"
    /\ patient => \A q \in Server : q < p => server[q] = "closed"

Start(p) ==
    /\ ~parentGone /\ ~running
    /\ Spawnable(p)
    /\ \E s \in {"alive", "failed"} : server' = [server EXCEPT ![p] = s]
    /\ process' = p
    /\ registered' = TRUE
    /\ timer' = timer \cup {p}
    /\ start' = [start EXCEPT ![p] = "waiting"]
    /\ UNCHANGED <<patient, running, stop, target, signalled, line, parentGone>>

StartupTimeout(p) ==
    /\ ~parentGone
    /\ p \in timer
    /\ timer' = timer \ {p}
    /\ Kill(p)
    /\ Settle(p, "rejected")
    /\ UNCHANGED <<patient, process, running, registered, stop, target, line,
                   parentGone>>

(* onData sees the ready line, also after a timeout or a stop(). *)
OnReady(p) ==
    /\ ~parentGone
    /\ line[p] = "printed"
    /\ line' = [line EXCEPT ![p] = "read"]
    /\ timer' = timer \ {p}
    /\ running' = TRUE
    /\ Settle(p, "resolved")
    /\ UNCHANGED <<patient, process, registered, stop, target, server,
                   signalled, parentGone>>

OnError(p) ==
    /\ ~parentGone
    /\ server[p] = "failed"
    /\ server' = [server EXCEPT ![p] = "exited"]
    /\ timer' = timer \ {p}
    /\ Settle(p, "rejected")
    /\ UNCHANGED <<patient, process, running, registered, stop, target,
                   signalled, line, parentGone>>

Closing(p) ==
    /\ ~parentGone
    /\ server[p] = "exited"
    /\ line[p] # "printed"
    /\ server' = [server EXCEPT ![p] = "closed"]
    /\ UNCHANGED <<patient, target, signalled, line, parentGone>>

(* The listener that rejects start() before the one that clears _running,  *)
(* and a timer cleared in any case.                                        *)
OnClose_RejectFirst(p) ==
    /\ Closing(p)
    /\ running' = FALSE
    /\ process' = None
    /\ registered' = FALSE
    /\ stop' = [k \in StopCall |-> IF target[k] = p THEN "done" ELSE stop[k]]
    /\ timer' = timer \ {p}
    /\ IF running THEN UNCHANGED start ELSE Settle(p, "rejected")

(* Both 'close' listeners: the first has cleared _running when the second  *)
(* tests it.  A stop() that waits for p resumes and clears the same fields.*)
OnClose(p) ==
    /\ Closing(p)
    /\ running' = FALSE
    /\ process' = None
    /\ registered' = FALSE
    /\ stop' = [k \in StopCall |-> IF target[k] = p THEN "done" ELSE stop[k]]
    /\ timer' = timer \ {p}
    /\ Settle(p, "rejected")

-----------------------------------------------------------------------------
(* stop(). *)

StopNothing(k) ==
    /\ ~parentGone
    /\ stop[k] = "unmade"
    /\ process = None
    /\ stop' = [stop EXCEPT ![k] = "done"]
    /\ UNCHANGED <<patient, managerVars, start, target, serverVars, parentGone>>

StopRunning(k) ==
    /\ ~parentGone
    /\ stop[k] = "unmade"
    /\ process # None
    /\ stop' = [stop EXCEPT ![k] = "waiting"]
    /\ target' = [target EXCEPT ![k] = process]
    /\ registered' = FALSE
    /\ signalled' = IF server[process] = "alive"
                    THEN signalled \cup {process} ELSE signalled
    /\ UNCHANGED <<patient, process, running, timer, start, server, line,
                   parentGone>>

GraceExpires_NoKill(k) ==
    /\ ~parentGone
    /\ stop[k] = "waiting"
    /\ stop' = [stop EXCEPT ![k] = "done"]
    /\ running' = FALSE
    /\ process' = None
    /\ UNCHANGED <<patient, registered, timer, start, target, serverVars, parentGone>>

GraceExpires(k) ==
    /\ ~parentGone
    /\ stop[k] = "waiting"
    /\ Kill(target[k])
    /\ stop' = [stop EXCEPT ![k] = "done"]
    /\ running' = FALSE
    /\ process' = None
    /\ UNCHANGED <<patient, registered, timer, start, target, line, parentGone>>

-----------------------------------------------------------------------------
(* The end of the Node process: its 'exit' event. *)

ForceKill_SkipsStarting ==
    IF registered /\ running /\ process # None /\ process \notin signalled
       THEN Kill(process)
       ELSE UNCHANGED <<server, signalled>>

(* _forceKillFromParentExit, for a manager that is registered. *)
ForceKill ==
    IF registered /\ process # None /\ process \notin signalled
       THEN Kill(process)
       ELSE UNCHANGED <<server, signalled>>

ParentExit ==
    /\ ~parentGone
    /\ parentGone' = TRUE
    /\ ForceKill
    /\ registered' = FALSE
    /\ UNCHANGED <<patient, process, running, timer, promiseVars, line>>

-----------------------------------------------------------------------------
(* The server: it prints its ready line, or not, and exits, for a signal   *)
(* or of itself, or not.                                                   *)

PrintReady(p) ==
    /\ server[p] = "alive"
    /\ line[p] = "none"
    /\ line' = [line EXCEPT ![p] = "printed"]
    /\ UNCHANGED <<patient, managerVars, promiseVars, server, signalled, parentGone>>

ServerExits(p) ==
    /\ server[p] = "alive"
    /\ server' = [server EXCEPT ![p] = "exited"]
    /\ UNCHANGED <<patient, managerVars, promiseVars, signalled, line, parentGone>>

-----------------------------------------------------------------------------
NodeEvent(p) == StartupTimeout(p) \/ OnReady(p) \/ OnError(p) \/ OnClose(p)

(* Nothing is left to happen. *)
Finished ==
    /\ parentGone
    /\ UNCHANGED vars

Next ==
    \/ \E p \in Server : Start(p) \/ NodeEvent(p) \/ PrintReady(p) \/ ServerExits(p)
    \/ \E k \in StopCall : StopNothing(k) \/ StopRunning(k) \/ GraceExpires(k)
    \/ ParentExit
    \/ Finished

(* Node's event loop delivers events and timers.  Nothing makes a server   *)
(* print its line or heed a signal.                                        *)
Fairness ==
    /\ \A p \in Server : WF_vars(OnError(p)) /\ WF_vars(OnReady(p))
                         /\ WF_vars(OnClose(p)) /\ WF_vars(StartupTimeout(p))
    /\ \A k \in StopCall : WF_vars(GraceExpires(k))

Spec == Init /\ [][Next]_vars
FairSpec == Spec /\ Fairness

-----------------------------------------------------------------------------
(* Properties. *)

(* The type of every variable. *)
TypeOK ==
    /\ patient \in BOOLEAN
    /\ process \in Server \cup {None}
    /\ running \in BOOLEAN
    /\ registered \in BOOLEAN
    /\ timer \in SUBSET Server
    /\ start \in [Server -> {"unmade", "waiting", "resolved", "rejected"}]
    /\ stop \in [StopCall -> {"unmade", "waiting", "done"}]
    /\ target \in [StopCall -> Server \cup {None}]
    /\ server \in [Server -> ServerState]
    /\ signalled \in SUBSET Server
    /\ line \in [Server -> {"none", "printed", "read"}]
    /\ parentGone \in BOOLEAN

(* When callers wait for the 'close' of one server before they start the   *)
(* next, a server that nobody has signalled is one that stop() and the     *)
(* exit of the parent will find, and none outlives the parent: only one    *)
(* that stop() has already sent SIGTERM may.                               *)
Found(p) == process = p /\ registered
NoServerLost ==
    patient => \A p \in Server :
        server[p] = "alive" /\ p \notin signalled => Found(p) /\ ~parentGone

(* The manager never says that it is running once every server that became *)
(* ready has closed, however ready lines, timeouts, stops and the closes   *)
(* of other servers interleave.                                            *)
RunningHasServer ==
    running => \E p \in Server : line[p] = "read" /\ server[p] # "closed"

(* What the manager says of its servers is so. *)
ServersTracked == NoServerLost /\ RunningHasServer

(* When stop() returns, the server it was called for has exited. *)
StoppedIsDead ==
    \A k \in StopCall :
        stop[k] = "done" /\ target[k] # None => server[target[k]] # "alive"

(* Every start() and every stop() settles, also when the server neither    *)
(* becomes ready nor heeds SIGTERM, and when other calls and closes have   *)
(* taken the manager's fields.                                             *)
EveryCallSettles ==
    /\ \A p \in Server : start[p] = "waiting" ~> start[p] # "waiting" \/ parentGone
    /\ \A k \in StopCall : stop[k] = "waiting" ~> stop[k] = "done" \/ parentGone
=============================================================================
