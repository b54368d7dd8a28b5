------------------------ MODULE ServerManagerProofs ------------------------
(***************************************************************************)
(* Proofs about ServerManager, for any number of servers and of calls of   *)
(* stop(), with starts that overlap or not.                                *)
(***************************************************************************)
EXTENDS ServerManager, TLAPS

LEMMA TypeInit == Init => TypeOK
<1> SUFFICES ASSUME Init PROVE TypeOK
  OBVIOUS
<1>1. timer = {} /\ signalled = {} /\ process = None
  BY DEF Init
<1>2. /\ patient \in BOOLEAN /\ running \in BOOLEAN /\ registered \in BOOLEAN
      /\ parentGone \in BOOLEAN
  BY DEF Init
<1>3. /\ start \in [Server -> {"unmade", "waiting", "resolved", "rejected"}]
      /\ stop \in [StopCall -> {"unmade", "waiting", "done"}]
      /\ target \in [StopCall -> Server \cup {None}]
      /\ server \in [Server -> ServerState]
      /\ line \in [Server -> {"none", "printed", "read"}]
  BY DEF Init, ServerState
<1> QED
  BY <1>1, <1>2, <1>3 DEF TypeOK

-----------------------------------------------------------------------------
(* What the properties rest on: a ready line is read before 'close', the   *)
(* process of the manager and the target of a stop() that waits have not   *)
(* closed, and servers are spawned in order, each after the 'close' of the *)
(* one before it if the callers are patient.                               *)
LinesBeforeClose == \A p \in Server : line[p] = "printed" => server[p] \in {"alive", "exited"}

CurrentIsOpen == process # None => server[process] \notin {"unspawned", "closed"}

TargetsAreServers ==
    \A k \in StopCall :
        /\ stop[k] = "unmade" => target[k] = None
        /\ target[k] # None => server[target[k]] # "unspawned"
        /\ stop[k] = "waiting" => target[k] # None /\ server[target[k]] # "closed"

SpawnedInOrder ==
    \A p, q \in Server :
        p < q /\ server[q] # "unspawned" =>
            server[p] # "unspawned" /\ (patient => server[p] = "closed")

Books == LinesBeforeClose /\ CurrentIsOpen /\ TargetsAreServers /\ SpawnedInOrder

LEMMA TypeStep == TypeOK /\ TargetsAreServers /\ [Next]_vars => TypeOK'
<1> SUFFICES ASSUME TypeOK, TargetsAreServers, [Next]_vars
             PROVE  TypeOK'
  OBVIOUS
<1> USE NoneAssumption DEF managerVars, promiseVars, serverVars
<1>1. ASSUME NEW p \in Server, Start(p) PROVE TypeOK'
  BY <1>1 DEF TypeOK, ServerState, Start, Spawnable
<1>2. ASSUME NEW p \in Server, StartupTimeout(p) PROVE TypeOK'
  BY <1>2 DEF TypeOK, ServerState, StartupTimeout, Kill, Settle
<1>3. ASSUME NEW p \in Server, OnReady(p) PROVE TypeOK'
  BY <1>3 DEF TypeOK, ServerState, OnReady, Settle
<1>4. ASSUME NEW p \in Server, OnError(p) PROVE TypeOK'
  BY <1>4 DEF TypeOK, ServerState, OnError, Settle
<1>5. ASSUME NEW p \in Server, OnClose(p) PROVE TypeOK'
  BY <1>5 DEF TypeOK, ServerState, OnClose, Closing, Settle
<1>6. ASSUME NEW p \in Server, PrintReady(p) PROVE TypeOK'
  BY <1>6 DEF TypeOK, ServerState, PrintReady
<1>7. ASSUME NEW p \in Server, ServerExits(p) PROVE TypeOK'
  BY <1>7 DEF TypeOK, ServerState, ServerExits
<1>8. ASSUME NEW k \in StopCall, StopNothing(k) PROVE TypeOK'
  BY <1>8 DEF TypeOK, ServerState, StopNothing
<1>9. ASSUME NEW k \in StopCall, StopRunning(k) PROVE TypeOK'
  BY <1>9 DEF TypeOK, ServerState, StopRunning
<1>10. ASSUME NEW k \in StopCall, GraceExpires(k) PROVE TypeOK'
  <2>1. target[k] \in Server
    BY <1>10 DEF TypeOK, TargetsAreServers, GraceExpires
  <2> QED
    BY <1>10, <2>1 DEF TypeOK, ServerState, GraceExpires, Kill
<1>11. CASE ParentExit
  <2>1. server' \in [Server -> ServerState] /\ signalled' \in SUBSET Server
    <3>1. CASE registered /\ process # None /\ process \notin signalled
      BY <1>11, <3>1 DEF TypeOK, ServerState, ParentExit, ForceKill, Kill
    <3>2. CASE ~(registered /\ process # None /\ process \notin signalled)
      BY <1>11, <3>2 DEF TypeOK, ParentExit, ForceKill
    <3> QED
      BY <3>1, <3>2
  <2> QED
    BY <1>11, <2>1 DEF TypeOK, ParentExit
<1>12. CASE UNCHANGED vars
  BY <1>12 DEF TypeOK, ServerState, vars
<1> QED
  BY <1>1, <1>2, <1>3, <1>4, <1>5, <1>6, <1>7, <1>8, <1>9, <1>10, <1>11, <1>12
  DEF Next, NodeEvent, Finished

LEMMA LinesStep ==
  TypeOK /\ LinesBeforeClose /\ [Next]_vars => LinesBeforeClose'
<1> SUFFICES ASSUME TypeOK, LinesBeforeClose, [Next]_vars
             PROVE  LinesBeforeClose'
  OBVIOUS
<1> USE NoneAssumption DEF managerVars, promiseVars, serverVars
<1>1. ASSUME NEW p \in Server, Start(p) PROVE LinesBeforeClose'
  BY <1>1 DEF TypeOK, LinesBeforeClose, Start, Spawnable
<1>2. ASSUME NEW p \in Server, StartupTimeout(p) PROVE LinesBeforeClose'
  BY <1>2 DEF TypeOK, LinesBeforeClose, StartupTimeout, Kill, Settle
<1>3. ASSUME NEW p \in Server, OnReady(p) PROVE LinesBeforeClose'
  BY <1>3 DEF TypeOK, LinesBeforeClose, OnReady, Settle
<1>4. ASSUME NEW p \in Server, OnError(p) PROVE LinesBeforeClose'
  BY <1>4 DEF TypeOK, LinesBeforeClose, OnError, Settle
<1>5. ASSUME NEW p \in Server, OnClose(p) PROVE LinesBeforeClose'
  BY <1>5 DEF TypeOK, LinesBeforeClose, OnClose, Closing, Settle
<1>6. ASSUME NEW p \in Server, PrintReady(p) PROVE LinesBeforeClose'
  BY <1>6 DEF TypeOK, LinesBeforeClose, PrintReady
<1>7. ASSUME NEW p \in Server, ServerExits(p) PROVE LinesBeforeClose'
  BY <1>7 DEF TypeOK, LinesBeforeClose, ServerExits
<1>8. ASSUME NEW k \in StopCall, StopNothing(k) PROVE LinesBeforeClose'
  BY <1>8 DEF TypeOK, LinesBeforeClose, StopNothing
<1>9. ASSUME NEW k \in StopCall, StopRunning(k) PROVE LinesBeforeClose'
  BY <1>9 DEF TypeOK, LinesBeforeClose, StopRunning
<1>10. ASSUME NEW k \in StopCall, GraceExpires(k) PROVE LinesBeforeClose'
  BY <1>10 DEF TypeOK, LinesBeforeClose, GraceExpires, Kill
<1>11. CASE ParentExit
  BY <1>11 DEF TypeOK, LinesBeforeClose, ParentExit, ForceKill, Kill
<1>12. CASE UNCHANGED vars
  BY <1>12 DEF TypeOK, LinesBeforeClose, vars
<1> QED
  BY <1>1, <1>2, <1>3, <1>4, <1>5, <1>6, <1>7, <1>8, <1>9, <1>10, <1>11, <1>12
  DEF Next, NodeEvent, Finished

LEMMA CurrentStep == TypeOK /\ CurrentIsOpen /\ [Next]_vars => CurrentIsOpen'
<1> SUFFICES ASSUME TypeOK, CurrentIsOpen, [Next]_vars
             PROVE  CurrentIsOpen'
  OBVIOUS
<1> USE NoneAssumption DEF managerVars, promiseVars, serverVars
<1>1. ASSUME NEW p \in Server, Start(p) PROVE CurrentIsOpen'
  BY <1>1 DEF TypeOK, CurrentIsOpen, Start, Spawnable
<1>2. ASSUME NEW p \in Server, StartupTimeout(p) PROVE CurrentIsOpen'
  BY <1>2 DEF TypeOK, CurrentIsOpen, StartupTimeout, Kill, Settle
<1>3. ASSUME NEW p \in Server, OnReady(p) PROVE CurrentIsOpen'
  BY <1>3 DEF TypeOK, CurrentIsOpen, OnReady, Settle
<1>4. ASSUME NEW p \in Server, OnError(p) PROVE CurrentIsOpen'
  BY <1>4 DEF TypeOK, CurrentIsOpen, OnError, Settle
<1>5. ASSUME NEW p \in Server, OnClose(p) PROVE CurrentIsOpen'
  BY <1>5 DEF TypeOK, CurrentIsOpen, OnClose, Closing, Settle
<1>6. ASSUME NEW p \in Server, PrintReady(p) PROVE CurrentIsOpen'
  BY <1>6 DEF TypeOK, CurrentIsOpen, PrintReady
<1>7. ASSUME NEW p \in Server, ServerExits(p) PROVE CurrentIsOpen'
  BY <1>7 DEF TypeOK, CurrentIsOpen, ServerExits
<1>8. ASSUME NEW k \in StopCall, StopNothing(k) PROVE CurrentIsOpen'
  BY <1>8 DEF TypeOK, CurrentIsOpen, StopNothing
<1>9. ASSUME NEW k \in StopCall, StopRunning(k) PROVE CurrentIsOpen'
  BY <1>9 DEF TypeOK, CurrentIsOpen, StopRunning
<1>10. ASSUME NEW k \in StopCall, GraceExpires(k) PROVE CurrentIsOpen'
  BY <1>10 DEF TypeOK, CurrentIsOpen, GraceExpires, Kill
<1>11. CASE ParentExit
  BY <1>11 DEF TypeOK, CurrentIsOpen, ParentExit, ForceKill, Kill
<1>12. CASE UNCHANGED vars
  BY <1>12 DEF TypeOK, CurrentIsOpen, vars
<1> QED
  BY <1>1, <1>2, <1>3, <1>4, <1>5, <1>6, <1>7, <1>8, <1>9, <1>10, <1>11, <1>12
  DEF Next, NodeEvent, Finished

LEMMA TargetsStep ==
  TypeOK /\ CurrentIsOpen /\ TargetsAreServers /\ [Next]_vars => TargetsAreServers'
<1> SUFFICES ASSUME TypeOK, CurrentIsOpen, TargetsAreServers, [Next]_vars
             PROVE  TargetsAreServers'
  OBVIOUS
<1> USE NoneAssumption DEF managerVars, promiseVars, serverVars
<1>1. ASSUME NEW p \in Server, Start(p) PROVE TargetsAreServers'
  BY <1>1 DEF TypeOK, CurrentIsOpen, TargetsAreServers, Start, Spawnable
<1>2. ASSUME NEW p \in Server, StartupTimeout(p) PROVE TargetsAreServers'
  BY <1>2
  DEF TypeOK, CurrentIsOpen, TargetsAreServers, StartupTimeout, Kill, Settle
<1>3. ASSUME NEW p \in Server, OnReady(p) PROVE TargetsAreServers'
  BY <1>3 DEF TypeOK, CurrentIsOpen, TargetsAreServers, OnReady, Settle
<1>4. ASSUME NEW p \in Server, OnError(p) PROVE TargetsAreServers'
  BY <1>4 DEF TypeOK, CurrentIsOpen, TargetsAreServers, OnError, Settle
<1>5. ASSUME NEW p \in Server, OnClose(p) PROVE TargetsAreServers'
  BY <1>5 DEF TypeOK, CurrentIsOpen, TargetsAreServers, OnClose, Closing, Settle
<1>6. ASSUME NEW p \in Server, PrintReady(p) PROVE TargetsAreServers'
  BY <1>6 DEF TypeOK, CurrentIsOpen, TargetsAreServers, PrintReady
<1>7. ASSUME NEW p \in Server, ServerExits(p) PROVE TargetsAreServers'
  BY <1>7 DEF TypeOK, CurrentIsOpen, TargetsAreServers, ServerExits
<1>8. ASSUME NEW k \in StopCall, StopNothing(k) PROVE TargetsAreServers'
  BY <1>8 DEF TypeOK, CurrentIsOpen, TargetsAreServers, StopNothing
<1>9. ASSUME NEW k \in StopCall, StopRunning(k) PROVE TargetsAreServers'
  BY <1>9 DEF TypeOK, CurrentIsOpen, TargetsAreServers, StopRunning
<1>10. ASSUME NEW k \in StopCall, GraceExpires(k) PROVE TargetsAreServers'
  BY <1>10 DEF TypeOK, CurrentIsOpen, TargetsAreServers, GraceExpires, Kill
<1>11. CASE ParentExit
  BY <1>11
  DEF TypeOK, CurrentIsOpen, TargetsAreServers, ParentExit, ForceKill, Kill
<1>12. CASE UNCHANGED vars
  BY <1>12 DEF TypeOK, CurrentIsOpen, TargetsAreServers, vars
<1> QED
  BY <1>1, <1>2, <1>3, <1>4, <1>5, <1>6, <1>7, <1>8, <1>9, <1>10, <1>11, <1>12
  DEF Next, NodeEvent, Finished

LEMMA OrderStep == TypeOK /\ SpawnedInOrder /\ [Next]_vars => SpawnedInOrder'
<1> SUFFICES ASSUME TypeOK, SpawnedInOrder, [Next]_vars
             PROVE  SpawnedInOrder'
  OBVIOUS
<1> USE NoneAssumption DEF managerVars, promiseVars, serverVars
<1>1. ASSUME NEW p \in Server, Start(p) PROVE SpawnedInOrder'
  BY <1>1 DEF TypeOK, SpawnedInOrder, Server, Start, Spawnable
<1>2. ASSUME NEW p \in Server, StartupTimeout(p) PROVE SpawnedInOrder'
  BY <1>2 DEF TypeOK, SpawnedInOrder, Server, StartupTimeout, Kill, Settle
<1>3. ASSUME NEW p \in Server, OnReady(p) PROVE SpawnedInOrder'
  BY <1>3 DEF TypeOK, SpawnedInOrder, Server, OnReady, Settle
<1>4. ASSUME NEW p \in Server, OnError(p) PROVE SpawnedInOrder'
  BY <1>4 DEF TypeOK, SpawnedInOrder, Server, OnError, Settle
<1>5. ASSUME NEW p \in Server, OnClose(p) PROVE SpawnedInOrder'
  BY <1>5 DEF TypeOK, SpawnedInOrder, Server, OnClose, Closing, Settle
<1>6. ASSUME NEW p \in Server, PrintReady(p) PROVE SpawnedInOrder'
  BY <1>6 DEF TypeOK, SpawnedInOrder, Server, PrintReady
<1>7. ASSUME NEW p \in Server, ServerExits(p) PROVE SpawnedInOrder'
  BY <1>7 DEF TypeOK, SpawnedInOrder, Server, ServerExits
<1>8. ASSUME NEW k \in StopCall, StopNothing(k) PROVE SpawnedInOrder'
  BY <1>8 DEF TypeOK, SpawnedInOrder, Server, StopNothing
<1>9. ASSUME NEW k \in StopCall, StopRunning(k) PROVE SpawnedInOrder'
  BY <1>9 DEF TypeOK, SpawnedInOrder, Server, StopRunning
<1>10. ASSUME NEW k \in StopCall, GraceExpires(k) PROVE SpawnedInOrder'
  BY <1>10 DEF TypeOK, SpawnedInOrder, Server, GraceExpires, Kill
<1>11. CASE ParentExit
  BY <1>11 DEF TypeOK, SpawnedInOrder, Server, ParentExit, ForceKill, Kill
<1>12. CASE UNCHANGED vars
  BY <1>12 DEF TypeOK, SpawnedInOrder, Server, vars
<1> QED
  BY <1>1, <1>2, <1>3, <1>4, <1>5, <1>6, <1>7, <1>8, <1>9, <1>10, <1>11, <1>12
  DEF Next, NodeEvent, Finished

LEMMA RunningStep ==
  TypeOK /\ LinesBeforeClose /\ RunningHasServer /\ [Next]_vars => RunningHasServer'
<1> SUFFICES ASSUME TypeOK, LinesBeforeClose, RunningHasServer, [Next]_vars
             PROVE  RunningHasServer'
  OBVIOUS
<1> USE NoneAssumption DEF managerVars, promiseVars, serverVars
<1>1. ASSUME NEW p \in Server, Start(p) PROVE RunningHasServer'
  BY <1>1 DEF TypeOK, LinesBeforeClose, RunningHasServer, Start, Spawnable
<1>2. ASSUME NEW p \in Server, StartupTimeout(p) PROVE RunningHasServer'
  BY <1>2
  DEF TypeOK, LinesBeforeClose, RunningHasServer, StartupTimeout, Kill, Settle
<1>3. ASSUME NEW p \in Server, OnReady(p) PROVE RunningHasServer'
  BY <1>3 DEF TypeOK, LinesBeforeClose, RunningHasServer, OnReady, Settle
<1>4. ASSUME NEW p \in Server, OnError(p) PROVE RunningHasServer'
  BY <1>4 DEF TypeOK, LinesBeforeClose, RunningHasServer, OnError, Settle
<1>5. ASSUME NEW p \in Server, OnClose(p) PROVE RunningHasServer'
  BY <1>5
  DEF TypeOK, LinesBeforeClose, RunningHasServer, OnClose, Closing, Settle
<1>6. ASSUME NEW p \in Server, PrintReady(p) PROVE RunningHasServer'
  BY <1>6 DEF TypeOK, LinesBeforeClose, RunningHasServer, PrintReady
<1>7. ASSUME NEW p \in Server, ServerExits(p) PROVE RunningHasServer'
  BY <1>7 DEF TypeOK, LinesBeforeClose, RunningHasServer, ServerExits
<1>8. ASSUME NEW k \in StopCall, StopNothing(k) PROVE RunningHasServer'
  BY <1>8 DEF TypeOK, LinesBeforeClose, RunningHasServer, StopNothing
<1>9. ASSUME NEW k \in StopCall, StopRunning(k) PROVE RunningHasServer'
  BY <1>9 DEF TypeOK, LinesBeforeClose, RunningHasServer, StopRunning
<1>10. ASSUME NEW k \in StopCall, GraceExpires(k) PROVE RunningHasServer'
  BY <1>10 DEF TypeOK, LinesBeforeClose, RunningHasServer, GraceExpires, Kill
<1>11. CASE ParentExit
  BY <1>11
  DEF TypeOK, LinesBeforeClose, RunningHasServer, ParentExit, ForceKill, Kill
<1>12. CASE UNCHANGED vars
  BY <1>12 DEF TypeOK, LinesBeforeClose, RunningHasServer, vars
<1> QED
  BY <1>1, <1>2, <1>3, <1>4, <1>5, <1>6, <1>7, <1>8, <1>9, <1>10, <1>11, <1>12
  DEF Next, NodeEvent, Finished

LEMMA NoServerLostStep ==
  TypeOK /\ Books /\ NoServerLost /\ [Next]_vars => NoServerLost'
<1> SUFFICES ASSUME TypeOK, Books, NoServerLost, [Next]_vars
             PROVE  NoServerLost'
  OBVIOUS
<1> USE NoneAssumption DEF managerVars, promiseVars, serverVars
<1>1. ASSUME NEW p \in Server, Start(p) PROVE NoServerLost'
  BY <1>1 DEF TypeOK, NoServerLost, Found, Books, TargetsAreServers,
     SpawnedInOrder, Server, Start, Spawnable
<1>2. ASSUME NEW p \in Server, StartupTimeout(p) PROVE NoServerLost'
  BY <1>2 DEF TypeOK, NoServerLost, Found, StartupTimeout, Kill, Settle
<1>3. ASSUME NEW p \in Server, OnReady(p) PROVE NoServerLost'
  BY <1>3 DEF TypeOK, NoServerLost, Found, OnReady, Settle
<1>4. ASSUME NEW p \in Server, OnError(p) PROVE NoServerLost'
  BY <1>4 DEF TypeOK, NoServerLost, Found, OnError, Settle
<1>5. ASSUME NEW p \in Server, OnClose(p) PROVE NoServerLost'
  BY <1>5 DEF TypeOK, NoServerLost, Found, Books, TargetsAreServers,
     SpawnedInOrder, Server, OnClose, Closing
<1>6. ASSUME NEW p \in Server, PrintReady(p) PROVE NoServerLost'
  BY <1>6 DEF TypeOK, NoServerLost, Found, PrintReady
<1>7. ASSUME NEW p \in Server, ServerExits(p) PROVE NoServerLost'
  BY <1>7 DEF TypeOK, NoServerLost, Found, ServerExits
<1>8. ASSUME NEW k \in StopCall, StopNothing(k) PROVE NoServerLost'
  BY <1>8 DEF TypeOK, NoServerLost, Found, StopNothing
<1>9. ASSUME NEW k \in StopCall, StopRunning(k) PROVE NoServerLost'
  BY <1>9 DEF TypeOK, NoServerLost, Found, StopRunning
<1>10. ASSUME NEW k \in StopCall, GraceExpires(k) PROVE NoServerLost'
  BY <1>10 DEF TypeOK, NoServerLost, Found, Books, TargetsAreServers,
     SpawnedInOrder, Server, GraceExpires, Kill
<1>11. CASE ParentExit
  <2>1. patient' = patient /\ process' = process /\ registered' = FALSE /\ parentGone' = TRUE
    BY <1>11 DEF ParentExit
  <2>2. CASE registered /\ process # None /\ process \notin signalled
    <3>1. /\ server' = [server EXCEPT ![process] =
                        IF server[process] = "alive" THEN "exited" ELSE server[process]]
          /\ signalled \subseteq signalled'
      BY <1>11, <2>2 DEF ParentExit, ForceKill, Kill
    <3> QED
      BY <2>1, <2>2, <3>1 DEF TypeOK, NoServerLost, Found
  <2>3. CASE ~(registered /\ process # None /\ process \notin signalled)
    <3>1. server' = server /\ signalled' = signalled
      BY <1>11, <2>3 DEF ParentExit, ForceKill
    <3>2. ASSUME patient, NEW p \in Server, server[p] = "alive", p \notin signalled
          PROVE  FALSE
      <4>1. process = p /\ registered
        BY <3>2 DEF NoServerLost, Found
      <4> QED
        BY <2>3, <3>2, <4>1
    <3> QED
      BY <2>1, <3>1, <3>2 DEF NoServerLost
  <2> QED
    BY <2>2, <2>3
<1>12. CASE UNCHANGED vars
  BY <1>12 DEF TypeOK, NoServerLost, Found, vars
<1> QED
  BY <1>1, <1>2, <1>3, <1>4, <1>5, <1>6, <1>7, <1>8, <1>9, <1>10, <1>11, <1>12
  DEF Next, NodeEvent, Finished

LEMMA StoppedStep ==
  TypeOK /\ TargetsAreServers /\ StoppedIsDead /\ [Next]_vars => StoppedIsDead'
<1> SUFFICES ASSUME TypeOK, TargetsAreServers, StoppedIsDead, [Next]_vars
             PROVE  StoppedIsDead'
  OBVIOUS
<1> USE NoneAssumption DEF managerVars, promiseVars, serverVars
<1>1. ASSUME NEW p \in Server, Start(p) PROVE StoppedIsDead'
  BY <1>1 DEF TypeOK, TargetsAreServers, StoppedIsDead, Start, Spawnable
<1>2. ASSUME NEW p \in Server, StartupTimeout(p) PROVE StoppedIsDead'
  BY <1>2
  DEF TypeOK, TargetsAreServers, StoppedIsDead, StartupTimeout, Kill, Settle
<1>3. ASSUME NEW p \in Server, OnReady(p) PROVE StoppedIsDead'
  BY <1>3 DEF TypeOK, TargetsAreServers, StoppedIsDead, OnReady, Settle
<1>4. ASSUME NEW p \in Server, OnError(p) PROVE StoppedIsDead'
  BY <1>4 DEF TypeOK, TargetsAreServers, StoppedIsDead, OnError, Settle
<1>5. ASSUME NEW p \in Server, OnClose(p) PROVE StoppedIsDead'
  BY <1>5 DEF TypeOK, TargetsAreServers, StoppedIsDead, OnClose, Closing, Settle
<1>6. ASSUME NEW p \in Server, PrintReady(p) PROVE StoppedIsDead'
  BY <1>6 DEF TypeOK, TargetsAreServers, StoppedIsDead, PrintReady
<1>7. ASSUME NEW p \in Server, ServerExits(p) PROVE StoppedIsDead'
  BY <1>7 DEF TypeOK, TargetsAreServers, StoppedIsDead, ServerExits
<1>8. ASSUME NEW k \in StopCall, StopNothing(k) PROVE StoppedIsDead'
  BY <1>8 DEF TypeOK, TargetsAreServers, StoppedIsDead, StopNothing
<1>9. ASSUME NEW k \in StopCall, StopRunning(k) PROVE StoppedIsDead'
  BY <1>9 DEF TypeOK, TargetsAreServers, StoppedIsDead, StopRunning
<1>10. ASSUME NEW k \in StopCall, GraceExpires(k) PROVE StoppedIsDead'
  BY <1>10 DEF TypeOK, TargetsAreServers, StoppedIsDead, GraceExpires, Kill
<1>11. CASE ParentExit
  BY <1>11
  DEF TypeOK, TargetsAreServers, StoppedIsDead, ParentExit, ForceKill, Kill
<1>12. CASE UNCHANGED vars
  BY <1>12 DEF TypeOK, TargetsAreServers, StoppedIsDead, vars
<1> QED
  BY <1>1, <1>2, <1>3, <1>4, <1>5, <1>6, <1>7, <1>8, <1>9, <1>10, <1>11, <1>12
  DEF Next, NodeEvent, Finished

ManagerInv == TypeOK /\ Books /\ ServersTracked /\ StoppedIsDead

LEMMA ManagerInvInit == Init => ManagerInv
<1> SUFFICES ASSUME Init PROVE ManagerInv
  OBVIOUS
<1>1. TypeOK
  BY TypeInit
<1> QED
  BY <1>1 DEF Init, ManagerInv, Books, LinesBeforeClose, CurrentIsOpen,
     TargetsAreServers,
     SpawnedInOrder, ServersTracked, NoServerLost, RunningHasServer, StoppedIsDead

LEMMA ManagerInvStep == ManagerInv /\ [Next]_vars => ManagerInv'
  BY TypeStep, LinesStep, CurrentStep, TargetsStep, OrderStep, RunningStep,
     NoServerLostStep, StoppedStep DEF ManagerInv, Books, ServersTracked

LEMMA ManagerInvariant == Spec => []ManagerInv
  BY ManagerInvInit, ManagerInvStep, PTL DEF Spec

(* The types of ServerManager. *)
THEOREM TypeCorrect == Spec => []TypeOK
<1>1. ManagerInv => TypeOK
  BY DEF ManagerInv
<1> QED
  BY ManagerInvariant, <1>1, PTL

(* The manager finds every server it has not signalled, also when the      *)
(* parent exits, and never says that it is running without one.            *)
THEOREM ServersStayTracked == Spec => []ServersTracked
<1>1. ManagerInv => ServersTracked
  BY DEF ManagerInv
<1> QED
  BY ManagerInvariant, <1>1, PTL

(* A stop() that has returned leaves no live server behind.                *)
THEOREM StopKills == Spec => []StoppedIsDead
<1>1. ManagerInv => StoppedIsDead
  BY DEF ManagerInv
<1> QED
  BY ManagerInvariant, <1>1, PTL
=============================================================================
