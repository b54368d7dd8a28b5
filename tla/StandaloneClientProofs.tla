----------------------- MODULE StandaloneClientProofs -----------------------
(***************************************************************************)
(* Proofs about StandaloneClient, for any number of calls, ids and         *)
(* sockets, with connections that overlap or not.                          *)
(***************************************************************************)
EXTENDS StandaloneClient, SequenceTheorems, TLAPS

LEMMA TypeInit == Init => TypeOK
<1> SUFFICES ASSUME Init PROVE TypeOK
  OBVIOUS
<1>1. <<>> \in Seq(Half)
  BY EmptySeq
<1> QED
  BY <1>1 DEF Init, TypeOK

(* What a socket delivers next is half of a frame that carries a call. *)
LEMMA NextHalf ==
  ASSUME TypeOK, NEW s \in Socket, stream[s] # <<>>
  PROVE  /\ Head(stream[s]) \in Half /\ Head(stream[s])[1] \in Call
         /\ Tail(stream[s]) \in Seq(Half)
<1>1. Head(stream[s]) \in Half /\ Tail(stream[s]) \in Seq(Half)
  BY HeadTailProperties DEF TypeOK
<1> QED
  BY <1>1 DEF Half

(* All calls are rejected, and nothing else. *)
LEMMA RejectTypes ==
  ASSUME TypeOK, RejectPending
  PROVE  /\ pending' \in [Id -> Call \cup {None}]
         /\ call' \in [Call -> {"unmade", "waiting", "resolved", "rejected"}]
         /\ timer' \in SUBSET Call
  BY DEF TypeOK, RejectPending

LEMMA TypeStep == TypeOK /\ [Next]_vars => TypeOK'
<1> SUFFICES ASSUME TypeOK, [Next]_vars
             PROVE  TypeOK'
  OBVIOUS
<1> USE NoneAssumption, IdsAssumption DEF sockVars, callVars
<1>1. CASE Connect
  BY <1>1 DEF TypeOK, Connect
<1>2. CASE Disconnect
  BY <1>2 DEF TypeOK, Disconnect, Drop, RejectPending, Destroyed
<1>3. ASSUME NEW s \in Socket, ConnectTimeout(s) PROVE TypeOK'
  BY <1>3 DEF TypeOK, ConnectTimeout, Destroyed, Settle
<1>4. ASSUME NEW s \in Socket, OnConnect(s) PROVE TypeOK'
  BY <1>4 DEF TypeOK, OnConnect, Settle
<1>5. ASSUME NEW s \in Socket, OnError(s) PROVE TypeOK'
  BY <1>5 DEF TypeOK, OnError, OnClose, RejectPending, Settle
<1>6. ASSUME NEW s \in Socket, CloseEvent(s) PROVE TypeOK'
  BY <1>6 DEF TypeOK, CloseEvent, OnClose, RejectPending
<1>7. ASSUME NEW s \in Socket, OnHead(s) PROVE TypeOK'
  <2> DEFINE c == Head(stream[s])[1]
  <2>1. c \in Call /\ Tail(stream[s]) \in Seq(Half)
    BY <1>7, NextHalf DEF OnHead
  <2>2. stream' \in [Socket -> Seq(Half)] /\ hasTimeout' = hasTimeout
    BY <1>7, <2>1 DEF TypeOK, OnHead
  <2>3. CASE c \in Oversize
    BY <1>7, <2>2, <2>3, RejectTypes DEF TypeOK, OnHead, Drop, Destroyed
  <2>4. CASE c \notin Oversize
    <3>1. recvBuf' = <<c>> /\ UNCHANGED <<socket, connected, sockVars, callVars, atServer>>
      BY <1>7, <2>4 DEF OnHead
    <3> QED
      BY <2>1, <2>2, <3>1 DEF TypeOK
  <2> QED
    BY <2>3, <2>4
<1>8. ASSUME NEW s \in Socket, OnRest(s) PROVE TypeOK'
  <2> DEFINE c == recvBuf[1]
  <2>1. c \in Call /\ Tail(stream[s]) \in Seq(Half)
    <3>1. Head(stream[s]) = <<c, "rest">> /\ Head(stream[s])[1] \in Call
      BY <1>8, NextHalf DEF OnRest
    <3> QED
      BY <1>8, <3>1, NextHalf DEF OnRest
  <2>2. IdOf[c] \in Id
    BY <2>1
  <2>3. Answered(c)
    BY <1>8 DEF OnRest
  <2>4. /\ stream' = [stream EXCEPT ![s] = Tail(stream[s])] /\ recvBuf' = <<>>
        /\ UNCHANGED <<hasTimeout, socket, connected, sockVars, atServer>>
    BY <1>8 DEF OnRest
  <2> HIDE DEF c
  <2>5. /\ pending' \in [Id -> Call \cup {None}]
        /\ call' \in [Call -> {"unmade", "waiting", "resolved", "rejected"}]
        /\ timer' \in SUBSET Call
    BY <2>2, <2>3 DEF TypeOK, Answered, Settle
  <2> QED
    BY <2>1, <2>4, <2>5 DEF TypeOK
<1>9. ASSUME NEW s \in Socket, OnGarbled(s) PROVE TypeOK'
  <2>1. stream' \in [Socket -> Seq(Half)] /\ hasTimeout' = hasTimeout
    BY <1>9, NextHalf DEF TypeOK, OnGarbled
  <2>2. CASE Drop /\ UNCHANGED <<connTimer, promise, atServer>>
    BY <2>1, <2>2, RejectTypes DEF TypeOK, Drop, Destroyed
  <2>3. CASE recvBuf' = <<Garbled>>
             /\ UNCHANGED <<socket, connected, sockVars, callVars, atServer>>
    BY <2>1, <2>3 DEF TypeOK
  <2> QED
    BY <1>9, <2>2, <2>3 DEF OnGarbled
<1>10. ASSUME NEW s \in Socket, NEW c \in Call, ServerAnswers(s, c)
       PROVE TypeOK'
  <2>1. stream[s] \o <<<<c, "head">>, <<c, "rest">>>> \in Seq(Half)
    <3>1. <<c, "head">> \in Half /\ <<c, "rest">> \in Half
      BY DEF Half
    <3>2. <<<<c, "head">>, <<c, "rest">>>> \in Seq(Half)
      BY <3>1
    <3> QED
      BY <3>2, ConcatProperties DEF TypeOK
  <2> QED
    BY <1>10, <2>1 DEF TypeOK, ServerAnswers
<1>11. ASSUME NEW s \in Socket, ServerCloses(s) PROVE TypeOK'
  BY <1>11 DEF TypeOK, ServerCloses
<1>12. ASSUME NEW c \in Call, Request(c) PROVE TypeOK'
  BY <1>12 DEF TypeOK, Request
<1>13. ASSUME NEW c \in Call, RequestRefused(c) PROVE TypeOK'
  BY <1>13 DEF TypeOK, RequestRefused
<1>14. ASSUME NEW c \in Call, RequestTimeout(c) PROVE TypeOK'
  BY <1>14 DEF TypeOK, RequestTimeout, Settle
<1>15. CASE UNCHANGED vars
  BY <1>15 DEF TypeOK, vars
<1> QED
  BY <1>1, <1>2, <1>3, <1>4, <1>5, <1>6, <1>7, <1>8, <1>9, <1>10, <1>11, <1>12,
     <1>13, <1>14, <1>15
  DEF Next, SocketEvent, Server, Settled

(* The types of StandaloneClient. *)
THEOREM TypeCorrect == Spec => []TypeOK
  BY TypeInit, TypeStep, PTL DEF Spec

-----------------------------------------------------------------------------
LEMMA OwedStep ==
  TypeOK /\ NothingOwedWhenDisconnected /\ [Next]_vars => NothingOwedWhenDisconnected'
<1> SUFFICES ASSUME TypeOK, NothingOwedWhenDisconnected, [Next]_vars
             PROVE  NothingOwedWhenDisconnected'
  OBVIOUS
<1> USE NoneAssumption, IdsAssumption DEF sockVars, callVars
<1>1. CASE Connect
  BY <1>1 DEF TypeOK, NothingOwedWhenDisconnected, Connect
<1>2. CASE Disconnect
  BY <1>2 DEF TypeOK, NothingOwedWhenDisconnected, Disconnect, Drop,
     RejectPending, Destroyed
<1>3. ASSUME NEW s \in Socket, ConnectTimeout(s)
      PROVE NothingOwedWhenDisconnected'
  BY <1>3
  DEF TypeOK, NothingOwedWhenDisconnected, ConnectTimeout, Destroyed, Settle
<1>4. ASSUME NEW s \in Socket, OnConnect(s) PROVE NothingOwedWhenDisconnected'
  BY <1>4 DEF TypeOK, NothingOwedWhenDisconnected, OnConnect, Settle
<1>5. ASSUME NEW s \in Socket, OnError(s) PROVE NothingOwedWhenDisconnected'
  BY <1>5 DEF TypeOK, NothingOwedWhenDisconnected, OnError, OnClose,
     RejectPending, Settle
<1>6. ASSUME NEW s \in Socket, CloseEvent(s) PROVE NothingOwedWhenDisconnected'
  BY <1>6
  DEF TypeOK, NothingOwedWhenDisconnected, CloseEvent, OnClose, RejectPending
<1>7. ASSUME NEW s \in Socket, OnHead(s) PROVE NothingOwedWhenDisconnected'
  BY <1>7 DEF TypeOK, NothingOwedWhenDisconnected, OnHead, Drop, RejectPending,
     Destroyed
<1>8. ASSUME NEW s \in Socket, OnRest(s) PROVE NothingOwedWhenDisconnected'
  BY <1>8 DEF TypeOK, NothingOwedWhenDisconnected, OnRest, Answered, Settle
<1>9. ASSUME NEW s \in Socket, OnGarbled(s) PROVE NothingOwedWhenDisconnected'
  BY <1>9 DEF TypeOK, NothingOwedWhenDisconnected, OnGarbled, Drop,
     RejectPending, Destroyed
<1>10. ASSUME NEW s \in Socket, NEW c \in Call, ServerAnswers(s, c)
       PROVE NothingOwedWhenDisconnected'
  BY <1>10 DEF TypeOK, NothingOwedWhenDisconnected, ServerAnswers
<1>11. ASSUME NEW s \in Socket, ServerCloses(s)
       PROVE NothingOwedWhenDisconnected'
  BY <1>11 DEF TypeOK, NothingOwedWhenDisconnected, ServerCloses
<1>12. ASSUME NEW c \in Call, Request(c) PROVE NothingOwedWhenDisconnected'
  BY <1>12 DEF TypeOK, NothingOwedWhenDisconnected, Request
<1>13. ASSUME NEW c \in Call, RequestRefused(c)
       PROVE NothingOwedWhenDisconnected'
  BY <1>13 DEF TypeOK, NothingOwedWhenDisconnected, RequestRefused
<1>14. ASSUME NEW c \in Call, RequestTimeout(c)
       PROVE NothingOwedWhenDisconnected'
  BY <1>14 DEF TypeOK, NothingOwedWhenDisconnected, RequestTimeout, Settle
<1>15. CASE UNCHANGED vars
  BY <1>15 DEF TypeOK, NothingOwedWhenDisconnected, vars
<1> QED
  BY <1>1, <1>2, <1>3, <1>4, <1>5, <1>6, <1>7, <1>8, <1>9, <1>10, <1>11, <1>12,
     <1>13, <1>14, <1>15
  DEF Next, SocketEvent, Server, Settled

(* Rejecting every call empties the books. *)
LEMMA RejectKeepsBooks ==
  ASSUME TypeOK, PendingMatchesPromises, RejectPending, hasTimeout' = hasTimeout
  PROVE  PendingMatchesPromises'
  BY NoneAssumption, IdsAssumption
  DEF TypeOK, PendingMatchesPromises, DistinctIds, RejectPending

LEMMA PendingStep ==
  TypeOK /\ PendingMatchesPromises /\ [Next]_vars => PendingMatchesPromises'
<1> SUFFICES ASSUME TypeOK, PendingMatchesPromises, [Next]_vars
             PROVE  PendingMatchesPromises'
  OBVIOUS
<1> USE NoneAssumption, IdsAssumption DEF sockVars, callVars
<1>1. CASE Connect
  BY <1>1 DEF TypeOK, PendingMatchesPromises, DistinctIds, Connect
<1>2. CASE Disconnect
  BY <1>2 DEF TypeOK, PendingMatchesPromises, DistinctIds, Disconnect, Drop,
     RejectPending, Destroyed
<1>3. ASSUME NEW s \in Socket, ConnectTimeout(s) PROVE PendingMatchesPromises'
  BY <1>3 DEF TypeOK, PendingMatchesPromises, DistinctIds, ConnectTimeout,
     Destroyed, Settle
<1>4. ASSUME NEW s \in Socket, OnConnect(s) PROVE PendingMatchesPromises'
  BY <1>4 DEF TypeOK, PendingMatchesPromises, DistinctIds, OnConnect, Settle
<1>5. ASSUME NEW s \in Socket, OnError(s) PROVE PendingMatchesPromises'
  BY <1>5 DEF TypeOK, PendingMatchesPromises, DistinctIds, OnError, OnClose,
     RejectPending, Settle
<1>6. ASSUME NEW s \in Socket, CloseEvent(s) PROVE PendingMatchesPromises'
  BY <1>6 DEF TypeOK, PendingMatchesPromises, DistinctIds, CloseEvent, OnClose,
     RejectPending
<1>7. ASSUME NEW s \in Socket, OnHead(s) PROVE PendingMatchesPromises'
  <2>1. hasTimeout' = hasTimeout /\ (RejectPending \/ UNCHANGED callVars)
    BY <1>7 DEF OnHead, Drop
  <2> QED
    BY <2>1, RejectKeepsBooks DEF PendingMatchesPromises
<1>8. ASSUME NEW s \in Socket, OnRest(s) PROVE PendingMatchesPromises'
  <2> SUFFICES ASSUME DistinctIds
               PROVE  /\ \A d \in Call : call'[d] = "waiting" <=> pending'[IdOf[d]] = d
                      /\ \A j \in Id : pending'[j] # None => IdOf[pending'[j]] = j
                      /\ timer' = IF hasTimeout' THEN {d \in Call : call'[d] = "waiting"} ELSE {}
    BY DEF PendingMatchesPromises, DistinctIds
  <2> DEFINE c == recvBuf[1]
             i == IdOf[c]
  <2>1. c \in Call
    <3>1. Head(stream[s]) = <<c, "rest">> /\ Head(stream[s])[1] \in Call
      BY <1>8, NextHalf DEF OnRest
    <3> QED
      BY <3>1
  <2>2. i \in Id
    BY <2>1
  <2>3. /\ call' = IF pending[i] = None THEN call ELSE Settle(call, pending[i], "resolved")
        /\ timer' = timer \ {pending[i]}
        /\ pending' = [pending EXCEPT ![i] = None]
        /\ hasTimeout' = hasTimeout
    BY <1>8 DEF OnRest, Answered
  <2> HIDE DEF i
  <2>4. /\ \A d \in Call : call[d] = "waiting" <=> pending[IdOf[d]] = d
        /\ \A j \in Id : pending[j] # None => IdOf[pending[j]] = j
        /\ timer = IF hasTimeout THEN {d \in Call : call[d] = "waiting"} ELSE {}
    BY DEF PendingMatchesPromises
  <2>5. CASE pending[i] = None
    <3>1. call' = call /\ timer' = timer /\ pending' = pending
      BY <2>2, <2>3, <2>5 DEF TypeOK
    <3> QED
      BY <2>3, <2>4, <3>1
  <2>6. CASE pending[i] # None
    <3> DEFINE e == pending[i]
    <3>1. e \in Call /\ IdOf[e] = i /\ call[e] = "waiting"
      BY <2>2, <2>4, <2>6 DEF TypeOK
    <3>2. call' = [call EXCEPT ![e] = "resolved"] /\ timer' = timer \ {e}
      BY <2>3, <2>6, <3>1 DEF TypeOK, Settle
    <3>3. \A d \in Call : d # e => IdOf[d] # i
      BY <3>1 DEF DistinctIds
    <3> HIDE DEF e
    <3>4. \A d \in Call : call'[d] = "waiting" <=> call[d] = "waiting" /\ d # e
      BY <3>1, <3>2 DEF TypeOK
    <3>5. \A d \in Call : pending'[IdOf[d]] = d <=> pending[IdOf[d]] = d /\ d # e
      BY <2>2, <2>3, <3>1, <3>3 DEF TypeOK
    <3>6. \A j \in Id : pending'[j] # None => IdOf[pending'[j]] = j
      BY <2>2, <2>3, <2>4 DEF TypeOK
    <3>7. timer' = IF hasTimeout' THEN {d \in Call : call'[d] = "waiting"} ELSE {}
      BY <2>3, <2>4, <3>2, <3>4
    <3> QED
      BY <2>4, <3>4, <3>5, <3>6, <3>7
  <2> QED
    BY <2>5, <2>6
<1>9. ASSUME NEW s \in Socket, OnGarbled(s) PROVE PendingMatchesPromises'
  <2>1. hasTimeout' = hasTimeout /\ (RejectPending \/ UNCHANGED callVars)
    BY <1>9 DEF OnGarbled, Drop
  <2> QED
    BY <2>1, RejectKeepsBooks DEF PendingMatchesPromises
<1>10. ASSUME NEW s \in Socket, NEW c \in Call, ServerAnswers(s, c)
       PROVE PendingMatchesPromises'
  BY <1>10 DEF TypeOK, PendingMatchesPromises, DistinctIds, ServerAnswers
<1>11. ASSUME NEW s \in Socket, ServerCloses(s) PROVE PendingMatchesPromises'
  BY <1>11 DEF TypeOK, PendingMatchesPromises, DistinctIds, ServerCloses
<1>12. ASSUME NEW c \in Call, Request(c) PROVE PendingMatchesPromises'
  <2> SUFFICES ASSUME DistinctIds
               PROVE  /\ \A d \in Call : call'[d] = "waiting" <=> pending'[IdOf[d]] = d
                      /\ \A j \in Id : pending'[j] # None => IdOf[pending'[j]] = j
                      /\ timer' = IF hasTimeout' THEN {d \in Call : call'[d] = "waiting"} ELSE {}
    BY DEF PendingMatchesPromises, DistinctIds
  <2>1. /\ call' = [call EXCEPT ![c] = "waiting"]
        /\ timer' = IF hasTimeout THEN timer \cup {c} ELSE timer
        /\ pending' = [pending EXCEPT ![IdOf[c]] = c]
        /\ hasTimeout' = hasTimeout /\ IdOf[c] \in Id
    BY <1>12 DEF Request
  <2>2. /\ \A d \in Call : call[d] = "waiting" <=> pending[IdOf[d]] = d
        /\ \A j \in Id : pending[j] # None => IdOf[pending[j]] = j
        /\ timer = IF hasTimeout THEN {d \in Call : call[d] = "waiting"} ELSE {}
    BY DEF PendingMatchesPromises
  <2>3. \A d \in Call : d # c => IdOf[d] # IdOf[c]
    BY DEF DistinctIds
  <2>4. \A d \in Call : call'[d] = "waiting" <=> call[d] = "waiting" \/ d = c
    BY <2>1 DEF TypeOK
  <2>5. \A d \in Call : pending'[IdOf[d]] = d <=> pending[IdOf[d]] = d \/ d = c
    BY <2>1, <2>3 DEF TypeOK
  <2>6. \A j \in Id : pending'[j] # None => IdOf[pending'[j]] = j
    BY <2>1, <2>2 DEF TypeOK
  <2>7. timer' = IF hasTimeout' THEN {d \in Call : call'[d] = "waiting"} ELSE {}
    BY <2>1, <2>2, <2>4
  <2> QED
    BY <2>2, <2>4, <2>5, <2>6, <2>7
<1>13. ASSUME NEW c \in Call, RequestRefused(c) PROVE PendingMatchesPromises'
  BY <1>13 DEF TypeOK, PendingMatchesPromises, DistinctIds, RequestRefused
<1>14. ASSUME NEW c \in Call, RequestTimeout(c) PROVE PendingMatchesPromises'
  BY <1>14
  DEF TypeOK, PendingMatchesPromises, DistinctIds, RequestTimeout, Settle
<1>15. CASE UNCHANGED vars
  BY <1>15 DEF TypeOK, PendingMatchesPromises, DistinctIds, vars
<1> QED
  BY <1>1, <1>2, <1>3, <1>4, <1>5, <1>6, <1>7, <1>8, <1>9, <1>10, <1>11, <1>12,
     <1>13, <1>14, <1>15
  DEF Next, SocketEvent, Server, Settled

(* While only the first socket was ever opened. *)
OneSocket == \A s \in Socket : s > 1 => sk[s] = "unused"

(* An armed connect timer is that of a connection attempt. *)
TimersOfSockets == \A s \in connTimer : sk[s] # "unused"

OneSocketInv ==
    OneSocket =>
        /\ \A s \in Socket : sk[s] \in {"connecting", "open"} => socket = s
        /\ connected => socket # None /\ connTimer = {}
        /\ ~connected => recvBuf = <<>>
        /\ \A s \in Socket : sk[s] = "open" => connected

LEMMA TimersStep == TypeOK /\ TimersOfSockets /\ [Next]_vars => TimersOfSockets'
<1> SUFFICES ASSUME TypeOK, TimersOfSockets, [Next]_vars
             PROVE  TimersOfSockets'
  OBVIOUS
<1> USE NoneAssumption, IdsAssumption DEF sockVars, callVars
<1>1. CASE Connect
  BY <1>1 DEF TypeOK, TimersOfSockets, Connect
<1>2. CASE Disconnect
  BY <1>2
  DEF TypeOK, TimersOfSockets, Disconnect, Drop, RejectPending, Destroyed
<1>3. ASSUME NEW s \in Socket, ConnectTimeout(s) PROVE TimersOfSockets'
  BY <1>3 DEF TypeOK, TimersOfSockets, ConnectTimeout, Destroyed, Settle
<1>4. ASSUME NEW s \in Socket, OnConnect(s) PROVE TimersOfSockets'
  BY <1>4 DEF TypeOK, TimersOfSockets, OnConnect, Settle
<1>5. ASSUME NEW s \in Socket, OnError(s) PROVE TimersOfSockets'
  BY <1>5 DEF TypeOK, TimersOfSockets, OnError, OnClose, RejectPending, Settle
<1>6. ASSUME NEW s \in Socket, CloseEvent(s) PROVE TimersOfSockets'
  BY <1>6 DEF TypeOK, TimersOfSockets, CloseEvent, OnClose, RejectPending
<1>7. ASSUME NEW s \in Socket, OnHead(s) PROVE TimersOfSockets'
  BY <1>7 DEF TypeOK, TimersOfSockets, OnHead, Drop, RejectPending, Destroyed
<1>8. ASSUME NEW s \in Socket, OnRest(s) PROVE TimersOfSockets'
  BY <1>8 DEF TypeOK, TimersOfSockets, OnRest, Answered, Settle
<1>9. ASSUME NEW s \in Socket, OnGarbled(s) PROVE TimersOfSockets'
  BY <1>9 DEF TypeOK, TimersOfSockets, OnGarbled, Drop, RejectPending, Destroyed
<1>10. ASSUME NEW s \in Socket, NEW c \in Call, ServerAnswers(s, c)
       PROVE TimersOfSockets'
  BY <1>10 DEF TypeOK, TimersOfSockets, ServerAnswers
<1>11. ASSUME NEW s \in Socket, ServerCloses(s) PROVE TimersOfSockets'
  BY <1>11 DEF TypeOK, TimersOfSockets, ServerCloses
<1>12. ASSUME NEW c \in Call, Request(c) PROVE TimersOfSockets'
  BY <1>12 DEF TypeOK, TimersOfSockets, Request
<1>13. ASSUME NEW c \in Call, RequestRefused(c) PROVE TimersOfSockets'
  BY <1>13 DEF TypeOK, TimersOfSockets, RequestRefused
<1>14. ASSUME NEW c \in Call, RequestTimeout(c) PROVE TimersOfSockets'
  BY <1>14 DEF TypeOK, TimersOfSockets, RequestTimeout, Settle
<1>15. CASE UNCHANGED vars
  BY <1>15 DEF TypeOK, TimersOfSockets, vars
<1> QED
  BY <1>1, <1>2, <1>3, <1>4, <1>5, <1>6, <1>7, <1>8, <1>9, <1>10, <1>11, <1>12,
     <1>13, <1>14, <1>15
  DEF Next, SocketEvent, Server, Settled

LEMMA SocketStep ==
  TypeOK /\ TimersOfSockets /\ OneSocketInv /\ [Next]_vars => OneSocketInv'
<1> SUFFICES ASSUME TypeOK, TimersOfSockets, OneSocketInv, [Next]_vars
             PROVE  OneSocketInv'
  OBVIOUS
<1> USE NoneAssumption, IdsAssumption DEF sockVars, callVars
<1>1. CASE Connect
  BY <1>1 DEF TypeOK, TimersOfSockets, OneSocketInv, OneSocket, Socket, Connect
<1>2. CASE Disconnect
  BY <1>2 DEF TypeOK, TimersOfSockets, OneSocketInv, OneSocket, Socket,
     Disconnect, Drop, RejectPending, Destroyed
<1>3. ASSUME NEW s \in Socket, ConnectTimeout(s) PROVE OneSocketInv'
  BY <1>3 DEF TypeOK, TimersOfSockets, OneSocketInv, OneSocket, Socket,
     ConnectTimeout, Destroyed, Settle
<1>4. ASSUME NEW s \in Socket, OnConnect(s) PROVE OneSocketInv'
  BY <1>4 DEF TypeOK, TimersOfSockets, OneSocketInv, OneSocket, Socket,
     OnConnect, Settle
<1>5. ASSUME NEW s \in Socket, OnError(s) PROVE OneSocketInv'
  BY <1>5 DEF TypeOK, TimersOfSockets, OneSocketInv, OneSocket, Socket,
     OnError, OnClose, RejectPending, Settle
<1>6. ASSUME NEW s \in Socket, CloseEvent(s) PROVE OneSocketInv'
  BY <1>6 DEF TypeOK, TimersOfSockets, OneSocketInv, OneSocket, Socket,
     CloseEvent, OnClose, RejectPending
<1>7. ASSUME NEW s \in Socket, OnHead(s) PROVE OneSocketInv'
  BY <1>7 DEF TypeOK, TimersOfSockets, OneSocketInv, OneSocket, Socket, OnHead,
     Drop, RejectPending, Destroyed
<1>8. ASSUME NEW s \in Socket, OnRest(s) PROVE OneSocketInv'
  BY <1>8 DEF TypeOK, TimersOfSockets, OneSocketInv, OneSocket, Socket, OnRest,
     Answered, Settle
<1>9. ASSUME NEW s \in Socket, OnGarbled(s) PROVE OneSocketInv'
  <2>1. CASE Drop /\ UNCHANGED <<connTimer, promise, atServer>>
    BY <1>9, <2>1 DEF TypeOK, OneSocketInv, OneSocket, Socket, Drop, Destroyed
  <2>2. CASE recvBuf' = <<Garbled>>
             /\ UNCHANGED <<socket, connected, sockVars, callVars, atServer>>
    BY <1>9, <2>2 DEF TypeOK, OneSocketInv, OneSocket, OnGarbled
  <2> QED
    BY <1>9, <2>1, <2>2 DEF OnGarbled
<1>10. ASSUME NEW s \in Socket, NEW c \in Call, ServerAnswers(s, c)
       PROVE OneSocketInv'
  BY <1>10
  DEF TypeOK, TimersOfSockets, OneSocketInv, OneSocket, Socket, ServerAnswers
<1>11. ASSUME NEW s \in Socket, ServerCloses(s) PROVE OneSocketInv'
  BY <1>11
  DEF TypeOK, TimersOfSockets, OneSocketInv, OneSocket, Socket, ServerCloses
<1>12. ASSUME NEW c \in Call, Request(c) PROVE OneSocketInv'
  BY <1>12 DEF TypeOK, TimersOfSockets, OneSocketInv, OneSocket, Socket, Request
<1>13. ASSUME NEW c \in Call, RequestRefused(c) PROVE OneSocketInv'
  BY <1>13
  DEF TypeOK, TimersOfSockets, OneSocketInv, OneSocket, Socket, RequestRefused
<1>14. ASSUME NEW c \in Call, RequestTimeout(c) PROVE OneSocketInv'
  BY <1>14 DEF TypeOK, TimersOfSockets, OneSocketInv, OneSocket, Socket,
     RequestTimeout, Settle
<1>15. CASE UNCHANGED vars
  BY <1>15 DEF TypeOK, TimersOfSockets, OneSocketInv, OneSocket, Socket, vars
<1> QED
  BY <1>1, <1>2, <1>3, <1>4, <1>5, <1>6, <1>7, <1>8, <1>9, <1>10, <1>11, <1>12,
     <1>13, <1>14, <1>15
  DEF Next, SocketEvent, Server, Settled

ClientInv ==
    /\ TypeOK /\ NothingOwedWhenDisconnected /\ PendingMatchesPromises
    /\ TimersOfSockets /\ OneSocketInv

LEMMA ClientInvInit == Init => ClientInv
<1> SUFFICES ASSUME Init PROVE ClientInv
  OBVIOUS
<1>1. TypeOK
  BY TypeInit
<1>2. NothingOwedWhenDisconnected /\ PendingMatchesPromises
  <2>1. \A i \in Id : pending[i] = None
    BY DEF Init
  <2>2. \A c \in Call : call[c] = "unmade" /\ pending[IdOf[c]] # c
    BY <2>1, IdsAssumption, NoneAssumption DEF Init
  <2> QED
    BY <2>1, <2>2 DEF Init, NothingOwedWhenDisconnected, PendingMatchesPromises
<1>3. TimersOfSockets /\ OneSocketInv
  BY DEF Init, TimersOfSockets, OneSocketInv
<1> QED
  BY <1>1, <1>2, <1>3 DEF ClientInv

LEMMA ClientInvStep == ClientInv /\ [Next]_vars => ClientInv'
  BY TypeStep, OwedStep, PendingStep, TimersStep, SocketStep DEF ClientInv

LEMMA ClientInvariant == Spec => []ClientInv
  BY ClientInvInit, ClientInvStep, PTL DEF Spec

(* The client forgets no promise, keeps no timer of a settled call, owes   *)
(* nothing once disconnected, and tracks its socket while it has only one, *)
(* whatever the order of closes, timeouts, replies and calls.              *)
THEOREM BooksAreRight == Spec => []PromisesKept
<1>1. ClientInv => PromisesKept
  BY DEF ClientInv, PromisesKept, OneSocketInv, OneSocket, OneSocketTracked
<1> QED
  BY ClientInvariant, <1>1, PTL
=============================================================================
