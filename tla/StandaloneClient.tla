--------------------------- MODULE StandaloneClient ---------------------------
(***************************************************************************)
(* The Node client: leap-env/src/client/standalone-client.js.              *)
(*                                                                         *)
(* One thread runs everything: the calls of the user, the timers and the   *)
(* events of the sockets, each to its end.  What makes it hard is that a   *)
(* callback outlives what it was registered for: every socket the client   *)
(* ever opened still reports its 'close' to the same object, and a connect *)
(* timer acts on whatever socket is current when it fires.                 *)
(*                                                                         *)
(* A reply arrives in two halves (the length prefix and the rest), so that *)
(* the receive buffer can be seen to hold part of a frame.  The server is  *)
(* what the client can see of it: it answers on the socket a request came  *)
(* from, in any order, or closes.                                          *)
(*                                                                         *)
(* Name_Fault, as in OnClose_KeepsPending, is Name with a mistake; Spec    *)
(* does not use it.                                                        *)
(***************************************************************************)
EXTENDS Integers, Sequences

CONSTANTS
    Call,         \* requests: runSignature, getStats, shutdown
    Oversize,     \* calls whose reply is longer than MAX_PAYLOAD_BYTES
    Id,           \* request ids
    IdOf,         \* [Call -> Id]: generated, or chosen by the user
    MaxSockets,   \* bound: how often connect() opens a socket
    Overlapping,  \* may connect() be called while another is under way?
    None, Garbled

Socket == 1 .. MaxSockets

ASSUME SocketsAssumption == MaxSockets \in Nat \ {0}
ASSUME IdsAssumption == IdOf \in [Call -> Id] /\ Oversize \subseteq Call
ASSUME OverlappingAssumption == Overlapping \in BOOLEAN
ASSUME NoneAssumption == None \notin Socket /\ None \notin Call /\ Garbled \notin Call

VARIABLES
    hasTimeout, \* this._requestTimeoutMs > 0; set by the constructor only
    socket,     \* this._socket
    connected,  \* this._connected
    pending,    \* this._pending: the call that waits under each id
    recvBuf,    \* this._recvBuf: half a frame, a frame that makes no sense, or nothing
    sk,         \* each socket: unused, connecting, open, closing ('close' is due) or closed
    connTimer,  \* sockets whose connect timer is armed
    promise,    \* what connect() returned for each socket
    call,       \* the promise of each call
    timer,      \* calls whose request timer is armed
    atServer,   \* requests each connection has sent that are not answered
    stream      \* half frames under way to each socket

sockVars == <<sk, connTimer, promise>>
callVars == <<pending, call, timer>>
vars == <<hasTimeout, socket, connected, recvBuf, sockVars, callVars, atServer, stream>>

Half == Call \X {"head", "rest"}
Unsettled == {"unmade", "waiting"}

Init ==
    /\ hasTimeout \in BOOLEAN
    /\ socket = None
    /\ connected = FALSE
    /\ pending = [i \in Id |-> None]
    /\ recvBuf = <<>>
    /\ sk = [s \in Socket |-> "unused"]
    /\ connTimer = {}
    /\ promise = [s \in Socket |-> "unmade"]
    /\ call = [c \in Call |-> "unmade"]
    /\ timer = {}
    /\ atServer = [s \in Socket |-> {}]
    /\ stream = [s \in Socket |-> <<>>]

Settle(p, x, how) == [p EXCEPT ![x] = IF @ = "waiting" THEN how ELSE @]

(* socket.destroy(): no event but 'close' follows. *)
Destroyed(s) == [sk EXCEPT ![s] = IF @ \in {"connecting", "open"} THEN "closing" ELSE @]

-----------------------------------------------------------------------------
(* Every entry of _pending is rejected, its timer cleared. *)
RejectPending ==
    LET lost == {pending[i] : i \in Id} IN
    /\ call' = [c \in Call |-> IF c \in lost /\ call[c] = "waiting"
                               THEN "rejected" ELSE call[c]]
    /\ timer' = timer \ lost
    /\ pending' = [i \in Id |-> None]

OnClose_KeepsPending ==
    /\ connected' = FALSE
    /\ socket' = None
    /\ recvBuf' = <<>>
    /\ UNCHANGED callVars

(* _onClose, whichever socket it comes from. *)
OnClose ==
    /\ connected' = FALSE
    /\ socket' = None
    /\ RejectPending
    /\ recvBuf' = <<>>

(* disconnect. *)
Drop ==
    /\ connected' = FALSE
    /\ socket' = None
    /\ sk' = IF socket = None THEN sk ELSE Destroyed(socket)
    /\ RejectPending
    /\ recvBuf' = <<>>

Disconnect ==
    /\ socket # None \/ connected
    /\ Drop
    /\ UNCHANGED <<hasTimeout, connTimer, promise, atServer, stream>>

-----------------------------------------------------------------------------
(* connect. *)

Connect ==
    /\ ~connected
    /\ Overlapping \/ socket = None
    /\ \E s \in Socket :
          /\ sk[s] = "unused"
          /\ \A t \in Socket : t < s => sk[t] # "unused"
          /\ socket' = s
          /\ sk' = [sk EXCEPT ![s] = "connecting"]
          /\ connTimer' = connTimer \cup {s}
          /\ promise' = [promise EXCEPT ![s] = "waiting"]
    /\ UNCHANGED <<hasTimeout, connected, recvBuf, callVars, atServer, stream>>

(* The connect timer destroys this._socket, not the socket it was set for. *)
ConnectTimeout(s) ==
    /\ s \in connTimer
    /\ connTimer' = connTimer \ {s}
    /\ sk' = IF socket = None THEN sk ELSE Destroyed(socket)
    /\ socket' = None
    /\ promise' = Settle(promise, s, "rejected")
    /\ UNCHANGED <<hasTimeout, connected, recvBuf, callVars, atServer, stream>>

OnConnect(s) ==
    /\ sk[s] = "connecting"
    /\ sk' = [sk EXCEPT ![s] = "open"]
    /\ connTimer' = connTimer \ {s}
    /\ connected' = TRUE
    /\ promise' = Settle(promise, s, "resolved")
    /\ UNCHANGED <<hasTimeout, socket, recvBuf, callVars, atServer, stream>>

(* 'error': refused, reset.  Node destroys the socket, 'close' follows. *)
OnError(s) ==
    /\ sk[s] \in {"connecting", "open"}
    /\ sk' = [sk EXCEPT ![s] = "closing"]
    /\ connTimer' = connTimer \ {s}
    /\ promise' = IF connected THEN promise ELSE Settle(promise, s, "rejected")
    /\ OnClose
    /\ UNCHANGED <<hasTimeout, atServer, stream>>

CloseEvent(s) ==
    /\ sk[s] = "closing"
    /\ sk' = [sk EXCEPT ![s] = "closed"]
    /\ connTimer' = connTimer \ {s}
    /\ OnClose
    /\ UNCHANGED <<hasTimeout, promise, atServer, stream>>

-----------------------------------------------------------------------------
(* Requests. *)

(* _request on a client that is not connected. *)
RequestRefused(c) ==
    /\ call[c] = "unmade"
    /\ ~connected \/ socket = None
    /\ call' = [call EXCEPT ![c] = "rejected"]
    /\ UNCHANGED <<hasTimeout, socket, connected, recvBuf, sockVars, pending,
                   timer,
                   atServer, stream>>

Request_StoresId(c) ==
    /\ call[c] = "unmade"
    /\ connected /\ socket # None
    /\ call' = [call EXCEPT ![c] = "waiting"]
    /\ timer' = timer
    /\ pending' = [pending EXCEPT ![IdOf[c]] = IdOf[c]]
    /\ UNCHANGED <<hasTimeout, socket, connected, recvBuf, sockVars,
                   atServer, stream>>

(* _request: an entry under the same id is overwritten. *)
Request(c) ==
    /\ call[c] = "unmade"
    /\ connected /\ socket # None
    /\ call' = [call EXCEPT ![c] = "waiting"]
    /\ timer' = IF hasTimeout THEN timer \cup {c} ELSE timer
    /\ pending' = [pending EXCEPT ![IdOf[c]] = c]
    /\ atServer' = IF sk[socket] \in {"connecting", "open"}
                   THEN [atServer EXCEPT ![socket] = @ \cup {c}] ELSE atServer
    /\ UNCHANGED <<hasTimeout, socket, connected, recvBuf, sockVars, stream>>

RequestTimeout_KeepsEntry(c) ==
    /\ c \in timer
    /\ timer' = timer \ {c}
    /\ call' = Settle(call, c, "rejected")
    /\ UNCHANGED <<hasTimeout, socket, connected, recvBuf, sockVars, pending,
                   atServer, stream>>

(* The request timer deletes the entry of its id. *)
RequestTimeout(c) ==
    /\ c \in timer
    /\ timer' = timer \ {c}
    /\ pending' = [pending EXCEPT ![IdOf[c]] = None]
    /\ call' = Settle(call, c, "rejected")
    /\ UNCHANGED <<hasTimeout, socket, connected, recvBuf, sockVars,
                   atServer, stream>>

(* A frame that carries the id of c: it resolves whatever waits under it. *)
Answered(c) ==
    LET i == IdOf[c] IN
    /\ call' = IF pending[i] = None THEN call ELSE Settle(call, pending[i], "resolved")
    /\ timer' = timer \ {pending[i]}
    /\ pending' = [pending EXCEPT ![i] = None]

-----------------------------------------------------------------------------
(* _onData. *)

(* The first half of a frame. *)
OnHead(s) ==
    /\ sk[s] = "open"
    /\ stream[s] # <<>>
    /\ recvBuf = <<>>
    /\ LET c == Head(stream[s])[1] IN
       IF c \in Oversize
          THEN Drop /\ UNCHANGED <<connTimer, promise, atServer>>
          ELSE /\ recvBuf' = <<c>>
               /\ UNCHANGED <<socket, connected, sockVars, callVars, atServer>>
    /\ stream' = [stream EXCEPT ![s] = Tail(@)]
    /\ UNCHANGED hasTimeout

(* The rest of the frame in the buffer. *)
OnRest(s) ==
    /\ sk[s] = "open"
    /\ stream[s] # <<>>
    /\ recvBuf # <<>>
    /\ Head(stream[s]) = <<recvBuf[1], "rest">>
    /\ Answered(recvBuf[1])
    /\ recvBuf' = <<>>
    /\ stream' = [stream EXCEPT ![s] = Tail(@)]
    /\ UNCHANGED <<hasTimeout, socket, connected, sockVars, atServer>>

(* Bytes that do not continue the frame in the buffer, from another socket *)
(* that feeds it: from here on lengths are read out of the middle of       *)
(* frames.  Either one is too long, or nothing comes of them.              *)
OnGarbled(s) ==
    /\ sk[s] = "open"
    /\ stream[s] # <<>>
    /\ IF recvBuf = <<>> THEN Head(stream[s])[2] = "rest"
                         ELSE Head(stream[s]) # <<recvBuf[1], "rest">>
    /\ stream' = [stream EXCEPT ![s] = Tail(@)]
    /\ \/ Drop /\ UNCHANGED <<connTimer, promise, atServer>>
       \/ /\ recvBuf' = <<Garbled>>
          /\ UNCHANGED <<socket, connected, sockVars, callVars, atServer>>
    /\ UNCHANGED hasTimeout

-----------------------------------------------------------------------------
(* The server. *)

ServerAnswers(s, c) ==
    /\ sk[s] = "open"
    /\ c \in atServer[s]
    /\ atServer' = [atServer EXCEPT ![s] = @ \ {c}]
    /\ stream' = [stream EXCEPT ![s] = @ \o <<<<c, "head">>, <<c, "rest">>>>]
    /\ UNCHANGED <<hasTimeout, socket, connected, recvBuf, sockVars, callVars>>

(* The server closes, at most in the middle of a frame. *)
ServerCloses(s) ==
    /\ sk[s] = "open"
    /\ Len(stream[s]) <= 1
    /\ sk' = [sk EXCEPT ![s] = "closing"]
    /\ UNCHANGED <<hasTimeout, socket, connected, recvBuf, connTimer,
                   promise, callVars,
                   atServer, stream>>

-----------------------------------------------------------------------------
SocketEvent(s) ==
    \/ OnConnect(s) \/ CloseEvent(s)
    \/ OnHead(s) \/ OnRest(s) \/ OnGarbled(s)

Server(s) == \E c \in Call : ServerAnswers(s, c)

Settled ==
    /\ \A c \in Call : call[c] \notin Unsettled
    /\ \A s \in Socket : sk[s] = "closed"
    /\ UNCHANGED vars

Next ==
    \/ Connect \/ Disconnect
    \/ \E s \in Socket : ConnectTimeout(s) \/ OnError(s) \/ SocketEvent(s)
                         \/ Server(s) \/ ServerCloses(s)
    \/ \E c \in Call : Request(c) \/ RequestRefused(c) \/ RequestTimeout(c)
    \/ Settled

(* The event loop delivers events and timers, the server answers. *)
Fairness ==
    /\ \A s \in Socket : WF_vars(SocketEvent(s)) /\ WF_vars(ConnectTimeout(s))
                         /\ WF_vars(Server(s))
    /\ \A c \in Call : WF_vars(RequestTimeout(c))

Spec == Init /\ [][Next]_vars
FairSpec == Spec /\ Fairness

-----------------------------------------------------------------------------
(* Properties. *)

(* The type of every variable. *)
TypeOK ==
    /\ hasTimeout \in BOOLEAN
    /\ socket \in Socket \cup {None}
    /\ connected \in BOOLEAN
    /\ pending \in [Id -> Call \cup {None}]
    /\ recvBuf \in {<<>>} \cup {<<x>> : x \in Call \cup {Garbled}}
    /\ sk \in [Socket -> {"unused", "connecting", "open", "closing", "closed"}]
    /\ connTimer \in SUBSET Socket
    /\ promise \in [Socket -> {"unmade", "waiting", "resolved", "rejected"}]
    /\ call \in [Call -> {"unmade", "waiting", "resolved", "rejected"}]
    /\ timer \in SUBSET Call
    /\ atServer \in [Socket -> SUBSET Call]
    /\ stream \in [Socket -> Seq(Half)]

(* With distinct ids, the calls whose promise is open are exactly those in *)
(* _pending, each under its own id, and the armed request timers are       *)
(* exactly theirs: no close, late reply, timeout or overlap of connections *)
(* forgets a promise or leaves a timer that would delete another's entry.  *)
DistinctIds == \A c, d \in Call : IdOf[c] = IdOf[d] => c = d
PendingMatchesPromises ==
    DistinctIds =>
        /\ \A c \in Call : call[c] = "waiting" <=> pending[IdOf[c]] = c
        /\ \A i \in Id : pending[i] # None => IdOf[pending[i]] = i
        /\ timer = IF hasTimeout THEN {c \in Call : call[c] = "waiting"} ELSE {}

(* A client that is not connected owes nothing: whichever socket's event   *)
(* closed it, and whoever called it, all calls were rejected.              *)
NothingOwedWhenDisconnected == ~connected => \A i \in Id : pending[i] = None

(* With one connection at most, the client refers to the socket that is    *)
(* live, says that it is connected only when it has one to write to, and   *)
(* keeps no part of a frame for a later connection.                        *)
OneSocketTracked ==
    (\A s \in Socket : s > 1 => sk[s] = "unused") =>
        /\ \A s \in Socket : sk[s] \in {"connecting", "open"} => socket = s
        /\ connected => socket # None
        /\ ~connected => recvBuf = <<>>

(* The books of the client are right whatever order events come in. *)
PromisesKept ==
    PendingMatchesPromises /\ NothingOwedWhenDisconnected /\ OneSocketTracked

(* Every request settles: answered, timed out or rejected by a close.      *)
(* Without a request timeout this takes a client whose connections do not  *)
(* overlap: two live sockets feed one buffer, and an answer in a frame     *)
(* that was cut apart never reaches the call.                              *)
NoOverlap ==
    \A s, t \in Socket :
        sk[s] \in {"connecting", "open"} /\ sk[t] \in {"connecting", "open"} => s = t
EveryCallSettles ==
    (hasTimeout \/ []NoOverlap) =>
        \A c \in Call : call[c] = "waiting" ~> call[c] # "waiting"

(* IPC manual, section 5: disconnect() forces the socket closed.           *)
DisconnectClosesSocket ==
    [][Disconnect => \A s \in Socket : sk'[s] \notin {"connecting", "open"}]_vars
=============================================================================
