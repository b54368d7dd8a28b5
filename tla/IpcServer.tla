------------------------------ MODULE IpcServer ------------------------------
(***************************************************************************)
(* The TCP server of leapvm_server: leap-vm/src/service/ipc_server.cc, run *)
(* by the main loop of main.cc.                                            *)
(*                                                                         *)
(* The main thread loops over Poll: it drains the completion queue, polls  *)
(* a snapshot of the sockets, accepts, drains again when the eventfd is    *)
(* set, and serves the clients that are ready.  Worker threads push their  *)
(* results into the completion queue and write the eventfd.  Descriptors   *)
(* are small integers that the kernel hands out lowest first and reuses.   *)
(*                                                                         *)
(* A frame is whole here: how frames are cut and joined is left out.  A    *)
(* reply is the request whose id it carries, or NoId.                      *)
(*                                                                         *)
(* A definition Name_Fault, as in Drain_NoSwap, is Name with a mistake a   *)
(* maintainer could make; Spec does not use it.                            *)
(***************************************************************************)
EXTENDS Integers, Sequences

CONSTANTS
    Conn,      \* connections; each is opened at most once
    Request,   \* requests the clients may send
    Scripts,   \* what each client sends, in order: a set of [Conn -> Seq(Request)]
    Kind,      \* [Request -> Kinds]
    NumFds,    \* descriptors the process may hold for clients
    SockCap,   \* replies the kernel buffers for one connection
    None,      \* no connection
    NoId       \* the id of a reply to a frame that is not JSON

Kinds == {"run", "query", "bad", "huge", "shutdown"}
Fd == 0 .. NumFds - 1

ASSUME FdsAssumption == NumFds \in Nat \ {0} /\ SockCap \in Nat \ {0}
ASSUME KindAssumption == Kind \in [Request -> Kinds]
ASSUME ScriptsAssumption == Scripts \subseteq [Conn -> Seq(Request)]
ASSUME SentOnceAssumption ==   \* a Request is one frame, not its text
    \A s \in Scripts : \A c, d \in Conn : \A i \in DOMAIN s[c], j \in DOMAIN s[d] :
        s[c][i] = s[d][j] => c = d /\ i = j
ASSUME FreshAssumption == None \notin Conn /\ NoId \notin Request

VARIABLES
    script,     \* what the clients of this behaviour send; it never changes
    pc,         \* where the main thread is
    shutdown,   \* g_shutdown_requested
    ready,      \* what the last poll() reported, less what was handled
    cur,        \* the fd whose frames are processed
    batch,      \* the completions DrainCompletedTasks swapped out
    clients,    \* the keys of clients_
    recvBuf,    \* recv_buffer of each entry of clients_
    sendBuf,    \* send_buffer of each entry of clients_
    work,       \* calls of SubmitTask the pool has not called back
    done,       \* completed_tasks_
    notifying,  \* workers between the push and the write of the eventfd
    event,      \* the eventfd counter is not zero
    notifyOpen, \* notify_fd_ >= 0: eventfd() may have failed
    sock,       \* kernel: the connection behind each descriptor
    backlog,    \* kernel: connections not yet accepted
    peer,       \* kernel: the state of each connection
    inbox,      \* kernel: frames sent by the client, not yet received
    wire,       \* kernel: replies sent by the server, not yet read
    todo,       \* the rest of each client's script
    got         \* the replies each client has read

loopVars == <<ready, cur, batch>>
clientVars == <<clients, recvBuf, sendBuf>>
queueVars == <<work, done, notifying, event, notifyOpen>>
kernelVars == <<sock, backlog, inbox>>
userVars == <<script, todo, got>>
vars == <<pc, shutdown, loopVars, clientVars, queueVars, kernelVars, peer,
          wire, userVars>>

Completion == [fd : Fd, req : Request]
Pc == {"clients", "send", "poll", "accept", "notify", "sendNotified",
       "process", "flush", "discard", "close", "poolStop", "stopped", "killed"}

(* idle: not connected; fin: the client closed with nothing left to read;  *)
(* rst: it closed with replies unread, so its kernel sent a reset; broken: *)
(* the server has sent after that, and its next send raises SIGPIPE.       *)
PeerState == {"idle", "open", "fin", "rst", "broken"}

NotReady == [listen |-> FALSE, notify |-> FALSE, in |-> {}, out |-> {}, hup |-> {}]
ReadyFds == ready.in \cup ready.out \cup ready.hup
Handled(fd) == [ready EXCEPT !.in = @ \ {fd}, !.out = @ \ {fd}, !.hup = @ \ {fd}]

Least(S) == CHOOSE x \in S : \A y \in S : x <= y
FreeFds == {fd \in Fd : sock[fd] = None}
Attached(c) == \E fd \in clients : sock[fd] = c
Waiting(c) == \E i \in DOMAIN backlog : backlog[i] = c
Alive == pc \notin {"stopped", "killed"}

Init ==
    /\ pc = "clients"
    /\ shutdown = FALSE
    /\ ready = NotReady
    /\ cur = 0
    /\ batch = <<>>
    /\ clients = {}
    /\ recvBuf = [fd \in Fd |-> <<>>]
    /\ sendBuf = [fd \in Fd |-> <<>>]
    /\ work = {}
    /\ done = <<>>
    /\ notifying = {}
    /\ event = FALSE
    /\ notifyOpen \in BOOLEAN   \* eventfd() may fail: then only the timeout wakes
    /\ sock = [fd \in Fd |-> None]
    /\ backlog = <<>>
    /\ peer = [c \in Conn |-> "idle"]
    /\ inbox = [c \in Conn |-> <<>>]
    /\ wire = [c \in Conn |-> <<>>]
    /\ script \in Scripts
    /\ todo = script
    /\ got = [c \in Conn |-> {}]

-----------------------------------------------------------------------------
(* Sending. *)

(* send() of everything in buf on fd, and what stays in send_buffer.  The  *)
(* code passes no MSG_NOSIGNAL and ignores no signal: EPIPE is fatal.      *)
Send(fd, buf, then) ==
    LET c == sock[fd] IN
    \/ /\ c = None                      \* EBADF
       /\ sendBuf' = [sendBuf EXCEPT ![fd] = buf]
       /\ pc' = then
       /\ UNCHANGED <<wire, peer>>
    \/ /\ c # None /\ peer[c] = "open"
       /\ LET room == SockCap - Len(wire[c])
              n == IF room < Len(buf) THEN room ELSE Len(buf) IN
          /\ wire' = [wire EXCEPT ![c] = @ \o SubSeq(buf, 1, n)]
          /\ sendBuf' = [sendBuf EXCEPT ![fd] = SubSeq(buf, n + 1, Len(buf))]
       /\ pc' = then
       /\ UNCHANGED peer
    \/ /\ c # None /\ peer[c] = "fin"   \* accepted; the peer answers RST
       /\ sendBuf' = [sendBuf EXCEPT ![fd] = <<>>]
       /\ peer' = [peer EXCEPT ![c] = "broken"]
       /\ pc' = then
       /\ UNCHANGED wire
    \/ /\ c # None /\ peer[c] = "rst"   \* ECONNRESET
       /\ sendBuf' = [sendBuf EXCEPT ![fd] = buf]
       /\ peer' = [peer EXCEPT ![c] = "broken"]
       /\ pc' = then
       /\ UNCHANGED wire
    \/ /\ c # None /\ peer[c] = "broken"   \* EPIPE, SIGPIPE
       /\ pc' = "killed"
       /\ UNCHANGED <<sendBuf, wire, peer>>

(* SendResponse: append, then try to send at once. *)
SendResponse(fd, reply, then) == Send(fd, Append(sendBuf[fd], reply), then)

-----------------------------------------------------------------------------
(* The completion queue. *)

Drain_NoSwap(then, empty) ==
    \/ /\ done = <<>>
       /\ pc' = empty
       /\ UNCHANGED <<batch, done>>
    \/ /\ done # <<>>
       /\ batch' = done
       /\ UNCHANGED done
       /\ pc' = then

(* DrainCompletedTasks: swap the queue out under its lock, then send. *)
Drain(then, empty) ==
    \/ /\ done = <<>>
       /\ pc' = empty
       /\ UNCHANGED <<batch, done>>
    \/ /\ done # <<>>
       /\ batch' = done
       /\ done' = <<>>
       /\ pc' = then

(* SendResponseToFd for the head of the batch: a completion whose fd is    *)
(* not registered is discarded.                                            *)
SendBatch(here, then) ==
    /\ pc = here
    /\ LET item == Head(batch)
           next == IF Len(batch) = 1 THEN then ELSE here IN
       /\ batch' = Tail(batch)
       /\ \/ /\ item.fd \in clients
             /\ SendResponse(item.fd, item.req, next)
          \/ /\ item.fd \notin clients
             /\ pc' = next
             /\ UNCHANGED <<sendBuf, wire, peer>>
    /\ UNCHANGED <<shutdown, ready, cur, clients, recvBuf, queueVars,
                   kernelVars, userVars>>

-----------------------------------------------------------------------------
(* The main loop and Poll. *)

(* Between two Polls: the last one has served every ready client. *)
BetweenPolls == pc = "clients" /\ ReadyFds = {}

(* while (!g_shutdown_requested) Poll: first drain what came meanwhile. *)
BeginPoll ==
    /\ BetweenPolls
    /\ ~shutdown
    /\ Drain("send", "poll")
    /\ UNCHANGED <<shutdown, ready, cur, clientVars, work, notifying, event,
                   notifyOpen, kernelVars, peer, wire, userVars>>

SendDrained == SendBatch("send", "poll")

Writable_Never(fd) == FALSE

(* What poll() reports of the registered descriptors. *)
Readable(fd) == LET c == sock[fd] IN
    c # None /\ (inbox[c] # <<>> \/ peer[c] # "open")
Writable(fd) == LET c == sock[fd] IN
    c # None /\ sendBuf[fd] # <<>>
             /\ (peer[c] # "open" \/ Len(wire[c]) < SockCap)
HungUp(fd) == sock[fd] # None /\ peer[sock[fd]] \in {"rst", "broken"}
Polled == [listen |-> backlog # <<>>,
           notify |-> event,
           in  |-> {fd \in clients : Readable(fd)},
           out |-> {fd \in clients : Writable(fd)},
           hup |-> {fd \in clients : HungUp(fd)}]

AfterAccept(notified) == IF notified THEN "notify" ELSE "clients"

(* poll() returns: on an event, on a descriptor that is closed (POLLNVAL), *)
(* or after 100 ms with nothing.                                           *)
PollReturn ==
    /\ pc = "poll"
    /\ \/ /\ Polled # NotReady
          /\ ready' = Polled
          /\ pc' = IF backlog # <<>> THEN "accept" ELSE AfterAccept(event)
       \/ /\ Polled = NotReady
          /\ ready' = NotReady
          /\ pc' = "clients"
    /\ UNCHANGED <<shutdown, cur, batch, clientVars, queueVars, kernelVars,
                   peer, wire, userVars>>

(* AcceptConnections: until accept() fails. *)
Accept ==
    /\ pc = "accept"
    /\ backlog # <<>> /\ FreeFds # {}
    /\ LET fd == Least(FreeFds) IN
       /\ sock' = [sock EXCEPT ![fd] = Head(backlog)]
       /\ clients' = clients \cup {fd}
       /\ recvBuf' = [recvBuf EXCEPT ![fd] = <<>>]
       /\ sendBuf' = [sendBuf EXCEPT ![fd] = <<>>]
    /\ backlog' = Tail(backlog)
    /\ UNCHANGED <<pc, shutdown, loopVars, queueVars, inbox, peer, wire,
                   userVars>>

AcceptDone ==
    /\ pc = "accept"
    /\ backlog = <<>> \/ FreeFds = {}
    /\ pc' = AfterAccept(ready.notify)
    /\ UNCHANGED <<shutdown, loopVars, clientVars, queueVars, kernelVars,
                   peer, wire, userVars>>

(* The eventfd is read before the queue is swapped. *)
Notified ==
    /\ pc = "notify"
    /\ event' = FALSE
    /\ Drain("sendNotified", "clients")
    /\ UNCHANGED <<shutdown, ready, cur, clientVars, work, notifying,
                   notifyOpen, kernelVars, peer, wire, userVars>>

SendNotified == SendBatch("sendNotified", "clients")

CloseClient_LeakFd(fd) ==
    /\ clients' = clients \ {fd}
    /\ recvBuf' = [recvBuf EXCEPT ![fd] = <<>>]
    /\ sendBuf' = [sendBuf EXCEPT ![fd] = <<>>]
    /\ UNCHANGED sock

(* CLOSE_SOCKET(fd); clients_.erase(it). *)
CloseClient(fd) ==
    /\ clients' = clients \ {fd}
    /\ recvBuf' = [recvBuf EXCEPT ![fd] = <<>>]
    /\ sendBuf' = [sendBuf EXCEPT ![fd] = <<>>]
    /\ sock' = [sock EXCEPT ![fd] = None]

(* The loop over the snapshot, in the order of an unordered_map.  A        *)
(* descriptor of the snapshot is still registered when its turn comes.     *)
HangUp(fd) ==
    /\ pc = "clients"
    /\ fd \in ready.hup
    /\ CloseClient(fd)
    /\ ready' = Handled(fd)
    /\ UNCHANGED <<pc, shutdown, cur, batch, queueVars, backlog, inbox, peer,
                   wire, userVars>>

(* recv() takes what there is, up to its buffer. *)
Receive(fd) ==
    LET c == sock[fd] IN
    /\ pc = "clients"
    /\ fd \in ready.in \ ready.hup
    /\ \E n \in 1 .. Len(inbox[c]) :
          /\ recvBuf' = [recvBuf EXCEPT ![fd] = @ \o SubSeq(inbox[c], 1, n)]
          /\ inbox' = [inbox EXCEPT ![c] = SubSeq(@, n + 1, Len(@))]
    /\ ready' = [ready EXCEPT !.in = @ \ {fd}]
    /\ cur' = fd
    /\ pc' = "process"
    /\ UNCHANGED <<shutdown, batch, clients, sendBuf, queueVars, sock,
                   backlog, peer, wire, userVars>>

(* recv() returned 0 or failed. *)
ReceiveEnd(fd) ==
    /\ pc = "clients"
    /\ fd \in ready.in \ ready.hup
    /\ inbox[sock[fd]] = <<>>
    /\ CloseClient(fd)
    /\ ready' = Handled(fd)
    /\ UNCHANGED <<pc, shutdown, cur, batch, queueVars, backlog, inbox, peer,
                   wire, userVars>>

WriteOnly(fd) ==
    /\ pc = "clients"
    /\ fd \in ready.out \ (ready.in \cup ready.hup)
    /\ cur' = fd
    /\ pc' = "flush"
    /\ UNCHANGED <<shutdown, ready, batch, clientVars, queueVars, kernelVars,
                   peer, wire, userVars>>

(* POLLOUT on cur, after its frames if it had any. *)
Flush ==
    /\ pc \in {"process", "flush"}
    /\ pc = "process" => recvBuf[cur] = <<>>
    /\ ready' = Handled(cur)
    /\ \/ /\ cur \in ready.out /\ sendBuf[cur] # <<>>
          /\ Send(cur, sendBuf[cur], "clients")
       \/ /\ cur \notin ready.out \/ sendBuf[cur] = <<>>
          /\ pc' = "clients"
          /\ UNCHANGED <<sendBuf, wire, peer>>
    /\ UNCHANGED <<shutdown, cur, batch, clients, recvBuf, queueVars,
                   kernelVars, userVars>>

-----------------------------------------------------------------------------
(* ProcessClient and HandleMessage. *)

(* The frame that HandleMessage is given, taken off the receive buffer. *)
Frame == Head(recvBuf[cur])
Take(kind) ==
    /\ pc = "process"
    /\ recvBuf[cur] # <<>>
    /\ Kind[Frame] = kind
    /\ recvBuf' = [recvBuf EXCEPT ![cur] = Tail(@)]

(* run_signature: submitted with the fd in the callback's closure. *)
HandleRun ==
    /\ Take("run")
    /\ work' = work \cup {[fd |-> cur, req |-> Frame]}
    /\ UNCHANGED <<pc, shutdown, loopVars, clients, sendBuf, done, notifying,
                   event, notifyOpen, kernelVars, peer, wire, userVars>>

(* get_stats, recycle_all, an unknown type and a task that names its own   *)
(* target script are answered at once.                                     *)
HandleQuery ==
    /\ Take("query")
    /\ SendResponse(cur, Frame, "process")
    /\ UNCHANGED <<shutdown, loopVars, clients, queueVars, kernelVars, userVars>>

(* The reply quotes the parser's message, which quotes the payload: when   *)
(* that is not UTF-8, dump() throws outside the try, and nothing catches   *)
(* it: the process ends.                                                   *)
DumpThrows == pc' = "killed" /\ UNCHANGED <<sendBuf, wire, peer>>

HandleBad_IdLost ==
    /\ Take("bad")
    /\ SendResponse(cur, None, "process") \/ DumpThrows
    /\ UNCHANGED <<shutdown, loopVars, clients, queueVars, kernelVars, userVars>>

(* A payload that is not JSON is answered with an empty id. *)
HandleBad ==
    /\ Take("bad")
    /\ SendResponse(cur, NoId, "process") \/ DumpThrows
    /\ UNCHANGED <<shutdown, loopVars, clients, queueVars, kernelVars, userVars>>

(* raise(SIGTERM): the handler sets the flag before raise returns. *)
RequestStop == shutdown' = TRUE

HandleShutdown ==
    /\ Take("shutdown")
    /\ SendResponse(cur, Frame, "process")
    /\ \/ pc' = "killed" /\ UNCHANGED shutdown
       \/ pc' # "killed" /\ RequestStop
    /\ UNCHANGED <<loopVars, clients, queueVars, kernelVars, userVars>>

(* A length above 10 MB: the socket is closed, the entry of clients_ and   *)
(* the frame stay.                                                         *)
HandleHuge ==
    /\ pc = "process"
    /\ recvBuf[cur] # <<>>
    /\ Kind[Frame] = "huge"
    /\ sock' = [sock EXCEPT ![cur] = None]
    /\ pc' = "flush"
    /\ UNCHANGED <<shutdown, loopVars, clientVars, queueVars, backlog, inbox,
                   peer, wire, userVars>>

-----------------------------------------------------------------------------
(* Shutdown: server.Stop(), then pool.Stop(). *)

(* SIGINT or SIGTERM from outside, handled by some thread: poll() need not *)
(* be interrupted.  Only the main loop reads the flag, between two Polls,  *)
(* so it makes no difference when in a Poll the signal arrives.            *)
Signal ==
    /\ pc = "poll"
    /\ ~shutdown
    /\ shutdown' = TRUE
    /\ UNCHANGED <<pc, loopVars, clientVars, queueVars, kernelVars, peer,
                   wire, userVars>>

CloseAll == sock' = [fd \in Fd |-> IF fd \in clients THEN None ELSE sock[fd]]

StopServer ==
    /\ BetweenPolls
    /\ shutdown
    /\ CloseAll
    /\ clients' = {}
    /\ recvBuf' = [fd \in Fd |-> <<>>]
    /\ sendBuf' = [fd \in Fd |-> <<>>]
    /\ pc' = "discard"
    /\ UNCHANGED <<shutdown, loopVars, queueVars, backlog, inbox, peer, wire,
                   userVars>>

DiscardCompletions ==
    /\ pc = "discard"
    /\ done' = <<>>
    /\ backlog' = <<>>
    /\ pc' = "close"
    /\ UNCHANGED <<shutdown, loopVars, clientVars, work, notifying, event,
                   notifyOpen, sock, inbox, peer, wire, userVars>>

CloseNotify ==
    /\ pc = "close"
    /\ notifyOpen' = FALSE
    /\ event' = FALSE
    /\ pc' = "poolStop"
    /\ UNCHANGED <<shutdown, loopVars, clientVars, work, done, notifying,
                   kernelVars, peer, wire, userVars>>

(* pool.Stop() joins the workers; what is still queued is abandoned. *)
StopPool ==
    /\ pc = "poolStop"
    /\ notifying = {}
    /\ work' = {}
    /\ pc' = "stopped"
    /\ UNCHANGED <<shutdown, loopVars, clientVars, done, notifying, event,
                   notifyOpen, kernelVars, peer, wire, userVars>>

-----------------------------------------------------------------------------
(* The worker's half: the callback that HandleMessage passed. *)

PushCompletion(item) ==
    /\ Alive
    /\ item \in work
    /\ work' = work \ {item}
    /\ done' = Append(done, item)
    /\ notifying' = notifying \cup {item}
    /\ UNCHANGED <<pc, shutdown, loopVars, clientVars, event, notifyOpen,
                   kernelVars, peer, wire, userVars>>

Wake_WhenFirst == event' = (event \/ (notifyOpen /\ Len(done) = 1))

Wake == event' = (event \/ notifyOpen)

WriteEvent(item) ==
    /\ Alive
    /\ item \in notifying
    /\ notifying' = notifying \ {item}
    /\ Wake
    /\ UNCHANGED <<pc, shutdown, loopVars, clientVars, work, done, notifyOpen,
                   kernelVars, peer, wire, userVars>>

-----------------------------------------------------------------------------
(* The clients and their kernel. *)

Connect(c) ==
    /\ pc \notin {"discard", "close", "poolStop", "stopped", "killed"}
    /\ peer[c] = "idle"
    /\ script[c] # <<>>
    /\ peer' = [peer EXCEPT ![c] = "open"]
    /\ backlog' = Append(backlog, c)
    /\ UNCHANGED <<pc, shutdown, loopVars, clientVars, queueVars, sock, inbox,
                   wire, userVars>>

ClientSend(c) ==
    /\ Alive
    /\ peer[c] = "open"
    /\ Waiting(c) \/ Attached(c)
    /\ todo[c] # <<>>
    /\ inbox' = [inbox EXCEPT ![c] = Append(@, Head(todo[c]))]
    /\ todo' = [todo EXCEPT ![c] = Tail(@)]
    /\ UNCHANGED <<pc, shutdown, loopVars, clientVars, queueVars, sock,
                   backlog, peer, wire, script, got>>

ClientRead(c) ==
    /\ peer[c] = "open"
    /\ wire[c] # <<>>
    /\ got' = [got EXCEPT ![c] = @ \cup {Head(wire[c])}]
    /\ wire' = [wire EXCEPT ![c] = Tail(@)]
    /\ UNCHANGED <<pc, shutdown, loopVars, clientVars, queueVars, kernelVars,
                   peer, script, todo>>

(* A client that closes with replies unread makes its kernel send a reset. *)
ClientClose(c) ==
    /\ Alive
    /\ peer[c] = "open"
    /\ peer' = [peer EXCEPT ![c] = IF wire[c] = <<>> THEN "fin" ELSE "rst"]
    /\ wire' = [wire EXCEPT ![c] = <<>>]
    /\ UNCHANGED <<pc, shutdown, loopVars, clientVars, queueVars, kernelVars,
                   userVars>>

-----------------------------------------------------------------------------
ClientStep ==
    \E fd \in Fd : HangUp(fd) \/ Receive(fd) \/ ReceiveEnd(fd) \/ WriteOnly(fd)

FrameStep ==
    \/ HandleRun \/ HandleQuery \/ HandleBad
    \/ HandleShutdown \/ HandleHuge

PollStep ==
    \/ BeginPoll \/ SendDrained \/ PollReturn \/ Accept \/ AcceptDone
    \/ Notified \/ SendNotified
    \/ ClientStep \/ FrameStep \/ Flush

StopStep == StopServer \/ DiscardCompletions \/ CloseNotify \/ StopPool

Main == PollStep \/ StopStep

WorkerStep(r) == \E fd \in Fd : LET item == [fd |-> fd, req |-> r] IN
    PushCompletion(item) \/ WriteEvent(item)

User(c) == Connect(c) \/ ClientSend(c) \/ ClientRead(c) \/ ClientClose(c)

(* The server is gone, and every reply it sent has been read or lost. *)
Finished ==
    /\ ~Alive
    /\ \A c \in Conn : peer[c] = "open" => wire[c] = <<>>
    /\ UNCHANGED vars

Next ==
    \/ Main
    \/ Signal
    \/ \E r \in Request : WorkerStep(r)
    \/ \E c \in Conn : User(c)
    \/ Finished

(* The main thread and the workers run; a connected client reads.          *)
Fairness ==
    /\ WF_vars(Main)
    /\ \A r \in Request : WF_vars(WorkerStep(r))
    /\ \A c \in Conn : WF_vars(ClientRead(c))

Spec == Init /\ [][Next]_vars
FairSpec == Spec /\ Fairness

-----------------------------------------------------------------------------
(* Properties. *)

(* The type of every variable. *)
TypeOK ==
    /\ pc \in Pc
    /\ shutdown \in BOOLEAN
    /\ ready \in [listen : BOOLEAN, notify : BOOLEAN,
                  in : SUBSET Fd, out : SUBSET Fd, hup : SUBSET Fd]
    /\ cur \in Fd
    /\ batch \in Seq(Completion)
    /\ clients \in SUBSET Fd
    /\ recvBuf \in [Fd -> Seq(Request)]
    /\ sendBuf \in [Fd -> Seq(Request \cup {NoId})]
    /\ work \in SUBSET Completion
    /\ done \in Seq(Completion)
    /\ notifying \in SUBSET Completion
    /\ event \in BOOLEAN
    /\ notifyOpen \in BOOLEAN
    /\ sock \in [Fd -> Conn \cup {None}]
    /\ backlog \in Seq(Conn)
    /\ peer \in [Conn -> PeerState]
    /\ inbox \in [Conn -> Seq(Request)]
    /\ wire \in [Conn -> Seq(Request \cup {NoId})]
    /\ script \in Scripts
    /\ todo \in [Conn -> Seq(Request)]
    /\ got \in [Conn -> SUBSET (Request \cup {NoId})]

(* Every descriptor the kernel holds open is registered in clients_ until  *)
(* it is closed, no connection has two, the entries of a poll snapshot are *)
(* still registered when they are served, and a stopped server holds none: *)
(* no path of Poll, Stop or a disconnect leaks or confuses a descriptor.   *)
DescriptorsOwned ==
    /\ \A fd \in Fd : sock[fd] # None => fd \in clients
    /\ \A fd, g \in Fd : sock[fd] # None /\ sock[fd] = sock[g] => fd = g
    /\ ReadyFds \subseteq clients
    /\ pc = "stopped" => clients = {} /\ work = {}

(* The places where a request or its reply is, from its client's script to *)
(* what the client has read.                                               *)
Within(r, s) == \E i \in DOMAIN s : s[i] = r
Spots(name, f, r) ==
    UNION {{<<name, x, i>> : i \in {j \in DOMAIN f[x] : f[x][j] = r}} : x \in DOMAIN f}
Entries(name, s, r) == {<<name, i>> : i \in {j \in DOMAIN s : s[j].req = r}}
Places(r) ==
    Spots("todo", todo, r) \cup Spots("inbox", inbox, r) \cup Spots("wire", wire, r)
    \cup Spots("recvBuf", recvBuf, r) \cup Spots("sendBuf", sendBuf, r)
    \cup Entries("done", done, r) \cup Entries("batch", batch, r)
    \cup {<<"work", item>> : item \in {x \in work : x.req = r}}
    \cup {<<"got", c>> : c \in {d \in Conn : r \in got[d]}}

(* A client that stays connected has each of its requests in exactly one   *)
(* place, from its script through the pool and the completion queue to a   *)
(* reply that some client has read: nothing is dropped while poll, the     *)
(* drains, partial sends and the workers interleave.  No request, of       *)
(* anyone, is ever in two places: nothing is answered twice.  (A frame     *)
(* that is not JSON has no reply of its own, one that is too long closes   *)
(* the connection.)                                                        *)
Connected(c) == peer[c] = "open" /\ (Waiting(c) \/ Attached(c))
EachRequestInOnePlace ==
    pc # "killed" =>
        /\ \A r \in Request : \A p, q \in Places(r) : p = q
        /\ \A c \in Conn : Connected(c) =>
              \A i \in DOMAIN script[c] :
                 Kind[script[c][i]] \in {"run", "query", "shutdown"} =>
                    Places(script[c][i]) # {}

(* When there is an eventfd, a completion is never left in the queue while *)
(* poll() sleeps out its timeout: the eventfd is set, or the worker is     *)
(* about to set it.                                                        *)
SleepsOnlyWhenDrained ==
    pc = "poll" /\ notifyOpen /\ done # <<>> => event \/ notifying # {}

(* Requests that are answered at once are answered in the order in which   *)
(* their client sent them, whatever stays in send_buffer in between.       *)
Delivered(c, r) == r \in got[c] \/ Within(r, wire[c])
QueriesInOrder ==
    \A c \in Conn : \A i, j \in DOMAIN script[c] :
        LET a == script[c][i]
            b == script[c][j] IN
        /\ i < j
        /\ Kind[a] \in {"query", "shutdown"} /\ Kind[b] \in {"query", "shutdown"}
        /\ peer[c] = "open" /\ Delivered(c, b)
        => Delivered(c, a)

(* While the server holds a client's connection, nobody else is sent an    *)
(* answer to one of its requests, although a result carries only a number  *)
(* of a descriptor.  Once that connection is closed its results go to      *)
(* whoever has the descriptor next: this is not excluded.                  *)
AnswersGoHome ==
    \A c, d \in Conn : Waiting(c) \/ Attached(c) =>
        \A i \in DOMAIN script[c] : Delivered(d, script[c][i]) => d = c

(* No request is answered twice; of a client whose connection is open none *)
(* is lost, sent to another client or, when answered at once, overtaken.   *)
RequestsKept == EachRequestInOnePlace /\ QueriesInOrder /\ AnswersGoHome

(* A request that reached the kernel of a registered connection is         *)
(* eventually answered, unless its client closes, sends a frame that       *)
(* closes the connection, or the server stops or is killed.                *)
Received(r) == \E c \in Conn : Attached(c) /\ Within(r, inbox[c])
AnsweredOrGone(r) ==
    \E c \in Conn : Within(r, script[c]) /\ (r \in got[c] \/ ~Connected(c))
RequestAnswered ==
    \A r \in {x \in Request : Kind[x] \in {"run", "query"}} :
        Received(r) ~> AnsweredOrGone(r) \/ shutdown \/ ~Alive

(* Once a shutdown is requested the process ends, whatever the clients do. *)
ShutdownEnds == shutdown ~> ~Alive

(* Whoever waits for the server gets an answer or sees it end. *)
EveryRequestEnds == RequestAnswered /\ ShutdownEnds
=============================================================================
