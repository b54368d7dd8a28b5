-------------------------- MODULE IpcServerProofs --------------------------
(***************************************************************************)
(* Proofs about IpcServer, for any connections, requests and descriptors,  *)
(* any scripts of the clients and any size of the kernel's buffers.        *)
(***************************************************************************)
EXTENDS IpcServer, SequenceTheorems, WellFoundedInduction, TLAPS

Reply == Request \cup {NoId}

(* How the operations on sequences move what a sequence holds. *)
LEMMA AppendFacts ==
  ASSUME NEW S, NEW s \in Seq(S), NEW x \in S
  PROVE  /\ Append(s, x) \in Seq(S) /\ Append(s, x) # <<>> /\ Len(s) \in Nat
         /\ DOMAIN s = 1 .. Len(s) /\ DOMAIN Append(s, x) = 1 .. Len(s) + 1
         /\ \A i \in 1 .. Len(s) : Append(s, x)[i] = s[i]
         /\ Append(s, x)[Len(s) + 1] = x
  BY AppendProperties, LenProperties

LEMMA TakeFacts ==
  ASSUME NEW S, NEW s \in Seq(S), s # <<>>
  PROVE  /\ Head(s) \in S /\ Tail(s) \in Seq(S) /\ Len(s) \in Nat \ {0}
         /\ DOMAIN s = 1 .. Len(s) /\ DOMAIN Tail(s) = 1 .. Len(s) - 1
         /\ \A i \in 1 .. Len(s) - 1 : Tail(s)[i] = s[i + 1]
         /\ Head(s) = s[1] /\ (Len(s) # 1 => Tail(s) # <<>>) /\ (Len(s) = 1 => Tail(s) = <<>>)
<1>1. Head(s) \in S /\ Tail(s) \in Seq(S) /\ Len(Tail(s)) = Len(s) - 1
      /\ \A i \in 1 .. Len(Tail(s)) : Tail(s)[i] = s[i + 1]
  BY HeadTailProperties
<1>2. Len(s) \in Nat \ {0} /\ DOMAIN s = 1 .. Len(s) /\ DOMAIN Tail(s) = 1 .. Len(Tail(s))
  BY <1>1, EmptySeq, LenProperties
<1>3. Tail(s) # <<>> => Len(Tail(s)) \in Nat \ {0}
  BY <1>1, EmptySeq
<1>4. Len(<<>>) = 0
  BY EmptySeq
<1>5. Head(s) = s[1]
  OBVIOUS
<1> QED
  BY <1>1, <1>2, <1>3, <1>4, <1>5

(* The first n of a sequence, and the rest. *)
LEMMA SplitFacts ==
  ASSUME NEW S, NEW s \in Seq(S), NEW n \in 0 .. Len(s)
  PROVE  /\ SubSeq(s, 1, n) \in Seq(S) /\ SubSeq(s, n + 1, Len(s)) \in Seq(S)
         /\ Len(SubSeq(s, 1, n)) = n /\ Len(SubSeq(s, n + 1, Len(s))) = Len(s) - n
         /\ DOMAIN s = 1 .. Len(s) /\ DOMAIN SubSeq(s, 1, n) = 1 .. n
         /\ DOMAIN SubSeq(s, n + 1, Len(s)) = 1 .. Len(s) - n
         /\ \A i \in 1 .. n : SubSeq(s, 1, n)[i] = s[i]
         /\ \A i \in 1 .. Len(s) - n : SubSeq(s, n + 1, Len(s))[i] = s[i + n]
         /\ Len(s) \in Nat /\ n \in Nat
<1> DEFINE L == Len(s)
           p == SubSeq(s, 1, n)
           q == SubSeq(s, n + 1, L)
<1>1. L \in Nat /\ n \in Nat /\ n <= L /\ DOMAIN s = 1 .. L /\ \A i \in 1 .. L : s[i] \in S
  BY LenProperties, ElementOfSeq
<1> HIDE DEF L
<1>2. /\ p \in Seq(S) /\ Len(p) = IF 1 <= n THEN n - 1 + 1 ELSE 0
      /\ \A i \in 1 .. n - 1 + 1 : p[i] = s[1 + i - 1]
  <2>1. \A i \in 1 .. n : s[i] \in S
    BY <1>1
  <2> QED
    BY <1>1, <2>1, SubSeqProperties
<1>3. /\ q \in Seq(S) /\ Len(q) = IF n + 1 <= L THEN L - (n + 1) + 1 ELSE 0
      /\ \A i \in 1 .. L - (n + 1) + 1 : q[i] = s[(n + 1) + i - 1]
  <2>1. n + 1 \in Int /\ L \in Int /\ \A i \in n + 1 .. L : s[i] \in S
    BY <1>1
  <2> DEFINE m == n + 1
  <2> HIDE DEF m
  <2>2. m \in Int /\ \A i \in m .. L : s[i] \in S
    BY <2>1 DEF m
  <2>3. /\ SubSeq(s, m, L) \in Seq(S) /\ Len(SubSeq(s, m, L)) = IF m <= L THEN L - m + 1 ELSE 0
        /\ \A i \in 1 .. L - m + 1 : SubSeq(s, m, L)[i] = s[m + i - 1]
    BY <2>1, <2>2, SubSeqProperties
  <2> QED
    BY <2>3 DEF m
<1> HIDE DEF p, q
<1>4. Len(p) = n /\ \A i \in 1 .. n : p[i] = s[i]
  <2>1. n - 1 + 1 = n /\ \A i \in 1 .. n : 1 + i - 1 = i
    BY <1>1
  <2> QED
    BY <1>1, <1>2, <2>1
<1>5. Len(q) = L - n /\ \A i \in 1 .. L - n : q[i] = s[i + n]
  <2>1. L - (n + 1) + 1 = L - n /\ \A i \in 1 .. L - n : (n + 1) + i - 1 = i + n
    BY <1>1
  <2> QED
    BY <1>1, <1>3, <2>1
<1>6. DOMAIN p = 1 .. n /\ DOMAIN q = 1 .. L - n
  BY <1>2, <1>3, <1>4, <1>5, LenProperties
<1> QED
  BY <1>1, <1>2, <1>3, <1>4, <1>5, <1>6 DEF p, q, L

(* accept() and open() take the lowest free descriptor. *)
LEMMA LeastExists ==
  ASSUME NEW S \in SUBSET Nat, S # {}
  PROVE  \E m \in S : \A k \in S : m <= k
<1>1. PICK m \in S : \A k \in S : <<k, m>> \notin OpToRel(<, Nat)
  BY NatLessThanWellFounded, WFMin
<1>2. \A k \in S : k < m => <<k, m>> \in OpToRel(<, Nat)
  BY DEF OpToRel
<1>3. \A k \in S : ~(k < m)
  BY <1>1, <1>2, Zenon
<1>4. m \in Int /\ \A k \in S : k \in Int
  OBVIOUS
<1>5. \A k \in S : m <= k
  BY <1>3, <1>4
<1> QED
  BY <1>5

LEMMA JoinFacts ==
  ASSUME NEW S, NEW s \in Seq(S), NEW t \in Seq(S)
  PROVE  /\ s \o t \in Seq(S) /\ Len(s) \in Nat /\ Len(t) \in Nat
         /\ Len(s \o t) = Len(s) + Len(t)
         /\ DOMAIN s = 1 .. Len(s) /\ DOMAIN t = 1 .. Len(t)
         /\ DOMAIN (s \o t) = 1 .. Len(s) + Len(t)
         /\ \A i \in 1 .. Len(s) : (s \o t)[i] = s[i]
         /\ \A i \in 1 .. Len(t) : (s \o t)[i + Len(s)] = t[i]
<1> DEFINE r == s \o t
<1>1. /\ r \in Seq(S) /\ Len(r) = Len(s) + Len(t) /\ Len(s) \in Nat /\ Len(t) \in Nat
      /\ DOMAIN s = 1 .. Len(s) /\ DOMAIN t = 1 .. Len(t) /\ DOMAIN r = 1 .. Len(r)
      /\ \A i \in 1 .. Len(s) + Len(t) :
            r[i] = IF i <= Len(s) THEN s[i] ELSE t[i - Len(s)]
  BY ConcatProperties, LenProperties
<1> HIDE DEF r
<1>2. \A i \in 1 .. Len(t) : i + Len(s) \in 1 .. Len(s) + Len(t)
                               /\ ~(i + Len(s) <= Len(s)) /\ i + Len(s) - Len(s) = i
  BY <1>1
<1>3. \A i \in 1 .. Len(s) : i \in 1 .. Len(s) + Len(t) /\ i <= Len(s)
  BY <1>1
<1> QED
  BY <1>1, <1>2, <1>3 DEF r

-----------------------------------------------------------------------------
(* The batch that is being sent is never empty, and no drain overwrites    *)
(* one; what the kernel buffers for a connection fits.                     *)
Sending == {"send", "sendNotified"}
BatchReady ==
    /\ pc \in Sending => batch # <<>>
    /\ pc \notin Sending \cup {"killed"} => batch = <<>>
WireFits == \A c \in Conn : Len(wire[c]) <= SockCap

(* A descriptor that poll() found readable is open until it is served.     *)
ReadyOpen ==
    /\ \A fd \in ready.in : sock[fd] # None
    /\ pc \in {"process", "flush"} => cur \notin ready.in

TypeInv == TypeOK /\ BatchReady /\ WireFits /\ ReadyOpen

LEMMA ConstantFacts ==
  /\ NumFds \in Nat \ {0} /\ SockCap \in Nat \ {0} /\ 0 \in Fd
  /\ None \notin Conn /\ NoId \notin Request /\ Kind \in [Request -> Kinds]
  /\ \A s \in Scripts : s \in [Conn -> Seq(Request)]
  BY FdsAssumption, FreshAssumption, KindAssumption, ScriptsAssumption DEF Fd

(* The outcomes of send(): n replies go out; the buffer is kept, or lost,  *)
(* and the connection with it; the process dies.                           *)
SentSome(fd, buf, n) ==
  LET c == sock[fd] IN
  /\ c \in Conn /\ peer[c] = "open" /\ peer' = peer
  /\ Len(wire[c]) + n <= SockCap
  /\ wire' = [wire EXCEPT ![c] = wire[c] \o SubSeq(buf, 1, n)]
  /\ sendBuf' = [sendBuf EXCEPT ![fd] = SubSeq(buf, n + 1, Len(buf))]

SentNone(fd, buf) ==
  LET c == sock[fd] IN
  /\ wire' = wire
  /\ \/ c = None /\ peer' = peer /\ sendBuf' = [sendBuf EXCEPT ![fd] = buf]
     \/ /\ c \in Conn /\ peer[c] \in {"fin", "rst"}
        /\ peer' = [peer EXCEPT ![c] = "broken"]
        /\ \E left \in {buf, <<>>} : sendBuf' = [sendBuf EXCEPT ![fd] = left]

LEMMA SendOutcome ==
  ASSUME TypeInv, NEW fd \in Fd, NEW buf \in Seq(Reply), NEW then, Send(fd, buf, then)
  PROVE  \/ pc' = "killed" /\ UNCHANGED <<sendBuf, wire, peer>>
         \/ pc' = then /\ \E n \in 0 .. Len(buf) : SentSome(fd, buf, n)
         \/ pc' = then /\ SentNone(fd, buf)
<1>1. sock[fd] \in Conn \cup {None}
  BY DEF TypeInv, TypeOK
<1>2. CASE sock[fd] # None /\ peer[sock[fd]] = "open"
  <2> DEFINE c == sock[fd]
             room == SockCap - Len(wire[c])
             n == IF room < Len(buf) THEN room ELSE Len(buf)
  <2>1. c \in Conn /\ wire[c] \in Seq(Reply)
    BY <1>1, <1>2 DEF TypeInv, TypeOK, Reply
  <2>2. Len(wire[c]) \in Nat /\ Len(buf) \in Nat /\ Len(wire[c]) <= SockCap
    BY <2>1, LenProperties DEF TypeInv, WireFits
  <2>3. n \in 0 .. Len(buf) /\ Len(wire[c]) + n <= SockCap
    <3>1. SockCap \in Nat
      BY ConstantFacts
    <3>2. \A w, l \in Nat : w <= SockCap =>
             LET k == IF SockCap - w < l THEN SockCap - w ELSE l
             IN  k \in 0 .. l /\ w + k <= SockCap
      BY <3>1
    <3> QED
      BY <2>2, <3>2
  <2>4. /\ wire' = [wire EXCEPT ![c] = wire[c] \o SubSeq(buf, 1, n)]
        /\ sendBuf' = [sendBuf EXCEPT ![fd] = SubSeq(buf, n + 1, Len(buf))]
        /\ pc' = then /\ peer' = peer
    <3>1. ~(c = None) /\ peer[c] # "fin" /\ peer[c] # "rst" /\ peer[c] # "broken"
      BY <1>2
    <3>2. /\ wire' = [wire EXCEPT ![c] = @ \o SubSeq(buf, 1, n)]
          /\ sendBuf' = [sendBuf EXCEPT ![fd] = SubSeq(buf, n + 1, Len(buf))]
          /\ pc' = then /\ UNCHANGED peer
      BY <3>1, Zenon DEF Send
    <3> QED
      BY <3>2
  <2> HIDE DEF n
  <2>5. SentSome(fd, buf, n)
    BY <1>2, <2>1, <2>3, <2>4 DEF SentSome
  <2> QED
    BY <2>3, <2>4, <2>5
<1>3. CASE sock[fd] = None \/ peer[sock[fd]] # "open"
  BY <1>1, <1>3 DEF Send, SentNone
<1> QED
  BY <1>2, <1>3

LEMMA SendTyped ==
  ASSUME TypeInv, NEW fd \in Fd, NEW buf \in Seq(Reply), NEW then \in Pc,
         Send(fd, buf, then)
  PROVE  /\ pc' \in {then, "killed"} /\ sendBuf' \in [Fd -> Seq(Reply)]
         /\ wire' \in [Conn -> Seq(Reply)] /\ peer' \in [Conn -> PeerState] /\ WireFits'
<1>1. /\ sendBuf \in [Fd -> Seq(Reply)] /\ wire \in [Conn -> Seq(Reply)]
      /\ peer \in [Conn -> PeerState] /\ WireFits
  BY DEF TypeInv, TypeOK, Reply
<1>2. CASE pc' = "killed" /\ UNCHANGED <<sendBuf, wire, peer>>
  BY <1>1, <1>2 DEF WireFits
<1>3. ASSUME NEW n \in 0 .. Len(buf), SentSome(fd, buf, n), pc' = then
      PROVE  /\ pc' \in {then, "killed"} /\ sendBuf' \in [Fd -> Seq(Reply)]
             /\ wire' \in [Conn -> Seq(Reply)] /\ peer' \in [Conn -> PeerState] /\ WireFits'
  <2> DEFINE c == sock[fd]
             w == wire[c]
             out == SubSeq(buf, 1, n)
             left == SubSeq(buf, n + 1, Len(buf))
  <2>1. c \in Conn /\ w \in Seq(Reply) /\ Len(w) + n <= SockCap
    BY <1>1, <1>3 DEF SentSome
  <2>2. out \in Seq(Reply) /\ Len(out) = n /\ left \in Seq(Reply)
    BY SplitFacts
  <2>3. wire' = [wire EXCEPT ![c] = w \o out] /\ sendBuf' = [sendBuf EXCEPT ![fd] = left]
        /\ peer' = peer
    BY <1>3 DEF SentSome
  <2> HIDE DEF w, out, left
  <2>4. w \o out \in Seq(Reply) /\ Len(w \o out) = Len(w) + n
    BY <2>1, <2>2, JoinFacts
  <2>5. Len(w \o out) <= SockCap
    BY <2>1, <2>4
  <2>6. wire' \in [Conn -> Seq(Reply)] /\ sendBuf' \in [Fd -> Seq(Reply)]
    BY <1>1, <2>2, <2>3, <2>4
  <2>7. ASSUME NEW d \in Conn PROVE Len(wire'[d]) <= SockCap
    <3>1. CASE d = c
      BY <1>1, <2>3, <2>5, <3>1
    <3>2. CASE d # c
      BY <1>1, <2>3, <3>2 DEF WireFits
    <3> QED
      BY <3>1, <3>2
  <2> QED
    BY <1>1, <1>3, <2>3, <2>6, <2>7 DEF WireFits
<1>4. CASE pc' = then /\ SentNone(fd, buf)
  <2>1. <<>> \in Seq(Reply)
    BY EmptySeq
  <2>2. wire' = wire /\ peer' \in [Conn -> PeerState]
    BY <1>1, <1>4 DEF SentNone, PeerState
  <2>3. sendBuf' \in [Fd -> Seq(Reply)]
    <3>1. \E left \in {buf, <<>>} : sendBuf' = [sendBuf EXCEPT ![fd] = left]
      BY <1>4 DEF SentNone
    <3>2. PICK left \in {buf, <<>>} : sendBuf' = [sendBuf EXCEPT ![fd] = left]
      BY <3>1
    <3>3. left \in Seq(Reply)
      BY <2>1, <3>2
    <3> QED
      BY <1>1, <3>2, <3>3
  <2> QED
    BY <1>1, <1>4, <2>2, <2>3 DEF WireFits
<1> QED
  BY <1>2, <1>3, <1>4, SendOutcome

(* A reply that is sent, or that ends the process as it is written out. *)
Responds(fd, reply, then) == SendResponse(fd, reply, then) \/ DumpThrows

LEMMA RespondTyped ==
  ASSUME TypeInv, NEW fd \in Fd, NEW r \in Reply, NEW then \in Pc,
         Responds(fd, r, then)
  PROVE  /\ pc' \in {then, "killed"} /\ sendBuf' \in [Fd -> Seq(Reply)]
         /\ wire' \in [Conn -> Seq(Reply)] /\ peer' \in [Conn -> PeerState] /\ WireFits'
<1> DEFINE buf == Append(sendBuf[fd], r)
<1>1. sendBuf[fd] \in Seq(Reply)
  BY DEF TypeInv, TypeOK, Reply
<1>2. buf \in Seq(Reply)
  BY <1>1, AppendFacts
<1>3. CASE DumpThrows
  BY <1>3 DEF DumpThrows, TypeInv, TypeOK, WireFits, Reply
<1>4. CASE SendResponse(fd, r, then)
  <2>1. Send(fd, buf, then)
    BY <1>4 DEF SendResponse
  <2> HIDE DEF buf
  <2> QED
    BY <1>2, <2>1, SendTyped
<1> QED
  BY <1>3, <1>4 DEF Responds

-----------------------------------------------------------------------------
(* Types. *)
LEMMA TypeInit == Init => TypeInv
<1> SUFFICES ASSUME Init PROVE TypeInv
  OBVIOUS
<1>1. <<>> \in Seq(Completion) /\ <<>> \in Seq(Request) /\ <<>> \in Seq(Reply)
      /\ <<>> \in Seq(Conn) /\ Len(<<>>) = 0
  BY EmptySeq
<1>2. script \in [Conn -> Seq(Request)]
  BY ConstantFacts DEF Init
<1>3. TypeOK
  BY <1>1, <1>2, ConstantFacts DEF Init, TypeOK, Pc, NotReady, PeerState, Reply
<1>4. BatchReady /\ ReadyOpen
  BY DEF Init, BatchReady, Sending, ReadyOpen, NotReady
<1>5. WireFits
  <2>1. SockCap >= 0 /\ \A c \in Conn : wire[c] = <<>>
    BY ConstantFacts DEF Init
  <2>2. \A c \in Conn : Len(wire[c]) = 0
    BY <1>1, <2>1
  <2> QED
    BY <2>1, <2>2 DEF WireFits
<1> QED
  BY <1>3, <1>4, <1>5 DEF TypeInv

(* Steps of the main loop that move no data. *)
LEMMA TypeQuiet ==
  ASSUME TypeInv,
         \/ PollReturn \/ AcceptDone \/ (\E fd \in Fd : WriteOnly(fd)) \/ Signal
         \/ CloseNotify \/ StopPool \/ HandleHuge \/ Finished \/ UNCHANGED vars
  PROVE  TypeInv'
<1> USE DEF TypeInv, TypeOK, BatchReady, WireFits, ReadyOpen, Sending, loopVars, clientVars,
        queueVars, kernelVars, userVars, Pc
<1>1. CASE PollReturn
  <2>1. Polled \in [listen : BOOLEAN, notify : BOOLEAN,
                    in : SUBSET Fd, out : SUBSET Fd, hup : SUBSET Fd]
        /\ \A fd \in Polled.in : sock[fd] # None
    BY DEF Polled, Readable
  <2>2. NotReady \in [listen : BOOLEAN, notify : BOOLEAN,
                      in : SUBSET Fd, out : SUBSET Fd, hup : SUBSET Fd]
        /\ NotReady.in = {}
    BY DEF NotReady
  <2>3. /\ ready' \in {Polled, NotReady} /\ pc' \in {"accept", "notify", "clients"}
        /\ pc = "poll"
        /\ UNCHANGED <<shutdown, cur, batch, clientVars, queueVars, kernelVars,
                       peer, wire, userVars>>
    BY <1>1 DEF PollReturn, AfterAccept
  <2> HIDE DEF TypeInv, TypeOK, BatchReady, WireFits, ReadyOpen
  <2>4. TypeOK' /\ ReadyOpen'
    BY <2>1, <2>2, <2>3 DEF TypeInv, TypeOK, ReadyOpen
  <2> QED
    BY <2>3, <2>4 DEF TypeInv, BatchReady, WireFits
<1>2. CASE AcceptDone
  BY <1>2 DEF AcceptDone, AfterAccept
<1>3. ASSUME NEW fd \in Fd, WriteOnly(fd) PROVE TypeInv'
  BY <1>3 DEF WriteOnly
<1>4. CASE Signal \/ CloseNotify \/ StopPool
  BY <1>4 DEF Signal, CloseNotify, StopPool
<1>5. CASE HandleHuge
  <2>1. /\ pc = "process" /\ pc' = "flush" /\ sock' = [sock EXCEPT ![cur] = None]
        /\ UNCHANGED <<shutdown, loopVars, clientVars, queueVars, backlog, inbox,
                       peer, wire, userVars>>
    BY <1>5 DEF HandleHuge
  <2> QED
    BY <2>1
<1>6. CASE Finished \/ UNCHANGED vars
  BY <1>6 DEF Finished, vars
<1> QED
  BY <1>1, <1>2, <1>3, <1>4, <1>5, <1>6

(* Accept, and what closes a connection. *)
LEMMA TypeAccept == TypeInv /\ Accept => TypeInv'
<1> SUFFICES ASSUME TypeInv, Accept PROVE TypeInv'
  OBVIOUS
<1> DEFINE fd == Least(FreeFds)
<1>1. fd \in Fd
  <2>1. FreeFds \subseteq Fd /\ FreeFds # {}
    BY DEF Accept, FreeFds
  <2>2. \E m \in FreeFds : \A k \in FreeFds : m <= k
    <3>1. FreeFds \in SUBSET Nat
      BY <2>1, ConstantFacts DEF Fd
    <3> QED
      BY <2>1, <3>1, LeastExists
  <2> QED
    BY <2>1, <2>2 DEF Least
<1>2. /\ pc = "accept" /\ sock' = [sock EXCEPT ![fd] = Head(backlog)]
      /\ clients' = clients \cup {fd}
      /\ recvBuf' = [recvBuf EXCEPT ![fd] = <<>>] /\ sendBuf' = [sendBuf EXCEPT ![fd] = <<>>]
      /\ backlog # <<>> /\ backlog' = Tail(backlog)
      /\ UNCHANGED <<pc, shutdown, loopVars, queueVars, inbox, peer, wire, userVars>>
  BY DEF Accept
<1> HIDE DEF fd
<1>3. backlog \in Seq(Conn)
  BY DEF TypeInv, TypeOK
<1>4. Head(backlog) \in Conn /\ Tail(backlog) \in Seq(Conn)
  BY <1>2, <1>3, TakeFacts
<1>5. <<>> \in Seq(Request) /\ <<>> \in Seq(Reply)
  BY EmptySeq
<1>6. TypeOK'
  BY <1>1, <1>2, <1>4, <1>5 DEF TypeInv, TypeOK, Reply, loopVars, queueVars, userVars
<1>7. ReadyOpen'
  BY <1>1, <1>2, <1>4, ConstantFacts DEF TypeInv, TypeOK, ReadyOpen, loopVars
<1> QED
  BY <1>2, <1>6, <1>7 DEF TypeInv, BatchReady, WireFits, Sending, loopVars

LEMMA TypeClose ==
  ASSUME TypeInv, NEW fd \in Fd, HangUp(fd) \/ ReceiveEnd(fd)
  PROVE  TypeInv'
<1>1. /\ pc = "clients" /\ ready' = Handled(fd)
      /\ clients' = clients \ {fd} /\ sock' = [sock EXCEPT ![fd] = None]
      /\ recvBuf' = [recvBuf EXCEPT ![fd] = <<>>] /\ sendBuf' = [sendBuf EXCEPT ![fd] = <<>>]
      /\ UNCHANGED <<pc, shutdown, cur, batch, queueVars, backlog, inbox, peer,
                     wire, userVars>>
  BY DEF HangUp, ReceiveEnd, CloseClient
<1>2. <<>> \in Seq(Request) /\ <<>> \in Seq(Reply)
  BY EmptySeq
<1>3. /\ ready' \in [listen : BOOLEAN, notify : BOOLEAN,
                     in : SUBSET Fd, out : SUBSET Fd, hup : SUBSET Fd]
      /\ ready'.in = ready.in \ {fd}
  BY <1>1 DEF Handled, TypeInv, TypeOK
<1>4. TypeOK'
  BY <1>1, <1>2, <1>3 DEF TypeInv, TypeOK, Reply, queueVars, userVars
<1>5. ReadyOpen'
  BY <1>1, <1>3 DEF TypeInv, TypeOK, ReadyOpen
<1> QED
  BY <1>1, <1>4, <1>5 DEF TypeInv, BatchReady, WireFits, Sending

(* The drains and what they send. *)
LEMMA TypeDrain == TypeInv /\ (BeginPoll \/ Notified) => TypeInv'
<1> SUFFICES ASSUME TypeInv, BeginPoll \/ Notified PROVE TypeInv'
  OBVIOUS
<1>1. <<>> \in Seq(Completion)
  BY EmptySeq
<1>2. /\ \/ pc' \in {"poll", "clients"} /\ UNCHANGED <<batch, done>>
         \/ pc' \in Sending /\ done # <<>> /\ batch' = done /\ done' = <<>>
      /\ pc \in {"clients", "notify"} /\ event' \in BOOLEAN
      /\ UNCHANGED <<shutdown, ready, cur, clientVars, work, notifying, notifyOpen,
                     kernelVars, peer, wire, userVars>>
  BY DEF BeginPoll, BetweenPolls, Notified, Drain, Sending, TypeInv, TypeOK
<1>3. TypeOK'
  BY <1>1, <1>2 DEF TypeInv, TypeOK, Pc, Sending, clientVars, kernelVars, userVars
<1> QED
  BY <1>2, <1>3 DEF TypeInv, BatchReady, WireFits, ReadyOpen, Sending, kernelVars

LEMMA TypeSendBatch ==
  ASSUME TypeInv, NEW here \in Sending, NEW then \in {"poll", "clients"}, SendBatch(here, then)
  PROVE  TypeInv'
<1> DEFINE item == Head(batch)
           next == IF Len(batch) = 1 THEN then ELSE here
<1>1. /\ pc = here /\ batch' = Tail(batch)
      /\ \/ item.fd \in clients /\ SendResponse(item.fd, item.req, next)
         \/ pc' = next /\ UNCHANGED <<sendBuf, wire, peer>>
      /\ UNCHANGED <<shutdown, ready, cur, clients, recvBuf, queueVars,
                     kernelVars, userVars>>
  BY DEF SendBatch
<1>2. batch \in Seq(Completion) /\ batch # <<>>
  BY <1>1 DEF TypeInv, TypeOK, BatchReady
<1>3. /\ item \in Completion /\ Tail(batch) \in Seq(Completion)
      /\ (Len(batch) # 1 => Tail(batch) # <<>>) /\ (Len(batch) = 1 => Tail(batch) = <<>>)
  BY <1>2, TakeFacts
<1>4. next \in Pc /\ next \in {then, here}
  BY DEF Pc, Sending
<1>5. item.fd \in Fd /\ item.req \in Reply
  BY <1>3 DEF Completion, Reply
<1>6. (next = then <=> Len(batch) = 1) /\ next # "killed"
  BY DEF Sending
<1> HIDE DEF item, next
<1>7. /\ pc' \in {next, "killed"} /\ sendBuf' \in [Fd -> Seq(Reply)]
      /\ wire' \in [Conn -> Seq(Reply)] /\ peer' \in [Conn -> PeerState] /\ WireFits'
  <2>1. CASE item.fd \in clients /\ SendResponse(item.fd, item.req, next)
    BY <1>4, <1>5, <2>1, RespondTyped DEF Responds
  <2>2. CASE pc' = next /\ UNCHANGED <<sendBuf, wire, peer>>
    BY <2>2 DEF TypeInv, TypeOK, Reply, WireFits
  <2> QED
    BY <1>1, <2>1, <2>2
<1>8. BatchReady'
  BY <1>1, <1>3, <1>4, <1>6, <1>7 DEF BatchReady, Sending
<1>9. TypeOK'
  BY <1>1, <1>3, <1>4, <1>7 DEF TypeInv, TypeOK, Pc, Reply, queueVars, kernelVars, userVars
<1>10. ReadyOpen'
  BY <1>1, <1>4, <1>7 DEF TypeInv, ReadyOpen, Sending, kernelVars
<1> QED
  BY <1>7, <1>8, <1>9, <1>10 DEF TypeInv

(* Receiving, handling and flushing. *)
LEMMA ReceiveEffect ==
  ASSUME TypeInv, NEW fd \in Fd, Receive(fd)
  PROVE  /\ sock[fd] \in Conn /\ pc = "clients" /\ pc' = "process" /\ cur' = fd
         /\ ready' = [ready EXCEPT !.in = ready.in \ {fd}]
         /\ inbox[sock[fd]] \in Seq(Request)
         /\ \E n \in 0 .. Len(inbox[sock[fd]]) :
              LET c == sock[fd] IN
              /\ recvBuf' = [recvBuf EXCEPT ![fd] = recvBuf[fd] \o SubSeq(inbox[c], 1, n)]
              /\ inbox' = [inbox EXCEPT ![c] = SubSeq(inbox[c], n + 1, Len(inbox[c]))]
         /\ UNCHANGED <<shutdown, batch, clients, sendBuf, queueVars, sock,
                        backlog, peer, wire, userVars>>
<1>1. sock[fd] \in Conn
  BY DEF Receive, TypeInv, TypeOK, ReadyOpen
<1>2. inbox[sock[fd]] \in Seq(Request)
  BY <1>1 DEF TypeInv, TypeOK
<1>3. \A n \in 1 .. Len(inbox[sock[fd]]) : n \in 0 .. Len(inbox[sock[fd]])
  BY <1>2, LenProperties
<1>4. \E n \in 1 .. Len(inbox[sock[fd]]) :
         LET c == sock[fd] IN
         /\ recvBuf' = [recvBuf EXCEPT ![fd] = recvBuf[fd] \o SubSeq(inbox[c], 1, n)]
         /\ inbox' = [inbox EXCEPT ![c] = SubSeq(inbox[c], n + 1, Len(inbox[c]))]
  BY DEF Receive
<1> QED
  BY <1>1, <1>2, <1>3, <1>4 DEF Receive

LEMMA TypeReceive ==
  ASSUME TypeInv, NEW fd \in Fd, Receive(fd)
  PROVE  TypeInv'
<1> DEFINE c == sock[fd]
           in == inbox[c]
           have == recvBuf[fd]
<1>1. PICK n \in 0 .. Len(in) :
         /\ recvBuf' = [recvBuf EXCEPT ![fd] = have \o SubSeq(in, 1, n)]
         /\ inbox' = [inbox EXCEPT ![c] = SubSeq(in, n + 1, Len(in))]
  BY ReceiveEffect
<1>2. /\ c \in Conn /\ in \in Seq(Request) /\ have \in Seq(Request)
      /\ pc' = "process" /\ cur' = fd /\ pc = "clients"
      /\ ready' = [ready EXCEPT !.in = ready.in \ {fd}]
      /\ UNCHANGED <<shutdown, batch, clients, sendBuf, queueVars, sock,
                     backlog, peer, wire, userVars>>
  BY ReceiveEffect DEF TypeInv, TypeOK
<1> HIDE DEF c, in, have
<1>3. SubSeq(in, 1, n) \in Seq(Request) /\ SubSeq(in, n + 1, Len(in)) \in Seq(Request)
  BY <1>2, SplitFacts
<1>4. have \o SubSeq(in, 1, n) \in Seq(Request)
  BY <1>2, <1>3, JoinFacts
<1>5. /\ recvBuf' \in [Fd -> Seq(Request)] /\ inbox' \in [Conn -> Seq(Request)]
  BY <1>1, <1>2, <1>3, <1>4 DEF TypeInv, TypeOK
<1>6. /\ ready' \in [listen : BOOLEAN, notify : BOOLEAN,
                     in : SUBSET Fd, out : SUBSET Fd, hup : SUBSET Fd]
      /\ ready'.in = ready.in \ {fd}
  BY <1>2 DEF TypeInv, TypeOK
<1>7. TypeOK'
  BY <1>2, <1>5, <1>6 DEF TypeInv, TypeOK, Pc, queueVars, userVars
<1> QED
  BY <1>2, <1>6, <1>7 DEF TypeInv, BatchReady, WireFits, ReadyOpen, Sending

LEMMA TypeFlush == TypeInv /\ Flush => TypeInv'
<1> SUFFICES ASSUME TypeInv, Flush PROVE TypeInv'
  OBVIOUS
<1>1. /\ pc \in {"process", "flush"} /\ ready' = Handled(cur)
      /\ UNCHANGED <<shutdown, cur, batch, clients, recvBuf, queueVars,
                     kernelVars, userVars>>
      /\ Send(cur, sendBuf[cur], "clients")
         \/ (pc' = "clients" /\ UNCHANGED <<sendBuf, wire, peer>>)
  BY DEF Flush
<1>2. cur \in Fd /\ sendBuf[cur] \in Seq(Reply) /\ "clients" \in Pc
  BY DEF TypeInv, TypeOK, Reply, Pc
<1>3. /\ pc' \in {"clients", "killed"} /\ sendBuf' \in [Fd -> Seq(Reply)]
      /\ wire' \in [Conn -> Seq(Reply)] /\ peer' \in [Conn -> PeerState] /\ WireFits'
  <2>1. CASE Send(cur, sendBuf[cur], "clients")
    BY <1>2, <2>1, SendTyped
  <2>2. CASE pc' = "clients" /\ UNCHANGED <<sendBuf, wire, peer>>
    BY <2>2 DEF TypeInv, TypeOK, Reply, WireFits
  <2> QED
    BY <1>1, <2>1, <2>2
<1>4. /\ ready' \in [listen : BOOLEAN, notify : BOOLEAN,
                     in : SUBSET Fd, out : SUBSET Fd, hup : SUBSET Fd]
      /\ ready'.in = ready.in \ {cur}
  BY <1>1, <1>2 DEF Handled, TypeInv, TypeOK
<1>5. TypeOK'
  BY <1>1, <1>3, <1>4 DEF TypeInv, TypeOK, Pc, Reply, queueVars, kernelVars, userVars
<1> QED
  BY <1>1, <1>3, <1>4, <1>5 DEF TypeInv, BatchReady, ReadyOpen, Sending, kernelVars

LEMMA TakeEffect ==
  ASSUME TypeInv, NEW kind, Take(kind)
  PROVE  /\ pc = "process" /\ cur \in Fd /\ Kind[Frame] = kind /\ Frame \in Request
         /\ recvBuf[cur] \in Seq(Request) /\ recvBuf[cur] # <<>>
         /\ Frame = Head(recvBuf[cur])
         /\ recvBuf' = [recvBuf EXCEPT ![cur] = Tail(recvBuf[cur])]
         /\ recvBuf' \in [Fd -> Seq(Request)]
<1>1. /\ pc = "process" /\ cur \in Fd /\ recvBuf \in [Fd -> Seq(Request)] /\ recvBuf[cur] # <<>>
      /\ Kind[Frame] = kind /\ recvBuf' = [recvBuf EXCEPT ![cur] = Tail(recvBuf[cur])]
  BY DEF Take, TypeInv, TypeOK
<1>2. recvBuf[cur] \in Seq(Request)
  BY <1>1
<1>3. Head(recvBuf[cur]) \in Request /\ Tail(recvBuf[cur]) \in Seq(Request)
  BY <1>1, <1>2, TakeFacts
<1> QED
  BY <1>1, <1>2, <1>3 DEF Frame

LEMMA TypeHandle ==
  TypeInv /\ (HandleRun \/ HandleQuery \/ HandleBad \/ HandleShutdown) => TypeInv'
<1> SUFFICES ASSUME TypeInv, HandleRun \/ HandleQuery \/ HandleBad \/ HandleShutdown
             PROVE  TypeInv'
  OBVIOUS
<1> "process" \in Pc
  BY DEF Pc
<1>1. CASE HandleRun
  <2>1. /\ pc = "process" /\ cur \in Fd /\ Frame \in Request
        /\ recvBuf' \in [Fd -> Seq(Request)]
        /\ work' = work \cup {[fd |-> cur, req |-> Frame]}
        /\ UNCHANGED <<pc, shutdown, loopVars, clients, sendBuf, done, notifying,
                       event, notifyOpen, kernelVars, peer, wire, userVars>>
    BY <1>1, TakeEffect DEF HandleRun
  <2>2. [fd |-> cur, req |-> Frame] \in Completion
    BY <2>1 DEF Completion
  <2>3. TypeOK'
    BY <2>1, <2>2 DEF TypeInv, TypeOK, loopVars, kernelVars, userVars
  <2> QED
    BY <2>1, <2>3 DEF TypeInv, BatchReady, WireFits, ReadyOpen, Sending, loopVars, kernelVars
<1>2. CASE HandleQuery \/ HandleBad \/ HandleShutdown
  <2>1. PICK r \in Reply : Responds(cur, r, "process")
    <3>1. (\E kind \in Kinds : Take(kind)) => Frame \in Request
      BY TakeEffect
    <3> QED
      BY <1>2, <3>1 DEF HandleQuery, HandleBad, HandleShutdown, Responds, Reply, Kinds
  <2>2. /\ pc = "process" /\ cur \in Fd /\ recvBuf' \in [Fd -> Seq(Request)]
        /\ UNCHANGED <<loopVars, clients, queueVars, kernelVars, userVars>>
        /\ shutdown' \in BOOLEAN
    <3>1. \E kind \in Kinds : Take(kind)
      BY <1>2 DEF HandleQuery, HandleBad, HandleShutdown, Kinds
    <3>2. shutdown' \in BOOLEAN
      BY <1>2 DEF HandleQuery, HandleBad, HandleShutdown, RequestStop, TypeInv, TypeOK
    <3> QED
      BY <1>2, <3>1, <3>2, TakeEffect DEF HandleQuery, HandleBad, HandleShutdown
  <2>3. /\ pc' \in {"process", "killed"} /\ sendBuf' \in [Fd -> Seq(Reply)]
        /\ wire' \in [Conn -> Seq(Reply)] /\ peer' \in [Conn -> PeerState] /\ WireFits'
    BY <2>1, <2>2, RespondTyped
  <2>4. TypeOK'
    BY <2>2, <2>3 DEF TypeInv, TypeOK, Pc, Reply, loopVars, queueVars, kernelVars, userVars
  <2> QED
    BY <2>2, <2>3, <2>4 DEF TypeInv, BatchReady, ReadyOpen, Sending, loopVars, kernelVars
<1> QED
  BY <1>1, <1>2

(* Stop, the workers and the clients. *)
LEMMA TypeStop == TypeInv /\ (StopServer \/ DiscardCompletions) => TypeInv'
<1> SUFFICES ASSUME TypeInv, StopServer \/ DiscardCompletions PROVE TypeInv'
  OBVIOUS
<1>1. /\ <<>> \in Seq(Request) /\ <<>> \in Seq(Reply) /\ <<>> \in Seq(Completion)
      /\ <<>> \in Seq(Conn)
  BY EmptySeq
<1>2. CASE StopServer
  <2>1. ready.in = {}
    BY <1>2 DEF StopServer, BetweenPolls, ReadyFds
  <2>2. /\ pc = "clients" /\ pc' = "discard" /\ sock' \in [Fd -> Conn \cup {None}]
        /\ clients' = {} /\ recvBuf' \in [Fd -> Seq(Request)] /\ sendBuf' \in [Fd -> Seq(Reply)]
        /\ UNCHANGED <<shutdown, loopVars, queueVars, backlog, inbox, peer, wire,
                       userVars>>
    BY <1>1, <1>2 DEF StopServer, BetweenPolls, CloseAll, TypeInv, TypeOK
  <2>3. TypeOK'
    BY <2>2 DEF TypeInv, TypeOK, Pc, Reply, loopVars, queueVars, userVars
  <2> QED
    BY <2>1, <2>2, <2>3 DEF TypeInv, BatchReady, WireFits, ReadyOpen, Sending, loopVars
<1>3. CASE DiscardCompletions
  <2>1. TypeOK'
    BY <1>1, <1>3 DEF DiscardCompletions, TypeInv, TypeOK, Pc, loopVars, clientVars, userVars
  <2> QED
    BY <1>3, <2>1 DEF DiscardCompletions, TypeInv, BatchReady, WireFits, ReadyOpen, Sending,
       loopVars
<1> QED
  BY <1>2, <1>3

LEMMA TypeWorker ==
  ASSUME TypeInv, NEW item \in Completion, PushCompletion(item) \/ WriteEvent(item)
  PROVE  TypeInv'
<1>1. CASE PushCompletion(item)
  <2>1. Append(done, item) \in Seq(Completion)
    BY AppendFacts DEF TypeInv, TypeOK
  <2>2. TypeOK'
    BY <1>1, <2>1 DEF PushCompletion, TypeInv, TypeOK, loopVars, clientVars, kernelVars, userVars
  <2> QED
    BY <1>1, <2>2 DEF PushCompletion, TypeInv, BatchReady, WireFits, ReadyOpen, loopVars,
       kernelVars
<1>2. CASE WriteEvent(item)
  <2>1. TypeOK'
    BY <1>2 DEF WriteEvent, Wake, TypeInv, TypeOK, loopVars, clientVars, kernelVars, userVars
  <2> QED
    BY <1>2, <2>1 DEF WriteEvent, TypeInv, BatchReady, WireFits, ReadyOpen, loopVars, kernelVars
<1> QED
  BY <1>1, <1>2

LEMMA TypeUser ==
  ASSUME TypeInv, NEW c \in Conn, User(c)
  PROVE  TypeInv'
<1>1. CASE Connect(c)
  <2>1. Append(backlog, c) \in Seq(Conn)
    BY AppendFacts DEF TypeInv, TypeOK
  <2>2. TypeOK'
    BY <1>1, <2>1 DEF Connect, TypeInv, TypeOK, PeerState, loopVars, clientVars, queueVars,
       userVars
  <2> QED
    BY <1>1, <2>2 DEF Connect, TypeInv, BatchReady, WireFits, ReadyOpen, loopVars
<1>2. CASE ClientSend(c)
  <2> DEFINE t == todo[c]
             in == inbox[c]
  <2>1. /\ t \in Seq(Request) /\ in \in Seq(Request) /\ t # <<>>
        /\ inbox' = [inbox EXCEPT ![c] = Append(in, Head(t))]
        /\ todo' = [todo EXCEPT ![c] = Tail(t)]
        /\ UNCHANGED <<pc, shutdown, loopVars, clientVars, queueVars, sock,
                       backlog, peer, wire, script, got>>
    BY <1>2 DEF ClientSend, TypeInv, TypeOK
  <2> HIDE DEF t, in
  <2>2. Head(t) \in Request /\ Tail(t) \in Seq(Request)
    BY <2>1, TakeFacts
  <2>3. Append(in, Head(t)) \in Seq(Request)
    BY <2>1, <2>2, AppendFacts
  <2>4. inbox' \in [Conn -> Seq(Request)] /\ todo' \in [Conn -> Seq(Request)]
    BY <2>1, <2>2, <2>3 DEF TypeInv, TypeOK
  <2>5. TypeOK'
    BY <2>1, <2>4 DEF TypeInv, TypeOK, loopVars, clientVars, queueVars
  <2> QED
    BY <2>1, <2>5 DEF TypeInv, BatchReady, WireFits, ReadyOpen, loopVars
<1>3. CASE ClientRead(c)
  <2> DEFINE w == wire[c]
  <2>1. /\ w \in Seq(Reply) /\ w # <<>> /\ Len(w) <= SockCap
        /\ got' = [got EXCEPT ![c] = got[c] \cup {Head(w)}]
        /\ wire' = [wire EXCEPT ![c] = Tail(w)]
        /\ UNCHANGED <<pc, shutdown, loopVars, clientVars, queueVars, kernelVars,
                       peer, script, todo>>
    BY <1>3 DEF ClientRead, TypeInv, TypeOK, WireFits, Reply
  <2> HIDE DEF w
  <2>2. Head(w) \in Reply /\ Tail(w) \in Seq(Reply) /\ Len(Tail(w)) = Len(w) - 1 /\ Len(w) \in Nat
    BY <2>1, HeadTailProperties, LenProperties
  <2>3. SockCap \in Nat
    BY ConstantFacts
  <2>4. Len(Tail(w)) <= SockCap
    BY <2>1, <2>2, <2>3
  <2>5. wire' \in [Conn -> Seq(Reply)] /\ got' \in [Conn -> SUBSET Reply]
    BY <2>1, <2>2 DEF TypeInv, TypeOK, Reply
  <2>6. ASSUME NEW d \in Conn PROVE Len(wire'[d]) <= SockCap
    <3>1. CASE d = c
      BY <2>1, <2>4, <3>1 DEF TypeInv, TypeOK
    <3>2. CASE d # c
      BY <2>1, <3>2 DEF TypeInv, TypeOK, WireFits
    <3> QED
      BY <3>1, <3>2
  <2>7. TypeOK'
    BY <2>1, <2>5 DEF TypeInv, TypeOK, Reply, loopVars, clientVars, queueVars, kernelVars
  <2> QED
    BY <2>1, <2>6, <2>7 DEF TypeInv, BatchReady, WireFits, ReadyOpen, loopVars, kernelVars
<1>4. CASE ClientClose(c)
  <2>1. <<>> \in Seq(Reply) /\ Len(<<>>) = 0 /\ SockCap >= 0
    BY EmptySeq, ConstantFacts
  <2>2. TypeOK'
    BY <1>4, <2>1 DEF ClientClose, TypeInv, TypeOK, PeerState, Reply, loopVars, clientVars,
       queueVars, kernelVars, userVars
  <2>3. ASSUME NEW d \in Conn PROVE Len(wire'[d]) <= SockCap
    <3>1. CASE d = c
      <4>1. wire'[d] = <<>>
        BY <1>4, <3>1 DEF ClientClose, TypeInv, TypeOK
      <4> QED
        BY <2>1, <4>1
    <3>2. CASE d # c
      <4>1. wire'[d] = wire[d]
        BY <1>4, <3>2 DEF ClientClose, TypeInv, TypeOK
      <4> QED
        BY <4>1 DEF TypeInv, WireFits
    <3> QED
      BY <3>1, <3>2
  <2> QED
    BY <1>4, <2>2, <2>3 DEF ClientClose, TypeInv, BatchReady, WireFits, ReadyOpen, loopVars,
       kernelVars
<1> QED
  BY <1>1, <1>2, <1>3, <1>4 DEF User

LEMMA TypeStep == TypeInv /\ [Next]_vars => TypeInv'
<1> SUFFICES ASSUME TypeInv, [Next]_vars PROVE TypeInv'
  OBVIOUS
<1>1. ASSUME NEW fd \in Fd, NEW r \in Request,
             LET item == [fd |-> fd, req |-> r] IN PushCompletion(item) \/ WriteEvent(item)
      PROVE  TypeInv'
  <2>1. [fd |-> fd, req |-> r] \in Completion
    BY DEF Completion
  <2> QED
    BY <1>1, <2>1, TypeWorker
<1>2. CASE SendDrained
  BY <1>2, TypeSendBatch DEF SendDrained, Sending
<1>3. CASE SendNotified
  BY <1>3, TypeSendBatch DEF SendNotified, Sending
<1> QED
  BY <1>1, <1>2, <1>3, TypeQuiet, TypeAccept, TypeClose, TypeDrain, TypeReceive, TypeFlush,
     TypeHandle, TypeStop, TypeUser
     DEF Next, Main, PollStep, ClientStep, FrameStep, StopStep, WorkerStep

(* The type invariant holds in every state of every server. *)
THEOREM TypeCorrect == Spec => []TypeOK
<1>1. TypeInv => TypeOK
  BY DEF TypeInv
<1> QED
  BY <1>1, TypeInit, TypeStep, PTL DEF Spec

-----------------------------------------------------------------------------
(* A connection goes from the backlog to one descriptor and never comes    *)
(* back.                                                                   *)
OneBacklogEntry ==
    /\ \A i, j \in DOMAIN backlog : backlog[i] = backlog[j] => i = j
    /\ \A c \in Conn : Waiting(c) => peer[c] # "idle" /\ \A fd \in Fd : sock[fd] # c
    /\ \A c \in Conn : peer[c] = "idle" => \A fd \in Fd : sock[fd] # c
StoppedIsEmpty ==
    /\ pc \in {"discard", "close", "poolStop", "stopped"} => clients = {}
    /\ pc \in {"close", "poolStop", "stopped"} => backlog = <<>>

DescriptorInv == TypeInv /\ DescriptorsOwned /\ OneBacklogEntry /\ StoppedIsEmpty

(* What a step does to the descriptors and the connections behind them. *)
SameIdle == \A c \in Conn : peer'[c] = "idle" <=> peer[c] = "idle"
Keeps == UNCHANGED <<sock, clients, backlog>> /\ SameIdle
Closes(fd) ==
    /\ sock' = [sock EXCEPT ![fd] = None] /\ clients' \in {clients, clients \ {fd}}
    /\ backlog' = backlog /\ SameIdle

LEMMA SendIdle ==
  ASSUME TypeInv, NEW fd \in Fd, NEW buf \in Seq(Reply), NEW then, Send(fd, buf, then)
  PROVE  SameIdle /\ pc' \in {then, "killed"}
<1>1. peer \in [Conn -> PeerState]
  BY DEF TypeInv, TypeOK
<1> QED
  BY <1>1, SendOutcome DEF SentSome, SentNone, SameIdle

LEMMA RespondIdle ==
  ASSUME TypeInv, NEW fd \in Fd, NEW r \in Reply, NEW then, Responds(fd, r, then)
  PROVE  SameIdle /\ pc' \in {then, "killed"}
<1> DEFINE buf == Append(sendBuf[fd], r)
<1>1. sendBuf[fd] \in Seq(Reply)
  BY DEF TypeInv, TypeOK, Reply
<1>2. buf \in Seq(Reply)
  BY <1>1, AppendFacts
<1>3. CASE DumpThrows
  BY <1>3 DEF DumpThrows, SameIdle
<1>4. CASE SendResponse(fd, r, then)
  <2>1. Send(fd, buf, then)
    BY <1>4 DEF SendResponse
  <2> HIDE DEF buf
  <2> QED
    BY <1>2, <2>1, SendIdle
<1> QED
  BY <1>3, <1>4 DEF Responds

LEMMA HandleResponds ==
  ASSUME TypeInv, HandleQuery \/ HandleBad \/ HandleShutdown
  PROVE  /\ cur \in Fd /\ pc = "process" /\ Frame \in Request /\ recvBuf[cur] # <<>>
         /\ recvBuf[cur] \in Seq(Request) /\ Frame = Head(recvBuf[cur])
         /\ recvBuf' = [recvBuf EXCEPT ![cur] = Tail(recvBuf[cur])]
         /\ \E r \in Reply : Responds(cur, r, "process")
              /\ IF Kind[Frame] = "bad" THEN r = NoId ELSE r = Frame
         /\ UNCHANGED <<loopVars, clients, queueVars, kernelVars, userVars>>
<1>1. PICK kind \in {"query", "bad", "shutdown"} : Take(kind)
  BY DEF HandleQuery, HandleBad, HandleShutdown
<1>2. /\ cur \in Fd /\ pc = "process" /\ Frame \in Request /\ recvBuf[cur] # <<>>
      /\ recvBuf[cur] \in Seq(Request) /\ Frame = Head(recvBuf[cur])
      /\ recvBuf' = [recvBuf EXCEPT ![cur] = Tail(recvBuf[cur])]
  BY <1>1, TakeEffect
<1>3. /\ HandleQuery \/ HandleShutdown => Kind[Frame] # "bad"
      /\ HandleBad => Kind[Frame] = "bad"
  BY DEF HandleQuery, HandleBad, HandleShutdown, Take
<1>4. /\ HandleQuery \/ HandleShutdown => Responds(cur, Frame, "process")
      /\ HandleBad => Responds(cur, NoId, "process")
      /\ UNCHANGED <<loopVars, clients, queueVars, kernelVars, userVars>>
  BY DEF HandleQuery, HandleBad, HandleShutdown, Responds
<1>5. Frame \in Reply /\ NoId \in Reply
  BY <1>2 DEF Reply
<1> QED
  BY <1>2, <1>3, <1>4, <1>5

LEMMA BatchItem ==
  ASSUME TypeInv, SendDrained \/ SendNotified
  PROVE  /\ batch \in Seq(Completion) /\ batch # <<>> /\ Head(batch) \in Completion
         /\ Head(batch).fd \in Fd /\ Head(batch).req \in Request
         /\ batch' = Tail(batch)
         /\ \E next \in {"send", "poll", "sendNotified", "clients"} :
              \/ Head(batch).fd \in clients /\ Responds(Head(batch).fd, Head(batch).req, next)
              \/ Head(batch).fd \notin clients /\ pc' = next /\ UNCHANGED <<sendBuf, wire, peer>>
         /\ UNCHANGED <<shutdown, ready, cur, clients, recvBuf, queueVars, kernelVars, userVars>>
<1>1. batch \in Seq(Completion) /\ batch # <<>>
  BY DEF SendDrained, SendNotified, SendBatch, TypeInv, TypeOK, BatchReady, Sending
<1>2. Head(batch) \in Completion
  BY <1>1, TakeFacts
<1> QED
  BY <1>1, <1>2 DEF SendDrained, SendNotified, SendBatch, Responds, Completion

LEMMA SocketStep ==
  ASSUME TypeInv, [Next]_vars
  PROVE  \/ Keeps \/ Accept \/ StopServer \/ DiscardCompletions
         \/ (\E fd \in Fd : Closes(fd)) \/ (\E c \in Conn : Connect(c))
<1> USE DEF kernelVars, clientVars
<1>1. CASE BeginPoll \/ PollReturn \/ AcceptDone \/ Notified \/ Signal \/ CloseNotify
           \/ StopPool \/ HandleRun \/ (\E fd \in Fd : WriteOnly(fd)) \/ Finished
           \/ UNCHANGED vars
  BY <1>1 DEF BeginPoll, PollReturn, AcceptDone, Notified, Signal, CloseNotify, StopPool,
     HandleRun, WriteOnly, Finished, vars, Keeps, SameIdle
<1>2. CASE SendDrained \/ SendNotified
  <2>1. UNCHANGED <<sock, clients, backlog>>
    BY <1>2, BatchItem
  <2>2. SameIdle
    <3>1. /\ Head(batch).fd \in Fd /\ Head(batch).req \in Reply
          /\ \/ peer' = peer
             \/ \E next : Responds(Head(batch).fd, Head(batch).req, next)
      BY <1>2, BatchItem DEF Reply
    <3> QED
      BY <3>1, RespondIdle DEF SameIdle
  <2> QED
    BY <2>1, <2>2 DEF Keeps
<1>3. CASE HandleQuery \/ HandleBad \/ HandleShutdown
  <2>1. UNCHANGED <<sock, clients, backlog>> /\ cur \in Fd
    BY <1>3, HandleResponds
  <2>2. \E r \in Reply : Responds(cur, r, "process")
    BY <1>3, HandleResponds
  <2> QED
    BY <2>1, <2>2, RespondIdle DEF Keeps
<1>4. CASE Flush
  <2>1. UNCHANGED <<sock, clients, backlog>>
    BY <1>4 DEF Flush
  <2>2. cur \in Fd /\ sendBuf[cur] \in Seq(Reply)
    BY DEF TypeInv, TypeOK, Reply
  <2>3. peer' = peer \/ Send(cur, sendBuf[cur], "clients")
    BY <1>4 DEF Flush
  <2>4. SameIdle
    BY <2>2, <2>3, SendIdle DEF SameIdle
  <2> QED
    BY <2>1, <2>4 DEF Keeps
<1>5. ASSUME NEW fd \in Fd, HangUp(fd) \/ ReceiveEnd(fd) PROVE Closes(fd)
  BY <1>5 DEF HangUp, ReceiveEnd, CloseClient, Closes, SameIdle
<1>6. CASE HandleHuge
  <2>1. cur \in Fd
    BY DEF TypeInv, TypeOK
  <2>2. Closes(cur)
    BY <1>6 DEF HandleHuge, Closes, SameIdle
  <2> QED
    BY <2>1, <2>2
<1>7. ASSUME NEW fd \in Fd, Receive(fd) PROVE Keeps
  BY <1>7 DEF Receive, Keeps, SameIdle
<1>8. ASSUME NEW item, PushCompletion(item) \/ WriteEvent(item) PROVE Keeps
  BY <1>8 DEF PushCompletion, WriteEvent, Keeps, SameIdle
<1>9. ASSUME NEW c \in Conn, ClientSend(c) \/ ClientRead(c) \/ ClientClose(c) PROVE Keeps
  <2>1. peer \in [Conn -> PeerState]
    BY DEF TypeInv, TypeOK
  <2> QED
    BY <1>9, <2>1 DEF ClientSend, ClientRead, ClientClose, Keeps, SameIdle
<1> QED
  BY <1>1, <1>2, <1>3, <1>4, <1>5, <1>6, <1>7, <1>8, <1>9
     DEF Next, Main, PollStep, ClientStep, FrameStep, StopStep, WorkerStep, User

LEMMA StoppedIsEmptyStep ==
  TypeInv /\ DescriptorsOwned /\ StoppedIsEmpty /\ [Next]_vars =>
    StoppedIsEmpty' /\ (pc' = "stopped" => clients' = {} /\ work' = {})
<1> SUFFICES ASSUME TypeInv, DescriptorsOwned, StoppedIsEmpty, [Next]_vars
             PROVE  StoppedIsEmpty' /\ (pc' = "stopped" => clients' = {} /\ work' = {})
  OBVIOUS
<1> USE DEF StoppedIsEmpty, DescriptorsOwned, kernelVars, clientVars, queueVars
<1>1. CASE BeginPoll \/ PollReturn \/ AcceptDone \/ Notified \/ Signal \/ CloseNotify
           \/ StopPool \/ HandleRun \/ HandleHuge \/ (\E fd \in Fd : WriteOnly(fd)) \/ Finished
           \/ UNCHANGED vars \/ Accept \/ StopServer \/ DiscardCompletions
  BY <1>1 DEF BeginPoll, BetweenPolls, Drain, PollReturn, AfterAccept, AcceptDone, Notified,
     Signal, CloseNotify, StopPool, HandleRun, HandleHuge, Take, WriteOnly, Finished, vars,
     Accept, StopServer, DiscardCompletions
<1>2. ASSUME pc' \notin {"discard", "close", "poolStop", "stopped"}
      PROVE  StoppedIsEmpty' /\ (pc' = "stopped" => clients' = {} /\ work' = {})
  BY <1>2
<1>3. CASE SendDrained \/ SendNotified
  <2>1. Head(batch).fd \in Fd /\ Head(batch).req \in Reply
    BY <1>3, BatchItem DEF Reply
  <2>2. \E next \in {"send", "poll", "sendNotified", "clients"} :
           pc' = next \/ Responds(Head(batch).fd, Head(batch).req, next)
    BY <1>3, BatchItem
  <2> QED
    BY <1>2, <2>1, <2>2, RespondIdle
<1>4. CASE HandleQuery \/ HandleBad \/ HandleShutdown
  <2>1. cur \in Fd /\ \E r \in Reply : Responds(cur, r, "process")
    BY <1>4, HandleResponds
  <2> QED
    BY <1>2, <2>1, RespondIdle
<1>5. CASE Flush
  <2>1. cur \in Fd /\ sendBuf[cur] \in Seq(Reply)
    BY DEF TypeInv, TypeOK, Reply
  <2>2. pc' = "clients" \/ Send(cur, sendBuf[cur], "clients")
    BY <1>5 DEF Flush
  <2> QED
    BY <1>2, <2>1, <2>2, SendIdle
<1>6. ASSUME NEW fd \in Fd, HangUp(fd) \/ ReceiveEnd(fd) \/ Receive(fd)
      PROVE  pc' \notin {"discard", "close", "poolStop", "stopped"}
  BY <1>6 DEF HangUp, ReceiveEnd, Receive
<1>7. ASSUME NEW item, PushCompletion(item) \/ WriteEvent(item)
      PROVE  StoppedIsEmpty' /\ (pc' = "stopped" => clients' = {} /\ work' = {})
  BY <1>7 DEF PushCompletion, WriteEvent, Alive
<1>8. ASSUME NEW c \in Conn, User(c)
      PROVE  StoppedIsEmpty' /\ (pc' = "stopped" => clients' = {} /\ work' = {})
  BY <1>8 DEF User, Connect, ClientSend, ClientRead, ClientClose
<1> QED
  BY <1>1, <1>2, <1>3, <1>4, <1>5, <1>6, <1>7, <1>8
     DEF Next, Main, PollStep, ClientStep, FrameStep, StopStep, WorkerStep

(* A poll snapshot shrinks until the next poll, with the clients. *)
LEMMA ReadyStep ==
  ASSUME TypeInv, ReadyFds \subseteq clients, [Next]_vars
  PROVE  ReadyFds' \subseteq clients'
<1> USE DEF kernelVars, clientVars, loopVars
<1>1. CASE ready' = ready /\ clients \subseteq clients'
  BY <1>1 DEF ReadyFds
<1>2. ASSUME BeginPoll \/ AcceptDone \/ Notified \/ Signal \/ CloseNotify
             \/ DiscardCompletions
             \/ StopPool \/ HandleRun \/ HandleHuge \/ (\E fd \in Fd : WriteOnly(fd)) \/ Finished
             \/ UNCHANGED vars \/ Accept
      PROVE  ready' = ready /\ clients \subseteq clients'
  BY <1>2 DEF BeginPoll, AcceptDone, Notified, Signal, CloseNotify, DiscardCompletions,
     StopPool, HandleRun, HandleHuge, WriteOnly, Finished, vars, Accept
<1>3. CASE PollReturn
  <2>1. ready' \in {Polled, NotReady} /\ clients' = clients
    BY <1>3 DEF PollReturn
  <2>2. Polled.in \cup Polled.out \cup Polled.hup \subseteq clients
    BY DEF Polled
  <2>3. NotReady.in \cup NotReady.out \cup NotReady.hup \subseteq clients
    BY DEF NotReady
  <2> QED
    BY <2>1, <2>2, <2>3 DEF ReadyFds
<1>4. CASE StopServer
  BY <1>4 DEF StopServer, BetweenPolls, ReadyFds
<1>5. CASE SendDrained \/ SendNotified
  BY <1>1, <1>5, BatchItem
<1>6. CASE HandleQuery \/ HandleBad \/ HandleShutdown
  BY <1>1, <1>6, HandleResponds
<1>7. ASSUME NEW fd \in Fd, ready' = Handled(fd), clients \ {fd} \subseteq clients'
      PROVE  ReadyFds' \subseteq clients'
  <2>1. /\ ready'.in = ready.in \ {fd} /\ ready'.out = ready.out \ {fd}
        /\ ready'.hup = ready.hup \ {fd}
    BY <1>7 DEF Handled, TypeInv, TypeOK
  <2> QED
    BY <1>7, <2>1 DEF ReadyFds
<1>8. CASE Flush
  <2>1. cur \in Fd /\ ready' = Handled(cur) /\ clients' = clients
    BY <1>8 DEF Flush, TypeInv, TypeOK
  <2> QED
    BY <1>7, <2>1
<1>9. ASSUME NEW fd \in Fd, HangUp(fd) \/ ReceiveEnd(fd)
      PROVE  ReadyFds' \subseteq clients'
  BY <1>7, <1>9 DEF HangUp, ReceiveEnd, CloseClient
<1>10. ASSUME NEW fd \in Fd, Receive(fd) PROVE ReadyFds' \subseteq clients'
  <2>1. ready' = [ready EXCEPT !.in = ready.in \ {fd}] /\ clients' = clients
    BY <1>10 DEF Receive
  <2>2. ready'.in = ready.in \ {fd} /\ ready'.out = ready.out /\ ready'.hup = ready.hup
    BY <2>1 DEF TypeInv, TypeOK
  <2> QED
    BY <2>1, <2>2 DEF ReadyFds
<1>11. ASSUME NEW item, PushCompletion(item) \/ WriteEvent(item)
       PROVE  ReadyFds' \subseteq clients'
  BY <1>1, <1>11 DEF PushCompletion, WriteEvent
<1>12. ASSUME NEW c \in Conn, User(c) PROVE ReadyFds' \subseteq clients'
  BY <1>1, <1>12 DEF User, Connect, ClientSend, ClientRead, ClientClose
<1> QED
  BY <1>1, <1>2, <1>3, <1>4, <1>5, <1>6, <1>8, <1>9, <1>10, <1>11, <1>12
     DEF Next, Main, PollStep, ClientStep, FrameStep, StopStep, WorkerStep

(* What accept() finds: the oldest of the backlog, and a free descriptor. *)
LEMMA AcceptEffect ==
  ASSUME TypeInv, Accept
  PROVE  \E fd \in Fd :
           /\ sock[fd] = None /\ backlog \in Seq(Conn) /\ backlog # <<>>
           /\ Head(backlog) \in Conn /\ Waiting(Head(backlog))
           /\ sock' = [sock EXCEPT ![fd] = Head(backlog)]
           /\ clients' = clients \cup {fd} /\ backlog' = Tail(backlog)
           /\ recvBuf' = [recvBuf EXCEPT ![fd] = <<>>]
           /\ sendBuf' = [sendBuf EXCEPT ![fd] = <<>>]
           /\ UNCHANGED <<pc, shutdown, loopVars, queueVars, inbox, peer, wire, userVars>>
<1> DEFINE fd == Least(FreeFds)
<1>1. fd \in Fd /\ sock[fd] = None
  <2>1. FreeFds \subseteq Fd /\ FreeFds # {}
    BY DEF Accept, FreeFds
  <2>2. FreeFds \in SUBSET Nat
    BY <2>1, ConstantFacts DEF Fd
  <2>3. \E m \in FreeFds : \A k \in FreeFds : m <= k
    BY <2>1, <2>2, LeastExists
  <2>4. fd \in FreeFds
    BY <2>3 DEF Least
  <2> QED
    BY <2>1, <2>4 DEF FreeFds
<1>2. backlog \in Seq(Conn) /\ backlog # <<>>
  BY DEF Accept, TypeInv, TypeOK
<1>3. /\ sock' = [sock EXCEPT ![fd] = Head(backlog)]
      /\ clients' = clients \cup {fd} /\ backlog' = Tail(backlog)
      /\ recvBuf' = [recvBuf EXCEPT ![fd] = <<>>] /\ sendBuf' = [sendBuf EXCEPT ![fd] = <<>>]
      /\ UNCHANGED <<pc, shutdown, loopVars, queueVars, inbox, peer, wire, userVars>>
  BY DEF Accept
<1> HIDE DEF fd
<1>4. Head(backlog) \in Conn /\ Waiting(Head(backlog))
  <2>1. Head(backlog) \in Conn /\ Head(backlog) = backlog[1] /\ 1 \in DOMAIN backlog
    BY <1>2, TakeFacts
  <2> QED
    BY <2>1 DEF Waiting
<1> QED
  BY <1>1, <1>2, <1>3, <1>4

LEMMA DescriptorStep == DescriptorInv /\ [Next]_vars => DescriptorInv'
<1> SUFFICES ASSUME DescriptorInv, [Next]_vars PROVE DescriptorInv'
  OBVIOUS
<1>1. /\ TypeInv /\ DescriptorsOwned /\ OneBacklogEntry /\ StoppedIsEmpty
      /\ ReadyFds \subseteq clients
  BY DEF DescriptorInv, DescriptorsOwned
<1>2. /\ TypeInv' /\ StoppedIsEmpty' /\ (pc' = "stopped" => clients' = {} /\ work' = {})
      /\ ReadyFds' \subseteq clients'
  BY <1>1, TypeStep, StoppedIsEmptyStep, ReadyStep
<1>3. /\ sock \in [Fd -> Conn \cup {None}] /\ peer \in [Conn -> PeerState]
      /\ backlog \in Seq(Conn) /\ DOMAIN backlog = 1 .. Len(backlog) /\ Len(backlog) \in Nat
  BY <1>1, LenProperties DEF TypeInv, TypeOK
<1> DEFINE Owned == /\ \A fd \in Fd : sock[fd] # None => fd \in clients
                    /\ \A fd, g \in Fd : sock[fd] # None /\ sock[fd] = sock[g] => fd = g
<1>4. SUFFICES Owned' /\ OneBacklogEntry'
  BY <1>2 DEF DescriptorInv, DescriptorsOwned
<1>5. Owned
  BY <1>1 DEF DescriptorsOwned
<1>6. CASE Keeps
  BY <1>1, <1>5, <1>6 DEF Keeps, SameIdle, OneBacklogEntry, Waiting
<1>7. CASE Accept
  <2>1. PICK fd \in Fd :
           /\ sock[fd] = None /\ backlog \in Seq(Conn) /\ backlog # <<>>
           /\ Head(backlog) \in Conn /\ Waiting(Head(backlog))
           /\ sock' = [sock EXCEPT ![fd] = Head(backlog)]
           /\ clients' = clients \cup {fd} /\ backlog' = Tail(backlog) /\ peer' = peer
    BY <1>1, <1>7, AcceptEffect
  <2> DEFINE c == Head(backlog)
             rest == Tail(backlog)
  <2>2. /\ c = backlog[1] /\ DOMAIN rest = 1 .. Len(backlog) - 1
        /\ \A i \in 1 .. Len(backlog) - 1 : rest[i] = backlog[i + 1]
    BY <2>1, TakeFacts
  <2> HIDE DEF c, rest
  <2>3. c \in Conn /\ Waiting(c) /\ sock' = [sock EXCEPT ![fd] = c] /\ backlog' = rest
    BY <2>1 DEF c, rest
  <2>4. (\A g \in Fd : sock[g] # c) /\ c # None /\ peer[c] # "idle"
    BY <1>1, <2>3, ConstantFacts DEF OneBacklogEntry
  <2>5. Owned'
    BY <1>3, <1>5, <2>1, <2>3, <2>4
  <2>6. \A i, j \in DOMAIN rest : rest[i] = rest[j] => i = j
    <3>1. \A i, j \in DOMAIN backlog : backlog[i] = backlog[j] => i = j
      BY <1>1 DEF OneBacklogEntry
    <3>2. \A i \in DOMAIN rest : i \in Int /\ i + 1 \in DOMAIN backlog
                                 /\ rest[i] = backlog[i + 1]
      BY <1>3, <2>2
    <3> SUFFICES ASSUME NEW i \in DOMAIN rest, NEW j \in DOMAIN rest, rest[i] = rest[j]
                 PROVE  i = j
      OBVIOUS
    <3>3. i + 1 = j + 1
      BY <3>1, <3>2
    <3> QED
      BY <3>2, <3>3
  <2>7. \A d \in Conn : Waiting(d)' => Waiting(d) /\ d # c
    <3>1. \A i \in DOMAIN rest : /\ i + 1 \in DOMAIN backlog /\ i + 1 # 1 /\ 1 \in DOMAIN backlog
                                 /\ rest[i] = backlog[i + 1]
      BY <1>3, <2>2
    <3>2. \A i, j \in DOMAIN backlog : backlog[i] = backlog[j] => i = j
      BY <1>1 DEF OneBacklogEntry
    <3> QED
      BY <2>2, <2>3, <3>1, <3>2 DEF Waiting
  <2>8. OneBacklogEntry'
    BY <1>1, <1>3, <2>1, <2>3, <2>4, <2>6, <2>7 DEF OneBacklogEntry
  <2> QED
    BY <2>5, <2>8
<1>8. CASE StopServer
  <2>1. /\ \A fd \in Fd : sock'[fd] = None
        /\ backlog' = backlog /\ peer' = peer
    BY <1>5, <1>8 DEF StopServer, CloseAll
  <2> QED
    BY <1>1, <2>1, ConstantFacts DEF OneBacklogEntry, Waiting
<1>9. CASE DiscardCompletions
  BY <1>1, <1>5, <1>9 DEF DiscardCompletions, clientVars, OneBacklogEntry, Waiting
<1>10. ASSUME NEW fd \in Fd, Closes(fd) PROVE Owned' /\ OneBacklogEntry'
  <2>1. \A g \in Fd : sock'[g] = IF g = fd THEN None ELSE sock[g]
    BY <1>3, <1>10 DEF Closes
  <2>2. Owned'
    BY <1>5, <1>10, <2>1 DEF Closes
  <2>3. OneBacklogEntry'
    BY <1>1, <1>10, <2>1, ConstantFacts DEF Closes, SameIdle, OneBacklogEntry, Waiting
  <2> QED
    BY <2>2, <2>3
<1>11. ASSUME NEW c \in Conn, Connect(c) PROVE Owned' /\ OneBacklogEntry'
  <2>1. /\ peer[c] = "idle" /\ peer' = [peer EXCEPT ![c] = "open"]
        /\ backlog' = Append(backlog, c) /\ UNCHANGED <<sock, clients>>
    BY <1>11 DEF Connect, clientVars
  <2> DEFINE more == Append(backlog, c)
  <2>2. /\ DOMAIN more = 1 .. Len(backlog) + 1 /\ more[Len(backlog) + 1] = c
        /\ \A i \in 1 .. Len(backlog) : more[i] = backlog[i]
    BY <1>3, AppendFacts
  <2> HIDE DEF more
  <2>3. backlog' = more
    BY <2>1 DEF more
  <2>4. ~Waiting(c) /\ \A fd \in Fd : sock[fd] # c
    BY <1>1, <2>1 DEF OneBacklogEntry
  <2>5. DOMAIN more = DOMAIN backlog \cup {Len(backlog) + 1}
    BY <1>3, <2>2
  <2>6. \A i \in DOMAIN backlog : more[i] = backlog[i] /\ backlog[i] # c
    BY <1>3, <2>2, <2>4 DEF Waiting
  <2>7. \A i, j \in DOMAIN more : more[i] = more[j] => i = j
    BY <1>1, <2>2, <2>5, <2>6 DEF OneBacklogEntry
  <2>8. \A d \in Conn : Waiting(d)' => Waiting(d) \/ d = c
    BY <2>2, <2>3, <2>5, <2>6 DEF Waiting
  <2>9. OneBacklogEntry'
    BY <1>1, <1>3, <2>1, <2>3, <2>4, <2>7, <2>8 DEF OneBacklogEntry
  <2> QED
    BY <1>5, <2>1, <2>9
<1> QED
  BY <1>1, <1>6, <1>7, <1>8, <1>9, <1>10, <1>11, SocketStep

LEMMA DescriptorInit == Init => DescriptorInv
<1> SUFFICES ASSUME Init PROVE DescriptorInv
  OBVIOUS
<1>1. DOMAIN backlog = {}
  <2>1. backlog \in Seq(Conn) /\ Len(backlog) = 0
    BY EmptySeq DEF Init
  <2>2. DOMAIN backlog = 1 .. 0
    BY <2>1, LenProperties
  <2> QED
    BY <2>2
<1>2. DescriptorsOwned /\ StoppedIsEmpty
  BY DEF Init, DescriptorsOwned, StoppedIsEmpty, ReadyFds, NotReady
<1>3. OneBacklogEntry
  BY <1>1, ConstantFacts DEF Init, OneBacklogEntry, Waiting
<1> QED
  BY <1>2, <1>3, TypeInit DEF DescriptorInv

(* No path of Poll, Stop or a disconnect leaks a descriptor, shares one, or *)
(* serves one that is closed.                                              *)
THEOREM NoDescriptorLeaks == Spec => []DescriptorsOwned
<1>1. DescriptorInv => DescriptorsOwned
  BY DEF DescriptorInv
<1> QED
  BY <1>1, DescriptorInit, DescriptorStep, PTL DEF Spec

-----------------------------------------------------------------------------
(* No completion waits out a timeout of poll(): while the eventfd is open, *)
(* a completion in the queue has set it, or its worker is about to.        *)
WakeupPending == notifyOpen /\ done # <<>> => event \/ notifying # {}

LEMMA WakeupStep == TypeInv /\ WakeupPending /\ [Next]_vars => WakeupPending'
<1> SUFFICES ASSUME TypeInv, WakeupPending, [Next]_vars PROVE WakeupPending'
  OBVIOUS
<1> USE DEF WakeupPending, queueVars
<1>1. CASE PollReturn \/ AcceptDone \/ Signal \/ CloseNotify \/ HandleRun
           \/ StopPool \/ HandleHuge \/ (\E fd \in Fd : WriteOnly(fd)) \/ Finished
           \/ UNCHANGED vars \/ Accept \/ StopServer \/ DiscardCompletions
  BY <1>1 DEF PollReturn, AfterAccept, AcceptDone, Signal, CloseNotify, StopPool, HandleRun,
     Take, HandleHuge, WriteOnly, Finished, vars, Accept, StopServer, BetweenPolls,
     DiscardCompletions
<1>2. CASE BeginPoll \/ Notified
  <2>1. done' = <<>>
    BY <1>2 DEF BeginPoll, Notified, Drain
  <2> QED
    BY <2>1
<1>3. ASSUME UNCHANGED queueVars PROVE WakeupPending'
  BY <1>3
<1>4. CASE SendDrained \/ SendNotified
  <2>1. UNCHANGED queueVars
    BY <1>4, BatchItem
  <2> QED
    BY <1>3, <2>1
<1>5. CASE HandleQuery \/ HandleBad \/ HandleShutdown
  <2>1. UNCHANGED queueVars
    BY <1>5, HandleResponds
  <2> QED
    BY <1>3, <2>1
<1>6. CASE Flush
  BY <1>3, <1>6 DEF Flush
<1>7. ASSUME NEW fd \in Fd, HangUp(fd) \/ ReceiveEnd(fd) \/ Receive(fd) PROVE WakeupPending'
  BY <1>3, <1>7 DEF HangUp, ReceiveEnd, Receive
<1>8. ASSUME NEW item, PushCompletion(item) PROVE WakeupPending'
  BY <1>8 DEF PushCompletion
<1>10. ASSUME NEW item, WriteEvent(item) PROVE WakeupPending'
  <2>1. UNCHANGED <<done, notifyOpen>> /\ event' = (event \/ notifyOpen)
    BY <1>10 DEF WriteEvent, Wake
  <2>2. notifyOpen => event'
    BY <2>1, Zenon
  <2> QED
    BY <2>1, <2>2
<1>9. ASSUME NEW c \in Conn, User(c) PROVE WakeupPending'
  BY <1>9 DEF User, Connect, ClientSend, ClientRead, ClientClose
<1> QED
  BY <1>1, <1>2, <1>4, <1>5, <1>6, <1>7, <1>8, <1>9, <1>10
     DEF Next, Main, PollStep, ClientStep, FrameStep, StopStep, WorkerStep

(* poll() never sleeps on a completion when the server has an eventfd. *)
THEOREM NoCompletionSleeps == Spec => []SleepsOnlyWhenDrained
<1> DEFINE Inv == TypeInv /\ WakeupPending
<1>1. Init => Inv
  BY TypeInit DEF Init, WakeupPending
<1>2. Inv /\ [Next]_vars => Inv'
  BY TypeStep, WakeupStep
<1>3. Inv => SleepsOnlyWhenDrained
  BY DEF WakeupPending, SleepsOnlyWhenDrained
<1> QED
  BY <1>1, <1>2, <1>3, PTL DEF Spec
-----------------------------------------------------------------------------
(* Requests in sequences: which ones a sequence holds, whether it holds one *)
(* twice, whether each b in it has an a before it.                          *)
Held(s) == {r \in Request : Within(r, s)}
OnceIn(s) == \A i, j \in DOMAIN s : s[i] = s[j] /\ s[i] \in Request => i = j
Before(s, a, b) == \A q \in DOMAIN s : s[q] = b => \E p \in DOMAIN s : p < q /\ s[p] = a

LEMMA EmptyHeld ==
  /\ \A r : ~Within(r, <<>>)
  /\ Held(<<>>) = {} /\ OnceIn(<<>>) /\ \A a, b : Before(<<>>, a, b)
<1>1. DOMAIN <<>> = {}
  <2>1. <<>> \in Seq({}) /\ Len(<<>>) = 0
    BY EmptySeq
  <2>2. DOMAIN <<>> = 1 .. 0
    BY <2>1, LenProperties
  <2> QED
    BY <2>2
<1> HIDE DEF Within
<1>2. \A r : ~Within(r, <<>>)
  BY <1>1 DEF Within
<1>3. Held(<<>>) = {}
  BY <1>2 DEF Held
<1> QED
  BY <1>1, <1>2, <1>3 DEF OnceIn, Before

LEMMA AppendHeld ==
  ASSUME NEW S, NEW s \in Seq(S), NEW x \in S
  PROVE  /\ \A r : Within(r, Append(s, x)) <=> Within(r, s) \/ r = x
         /\ Held(Append(s, x)) = Held(s) \cup ({x} \cap Request)
         /\ OnceIn(s) /\ x \notin Held(s) => OnceIn(Append(s, x))
         /\ \A a, b : Before(s, a, b) /\ (x = b => Within(a, s)) => Before(Append(s, x), a, b)
<1> DEFINE t == Append(s, x)
           n == Len(s) + 1
<1>1. /\ DOMAIN t = DOMAIN s \cup {n} /\ n \notin DOMAIN s
      /\ \A i \in DOMAIN s : t[i] = s[i] /\ i < n
      /\ t[n] = x
  BY AppendFacts
<1> HIDE DEF t, n
<1>2. \A r : Within(r, t) <=> Within(r, s) \/ r = x
  BY <1>1 DEF Within
<1>3. Held(t) = Held(s) \cup ({x} \cap Request)
  BY <1>2 DEF Held
<1>4. OnceIn(s) /\ x \notin Held(s) => OnceIn(t)
  <2> SUFFICES ASSUME OnceIn(s), x \notin Held(s), NEW i \in DOMAIN t, NEW j \in DOMAIN t,
                      t[i] = t[j], t[i] \in Request
               PROVE  i = j
    BY DEF OnceIn
  <2>1. x \in Request => \A k \in DOMAIN s : s[k] # x
    BY DEF Held, Within
  <2> QED
    BY <1>1, <2>1 DEF OnceIn
<1>5. ASSUME NEW a, NEW b, Before(s, a, b), x = b => Within(a, s)
      PROVE  Before(t, a, b)
  BY <1>1, <1>5 DEF Before, Within
<1> QED
  BY <1>2, <1>3, <1>4, <1>5 DEF t

LEMMA TailHeld ==
  ASSUME NEW S, NEW s \in Seq(S), s # <<>>
  PROVE  /\ \A r : Within(r, s) <=> Within(r, Tail(s)) \/ r = Head(s)
         /\ Held(s) = Held(Tail(s)) \cup ({Head(s)} \cap Request)
         /\ OnceIn(s) => OnceIn(Tail(s)) /\ Head(s) \notin Held(Tail(s))
         /\ \A a, b : Before(s, a, b) =>
               Head(s) # b /\ (Head(s) # a => Before(Tail(s), a, b))
<1> DEFINE t == Tail(s)
           x == Head(s)
<1>1. /\ DOMAIN t = 1 .. Len(s) - 1 /\ DOMAIN s = 1 .. Len(s) /\ Len(s) \in Nat \ {0}
      /\ \A i \in 1 .. Len(s) - 1 : t[i] = s[i + 1]
      /\ x = s[1]
  BY TakeFacts
<1> HIDE DEF t, x
<1>2. /\ 1 \in DOMAIN s /\ s[1] = x
      /\ \A i \in DOMAIN s : i \in Int /\ ~(i < 1) /\ (i = 1 \/ (i - 1 \in DOMAIN t /\ s[i] = t[i - 1]))
      /\ \A i \in DOMAIN t : i \in Int /\ i + 1 \in DOMAIN s /\ i + 1 # 1 /\ t[i] = s[i + 1]
  <2>1. \A n \in Nat \ {0} :
           /\ 1 \in 1 .. n
           /\ \A i \in 1 .. n : i \in Int /\ ~(i < 1) /\ (i = 1 \/ i - 1 \in 1 .. n - 1)
           /\ \A i \in 1 .. n : (i - 1) + 1 = i
           /\ \A i \in 1 .. n - 1 : i \in Int /\ i + 1 \in 1 .. n /\ i + 1 # 1
    OBVIOUS
  <2>2. ASSUME NEW i \in DOMAIN s, i # 1 PROVE i - 1 \in DOMAIN t /\ s[i] = t[i - 1]
    <3>1. i - 1 \in 1 .. Len(s) - 1 /\ (i - 1) + 1 = i
      BY <1>1, <2>1, <2>2
    <3>2. t[i - 1] = s[(i - 1) + 1]
      BY <1>1, <3>1
    <3> QED
      BY <1>1, <3>1, <3>2
  <2> QED
    BY <1>1, <2>1, <2>2
<1>3. \A r : Within(r, s) <=> Within(r, t) \/ r = x
  BY <1>2 DEF Within
<1>4. Held(s) = Held(t) \cup ({x} \cap Request)
  BY <1>3 DEF Held
<1>5. OnceIn(s) => OnceIn(t) /\ x \notin Held(t)
  <2> SUFFICES ASSUME OnceIn(s) PROVE OnceIn(t) /\ x \notin Held(t)
    OBVIOUS
  <2>1. ASSUME NEW i \in DOMAIN t, NEW j \in DOMAIN t, t[i] = t[j], t[i] \in Request
        PROVE  i = j
    <3>1. i + 1 = j + 1
      BY <1>2, <2>1 DEF OnceIn
    <3> QED
      BY <1>2, <3>1
  <2>2. x \notin Held(t)
    BY <1>2 DEF OnceIn, Held, Within
  <2> QED
    BY <2>1, <2>2 DEF OnceIn
<1>6. ASSUME NEW a, NEW b, Before(s, a, b) PROVE x # b /\ (x # a => Before(t, a, b))
  <2>1. x # b
    BY <1>2, <1>6 DEF Before
  <2>2. ASSUME x # a, NEW q \in DOMAIN t, t[q] = b
        PROVE  \E p \in DOMAIN t : p < q /\ t[p] = a
    <3>1. PICK k \in DOMAIN s : k < q + 1 /\ s[k] = a
      BY <1>2, <1>6, <2>2 DEF Before
    <3>2. k - 1 \in DOMAIN t /\ t[k - 1] = a
      <4>1. k # 1
        BY <1>2, <2>2, <3>1
      <4> QED
        BY <1>2, <3>1, <4>1
    <3>3. k \in Int /\ q \in Int
      BY <1>2, <2>2
    <3>4. k - 1 < q
      BY <3>1, <3>3
    <3> QED
      BY <3>2, <3>4
  <2> QED
    BY <2>1, <2>2 DEF Before
<1> QED
  BY <1>3, <1>4, <1>5, <1>6 DEF t, x

LEMMA SplitHeld ==
  ASSUME NEW S, NEW s \in Seq(S), NEW n \in 0 .. Len(s)
  PROVE  LET p == SubSeq(s, 1, n)
             q == SubSeq(s, n + 1, Len(s))
         IN /\ p \in Seq(S) /\ q \in Seq(S)
            /\ \A r : Within(r, s) <=> Within(r, p) \/ Within(r, q)
            /\ Held(s) = Held(p) \cup Held(q)
            /\ OnceIn(s) => OnceIn(p) /\ OnceIn(q) /\ Held(p) \cap Held(q) = {}
            /\ \A a, b : Before(s, a, b) =>
                  Before(p, a, b) /\ (Within(a, p) \/ Before(q, a, b))
<1> DEFINE p == SubSeq(s, 1, n)
           q == SubSeq(s, n + 1, Len(s))
           L == Len(s)
<1>1. /\ p \in Seq(S) /\ q \in Seq(S) /\ L \in Nat /\ n \in 0 .. L
      /\ DOMAIN s = 1 .. L /\ DOMAIN p = 1 .. n /\ DOMAIN q = 1 .. L - n
      /\ \A i \in 1 .. n : p[i] = s[i]
      /\ \A i \in 1 .. L - n : q[i] = s[i + n]
  <2>1. p \in Seq(S) /\ q \in Seq(S)
    BY SplitFacts
  <2>2. L \in Nat /\ DOMAIN s = 1 .. L /\ DOMAIN p = 1 .. n /\ DOMAIN q = 1 .. L - n
    BY SplitFacts
  <2>3. \A i \in 1 .. n : p[i] = s[i]
    BY SplitFacts
  <2>4. \A i \in 1 .. L - n : q[i] = s[i + n]
    BY SplitFacts
  <2> QED
    BY <2>1, <2>2, <2>3, <2>4
<1> HIDE DEF p, q, L
<1>2. /\ n \in Int
      /\ \A i \in DOMAIN p : i \in Int /\ i \in DOMAIN s /\ i <= n /\ p[i] = s[i]
      /\ \A i \in DOMAIN q : i \in Int /\ i + n \in DOMAIN s /\ n < i + n /\ q[i] = s[i + n]
      /\ \A i \in DOMAIN s : i \in Int /\ (i \in DOMAIN p \/ (n < i /\ i - n \in DOMAIN q))
      /\ \A i \in DOMAIN s : i - n \in DOMAIN q => q[i - n] = s[i]
  <2>1. \A l \in Nat : \A m \in 0 .. l :
           /\ m \in Int
           /\ \A i \in 1 .. m : i \in Int /\ i \in 1 .. l /\ i <= m
           /\ \A i \in 1 .. l - m : i \in Int /\ i + m \in 1 .. l /\ m < i + m
           /\ \A i \in 1 .. l : i \in Int /\ (i \in 1 .. m \/ (m < i /\ i - m \in 1 .. l - m))
           /\ \A i \in 1 .. l : (i - m) + m = i
    OBVIOUS
  <2>2. ASSUME NEW i \in DOMAIN s, i - n \in DOMAIN q PROVE q[i - n] = s[i]
    <3>1. q[i - n] = s[(i - n) + n] /\ (i - n) + n = i
      BY <1>1, <2>1, <2>2
    <3> QED
      BY <3>1
  <2> QED
    BY <1>1, <2>1, <2>2
<1>3. \A r : Within(r, s) <=> Within(r, p) \/ Within(r, q)
  BY <1>2 DEF Within
<1>4. Held(s) = Held(p) \cup Held(q)
  BY <1>3 DEF Held
<1>5. OnceIn(s) => OnceIn(p) /\ OnceIn(q) /\ Held(p) \cap Held(q) = {}
  <2> SUFFICES ASSUME OnceIn(s) PROVE OnceIn(p) /\ OnceIn(q) /\ Held(p) \cap Held(q) = {}
    OBVIOUS
  <2>1. OnceIn(p)
    BY <1>2 DEF OnceIn
  <2>2. ASSUME NEW i \in DOMAIN q, NEW j \in DOMAIN q, q[i] = q[j], q[i] \in Request
        PROVE  i = j
    <3>1. i + n = j + n
      BY <1>2, <2>2 DEF OnceIn
    <3> QED
      BY <1>2, <3>1
  <2>3. ASSUME NEW r \in Request, NEW i \in DOMAIN p, NEW j \in DOMAIN q, p[i] = r, q[j] = r
        PROVE  FALSE
    <3>1. i = j + n
      BY <1>2, <2>3 DEF OnceIn
    <3> QED
      BY <1>2, <3>1
  <2> QED
    BY <2>1, <2>2, <2>3 DEF OnceIn, Held, Within
<1>6. ASSUME NEW a, NEW b, Before(s, a, b)
      PROVE  Before(p, a, b) /\ (Within(a, p) \/ Before(q, a, b))
  <2>1. ASSUME NEW j \in DOMAIN p, p[j] = b PROVE \E i \in DOMAIN p : i < j /\ p[i] = a
    <3>1. PICK k \in DOMAIN s : k < j /\ s[k] = a
      BY <1>2, <1>6, <2>1 DEF Before
    <3>2. k \in DOMAIN p
      BY <1>1, <2>1, <3>1
    <3> QED
      BY <1>2, <3>1, <3>2
  <2>2. ASSUME ~Within(a, p), NEW j \in DOMAIN q, q[j] = b
        PROVE  \E i \in DOMAIN q : i < j /\ q[i] = a
    <3>1. PICK k \in DOMAIN s : k < j + n /\ s[k] = a
      BY <1>2, <1>6, <2>2 DEF Before
    <3>2. k \notin DOMAIN p
      BY <1>2, <2>2, <3>1 DEF Within
    <3>3. k - n \in DOMAIN q /\ q[k - n] = a
      BY <1>2, <3>1, <3>2
    <3>4. k - n < j
      BY <1>2, <3>1
    <3> QED
      BY <3>3, <3>4
  <2> QED
    BY <2>1, <2>2 DEF Before
<1> QED
  BY <1>1, <1>3, <1>4, <1>5, <1>6 DEF p, q, L

LEMMA JoinHeld ==
  ASSUME NEW S, NEW s \in Seq(S), NEW t \in Seq(S)
  PROVE  /\ \A r : Within(r, s \o t) <=> Within(r, s) \/ Within(r, t)
         /\ Held(s \o t) = Held(s) \cup Held(t)
         /\ OnceIn(s) /\ OnceIn(t) /\ Held(s) \cap Held(t) = {} => OnceIn(s \o t)
         /\ \A a, b : Before(s, a, b) /\ (Within(a, s) \/ Before(t, a, b)) =>
                         Before(s \o t, a, b)
<1> DEFINE u == s \o t
           L == Len(s)
<1>1. /\ L \in Nat /\ Len(t) \in Nat
      /\ DOMAIN s = 1 .. L /\ DOMAIN t = 1 .. Len(t) /\ DOMAIN u = 1 .. L + Len(t)
      /\ \A i \in 1 .. L : u[i] = s[i]
      /\ \A i \in 1 .. Len(t) : u[i + L] = t[i]
  BY JoinFacts
<1> HIDE DEF u, L
<1>2. /\ L \in Int
      /\ \A i \in DOMAIN s : i \in Int /\ i \in DOMAIN u /\ i <= L /\ u[i] = s[i]
      /\ \A i \in DOMAIN t : i \in Int /\ i + L \in DOMAIN u /\ L < i + L /\ u[i + L] = t[i]
      /\ \A i \in DOMAIN u : i \in Int /\ (i \in DOMAIN s \/ (L < i /\ i - L \in DOMAIN t))
      /\ \A i \in DOMAIN u : i - L \in DOMAIN t => u[i] = t[i - L]
  <2>1. \A l, m \in Nat :
           /\ l \in Int
           /\ \A i \in 1 .. l : i \in Int /\ i \in 1 .. l + m /\ i <= l
           /\ \A i \in 1 .. m : i \in Int /\ i + l \in 1 .. l + m /\ l < i + l
           /\ \A i \in 1 .. l + m : i \in Int /\ (i \in 1 .. l \/ (l < i /\ i - l \in 1 .. m))
           /\ \A i \in 1 .. l + m : (i - l) + l = i
    OBVIOUS
  <2>2. ASSUME NEW i \in DOMAIN u, i - L \in DOMAIN t PROVE u[i] = t[i - L]
    <3>1. u[(i - L) + L] = t[i - L] /\ (i - L) + L = i
      BY <1>1, <2>1, <2>2
    <3> QED
      BY <3>1
  <2> QED
    BY <1>1, <2>1, <2>2
<1>3. \A r : Within(r, u) <=> Within(r, s) \/ Within(r, t)
  BY <1>2 DEF Within
<1>4. Held(u) = Held(s) \cup Held(t)
  BY <1>3 DEF Held
<1>5. ASSUME OnceIn(s), OnceIn(t), Held(s) \cap Held(t) = {} PROVE OnceIn(u)
  <2> SUFFICES ASSUME NEW i \in DOMAIN u, NEW j \in DOMAIN u, u[i] = u[j], u[i] \in Request
               PROVE  i = j
    BY DEF OnceIn
  <2>1. \A k \in DOMAIN s, l \in DOMAIN t : s[k] # t[l] \/ s[k] \notin Request
    BY <1>5 DEF Held, Within
  <2>2. CASE i \in DOMAIN s
    BY <1>2, <1>5, <2>1, <2>2 DEF OnceIn
  <2>3. CASE i - L \in DOMAIN t
    <3>1. j \notin DOMAIN s
      BY <1>2, <2>1, <2>3
    <3>2. j - L \in DOMAIN t
      BY <1>2, <3>1
    <3>3. i - L = j - L
      BY <1>2, <1>5, <2>3, <3>2 DEF OnceIn
    <3> QED
      BY <1>2, <3>3
  <2> QED
    BY <1>2, <2>2, <2>3
<1>6. ASSUME NEW a, NEW b, Before(s, a, b), Within(a, s) \/ Before(t, a, b)
      PROVE  Before(u, a, b)
  <2> SUFFICES ASSUME NEW j \in DOMAIN u, u[j] = b
               PROVE  \E i \in DOMAIN u : i < j /\ u[i] = a
    BY DEF Before
  <2>1. CASE j \in DOMAIN s
    BY <1>2, <1>6, <2>1 DEF Before
  <2>2. CASE L < j /\ j - L \in DOMAIN t
    <3>1. CASE Within(a, s)
      <4>1. PICK k \in DOMAIN s : s[k] = a
        BY <3>1 DEF Within
      <4>2. k < j
        BY <1>2, <2>2, <4>1
      <4> QED
        BY <1>2, <4>1, <4>2
    <3>2. CASE Before(t, a, b)
      <4>1. PICK k \in DOMAIN t : k < j - L /\ t[k] = a
        BY <1>2, <2>2, <3>2 DEF Before
      <4>2. k + L \in DOMAIN u /\ u[k + L] = a
        BY <1>2, <4>1
      <4>3. k + L < j
        BY <1>2, <4>1
      <4> QED
        BY <4>2, <4>3
    <3> QED
      BY <1>6, <3>1, <3>2
  <2> QED
    BY <1>2, <2>1, <2>2
<1> QED
  BY <1>3, <1>4, <1>5, <1>6 DEF u

-----------------------------------------------------------------------------
(* What the steps do to the requests: a step that moves none may drop some, *)
(* of connections that are closed, or with a reply to a client that left.   *)
Dropping ==
    /\ UNCHANGED <<todo, inbox, got, batch>>
    /\ \A c \in Conn : wire'[c] = wire[c] \/ (wire'[c] = <<>> /\ peer'[c] \in {"fin", "rst"})
    /\ \A fd \in Fd : sock[fd] # None /\ sock'[fd] # None =>
                         recvBuf'[fd] = recvBuf[fd] /\ sendBuf'[fd] = sendBuf[fd]
    /\ \A fd \in Fd : recvBuf'[fd] \in {recvBuf[fd], <<>>} /\ sendBuf'[fd] \in {sendBuf[fd], <<>>}
    /\ work' \subseteq work /\ done' \in {done, <<>>}
    /\ work' # work \/ done' # done => \A fd \in Fd : sock[fd] = None

Stays == UNCHANGED <<sock, clients, backlog>>
Sent(fd, buf) ==
    \/ pc' = "killed" /\ UNCHANGED <<sendBuf, wire, peer>>
    \/ \E n \in 0 .. Len(buf) : SentSome(fd, buf, n)
    \/ SentNone(fd, buf)

Swapped ==
    /\ Stays /\ batch = <<>> /\ batch' = done /\ done' = <<>>
    /\ UNCHANGED <<todo, inbox, got, wire, recvBuf, sendBuf, work, peer>>
Discarded ==
    /\ Stays /\ batch # <<>> /\ batch' = Tail(batch) /\ sock[Head(batch).fd] = None
    /\ UNCHANGED <<todo, inbox, got, wire, recvBuf, sendBuf, work, done, peer>>
Answered ==
    /\ Stays /\ batch # <<>> /\ batch' = Tail(batch)
    /\ Sent(Head(batch).fd, Append(sendBuf[Head(batch).fd], Head(batch).req))
    /\ UNCHANGED <<todo, inbox, got, recvBuf, work, done>>
Replied(x) ==
    /\ Stays /\ recvBuf[cur] # <<>> /\ recvBuf' = [recvBuf EXCEPT ![cur] = Tail(recvBuf[cur])]
    /\ Sent(cur, Append(sendBuf[cur], x))
    /\ IF Kind[Head(recvBuf[cur])] = "bad" THEN x = NoId ELSE x = Head(recvBuf[cur])
    /\ UNCHANGED <<todo, inbox, got, work, done, batch>>
Submitted ==
    /\ Stays /\ recvBuf[cur] # <<>> /\ recvBuf' = [recvBuf EXCEPT ![cur] = Tail(recvBuf[cur])]
    /\ Kind[Head(recvBuf[cur])] = "run"
    /\ work' = work \cup {[fd |-> cur, req |-> Head(recvBuf[cur])]}
    /\ UNCHANGED <<todo, inbox, got, wire, sendBuf, done, batch, peer>>
Flushed ==
    /\ Stays /\ Sent(cur, sendBuf[cur])
    /\ UNCHANGED <<todo, inbox, got, recvBuf, work, done, batch>>
Took(fd, n) ==
    LET c == sock[fd] IN
    /\ Stays /\ c \in Conn
    /\ recvBuf' = [recvBuf EXCEPT ![fd] = recvBuf[fd] \o SubSeq(inbox[c], 1, n)]
    /\ inbox' = [inbox EXCEPT ![c] = SubSeq(inbox[c], n + 1, Len(inbox[c]))]
    /\ UNCHANGED <<todo, got, wire, sendBuf, work, done, batch, peer>>
Finishes(item) ==
    /\ Stays /\ item \in work /\ work' = work \ {item} /\ done' = Append(done, item)
    /\ UNCHANGED <<todo, inbox, got, wire, recvBuf, sendBuf, batch, peer>>
Asks(c) ==
    /\ Stays /\ todo[c] # <<>>
    /\ inbox' = [inbox EXCEPT ![c] = Append(inbox[c], Head(todo[c]))]
    /\ todo' = [todo EXCEPT ![c] = Tail(todo[c])]
    /\ UNCHANGED <<got, wire, recvBuf, sendBuf, work, done, batch, peer>>
Reads(c) ==
    /\ Stays /\ wire[c] # <<>>
    /\ got' = [got EXCEPT ![c] = got[c] \cup {Head(wire[c])}]
    /\ wire' = [wire EXCEPT ![c] = Tail(wire[c])]
    /\ UNCHANGED <<todo, inbox, recvBuf, sendBuf, work, done, batch, peer>>
Moving ==
    \/ Swapped \/ Discarded \/ Answered \/ (\E x \in Reply : Replied(x)) \/ Submitted \/ Flushed
    \/ (\E fd \in Fd : \E n \in 0 .. Len(inbox[sock[fd]]) : Took(fd, n))
    \/ (\E item \in Completion : Finishes(item)) \/ (\E c \in Conn : Asks(c) \/ Reads(c))

LEMMA SendSent ==
  ASSUME TypeInv, NEW fd \in Fd, NEW buf \in Seq(Reply), NEW then, Send(fd, buf, then)
  PROVE  Sent(fd, buf)
  BY SendOutcome DEF Sent

LEMMA RespondSent ==
  ASSUME TypeInv, NEW fd \in Fd, NEW r \in Reply, NEW then, Responds(fd, r, then)
  PROVE  Sent(fd, Append(sendBuf[fd], r))
<1> DEFINE buf == Append(sendBuf[fd], r)
<1>1. sendBuf[fd] \in Seq(Reply)
  BY DEF TypeInv, TypeOK, Reply
<1>2. buf \in Seq(Reply)
  BY <1>1, AppendFacts
<1>3. CASE DumpThrows
  BY <1>3 DEF DumpThrows, Sent
<1>4. CASE SendResponse(fd, r, then)
  <2>1. Send(fd, buf, then)
    BY <1>4 DEF SendResponse
  <2> HIDE DEF buf
  <2>2. Sent(fd, buf)
    BY <1>2, <2>1, SendSent
  <2> QED
    BY <2>2 DEF buf
<1> QED
  BY <1>3, <1>4 DEF Responds

LEMMA DataStep ==
  ASSUME DescriptorInv, [Next]_vars
  PROVE  Dropping \/ Moving
<1> USE DEF kernelVars, clientVars, loopVars, queueVars, userVars
<1>1. /\ TypeInv /\ peer \in [Conn -> PeerState] /\ wire \in [Conn -> Seq(Reply)]
      /\ recvBuf \in [Fd -> Seq(Request)] /\ sendBuf \in [Fd -> Seq(Reply)]
      /\ sock \in [Fd -> Conn \cup {None}] /\ cur \in Fd
      /\ \A fd \in Fd : sock[fd] # None => fd \in clients
  BY DEF DescriptorInv, DescriptorsOwned, TypeInv, TypeOK, Reply
<1>2. ASSUME UNCHANGED <<todo, inbox, wire, got, recvBuf, sendBuf, work, done, batch>>
      PROVE  Dropping
  BY <1>2 DEF Dropping
<1>3. CASE PollReturn \/ AcceptDone \/ Signal \/ CloseNotify \/ HandleHuge \/ Finished
           \/ UNCHANGED vars \/ (\E fd \in Fd : WriteOnly(fd))
           \/ (\E item : WriteEvent(item)) \/ (\E c \in Conn : Connect(c))
  BY <1>2, <1>3 DEF PollReturn, AcceptDone, Signal, CloseNotify, HandleHuge, Finished, vars,
     WriteOnly, WriteEvent, Connect
<1>4. CASE BeginPoll \/ Notified
  <2>1. pc \in {"clients", "notify"} /\ batch = <<>>
    BY <1>1, <1>4 DEF BeginPoll, BetweenPolls, Notified, TypeInv, BatchReady, Sending
  <2> QED
    BY <1>2, <1>4, <2>1 DEF BeginPoll, Notified, Drain, Swapped, Stays, Moving
<1>5. CASE SendDrained \/ SendNotified
  <2>1. /\ batch # <<>> /\ Head(batch).fd \in Fd /\ Head(batch).req \in Reply
        /\ batch' = Tail(batch) /\ UNCHANGED <<clients, recvBuf, queueVars, kernelVars, userVars>>
        /\ \E next \in {"send", "poll", "sendNotified", "clients"} :
              \/ Head(batch).fd \in clients /\ Responds(Head(batch).fd, Head(batch).req, next)
              \/ Head(batch).fd \notin clients /\ UNCHANGED <<sendBuf, wire, peer>>
    BY <1>1, <1>5, BatchItem DEF Reply
  <2>2. CASE Head(batch).fd \notin clients /\ UNCHANGED <<sendBuf, wire, peer>>
    BY <1>1, <2>1, <2>2 DEF Discarded, Stays, Moving
  <2>3. CASE \E next : Responds(Head(batch).fd, Head(batch).req, next)
    <3>1. Sent(Head(batch).fd, Append(sendBuf[Head(batch).fd], Head(batch).req))
      BY <1>1, <2>1, <2>3, RespondSent
    <3> QED
      BY <2>1, <3>1 DEF Answered, Stays, Moving
  <2> QED
    BY <2>1, <2>2, <2>3
<1>6. CASE HandleQuery \/ HandleBad \/ HandleShutdown
  <2>1. PICK x \in Reply :
          /\ Responds(cur, x, "process")
          /\ IF Kind[Frame] = "bad" THEN x = NoId ELSE x = Frame
    BY <1>1, <1>6, HandleResponds
  <2>2. /\ recvBuf[cur] # <<>> /\ Frame = Head(recvBuf[cur])
        /\ recvBuf' = [recvBuf EXCEPT ![cur] = Tail(recvBuf[cur])]
        /\ UNCHANGED <<loopVars, clients, queueVars, kernelVars, userVars>>
    BY <1>1, <1>6, HandleResponds
  <2>3. Sent(cur, Append(sendBuf[cur], x))
    BY <1>1, <2>1, RespondSent
  <2>4. Replied(x)
    BY <2>1, <2>2, <2>3 DEF Replied, Stays
  <2> QED
    BY <2>4 DEF Moving
<1>7. CASE HandleRun
  <2>1. /\ recvBuf[cur] # <<>> /\ Frame = Head(recvBuf[cur]) /\ Kind[Frame] = "run"
        /\ recvBuf' = [recvBuf EXCEPT ![cur] = Tail(recvBuf[cur])]
    BY <1>1, <1>7, TakeEffect DEF HandleRun
  <2> QED
    BY <1>7, <2>1 DEF HandleRun, Submitted, Stays, Moving
<1>8. CASE Flush
  <2>1. Send(cur, sendBuf[cur], "clients") => Sent(cur, sendBuf[cur])
    BY <1>1, SendSent
  <2>2. CASE UNCHANGED <<sendBuf, wire, peer>>
    BY <1>2, <1>8, <2>2 DEF Flush
  <2>3. CASE Sent(cur, sendBuf[cur])
    BY <1>8, <2>3 DEF Flush, Flushed, Stays, Moving
  <2> QED
    BY <1>8, <2>1, <2>2, <2>3 DEF Flush
<1>9. ASSUME NEW fd \in Fd, Receive(fd) PROVE Moving
  <2>1. PICK n \in 0 .. Len(inbox[sock[fd]]) : Took(fd, n)
    BY <1>1, <1>9, ReceiveEffect DEF Took, Stays
  <2> QED
    BY <2>1 DEF Moving
<1>10. CASE Accept
  <2>1. PICK fd \in Fd :
           /\ sock[fd] = None /\ recvBuf' = [recvBuf EXCEPT ![fd] = <<>>]
           /\ sendBuf' = [sendBuf EXCEPT ![fd] = <<>>]
           /\ UNCHANGED <<loopVars, queueVars, inbox, peer, wire, userVars>>
    BY <1>1, <1>10, AcceptEffect
  <2>2. \A g \in Fd : g # fd => recvBuf'[g] = recvBuf[g] /\ sendBuf'[g] = sendBuf[g]
    BY <1>1, <2>1
  <2>3. recvBuf'[fd] = <<>> /\ sendBuf'[fd] = <<>>
    BY <1>1, <2>1
  <2> QED
    BY <2>1, <2>2, <2>3 DEF Dropping
<1>11. ASSUME NEW fd \in Fd, HangUp(fd) \/ ReceiveEnd(fd) PROVE Dropping
  <2>1. /\ sock' = [sock EXCEPT ![fd] = None] /\ recvBuf' = [recvBuf EXCEPT ![fd] = <<>>]
        /\ sendBuf' = [sendBuf EXCEPT ![fd] = <<>>]
        /\ UNCHANGED <<batch, queueVars, inbox, peer, wire, userVars>>
    BY <1>11 DEF HangUp, ReceiveEnd, CloseClient
  <2>2. \A g \in Fd : g # fd => recvBuf'[g] = recvBuf[g] /\ sendBuf'[g] = sendBuf[g]
    BY <1>1, <2>1
  <2>3. recvBuf'[fd] = <<>> /\ sendBuf'[fd] = <<>> /\ sock'[fd] = None
    BY <1>1, <2>1
  <2> QED
    BY <2>1, <2>2, <2>3 DEF Dropping
<1>12. CASE StopServer
  <2>1. \A fd \in Fd : sock'[fd] = None /\ recvBuf'[fd] = <<>> /\ sendBuf'[fd] = <<>>
    BY <1>1, <1>12 DEF StopServer, CloseAll
  <2> QED
    BY <1>12, <2>1 DEF StopServer, Dropping
<1>13. CASE DiscardCompletions \/ StopPool
  <2>1. \A fd \in Fd : sock[fd] = None
    BY <1>1, <1>13 DEF DiscardCompletions, StopPool, DescriptorInv, StoppedIsEmpty
  <2> QED
    BY <1>13, <2>1 DEF DiscardCompletions, StopPool, Dropping
<1>14. ASSUME NEW item \in Completion, PushCompletion(item) PROVE Moving
  <2>1. Finishes(item)
    BY <1>14 DEF PushCompletion, Finishes, Stays
  <2> QED
    BY <2>1 DEF Moving
<1>15. ASSUME NEW c \in Conn, ClientSend(c) \/ ClientRead(c) PROVE Moving
  <2>1. Asks(c) \/ Reads(c)
    BY <1>15 DEF ClientSend, ClientRead, Asks, Reads, Stays
  <2> QED
    BY <2>1 DEF Moving
<1>16. ASSUME NEW c \in Conn, ClientClose(c) PROVE Dropping
  <2>1. /\ peer' = [peer EXCEPT ![c] = IF wire[c] = <<>> THEN "fin" ELSE "rst"]
        /\ wire' = [wire EXCEPT ![c] = <<>>]
        /\ UNCHANGED <<loopVars, clientVars, queueVars, kernelVars, userVars>>
    BY <1>16 DEF ClientClose
  <2>2. \A d \in Conn : d # c => wire'[d] = wire[d]
    BY <1>1, <2>1
  <2>3. wire'[c] = <<>> /\ peer'[c] \in {"fin", "rst"}
    BY <1>1, <2>1
  <2> QED
    BY <2>1, <2>2, <2>3 DEF Dropping
<1>17. ASSUME NEW r \in Request, WorkerStep(r) PROVE Dropping \/ Moving
  <2>1. PICK fd \in Fd : LET item == [fd |-> fd, req |-> r] IN
                            PushCompletion(item) \/ WriteEvent(item)
    BY <1>17 DEF WorkerStep
  <2>2. [fd |-> fd, req |-> r] \in Completion
    BY DEF Completion
  <2> QED
    BY <1>3, <1>14, <2>1, <2>2
<1> QED
  BY <1>3, <1>4, <1>5, <1>6, <1>7, <1>8, <1>9, <1>10, <1>11, <1>12, <1>13, <1>15, <1>16, <1>17
     DEF Next, Main, PollStep, ClientStep, FrameStep, StopStep, User

-----------------------------------------------------------------------------
(* No request is in two places: no place holds one twice, and no two boxes, *)
(* which are the places without their positions, hold the same one.         *)
HeldIds(s) == {s[i].req : i \in DOMAIN s}
OnceIds(s) == \A i, j \in DOMAIN s : s[i].req = s[j].req => i = j
OnceInEach ==
    /\ \A c \in Conn : OnceIn(todo[c]) /\ OnceIn(inbox[c]) /\ OnceIn(wire[c])
    /\ \A fd \in Fd : OnceIn(recvBuf[fd]) /\ OnceIn(sendBuf[fd])
    /\ OnceIds(done) /\ OnceIds(batch)
    /\ \A x, y \in work : x.req = y.req => x = y

Box == ({"todo", "inbox", "wire", "got"} \X Conn) \cup ({"recvBuf", "sendBuf"} \X Fd)
       \cup ({"work", "done", "batch"} \X {0})
Contents ==
    [b \in Box |->
        CASE b[1] = "todo" -> Held(todo[b[2]])
          [] b[1] = "inbox" -> Held(inbox[b[2]])
          [] b[1] = "wire" -> Held(wire[b[2]])
          [] b[1] = "got" -> got[b[2]] \cap Request
          [] b[1] = "recvBuf" -> Held(recvBuf[b[2]])
          [] b[1] = "sendBuf" -> Held(sendBuf[b[2]])
          [] b[1] = "work" -> {x.req : x \in work}
          [] b[1] = "done" -> HeldIds(done)
          [] b[1] = "batch" -> HeldIds(batch)]
Apart(F) == \A a, b \in Box : a # b => F[a] \cap F[b] = {}
EachInOneBox == Apart(Contents)

LEMMA Boxes ==
  /\ \A b \in Box : \/ \E c \in Conn : b \in {<<"todo", c>>, <<"inbox", c>>, <<"wire", c>>,
                                             <<"got", c>>}
                    \/ \E fd \in Fd : b \in {<<"recvBuf", fd>>, <<"sendBuf", fd>>}
                    \/ b \in {<<"work", 0>>, <<"done", 0>>, <<"batch", 0>>}
  /\ \A c \in Conn : {<<"todo", c>>, <<"inbox", c>>, <<"wire", c>>, <<"got", c>>} \subseteq Box
  /\ \A fd \in Fd : {<<"recvBuf", fd>>, <<"sendBuf", fd>>} \subseteq Box
  /\ {<<"work", 0>>, <<"done", 0>>, <<"batch", 0>>} \subseteq Box
  BY DEF Box

LEMMA ContentsNow ==
  /\ \A c \in Conn : /\ Contents[<<"todo", c>>] = Held(todo[c])
                     /\ Contents[<<"inbox", c>>] = Held(inbox[c])
                     /\ Contents[<<"wire", c>>] = Held(wire[c])
                     /\ Contents[<<"got", c>>] = got[c] \cap Request
  /\ \A fd \in Fd : /\ Contents[<<"recvBuf", fd>>] = Held(recvBuf[fd])
                    /\ Contents[<<"sendBuf", fd>>] = Held(sendBuf[fd])
  /\ Contents[<<"work", 0>>] = {x.req : x \in work}
  /\ Contents[<<"done", 0>>] = HeldIds(done)
  /\ Contents[<<"batch", 0>>] = HeldIds(batch)
<1>1. \A c \in Conn : /\ Contents[<<"todo", c>>] = Held(todo[c])
                      /\ Contents[<<"inbox", c>>] = Held(inbox[c])
  BY Boxes DEF Contents
<1>2. \A c \in Conn : /\ Contents[<<"wire", c>>] = Held(wire[c])
                      /\ Contents[<<"got", c>>] = got[c] \cap Request
  BY Boxes DEF Contents
<1>3. \A fd \in Fd : /\ Contents[<<"recvBuf", fd>>] = Held(recvBuf[fd])
                     /\ Contents[<<"sendBuf", fd>>] = Held(sendBuf[fd])
  BY Boxes DEF Contents
<1>4. Contents[<<"work", 0>>] = {x.req : x \in work}
  BY Boxes DEF Contents
<1>5. Contents[<<"done", 0>>] = HeldIds(done) /\ Contents[<<"batch", 0>>] = HeldIds(batch)
  BY Boxes DEF Contents
<1> QED
  BY <1>1, <1>2, <1>3, <1>4, <1>5

LEMMA ContentsNext ==
  /\ \A c \in Conn : /\ Contents'[<<"todo", c>>] = Held(todo'[c])
                     /\ Contents'[<<"inbox", c>>] = Held(inbox'[c])
                     /\ Contents'[<<"wire", c>>] = Held(wire'[c])
                     /\ Contents'[<<"got", c>>] = got'[c] \cap Request
  /\ \A fd \in Fd : /\ Contents'[<<"recvBuf", fd>>] = Held(recvBuf'[fd])
                    /\ Contents'[<<"sendBuf", fd>>] = Held(sendBuf'[fd])
  /\ Contents'[<<"work", 0>>] = {x.req : x \in work'}
  /\ Contents'[<<"done", 0>>] = HeldIds(done')
  /\ Contents'[<<"batch", 0>>] = HeldIds(batch')
<1>1. \A c \in Conn : /\ Contents'[<<"todo", c>>] = Held(todo'[c])
                      /\ Contents'[<<"inbox", c>>] = Held(inbox'[c])
  BY Boxes DEF Contents
<1>2. \A c \in Conn : /\ Contents'[<<"wire", c>>] = Held(wire'[c])
                      /\ Contents'[<<"got", c>>] = got'[c] \cap Request
  BY Boxes DEF Contents
<1>3. \A fd \in Fd : /\ Contents'[<<"recvBuf", fd>>] = Held(recvBuf'[fd])
                     /\ Contents'[<<"sendBuf", fd>>] = Held(sendBuf'[fd])
  BY Boxes DEF Contents
<1>4. Contents'[<<"work", 0>>] = {x.req : x \in work'}
  BY Boxes DEF Contents
<1>5. Contents'[<<"done", 0>>] = HeldIds(done') /\ Contents'[<<"batch", 0>>] = HeldIds(batch')
  BY Boxes DEF Contents
<1> QED
  BY <1>1, <1>2, <1>3, <1>4, <1>5

(* Requests may leave boxes, or move from one to another. *)
LEMMA ShrinkApart ==
  ASSUME NEW F, NEW G, Apart(F), \A z \in Box : G[z] \subseteq F[z]
  PROVE  Apart(G)
<1> SUFFICES ASSUME NEW a \in Box, NEW b \in Box, a # b, NEW r, r \in G[a], r \in G[b]
             PROVE  FALSE
  BY DEF Apart
<1> QED
  BY DEF Apart

LEMMA MoveApart ==
  ASSUME NEW F, NEW G, Apart(F), NEW a \in Box, NEW b \in Box, a # b, NEW X, X \subseteq F[a],
         G[a] \subseteq F[a] \ X, G[b] \subseteq F[b] \cup X,
         \A z \in Box \ {a, b} : G[z] \subseteq F[z]
  PROVE  Apart(G)
<1> SUFFICES ASSUME NEW y \in Box, NEW z \in Box, y # z, NEW r, r \in G[y], r \in G[z]
             PROVE  FALSE
  BY DEF Apart
<1>1. \A w \in Box : w # a => F[w] \cap X = {}
  BY DEF Apart
<1>2. r \in X \/ (r \in F[y] /\ r \in F[z])
  BY <1>1
<1>3. CASE r \in X
  BY <1>1, <1>3
<1> QED
  BY <1>2, <1>3 DEF Apart

LEMMA IdsAppend ==
  ASSUME NEW s \in Seq(Completion), NEW x \in Completion
  PROVE  /\ HeldIds(Append(s, x)) = HeldIds(s) \cup {x.req}
         /\ OnceIds(s) /\ x.req \notin HeldIds(s) => OnceIds(Append(s, x))
<1> DEFINE t == Append(s, x)
           n == Len(s) + 1
<1>1. /\ DOMAIN t = DOMAIN s \cup {n} /\ n \notin DOMAIN s
      /\ \A i \in DOMAIN s : t[i] = s[i]
      /\ t[n] = x
  BY AppendFacts
<1> HIDE DEF t, n
<1>2. HeldIds(t) = HeldIds(s) \cup {x.req}
  BY <1>1 DEF HeldIds
<1>3. ASSUME OnceIds(s), x.req \notin HeldIds(s) PROVE OnceIds(t)
  <2>1. \A i \in DOMAIN s : s[i].req # x.req
    BY <1>3 DEF HeldIds
  <2> QED
    BY <1>1, <1>3, <2>1 DEF OnceIds
<1> QED
  BY <1>2, <1>3 DEF t

LEMMA IdsTail ==
  ASSUME NEW s \in Seq(Completion), s # <<>>
  PROVE  /\ HeldIds(s) = HeldIds(Tail(s)) \cup {Head(s).req}
         /\ OnceIds(s) => OnceIds(Tail(s)) /\ Head(s).req \notin HeldIds(Tail(s))
<1> DEFINE t == Tail(s)
           x == Head(s)
<1>1. /\ DOMAIN t = 1 .. Len(s) - 1 /\ DOMAIN s = 1 .. Len(s) /\ Len(s) \in Nat \ {0}
      /\ \A i \in 1 .. Len(s) - 1 : t[i] = s[i + 1]
      /\ x = s[1]
  BY TakeFacts
<1> HIDE DEF t, x
<1>2. /\ 1 \in DOMAIN s /\ s[1] = x
      /\ \A i \in DOMAIN s : i = 1 \/ (i - 1 \in DOMAIN t /\ s[i] = t[i - 1])
      /\ \A i \in DOMAIN t : i \in Int /\ i + 1 \in DOMAIN s /\ i + 1 # 1 /\ t[i] = s[i + 1]
  <2>1. \A n \in Nat \ {0} :
           /\ 1 \in 1 .. n
           /\ \A i \in 1 .. n : i = 1 \/ i - 1 \in 1 .. n - 1
           /\ \A i \in 1 .. n : (i - 1) + 1 = i
           /\ \A i \in 1 .. n - 1 : i \in Int /\ i + 1 \in 1 .. n /\ i + 1 # 1
    OBVIOUS
  <2>2. ASSUME NEW i \in DOMAIN s, i # 1 PROVE i - 1 \in DOMAIN t /\ s[i] = t[i - 1]
    <3>1. i - 1 \in 1 .. Len(s) - 1 /\ (i - 1) + 1 = i
      BY <1>1, <2>1, <2>2
    <3>2. t[i - 1] = s[(i - 1) + 1]
      BY <1>1, <3>1
    <3> QED
      BY <1>1, <3>1, <3>2
  <2> QED
    BY <1>1, <2>1, <2>2
<1>3. HeldIds(s) = HeldIds(t) \cup {x.req}
  <2>1. \A i \in DOMAIN s : s[i].req \in HeldIds(t) \cup {x.req}
    BY <1>2 DEF HeldIds
  <2>2. \A i \in DOMAIN t : t[i].req \in HeldIds(s)
    BY <1>2 DEF HeldIds
  <2>3. x.req \in HeldIds(s)
    BY <1>2 DEF HeldIds
  <2> QED
    BY <2>1, <2>2, <2>3 DEF HeldIds
<1>4. ASSUME OnceIds(s) PROVE OnceIds(t) /\ x.req \notin HeldIds(t)
  <2>1. ASSUME NEW i \in DOMAIN t, NEW j \in DOMAIN t, t[i].req = t[j].req PROVE i = j
    <3>1. /\ i + 1 \in DOMAIN s /\ j + 1 \in DOMAIN s
          /\ s[i + 1].req = s[j + 1].req
      BY <1>2, <2>1
    <3>2. i + 1 = j + 1
      BY <1>4, <3>1 DEF OnceIds
    <3> QED
      BY <1>2, <3>2
  <2>2. ASSUME NEW i \in DOMAIN t, t[i].req = x.req PROVE FALSE
    BY <1>2, <1>4, <2>2 DEF OnceIds
  <2> QED
    BY <2>1, <2>2 DEF OnceIds, HeldIds
<1> QED
  BY <1>3, <1>4 DEF t, x

(* What send() does to what the buffer and the kernel hold. *)
LEMMA SentHeld ==
  ASSUME TypeInv, NEW fd \in Fd, NEW buf \in Seq(Reply), Sent(fd, buf), OnceIn(buf),
         \A g \in Fd : OnceIn(sendBuf[g]), Held(sendBuf[fd]) \subseteq Held(buf),
         \A c \in Conn : OnceIn(wire[c]) /\ (c = sock[fd] => Held(wire[c]) \cap Held(buf) = {})
  PROVE  /\ \A g \in Fd : OnceIn(sendBuf'[g]) /\ (g # fd => sendBuf'[g] = sendBuf[g])
         /\ \A c \in Conn : OnceIn(wire'[c])
         /\ \E out \in SUBSET Held(buf) :
              /\ Held(sendBuf'[fd]) \subseteq Held(buf) \ out
              /\ \A c \in Conn :
                   Held(wire'[c]) = IF c = sock[fd] THEN Held(wire[c]) \cup out ELSE Held(wire[c])
<1>1. /\ sendBuf \in [Fd -> Seq(Reply)] /\ wire \in [Conn -> Seq(Reply)]
  BY DEF TypeInv, TypeOK, Reply
<1> DEFINE Goal == /\ \A g \in Fd : OnceIn(sendBuf'[g]) /\ (g # fd => sendBuf'[g] = sendBuf[g])
                   /\ \A c \in Conn : OnceIn(wire'[c])
                   /\ \E out \in SUBSET Held(buf) :
                        /\ Held(sendBuf'[fd]) \subseteq Held(buf) \ out
                        /\ \A c \in Conn : Held(wire'[c]) = IF c = sock[fd]
                                                            THEN Held(wire[c]) \cup out
                                                            ELSE Held(wire[c])
<1>2. ASSUME wire' = wire, NEW left, OnceIn(left), Held(left) \subseteq Held(buf),
             sendBuf' = [sendBuf EXCEPT ![fd] = left]
      PROVE  Goal
  <2>1. \A g \in Fd : sendBuf'[g] = IF g = fd THEN left ELSE sendBuf[g]
    BY <1>1, <1>2
  <2>2. {} \in SUBSET Held(buf)
    OBVIOUS
  <2>3. \A c \in Conn : Held(wire'[c]) = IF c = sock[fd] THEN Held(wire[c]) \cup {}
                                                         ELSE Held(wire[c])
    BY <1>2
  <2>4. Held(sendBuf'[fd]) \subseteq Held(buf) \ {}
    BY <1>2, <2>1
  <2>5. \A g \in Fd : OnceIn(sendBuf'[g]) /\ (g # fd => sendBuf'[g] = sendBuf[g])
    BY <1>2, <2>1
  <2> QED
    BY <1>2, <2>2, <2>3, <2>4, <2>5
<1>3. CASE pc' = "killed" /\ UNCHANGED <<sendBuf, wire, peer>>
  <2>1. sendBuf' = [sendBuf EXCEPT ![fd] = sendBuf[fd]] /\ wire' = wire
    BY <1>1, <1>3
  <2> QED
    BY <1>2, <2>1
<1>4. CASE SentNone(fd, buf)
  <2>1. wire' = wire /\ \E left \in {buf, <<>>} : sendBuf' = [sendBuf EXCEPT ![fd] = left]
    BY <1>4 DEF SentNone
  <2> QED
    BY <1>2, <2>1, EmptyHeld
<1>5. ASSUME NEW n \in 0 .. Len(buf), SentSome(fd, buf, n) PROVE Goal
  <2> DEFINE c == sock[fd]
             w == wire[c]
             p == SubSeq(buf, 1, n)
             q == SubSeq(buf, n + 1, Len(buf))
  <2>1. /\ c \in Conn /\ w \in Seq(Reply) /\ wire' = [wire EXCEPT ![c] = w \o p]
        /\ sendBuf' = [sendBuf EXCEPT ![fd] = q]
    BY <1>1, <1>5 DEF SentSome
  <2>2. /\ p \in Seq(Reply) /\ OnceIn(p) /\ OnceIn(q) /\ Held(p) \cap Held(q) = {}
        /\ Held(buf) = Held(p) \cup Held(q)
    BY SplitHeld
  <2> HIDE DEF p, q, w
  <2>3. OnceIn(w) /\ Held(w) \cap Held(buf) = {}
    BY <2>1 DEF w
  <2>4. Held(w \o p) = Held(w) \cup Held(p) /\ OnceIn(w \o p)
    BY <2>1, <2>2, <2>3, JoinHeld
  <2>5. \A d \in Conn : wire'[d] = IF d = c THEN w \o p ELSE wire[d]
    BY <1>1, <2>1
  <2>6. \A g \in Fd : sendBuf'[g] = IF g = fd THEN q ELSE sendBuf[g]
    BY <1>1, <2>1
  <2>7. Held(p) \in SUBSET Held(buf) /\ Held(sendBuf'[fd]) \subseteq Held(buf) \ Held(p)
    BY <2>2, <2>6
  <2>8. \A d \in Conn : Held(wire'[d]) = IF d = c THEN Held(wire[d]) \cup Held(p) ELSE Held(wire[d])
    BY <2>4, <2>5 DEF w
  <2>9. /\ \A g \in Fd : OnceIn(sendBuf'[g]) /\ (g # fd => sendBuf'[g] = sendBuf[g])
        /\ \A d \in Conn : OnceIn(wire'[d])
    BY <2>2, <2>4, <2>5, <2>6
  <2> QED
    BY <2>7, <2>8, <2>9
<1> QED
  BY <1>3, <1>4, <1>5 DEF Sent

(* A box none of whose contents changes. *)
LEMMA OtherBoxes ==
  ASSUME NEW T,
         \A c \in Conn : <<"todo", c>> \notin T => todo'[c] = todo[c],
         \A c \in Conn : <<"inbox", c>> \notin T => inbox'[c] = inbox[c],
         \A c \in Conn : <<"wire", c>> \notin T => wire'[c] = wire[c],
         \A c \in Conn : <<"got", c>> \notin T => got'[c] = got[c],
         \A fd \in Fd : <<"recvBuf", fd>> \notin T => recvBuf'[fd] = recvBuf[fd],
         \A fd \in Fd : <<"sendBuf", fd>> \notin T => sendBuf'[fd] = sendBuf[fd],
         <<"work", 0>> \notin T => work' = work,
         <<"done", 0>> \notin T => done' = done,
         <<"batch", 0>> \notin T => batch' = batch
  PROVE  \A z \in Box : z \notin T => Contents'[z] = Contents[z]
<1> SUFFICES ASSUME NEW z \in Box, z \notin T PROVE Contents'[z] = Contents[z]
  OBVIOUS
<1>1. ASSUME NEW c \in Conn, z = <<"todo", c>> PROVE Contents'[z] = Contents[z]
  <2>1. <<"todo", c>> \notin T
    BY <1>1
  <2>2. todo'[c] = todo[c]
    BY <2>1, Zenon
  <2>3. Contents[<<"todo", c>>] = Held(todo[c]) /\ Contents'[<<"todo", c>>] = Held(todo'[c])
    BY ContentsNow, ContentsNext
  <2> QED
    BY <1>1, <2>2, <2>3
<1>2. ASSUME NEW c \in Conn, z = <<"inbox", c>> PROVE Contents'[z] = Contents[z]
  <2>1. <<"inbox", c>> \notin T
    BY <1>2
  <2>2. inbox'[c] = inbox[c]
    BY <2>1, Zenon
  <2>3. Contents[<<"inbox", c>>] = Held(inbox[c]) /\ Contents'[<<"inbox", c>>] = Held(inbox'[c])
    BY ContentsNow, ContentsNext
  <2> QED
    BY <1>2, <2>2, <2>3
<1>3. ASSUME NEW c \in Conn, z = <<"wire", c>> PROVE Contents'[z] = Contents[z]
  <2>1. <<"wire", c>> \notin T
    BY <1>3
  <2>2. wire'[c] = wire[c]
    BY <2>1, Zenon
  <2>3. Contents[<<"wire", c>>] = Held(wire[c]) /\ Contents'[<<"wire", c>>] = Held(wire'[c])
    BY ContentsNow, ContentsNext
  <2> QED
    BY <1>3, <2>2, <2>3
<1>4. ASSUME NEW c \in Conn, z = <<"got", c>> PROVE Contents'[z] = Contents[z]
  <2>1. <<"got", c>> \notin T
    BY <1>4
  <2>2. got'[c] = got[c]
    BY <2>1, Zenon
  <2>3. Contents[<<"got", c>>] = got[c] \cap Request /\ Contents'[<<"got", c>>] = got'[c] \cap Request
    BY ContentsNow, ContentsNext
  <2> QED
    BY <1>4, <2>2, <2>3
<1>5. ASSUME NEW fd \in Fd, z = <<"recvBuf", fd>> PROVE Contents'[z] = Contents[z]
  <2>1. <<"recvBuf", fd>> \notin T
    BY <1>5
  <2>2. recvBuf'[fd] = recvBuf[fd]
    BY <2>1, Zenon
  <2>3. Contents[<<"recvBuf", fd>>] = Held(recvBuf[fd]) /\ Contents'[<<"recvBuf", fd>>] = Held(recvBuf'[fd])
    BY ContentsNow, ContentsNext
  <2> QED
    BY <1>5, <2>2, <2>3
<1>6. ASSUME NEW fd \in Fd, z = <<"sendBuf", fd>> PROVE Contents'[z] = Contents[z]
  <2>1. <<"sendBuf", fd>> \notin T
    BY <1>6
  <2>2. sendBuf'[fd] = sendBuf[fd]
    BY <2>1, Zenon
  <2>3. Contents[<<"sendBuf", fd>>] = Held(sendBuf[fd]) /\ Contents'[<<"sendBuf", fd>>] = Held(sendBuf'[fd])
    BY ContentsNow, ContentsNext
  <2> QED
    BY <1>6, <2>2, <2>3
<1>7. CASE z = <<"work", 0>>
  BY <1>7, ContentsNow, ContentsNext
<1>8. CASE z = <<"done", 0>>
  BY <1>8, ContentsNow, ContentsNext
<1>9. CASE z = <<"batch", 0>>
  BY <1>9, ContentsNow, ContentsNext
<1> QED
  BY <1>1, <1>2, <1>3, <1>4, <1>5, <1>6, <1>7, <1>8, <1>9, Boxes

LEMMA SentApart ==
  ASSUME TypeInv, NEW fd \in Fd, NEW buf \in Seq(Reply), Sent(fd, buf), OnceIn(buf),
         \A g \in Fd : OnceIn(sendBuf[g]), Held(sendBuf[fd]) \subseteq Held(buf),
         \A c \in Conn : OnceIn(wire[c]),
         NEW H, Apart(H), H[<<"sendBuf", fd>>] = Held(buf),
         \A c \in Conn : H[<<"wire", c>>] = Held(wire[c]),
         \A g \in Fd : g # fd => H[<<"sendBuf", g>>] = Held(sendBuf[g]),
         \A z \in Box : z[1] \notin {"sendBuf", "wire"} => Contents'[z] \subseteq H[z]
  PROVE  /\ \A g \in Fd : OnceIn(sendBuf'[g])
         /\ \A c \in Conn : OnceIn(wire'[c])
         /\ Apart(Contents')
<1>1. \A c \in Conn : <<"wire", c>> \in Box /\ <<"wire", c>> # <<"sendBuf", fd>>
  BY Boxes
<1>2. <<"sendBuf", fd>> \in Box
  BY Boxes
<1>3. \A c \in Conn : Held(wire[c]) \cap Held(buf) = {}
  <2> SUFFICES ASSUME NEW c \in Conn PROVE H[<<"wire", c>>] \cap H[<<"sendBuf", fd>>] = {}
    OBVIOUS
  <2> QED
    BY <1>1, <1>2 DEF Apart
<1>4. PICK out \in SUBSET Held(buf) :
         /\ Held(sendBuf'[fd]) \subseteq Held(buf) \ out
         /\ \A c \in Conn :
              Held(wire'[c]) = IF c = sock[fd] THEN Held(wire[c]) \cup out ELSE Held(wire[c])
  <2>1. \A c \in Conn : OnceIn(wire[c]) /\ (c = sock[fd] => Held(wire[c]) \cap Held(buf) = {})
    BY <1>3
  <2> QED
    BY <2>1, SentHeld, Zenon
<1>5. /\ \A g \in Fd : OnceIn(sendBuf'[g]) /\ (g # fd => sendBuf'[g] = sendBuf[g])
      /\ \A c \in Conn : OnceIn(wire'[c])
  BY <1>3, SentHeld
<1>6. \A c \in Conn : c # sock[fd] => Contents'[<<"wire", c>>] \subseteq H[<<"wire", c>>]
  <2> SUFFICES ASSUME NEW c \in Conn, c # sock[fd]
               PROVE  Contents'[<<"wire", c>>] \subseteq H[<<"wire", c>>]
    OBVIOUS
  <2>1. Held(wire'[c]) = Held(wire[c])
    BY <1>4
  <2>2. H[<<"wire", c>>] = Held(wire[c])
    OBVIOUS
  <2>3. Contents'[<<"wire", c>>] = Held(wire'[c])
    BY ContentsNext
  <2> QED
    BY <2>1, <2>2, <2>3
<1>7. Contents'[<<"sendBuf", fd>>] \subseteq H[<<"sendBuf", fd>>] \ out
  BY <1>4, ContentsNext
<1>8. \A g \in Fd : g # fd => Contents'[<<"sendBuf", g>>] \subseteq H[<<"sendBuf", g>>]
  <2> SUFFICES ASSUME NEW g \in Fd, g # fd
               PROVE  Contents'[<<"sendBuf", g>>] \subseteq H[<<"sendBuf", g>>]
    OBVIOUS
  <2>1. sendBuf'[g] = sendBuf[g]
    BY <1>5
  <2>2. H[<<"sendBuf", g>>] = Held(sendBuf[g])
    OBVIOUS
  <2>3. Contents'[<<"sendBuf", g>>] = Held(sendBuf'[g])
    BY ContentsNext
  <2> QED
    BY <2>1, <2>2, <2>3
<1>9. \A z \in Box : \/ z[1] \notin {"sendBuf", "wire"}
                     \/ \E c \in Conn : z = <<"wire", c>>
                     \/ \E g \in Fd : z = <<"sendBuf", g>>
  BY Boxes
<1>10. CASE sock[fd] \in Conn
  <2> DEFINE a == <<"sendBuf", fd>>
             b == <<"wire", sock[fd]>>
  <2>1. a \in Box /\ b \in Box /\ a # b
    BY <1>1, <1>2, <1>10
  <2>2. out \subseteq H[a] /\ Contents'[a] \subseteq H[a] \ out
    BY <1>7
  <2>3. Contents'[b] \subseteq H[b] \cup out
    <3>1. Held(wire'[sock[fd]]) = Held(wire[sock[fd]]) \cup out
      BY <1>4, <1>10
    <3>2. H[b] = Held(wire[sock[fd]])
      BY <1>10
    <3>3. Contents'[b] = Held(wire'[sock[fd]])
      BY <1>10, ContentsNext
    <3> QED
      BY <3>1, <3>2, <3>3
  <2>4. \A z \in Box \ {a, b} : Contents'[z] \subseteq H[z]
    BY <1>6, <1>8, <1>9
  <2> HIDE DEF a, b
  <2>5. Apart(Contents')
    BY <2>1, <2>2, <2>3, <2>4, MoveApart
  <2> QED
    BY <1>5, <2>5
<1>11. CASE sock[fd] \notin Conn
  <2>1. \A z \in Box : Contents'[z] \subseteq H[z]
    BY <1>6, <1>7, <1>8, <1>9, <1>11
  <2>2. Apart(Contents')
    BY <2>1, ShrinkApart
  <2> QED
    BY <1>5, <2>2
<1> QED
  BY <1>10, <1>11

LEMMA UniqueInit == Init => OnceInEach /\ EachInOneBox
<1> SUFFICES ASSUME Init PROVE OnceInEach /\ EachInOneBox
  OBVIOUS
<1>1. DOMAIN done = {} /\ DOMAIN batch = {}
  <2>1. done = <<>> /\ batch = <<>> /\ <<>> \in Seq({}) /\ Len(<<>>) = 0
    BY EmptySeq DEF Init
  <2>2. DOMAIN done = 1 .. 0 /\ DOMAIN batch = 1 .. 0
    BY <2>1, LenProperties
  <2> QED
    BY <2>2
<1>2. /\ \A c \in Conn : inbox[c] = <<>> /\ wire[c] = <<>> /\ got[c] = {}
      /\ \A fd \in Fd : recvBuf[fd] = <<>> /\ sendBuf[fd] = <<>>
      /\ work = {} /\ todo = script /\ script \in Scripts
  BY DEF Init
<1>3. \A c, d \in Conn : \A i \in DOMAIN todo[c], j \in DOMAIN todo[d] :
         todo[c][i] = todo[d][j] => c = d /\ i = j
  BY <1>2, SentOnceAssumption
<1>4. OnceInEach
  <2>1. \A c \in Conn : OnceIn(todo[c])
    BY <1>3 DEF OnceIn
  <2> QED
    BY <1>1, <1>2, <2>1, EmptyHeld DEF OnceInEach, OnceIds
<1>5. \A z \in Box : (\A c \in Conn : z # <<"todo", c>>) => Contents[z] = {}
  <2>1. \A c \in Conn : /\ Contents[<<"inbox", c>>] = {} /\ Contents[<<"wire", c>>] = {}
                        /\ Contents[<<"got", c>>] = {}
    BY <1>2, EmptyHeld, ContentsNow
  <2>2. \A fd \in Fd : Contents[<<"recvBuf", fd>>] = {} /\ Contents[<<"sendBuf", fd>>] = {}
    BY <1>2, EmptyHeld, ContentsNow
  <2>3. /\ Contents[<<"work", 0>>] = {} /\ Contents[<<"done", 0>>] = {}
        /\ Contents[<<"batch", 0>>] = {}
    BY <1>1, <1>2, ContentsNow DEF HeldIds
  <2> QED
    BY <2>1, <2>2, <2>3, Boxes
<1>6. \A c, d \in Conn : c # d => Held(todo[c]) \cap Held(todo[d]) = {}
  BY <1>3 DEF Held, Within
<1>7. \A c, d \in Conn : c # d => Contents[<<"todo", c>>] \cap Contents[<<"todo", d>>] = {}
  BY <1>6, ContentsNow
<1>8. ASSUME NEW a \in Box, NEW b \in Box, a # b PROVE Contents[a] \cap Contents[b] = {}
  <2>1. CASE \E c, d \in Conn : a = <<"todo", c>> /\ b = <<"todo", d>>
    BY <1>7, <1>8, <2>1
  <2>2. CASE Contents[a] = {} \/ Contents[b] = {}
    BY <2>2
  <2> QED
    BY <1>5, <2>1, <2>2
<1> QED
  BY <1>4, <1>8 DEF EachInOneBox, Apart

LEMMA UniqueStep ==
  ASSUME DescriptorInv, OnceInEach, EachInOneBox, [Next]_vars
  PROVE  OnceInEach' /\ EachInOneBox'
<1>1. /\ TypeInv /\ wire \in [Conn -> Seq(Reply)] /\ todo \in [Conn -> Seq(Request)]
      /\ inbox \in [Conn -> Seq(Request)] /\ got \in [Conn -> SUBSET Reply]
      /\ recvBuf \in [Fd -> Seq(Request)] /\ sendBuf \in [Fd -> Seq(Reply)]
      /\ work \in SUBSET Completion /\ done \in Seq(Completion) /\ batch \in Seq(Completion)
      /\ sock \in [Fd -> Conn \cup {None}] /\ cur \in Fd
  BY DEF DescriptorInv, TypeInv, TypeOK, Reply
<1>2. /\ \A c \in Conn : OnceIn(todo[c]) /\ OnceIn(inbox[c]) /\ OnceIn(wire[c])
      /\ \A fd \in Fd : OnceIn(recvBuf[fd]) /\ OnceIn(sendBuf[fd])
      /\ OnceIds(done) /\ OnceIds(batch)
      /\ \A x, y \in work : x.req = y.req => x = y
  BY DEF OnceInEach
<1>3. Apart(Contents)
  BY DEF EachInOneBox
<1>4. SUFFICES OnceInEach' /\ Apart(Contents')
  BY DEF EachInOneBox, Apart
<1> HIDE DEF Contents
<1>5. OnceIds(<<>>) /\ HeldIds(<<>>) = {}
  <2>1. DOMAIN <<>> = {}
    <3>1. <<>> \in Seq({}) /\ Len(<<>>) = 0
      BY EmptySeq
    <3>2. DOMAIN <<>> = 1 .. 0
      BY <3>1, LenProperties
    <3> QED
      BY <3>2
  <2> QED
    BY <2>1 DEF OnceIds, HeldIds
<1>6. CASE Dropping
  <2>1. \A z \in Box : Contents'[z] \subseteq Contents[z]
    <3>1. \A z \in Box : z[1] \in {"todo", "inbox", "got"} => Contents'[z] = Contents[z]
      <4> DEFINE T == {z \in Box : z[1] \notin {"todo", "inbox", "got"}}
      <4>1. /\ \A c \in Conn : <<"wire", c>> \in T
            /\ \A fd \in Fd : <<"sendBuf", fd>> \in T
            /\ \A fd \in Fd : <<"recvBuf", fd>> \in T
            /\ <<"work", 0>> \in T /\ <<"done", 0>> \in T /\ <<"batch", 0>> \in T
        BY Boxes
      <4>2. \A z \in Box : z[1] \in {"todo", "inbox", "got"} => z \notin T
        OBVIOUS
      <4> HIDE DEF T
      <4>3. UNCHANGED <<todo, inbox, got>>
        BY <1>6 DEF Dropping
      <4>4. \A z \in Box : z \notin T => Contents'[z] = Contents[z]
        BY <4>1, <4>3, OtherBoxes
      <4> QED
        BY <4>2, <4>4
    <3>2. ASSUME NEW c \in Conn PROVE Contents'[<<"wire", c>>] \subseteq Contents[<<"wire", c>>]
      <4>1. Held(wire'[c]) \subseteq Held(wire[c])
        BY <1>6, EmptyHeld DEF Dropping
      <4>2. Contents[<<"wire", c>>] = Held(wire[c]) /\ Contents'[<<"wire", c>>] = Held(wire'[c])
        BY ContentsNow, ContentsNext
      <4> QED
        BY <4>1, <4>2
    <3>3. ASSUME NEW fd \in Fd
          PROVE  /\ Contents'[<<"recvBuf", fd>>] \subseteq Contents[<<"recvBuf", fd>>]
                 /\ Contents'[<<"sendBuf", fd>>] \subseteq Contents[<<"sendBuf", fd>>]
      <4>1. /\ Held(recvBuf'[fd]) \subseteq Held(recvBuf[fd])
            /\ Held(sendBuf'[fd]) \subseteq Held(sendBuf[fd])
        BY <1>6, EmptyHeld DEF Dropping
      <4>2. /\ Contents[<<"recvBuf", fd>>] = Held(recvBuf[fd])
            /\ Contents'[<<"recvBuf", fd>>] = Held(recvBuf'[fd])
            /\ Contents[<<"sendBuf", fd>>] = Held(sendBuf[fd])
            /\ Contents'[<<"sendBuf", fd>>] = Held(sendBuf'[fd])
        BY ContentsNow, ContentsNext
      <4> QED
        BY <4>1, <4>2
    <3>4. Contents'[<<"work", 0>>] \subseteq Contents[<<"work", 0>>]
          /\ Contents'[<<"done", 0>>] \subseteq Contents[<<"done", 0>>]
          /\ Contents'[<<"batch", 0>>] \subseteq Contents[<<"batch", 0>>]
      BY <1>5, <1>6, ContentsNow, ContentsNext DEF Dropping
    <3> QED
      BY <3>1, <3>2, <3>3, <3>4, Boxes
  <2>2. Apart(Contents')
    BY <1>3, <2>1, ShrinkApart
  <2>3. OnceInEach'
    <3>1. \A c \in Conn : OnceIn(todo'[c]) /\ OnceIn(inbox'[c]) /\ OnceIn(wire'[c])
      BY <1>2, <1>6, EmptyHeld DEF Dropping
    <3>2. \A fd \in Fd : OnceIn(recvBuf'[fd]) /\ OnceIn(sendBuf'[fd])
      BY <1>2, <1>6, EmptyHeld DEF Dropping
    <3>3. OnceIds(done') /\ OnceIds(batch') /\ \A x, y \in work' : x.req = y.req => x = y
      BY <1>2, <1>5, <1>6 DEF Dropping
    <3> QED
      BY <3>1, <3>2, <3>3 DEF OnceInEach
  <2> QED
    BY <2>2, <2>3
<1>7. CASE Swapped
  <2>1. batch' = done /\ done' = <<>> /\ batch = <<>>
        /\ UNCHANGED <<todo, inbox, got, wire, recvBuf, sendBuf, work>>
    BY <1>7 DEF Swapped
  <2> DEFINE a == <<"done", 0>>
             b == <<"batch", 0>>
  <2>2. a \in Box /\ b \in Box /\ a # b
    BY Boxes
  <2>3. Contents[a] \subseteq Contents[a] /\ Contents'[a] \subseteq Contents[a] \ Contents[a]
        /\ Contents'[b] \subseteq Contents[b] \cup Contents[a]
    BY <1>5, <2>1, ContentsNow, ContentsNext
  <2>4. \A z \in Box : z \notin {a, b} => Contents'[z] = Contents[z]
    BY <2>1, OtherBoxes
  <2> HIDE DEF a, b
  <2>5. Apart(Contents')
    BY <1>3, <2>2, <2>3, <2>4, MoveApart
  <2> QED
    BY <1>2, <1>5, <2>1, <2>5 DEF OnceInEach
<1>8. CASE Discarded
  <2>1. batch # <<>> /\ batch' = Tail(batch)
        /\ UNCHANGED <<todo, inbox, got, wire, recvBuf, sendBuf, work, done>>
    BY <1>8 DEF Discarded
  <2>2. HeldIds(batch') \subseteq HeldIds(batch) /\ OnceIds(batch')
    BY <1>1, <1>2, <2>1, IdsTail
  <2>3. \A z \in Box : Contents'[z] \subseteq Contents[z]
    <3>1. \A z \in Box : z \notin {<<"batch", 0>>} => Contents'[z] = Contents[z]
      BY <2>1, OtherBoxes
    <3>2. Contents'[<<"batch", 0>>] \subseteq Contents[<<"batch", 0>>]
      BY <2>2, ContentsNow, ContentsNext
    <3> QED
      BY <3>1, <3>2
  <2>4. Apart(Contents')
    BY <1>3, <2>3, ShrinkApart
  <2> QED
    BY <1>2, <2>1, <2>2, <2>4 DEF OnceInEach
<1>9. ASSUME NEW fd \in Fd, NEW x \in Reply, NEW src \in Box,
             src \in {<<"batch", 0>>, <<"recvBuf", fd>>},
             {x} \cap Request \subseteq Contents[src],
             Contents'[src] \subseteq Contents[src] \ {x},
             \A z \in Box : z # src /\ z[1] \notin {"sendBuf", "wire"}
                              => Contents'[z] \subseteq Contents[z],
             Sent(fd, Append(sendBuf[fd], x))
      PROVE  /\ Apart(Contents')
             /\ \A g \in Fd : OnceIn(sendBuf'[g])
             /\ \A c \in Conn : OnceIn(wire'[c])
  <2> DEFINE snd == <<"sendBuf", fd>>
             buf == Append(sendBuf[fd], x)
             X == {x} \cap Request
             H == [z \in Box |-> IF z = src THEN Contents[z] \ X
                                 ELSE IF z = snd THEN Contents[z] \cup X ELSE Contents[z]]
  <2>1. snd \in Box /\ src # snd /\ src[1] \notin {"sendBuf", "wire"}
    <3>1. snd \in Box
      BY Boxes
    <3>2. CASE src = <<"batch", 0>>
      BY <3>1, <3>2
    <3>3. CASE src = <<"recvBuf", fd>>
      BY <3>1, <3>3
    <3> QED
      BY <1>9, <3>2, <3>3
  <2>2. Contents[src] \cap Contents[snd] = {} /\ Contents[snd] = Held(sendBuf[fd])
    BY <1>3, <2>1, ContentsNow DEF Apart
  <2>3. x \notin Held(sendBuf[fd])
    BY <1>9, <2>2 DEF Held
  <2>4. buf \in Seq(Reply) /\ Held(buf) = Held(sendBuf[fd]) \cup X /\ OnceIn(buf)
    BY <1>1, <1>2, <2>3, AppendHeld, AppendFacts
  <2>5. /\ H[src] = Contents[src] \ X /\ H[snd] = Contents[snd] \cup X
        /\ \A z \in Box \ {src, snd} : H[z] = Contents[z]
    BY <2>1
  <2>6. Sent(fd, buf)
    BY <1>9
  <2> HIDE DEF H, buf, X
  <2>7. Apart(H)
    <3>1. /\ X \subseteq Contents[src] /\ H[src] \subseteq Contents[src] \ X
          /\ H[snd] \subseteq Contents[snd] \cup X
          /\ \A z \in Box \ {src, snd} : H[z] \subseteq Contents[z]
      BY <1>9, <2>5 DEF X
    <3> HIDE DEF snd
    <3> QED
      BY <1>3, <2>1, <3>1, MoveApart
  <2>8. H[snd] = Held(buf)
    BY <2>2, <2>4, <2>5
  <2>9. \A c \in Conn : H[<<"wire", c>>] = Held(wire[c])
    <3> SUFFICES ASSUME NEW c \in Conn PROVE H[<<"wire", c>>] = Held(wire[c])
      OBVIOUS
    <3> DEFINE w == <<"wire", c>>
    <3>1. w \in Box /\ w # snd /\ w[1] = "wire"
      BY Boxes
    <3>2. w # src
      BY <2>1, <3>1
    <3> QED
      BY <2>5, <3>1, <3>2, ContentsNow
  <2>10. \A g \in Fd : g # fd => H[<<"sendBuf", g>>] = Held(sendBuf[g])
    <3> SUFFICES ASSUME NEW g \in Fd, g # fd PROVE H[<<"sendBuf", g>>] = Held(sendBuf[g])
      OBVIOUS
    <3> DEFINE w == <<"sendBuf", g>>
    <3>1. w \in Box /\ w # snd /\ w[1] = "sendBuf"
      BY Boxes
    <3>2. w # src
      BY <2>1, <3>1
    <3> QED
      BY <2>5, <3>1, <3>2, ContentsNow
  <2>11. \A z \in Box : z[1] \notin {"sendBuf", "wire"} => Contents'[z] \subseteq H[z]
    <3> SUFFICES ASSUME NEW z \in Box, z[1] \notin {"sendBuf", "wire"}
                 PROVE  Contents'[z] \subseteq H[z]
      OBVIOUS
    <3>1. CASE z = src
      BY <1>9, <2>5, <3>1 DEF X
    <3>2. CASE z # src
      BY <1>9, <2>1, <2>5, <3>2
    <3> QED
      BY <3>1, <3>2
  <2>12. Held(sendBuf[fd]) \subseteq Held(buf)
    BY <2>4
  <2>13. \A g \in Fd : OnceIn(sendBuf[g])
    BY <1>2
  <2>14. \A c \in Conn : OnceIn(wire[c])
    BY <1>2
  <2> QED
    BY <1>1, <2>4, <2>6, <2>7, <2>8, <2>9, <2>10, <2>11, <2>12, <2>13, <2>14, SentApart
<1>10. CASE Answered
  <2> DEFINE fd == Head(batch).fd
             x == Head(batch).req
             src == <<"batch", 0>>
  <2>1. /\ batch # <<>> /\ batch' = Tail(batch) /\ Sent(fd, Append(sendBuf[fd], x))
        /\ UNCHANGED <<todo, inbox, got, recvBuf, work, done>>
    BY <1>10 DEF Answered
  <2>2. fd \in Fd /\ x \in Request /\ x \in Reply
    <3>1. Head(batch) \in Completion
      BY <1>1, <2>1, TakeFacts
    <3> QED
      BY <3>1 DEF Completion, Reply
  <2>3. HeldIds(batch) = HeldIds(batch') \cup {x} /\ OnceIds(batch') /\ x \notin HeldIds(batch')
    BY <1>1, <1>2, <2>1, IdsTail
  <2>4. src \in Box /\ Contents[src] = HeldIds(batch) /\ Contents'[src] = HeldIds(batch')
    BY Boxes, ContentsNow, ContentsNext
  <2>5. \A z \in Box : z # src /\ z[1] \notin {"sendBuf", "wire"} => Contents'[z] \subseteq Contents[z]
    <3> DEFINE T == {src} \cup {z \in Box : z[1] \in {"sendBuf", "wire"}}
    <3>1. /\ \A c \in Conn : <<"wire", c>> \in T
          /\ \A g \in Fd : <<"sendBuf", g>> \in T
      BY Boxes
    <3>2. src \in T
      OBVIOUS
    <3>3. \A z \in Box : z # src /\ z[1] \notin {"sendBuf", "wire"} => z \notin T
      OBVIOUS
    <3> HIDE DEF T
    <3>4. \A z \in Box : z \notin T => Contents'[z] = Contents[z]
      BY <2>1, <3>1, <3>2, OtherBoxes
    <3> QED
      BY <3>3, <3>4
  <2> HIDE DEF fd, x
  <2>6. /\ {x} \cap Request \subseteq Contents[src] /\ Contents'[src] \subseteq Contents[src] \ {x}
    BY <2>3, <2>4
  <2>7. /\ Apart(Contents')
        /\ \A g \in Fd : OnceIn(sendBuf'[g])
        /\ \A c \in Conn : OnceIn(wire'[c])
    BY <1>9, <2>1, <2>2, <2>4, <2>5, <2>6
  <2> QED
    BY <1>2, <2>1, <2>3, <2>7 DEF OnceInEach
<1>11. ASSUME NEW x \in Reply, Replied(x) PROVE OnceInEach' /\ Apart(Contents')
  <2> DEFINE s == recvBuf[cur]
             src == <<"recvBuf", cur>>
  <2>1. /\ s # <<>> /\ recvBuf' = [recvBuf EXCEPT ![cur] = Tail(s)]
        /\ Sent(cur, Append(sendBuf[cur], x)) /\ x \in {NoId, Head(s)}
        /\ UNCHANGED <<todo, inbox, got, work, done, batch>>
    BY <1>11 DEF Replied
  <2>2. s \in Seq(Request) /\ Head(s) \in Request /\ NoId \notin Request
    BY <1>1, <2>1, TakeFacts, ConstantFacts
  <2>3. \A g \in Fd : recvBuf'[g] = IF g = cur THEN Tail(s) ELSE recvBuf[g]
    BY <1>1, <2>1
  <2>4. src \in Box /\ Contents[src] = Held(s) /\ Contents'[src] = Held(Tail(s))
    BY <1>1, <2>3, Boxes, ContentsNow, ContentsNext
  <2>5. \A z \in Box : z # src /\ z[1] \notin {"sendBuf", "wire"} => Contents'[z] \subseteq Contents[z]
    <3> DEFINE T == {src} \cup {z \in Box : z[1] \in {"sendBuf", "wire"}}
    <3>1. /\ \A c \in Conn : <<"wire", c>> \in T
          /\ \A g \in Fd : <<"sendBuf", g>> \in T
      BY Boxes
    <3>2. \A g \in Fd : <<"recvBuf", g>> \notin T => recvBuf'[g] = recvBuf[g]
      BY <2>3
    <3>3. \A z \in Box : z # src /\ z[1] \notin {"sendBuf", "wire"} => z \notin T
      OBVIOUS
    <3> HIDE DEF T
    <3>4. \A z \in Box : z \notin T => Contents'[z] = Contents[z]
      BY <2>1, <3>1, <3>2, OtherBoxes
    <3> QED
      BY <3>3, <3>4
  <2> HIDE DEF s
  <2>6. /\ OnceIn(s) /\ Held(s) = Held(Tail(s)) \cup ({Head(s)} \cap Request)
        /\ OnceIn(Tail(s)) /\ Head(s) \notin Held(Tail(s))
    <3>1. OnceIn(s)
      BY <1>1, <1>2 DEF s
    <3> QED
      BY <2>1, <2>2, <3>1, TailHeld
  <2>7. /\ {x} \cap Request \subseteq Contents[src] /\ Contents'[src] \subseteq Contents[src] \ {x}
    <3>1. NoId \notin Held(Tail(s))
      BY <2>2 DEF Held
    <3> QED
      BY <2>1, <2>2, <2>4, <2>6, <3>1
  <2>8. /\ Apart(Contents')
        /\ \A g \in Fd : OnceIn(sendBuf'[g])
        /\ \A c \in Conn : OnceIn(wire'[c])
    BY <1>1, <1>9, <2>1, <2>4, <2>5, <2>7
  <2>9. \A g \in Fd : OnceIn(recvBuf'[g])
    BY <1>2, <2>3, <2>6
  <2> QED
    BY <1>2, <2>1, <2>8, <2>9 DEF OnceInEach
<1>12. CASE Flushed
  <2> DEFINE buf == sendBuf[cur]
  <2>1. /\ Sent(cur, buf) /\ UNCHANGED <<todo, inbox, got, recvBuf, work, done, batch>>
    BY <1>12 DEF Flushed
  <2>2. \A z \in Box : z[1] \notin {"sendBuf", "wire"} => Contents'[z] \subseteq Contents[z]
    <3> DEFINE T == {z \in Box : z[1] \in {"sendBuf", "wire"}}
    <3>1. /\ \A c \in Conn : <<"wire", c>> \in T
          /\ \A g \in Fd : <<"sendBuf", g>> \in T
      BY Boxes
    <3>2. \A z \in Box : z[1] \notin {"sendBuf", "wire"} => z \notin T
      OBVIOUS
    <3> HIDE DEF T
    <3>3. \A z \in Box : z \notin T => Contents'[z] = Contents[z]
      BY <2>1, <3>1, OtherBoxes
    <3> QED
      BY <3>2, <3>3
  <2>3. /\ buf \in Seq(Reply) /\ OnceIn(buf) /\ Held(sendBuf[cur]) \subseteq Held(buf)
        /\ Contents[<<"sendBuf", cur>>] = Held(buf)
    BY <1>1, <1>2, ContentsNow
  <2> HIDE DEF buf
  <2>4. /\ \A g \in Fd : OnceIn(sendBuf[g])
        /\ \A c \in Conn : OnceIn(wire[c])
    BY <1>2
  <2>5. /\ \A c \in Conn : Contents[<<"wire", c>>] = Held(wire[c])
        /\ \A g \in Fd : g # cur => Contents[<<"sendBuf", g>>] = Held(sendBuf[g])
    BY ContentsNow
  <2>6. /\ \A g \in Fd : OnceIn(sendBuf'[g])
        /\ \A c \in Conn : OnceIn(wire'[c])
        /\ Apart(Contents')
    BY <1>1, <1>3, <2>1, <2>2, <2>3, <2>4, <2>5, SentApart
  <2> QED
    BY <1>2, <2>1, <2>6 DEF OnceInEach
<1>13. CASE Submitted
  <2> DEFINE s == recvBuf[cur]
             r == Head(s)
             item == [fd |-> cur, req |-> r]
             a == <<"recvBuf", cur>>
             b == <<"work", 0>>
  <2>1. /\ s # <<>> /\ recvBuf' = [recvBuf EXCEPT ![cur] = Tail(s)]
        /\ work' = work \cup {item}
        /\ UNCHANGED <<todo, inbox, got, wire, sendBuf, done, batch>>
    BY <1>13 DEF Submitted
  <2>2. s \in Seq(Request) /\ r \in Request /\ OnceIn(s) /\ item.req = r
    BY <1>1, <1>2, <2>1, TakeFacts
  <2>3. Held(s) = Held(Tail(s)) \cup {r} /\ OnceIn(Tail(s)) /\ r \notin Held(Tail(s))
    BY <2>1, <2>2, TailHeld
  <2>4. \A g \in Fd : recvBuf'[g] = IF g = cur THEN Tail(s) ELSE recvBuf[g]
    BY <1>1, <2>1
  <2>5. /\ a \in Box /\ b \in Box /\ a # b /\ Contents[a] = Held(s) /\ Contents'[a] = Held(Tail(s))
        /\ Contents[b] = {y.req : y \in work} /\ Contents'[b] = {y.req : y \in work'}
    BY <1>1, <2>4, Boxes, ContentsNow, ContentsNext
  <2>6. \A z \in Box : z \notin {a, b} => Contents'[z] = Contents[z]
    <3>1. \A g \in Fd : <<"recvBuf", g>> \notin {a, b} => recvBuf'[g] = recvBuf[g]
      BY <2>4
    <3> QED
      BY <2>1, <3>1, OtherBoxes
  <2> HIDE DEF a, b, item, s, r
  <2>7. Contents'[b] \subseteq Contents[b] \cup {r}
    BY <2>1, <2>2, <2>5
  <2>8. {r} \subseteq Contents[a] /\ Contents'[a] \subseteq Contents[a] \ {r}
    BY <2>3, <2>5
  <2>9. Apart(Contents')
    BY <1>3, <2>5, <2>6, <2>7, <2>8, MoveApart
  <2>10. \A y \in work : y.req # r
    <3>1. r \notin Contents[b]
      BY <1>3, <2>5, <2>8 DEF Apart
    <3> QED
      BY <2>5, <3>1
  <2>11. \A y, z \in work' : y.req = z.req => y = z
    BY <1>2, <2>1, <2>2, <2>10
  <2>12. \A g \in Fd : OnceIn(recvBuf'[g])
    BY <1>2, <2>3, <2>4
  <2> QED
    BY <1>2, <2>1, <2>9, <2>11, <2>12 DEF OnceInEach
<1>14. ASSUME NEW fd \in Fd, NEW n \in 0 .. Len(inbox[sock[fd]]), Took(fd, n)
       PROVE  OnceInEach' /\ Apart(Contents')
  <2> DEFINE c == sock[fd]
             s == inbox[c]
             t == recvBuf[fd]
             p == SubSeq(s, 1, n)
             q == SubSeq(s, n + 1, Len(s))
             a == <<"inbox", c>>
             b == <<"recvBuf", fd>>
  <2>1. /\ c \in Conn /\ recvBuf' = [recvBuf EXCEPT ![fd] = t \o p]
        /\ inbox' = [inbox EXCEPT ![c] = q]
        /\ UNCHANGED <<todo, got, wire, sendBuf, work, done, batch>>
    BY <1>14 DEF Took
  <2>2. s \in Seq(Request) /\ t \in Seq(Request) /\ OnceIn(s) /\ OnceIn(t)
    BY <1>1, <1>2, <2>1
  <2>3. /\ p \in Seq(Request) /\ Held(s) = Held(p) \cup Held(q)
        /\ OnceIn(p) /\ OnceIn(q) /\ Held(p) \cap Held(q) = {}
    <3> HIDE DEF s
    <3> QED
      BY <2>2, SplitHeld DEF s
  <2>4. \A d \in Conn : inbox'[d] = IF d = c THEN q ELSE inbox[d]
    BY <1>1, <2>1
  <2>5. \A g \in Fd : recvBuf'[g] = IF g = fd THEN t \o p ELSE recvBuf[g]
    BY <1>1, <2>1
  <2>6. /\ a \in Box /\ b \in Box /\ a # b /\ Contents[a] = Held(s) /\ Contents'[a] = Held(q)
        /\ Contents[b] = Held(t) /\ Contents'[b] = Held(t \o p)
    <3>1. inbox'[c] = q /\ recvBuf'[fd] = t \o p
      BY <2>1, <2>4, <2>5
    <3> HIDE DEF p, q, c
    <3>2. a \in Box /\ Contents[a] = Held(s) /\ Contents'[a] = Held(q)
      BY <2>1, <3>1, Boxes, ContentsNow, ContentsNext
    <3>3. b \in Box /\ Contents[b] = Held(t) /\ Contents'[b] = Held(t \o p)
      BY <3>1, Boxes, ContentsNow, ContentsNext
    <3> QED
      BY <3>2, <3>3
  <2>7. \A z \in Box : z \notin {a, b} => Contents'[z] = Contents[z]
    <3>1. \A g \in Fd : <<"recvBuf", g>> \notin {a, b} => recvBuf'[g] = recvBuf[g]
      BY <2>5
    <3>2. \A d \in Conn : <<"inbox", d>> \notin {a, b} => inbox'[d] = inbox[d]
      BY <2>4
    <3> HIDE DEF a, b
    <3> QED
      BY <2>1, <3>1, <3>2, OtherBoxes
  <2> HIDE DEF a, b, c, s, t, p, q
  <2>8. Held(t) \cap Held(s) = {}
    BY <1>3, <2>6 DEF Apart
  <2>9. Held(t \o p) = Held(t) \cup Held(p) /\ OnceIn(t \o p)
    BY <2>2, <2>3, <2>8, JoinHeld
  <2>10. /\ Held(p) \subseteq Contents[a] /\ Contents'[a] \subseteq Contents[a] \ Held(p)
         /\ Contents'[b] \subseteq Contents[b] \cup Held(p)
    BY <2>3, <2>6, <2>9
  <2>11. Apart(Contents')
    BY <1>3, <2>6, <2>7, <2>10, MoveApart
  <2>12. \A g \in Fd : OnceIn(recvBuf'[g])
    BY <1>2, <2>5, <2>9
  <2>13. \A d \in Conn : OnceIn(inbox'[d])
    BY <1>2, <2>3, <2>4
  <2> QED
    BY <1>2, <2>1, <2>11, <2>12, <2>13 DEF OnceInEach
<1>15. ASSUME NEW item \in Completion, Finishes(item) PROVE OnceInEach' /\ Apart(Contents')
  <2> DEFINE a == <<"work", 0>>
             b == <<"done", 0>>
             X == {item.req}
  <2>1. /\ item \in work /\ work' = work \ {item} /\ done' = Append(done, item)
        /\ UNCHANGED <<todo, inbox, got, wire, recvBuf, sendBuf, batch>>
    BY <1>15 DEF Finishes
  <2>2. /\ a \in Box /\ b \in Box /\ a # b
        /\ Contents[a] = {y.req : y \in work} /\ Contents'[a] = {y.req : y \in work'}
        /\ Contents[b] = HeldIds(done) /\ Contents'[b] = HeldIds(done')
    BY Boxes, ContentsNow, ContentsNext
  <2>3. \A z \in Box : z \notin {a, b} => Contents'[z] = Contents[z]
    BY <2>1, OtherBoxes
  <2> HIDE DEF a, b
  <2>4. X \subseteq Contents[a] /\ Contents'[a] \subseteq Contents[a] \ X
    BY <1>2, <2>1, <2>2
  <2>5. item.req \notin HeldIds(done)
    BY <1>3, <2>2, <2>4 DEF Apart
  <2>6. HeldIds(done') = HeldIds(done) \cup X /\ OnceIds(done')
    BY <1>1, <1>2, <2>1, <2>5, IdsAppend
  <2>7. Contents'[b] \subseteq Contents[b] \cup X
    BY <2>2, <2>6
  <2> HIDE DEF X
  <2>8. Apart(Contents')
    BY <1>3, <2>2, <2>3, <2>4, <2>7, MoveApart
  <2> QED
    BY <1>2, <2>1, <2>6, <2>8 DEF OnceInEach
<1>16. ASSUME NEW c \in Conn, Asks(c) PROVE OnceInEach' /\ Apart(Contents')
  <2> DEFINE s == todo[c]
             t == inbox[c]
             x == Head(s)
             a == <<"todo", c>>
             b == <<"inbox", c>>
  <2>1. /\ s # <<>> /\ inbox' = [inbox EXCEPT ![c] = Append(t, x)]
        /\ todo' = [todo EXCEPT ![c] = Tail(s)]
        /\ UNCHANGED <<got, wire, recvBuf, sendBuf, work, done, batch>>
    BY <1>16 DEF Asks
  <2>2. s \in Seq(Request) /\ t \in Seq(Request) /\ x \in Request /\ OnceIn(s) /\ OnceIn(t)
    BY <1>1, <1>2, <2>1, TakeFacts
  <2>3. Held(s) = Held(Tail(s)) \cup {x} /\ OnceIn(Tail(s)) /\ x \notin Held(Tail(s))
    BY <2>1, <2>2, TailHeld
  <2>4. /\ \A d \in Conn : inbox'[d] = IF d = c THEN Append(t, x) ELSE inbox[d]
        /\ \A d \in Conn : todo'[d] = IF d = c THEN Tail(s) ELSE todo[d]
    BY <1>1, <2>1
  <2>5. /\ a \in Box /\ b \in Box /\ a # b
        /\ Contents[a] = Held(s) /\ Contents'[a] = Held(Tail(s))
        /\ Contents[b] = Held(t) /\ Contents'[b] = Held(Append(t, x))
    BY <2>4, Boxes, ContentsNow, ContentsNext
  <2>6. \A z \in Box : z \notin {a, b} => Contents'[z] = Contents[z]
    <3>1. /\ \A d \in Conn : <<"inbox", d>> \notin {a, b} => inbox'[d] = inbox[d]
          /\ \A d \in Conn : <<"todo", d>> \notin {a, b} => todo'[d] = todo[d]
      BY <2>4
    <3> QED
      BY <2>1, <3>1, OtherBoxes
  <2> HIDE DEF a, b, s, t, x
  <2>7. x \notin Held(t)
    BY <1>3, <2>3, <2>5 DEF Apart
  <2>8. Held(Append(t, x)) = Held(t) \cup {x} /\ OnceIn(Append(t, x))
    BY <2>2, <2>7, AppendHeld
  <2>9. /\ {x} \subseteq Contents[a] /\ Contents'[a] \subseteq Contents[a] \ {x}
        /\ Contents'[b] \subseteq Contents[b] \cup {x}
    BY <2>3, <2>5, <2>8
  <2>10. Apart(Contents')
    BY <1>3, <2>5, <2>6, <2>9, MoveApart
  <2>11. \A d \in Conn : OnceIn(inbox'[d]) /\ OnceIn(todo'[d])
    BY <1>2, <2>3, <2>4, <2>8
  <2> QED
    BY <1>2, <2>1, <2>10, <2>11 DEF OnceInEach
<1>17. ASSUME NEW c \in Conn, Reads(c) PROVE OnceInEach' /\ Apart(Contents')
  <2> DEFINE s == wire[c]
             X == {Head(s)} \cap Request
             a == <<"wire", c>>
             b == <<"got", c>>
  <2>1. /\ s # <<>> /\ got' = [got EXCEPT ![c] = got[c] \cup {Head(s)}]
        /\ wire' = [wire EXCEPT ![c] = Tail(s)]
        /\ UNCHANGED <<todo, inbox, recvBuf, sendBuf, work, done, batch>>
    BY <1>17 DEF Reads
  <2>2. s \in Seq(Reply) /\ OnceIn(s)
    BY <1>1, <1>2
  <2>3. Held(s) = Held(Tail(s)) \cup X /\ OnceIn(Tail(s)) /\ Head(s) \notin Held(Tail(s))
    BY <2>1, <2>2, TailHeld
  <2>4. /\ \A d \in Conn : got'[d] = IF d = c THEN got[c] \cup {Head(s)} ELSE got[d]
        /\ \A d \in Conn : wire'[d] = IF d = c THEN Tail(s) ELSE wire[d]
    BY <1>1, <2>1
  <2>5. /\ a \in Box /\ b \in Box /\ a # b
        /\ Contents[a] = Held(s) /\ Contents'[a] = Held(Tail(s))
        /\ Contents[b] = got[c] \cap Request
        /\ Contents'[b] = (got[c] \cup {Head(s)}) \cap Request
    BY <2>4, Boxes, ContentsNow, ContentsNext
  <2>6. \A z \in Box : z \notin {a, b} => Contents'[z] = Contents[z]
    <3>1. /\ \A d \in Conn : <<"got", d>> \notin {a, b} => got'[d] = got[d]
          /\ \A d \in Conn : <<"wire", d>> \notin {a, b} => wire'[d] = wire[d]
      BY <2>4
    <3> QED
      BY <2>1, <3>1, OtherBoxes
  <2> HIDE DEF a, b, s
  <2>7. /\ X \subseteq Contents[a] /\ Contents'[a] \subseteq Contents[a] \ X
        /\ Contents'[b] \subseteq Contents[b] \cup X
    BY <2>3, <2>5
  <2>8. Apart(Contents')
    BY <1>3, <2>5, <2>6, <2>7, MoveApart
  <2>9. \A d \in Conn : OnceIn(wire'[d])
    BY <1>2, <2>3, <2>4
  <2> QED
    BY <1>2, <2>1, <2>8, <2>9 DEF OnceInEach
<1> QED
  BY <1>6, <1>7, <1>8, <1>10, <1>11, <1>12, <1>13, <1>14, <1>15, <1>16, <1>17, DataStep DEF Moving

-----------------------------------------------------------------------------
(* A request stays with the connection of its client while it has one: what *)
(* is in the pool or in a completion carries its descriptor.                *)
Items(s) == {s[i] : i \in DOMAIN s}
InFlight == work \cup Items(done) \cup Items(batch)
OnlyRuns == \A item \in InFlight : Kind[item.req] = "run"

(* The server has closed the connection of c: it will never be open again. *)
Gone(c) == peer[c] # "idle" /\ ~Waiting(c) /\ \A fd \in Fd : sock[fd] # c
Owner(c, r) == Within(r, script[c])
HomeIs(c, r) ==
    /\ \A d \in Conn : Within(r, todo[d]) \/ Within(r, inbox[d]) \/ Within(r, wire[d])
                          \/ r \in got[d] => d = c
    /\ \A fd \in Fd : Within(r, recvBuf[fd]) \/ Within(r, sendBuf[fd]) => sock[fd] = c
    /\ \A item \in InFlight : item.req = r => sock[item.fd] = c
AtHome == \A c \in Conn : \A r \in Request : Owner(c, r) /\ ~Gone(c) => HomeIs(c, r)

LEMMA ItemsFacts ==
  /\ Items(<<>>) = {}
  /\ \A s \in Seq(Completion) : \A x \in Completion : Items(Append(s, x)) = Items(s) \cup {x}
  /\ \A s \in Seq(Completion) : s # <<>> => Items(s) = Items(Tail(s)) \cup {Head(s)}
  /\ \A s \in Seq(Completion) : Items(s) \subseteq Completion
<1>1. Items(<<>>) = {}
  <2>1. DOMAIN <<>> = {}
    <3>1. <<>> \in Seq({}) /\ Len(<<>>) = 0
      BY EmptySeq
    <3>2. DOMAIN <<>> = 1 .. 0
      BY <3>1, LenProperties
    <3> QED
      BY <3>2
  <2> QED
    BY <2>1 DEF Items
<1>2. ASSUME NEW s \in Seq(Completion), NEW x \in Completion
      PROVE  Items(Append(s, x)) = Items(s) \cup {x}
  <2> DEFINE t == Append(s, x)
             n == Len(s) + 1
  <2>1. /\ DOMAIN t = DOMAIN s \cup {n} /\ n \notin DOMAIN s
        /\ \A i \in DOMAIN s : t[i] = s[i]
        /\ t[n] = x
    BY AppendFacts
  <2> HIDE DEF t, n
  <2>2. Items(t) = Items(s) \cup {x}
    BY <2>1 DEF Items
  <2> QED
    BY <2>2 DEF t
<1>3. ASSUME NEW s \in Seq(Completion), s # <<>> PROVE Items(s) = Items(Tail(s)) \cup {Head(s)}
  <2> DEFINE t == Tail(s)
             x == Head(s)
  <2>1. /\ DOMAIN t = 1 .. Len(s) - 1 /\ DOMAIN s = 1 .. Len(s) /\ Len(s) \in Nat \ {0}
        /\ \A i \in 1 .. Len(s) - 1 : t[i] = s[i + 1]
        /\ x = s[1]
    BY <1>3, TakeFacts
  <2> HIDE DEF t, x
  <2>2. \A n \in Nat \ {0} :
           /\ 1 \in 1 .. n
           /\ \A i \in 1 .. n : i = 1 \/ i - 1 \in 1 .. n - 1
           /\ \A i \in 1 .. n : (i - 1) + 1 = i
           /\ \A i \in 1 .. n - 1 : i + 1 \in 1 .. n
    OBVIOUS
  <2>3. ASSUME NEW i \in DOMAIN s PROVE s[i] \in Items(t) \cup {x}
    <3>1. CASE i # 1
      <4>1. i - 1 \in DOMAIN t /\ (i - 1) + 1 = i
        BY <2>1, <2>2, <3>1
      <4>2. t[i - 1] = s[(i - 1) + 1]
        BY <2>1, <4>1
      <4> QED
        BY <4>1, <4>2 DEF Items
    <3> QED
      BY <2>1, <3>1
  <2>4. \A i \in DOMAIN t : t[i] \in Items(s)
    BY <2>1, <2>2 DEF Items
  <2>5. x \in Items(s)
    BY <2>1, <2>2 DEF Items
  <2>6. Items(s) = Items(t) \cup {x}
    BY <2>3, <2>4, <2>5 DEF Items
  <2> QED
    BY <2>6 DEF t, x
<1>4. ASSUME NEW s \in Seq(Completion) PROVE Items(s) \subseteq Completion
  BY ElementOfSeq, LenProperties DEF Items
<1> QED
  BY <1>1, <1>2, <1>3, <1>4

(* What send() does to one reply: it stays, or goes on, or is lost with the *)
(* process or with the connection.                                          *)
LEMMA SentWithin ==
  ASSUME TypeInv, NEW fd \in Fd, NEW buf \in Seq(Reply), Sent(fd, buf), NEW r,
         Within(r, sendBuf[fd]) => Within(r, buf)
  PROVE  /\ \A g \in Fd : Within(r, sendBuf'[g]) =>
                             Within(r, sendBuf[g]) \/ (g = fd /\ Within(r, buf))
         /\ \A d \in Conn : Within(r, wire'[d]) =>
                               Within(r, wire[d]) \/ (d = sock[fd] /\ Within(r, buf))
         /\ \A g \in Fd : g # fd => sendBuf'[g] = sendBuf[g]
         /\ \A d \in Conn : Within(r, wire[d]) => Within(r, wire'[d])
         /\ Within(r, buf) /\ pc' # "killed" =>
               \/ Within(r, sendBuf'[fd])
               \/ sock[fd] \in Conn /\ Within(r, wire'[sock[fd]])
               \/ sock[fd] \in Conn /\ peer'[sock[fd]] = "broken"
<1>1. /\ sendBuf \in [Fd -> Seq(Reply)] /\ wire \in [Conn -> Seq(Reply)]
      /\ peer \in [Conn -> PeerState]
  BY DEF TypeInv, TypeOK, Reply
<1>2. CASE pc' = "killed" /\ UNCHANGED <<sendBuf, wire, peer>>
  BY <1>2
<1>3. CASE SentNone(fd, buf)
  <2>1. wire' = wire
    BY <1>3 DEF SentNone
  <2>2. PICK left \in {buf, <<>>} : sendBuf' = [sendBuf EXCEPT ![fd] = left]
    BY <1>3 DEF SentNone
  <2>3. \A g \in Fd : sendBuf'[g] = IF g = fd THEN left ELSE sendBuf[g]
    BY <1>1, <2>2
  <2>4. Within(r, left) => Within(r, buf)
    BY <2>2, EmptyHeld
  <2>5. sendBuf'[fd] = buf \/ (sock[fd] \in Conn /\ peer'[sock[fd]] = "broken")
    BY <1>1, <1>3 DEF SentNone
  <2> QED
    BY <2>1, <2>3, <2>4, <2>5
<1>4. ASSUME NEW n \in 0 .. Len(buf), SentSome(fd, buf, n)
      PROVE  /\ \A g \in Fd : Within(r, sendBuf'[g]) =>
                                 Within(r, sendBuf[g]) \/ (g = fd /\ Within(r, buf))
             /\ \A d \in Conn : Within(r, wire'[d]) =>
                                   Within(r, wire[d]) \/ (d = sock[fd] /\ Within(r, buf))
             /\ \A g \in Fd : g # fd => sendBuf'[g] = sendBuf[g]
             /\ \A d \in Conn : Within(r, wire[d]) => Within(r, wire'[d])
             /\ Within(r, buf) =>
                   Within(r, sendBuf'[fd]) \/ (sock[fd] \in Conn /\ Within(r, wire'[sock[fd]]))
  <2> DEFINE c == sock[fd]
             w == wire[c]
             p == SubSeq(buf, 1, n)
             q == SubSeq(buf, n + 1, Len(buf))
  <2>1. /\ c \in Conn /\ w \in Seq(Reply) /\ wire' = [wire EXCEPT ![c] = w \o p]
        /\ sendBuf' = [sendBuf EXCEPT ![fd] = q]
    BY <1>1, <1>4 DEF SentSome
  <2>2. p \in Seq(Reply) /\ (Within(r, buf) <=> Within(r, p) \/ Within(r, q))
    BY SplitHeld
  <2> HIDE DEF p, q, w
  <2>3. Within(r, w \o p) <=> Within(r, w) \/ Within(r, p)
    BY <2>1, <2>2, JoinHeld
  <2>4. \A d \in Conn : wire'[d] = IF d = c THEN w \o p ELSE wire[d]
    BY <1>1, <2>1
  <2>5. \A g \in Fd : sendBuf'[g] = IF g = fd THEN q ELSE sendBuf[g]
    BY <1>1, <2>1
  <2> QED
    BY <2>1, <2>2, <2>3, <2>4, <2>5 DEF w
<1> QED
  BY <1>2, <1>3, <1>4 DEF Sent

(* A connection that is not Gone keeps its descriptor; a killed process    *)
(* stays dead, and a client that has left does not come back.              *)
LEMMA HomeStays ==
  ASSUME DescriptorInv, [Next]_vars, NEW c \in Conn, ~Gone(c)'
  PROVE  ~Gone(c) /\ \A fd \in Fd : sock[fd] = c => sock'[fd] = c
<1>1. /\ TypeInv /\ OneBacklogEntry
      /\ \A fd, g \in Fd : sock[fd] # None /\ sock[fd] = sock[g] => fd = g
      /\ sock \in [Fd -> Conn \cup {None}] /\ peer \in [Conn -> PeerState] /\ c # None
      /\ backlog \in Seq(Conn)
  BY ConstantFacts DEF DescriptorInv, DescriptorsOwned, TypeInv, TypeOK
<1>2. CASE Keeps
  BY <1>2 DEF Keeps, SameIdle, Gone, Waiting
<1>3. CASE Accept
  <2>1. PICK fd \in Fd :
           /\ sock[fd] = None /\ backlog \in Seq(Conn) /\ backlog # <<>>
           /\ Head(backlog) \in Conn /\ Waiting(Head(backlog))
           /\ sock' = [sock EXCEPT ![fd] = Head(backlog)]
           /\ backlog' = Tail(backlog) /\ peer' = peer
    BY <1>1, <1>3, AcceptEffect
  <2>2. \A g \in Fd : sock'[g] = IF g = fd THEN Head(backlog) ELSE sock[g]
    BY <1>1, <2>1
  <2>3. Waiting(c)' => Waiting(c)
    <3>1. Within(c, Tail(backlog)) => Within(c, backlog)
      BY <2>1, TailHeld
    <3> QED
      BY <2>1, <3>1 DEF Waiting, Within
  <2> QED
    BY <1>1, <2>1, <2>2, <2>3 DEF Gone
<1>4. CASE StopServer
  <2>1. /\ \A fd \in Fd : sock'[fd] = IF fd \in clients THEN None ELSE sock[fd]
        /\ backlog' = backlog /\ peer' = peer
    BY <1>1, <1>4 DEF StopServer, CloseAll
  <2>2. \A fd \in Fd : sock[fd] # None => fd \in clients
    BY DEF DescriptorInv, DescriptorsOwned
  <2>3. peer[c] = "idle" \/ Waiting(c)
    <3>1. \A fd \in Fd : sock'[fd] # c
      BY <1>1, <2>1, <2>2
    <3>2. Waiting(c)' <=> Waiting(c)
      BY <2>1 DEF Waiting
    <3>3. peer'[c] = peer[c]
      BY <2>1
    <3> QED
      BY <3>1, <3>2, <3>3 DEF Gone
  <2> QED
    BY <1>1, <2>3 DEF OneBacklogEntry, Gone
<1>5. CASE DiscardCompletions
  <2>1. ~Within(c, backlog')
    BY <1>5, EmptyHeld DEF DiscardCompletions
  <2> QED
    BY <1>5, <2>1 DEF DiscardCompletions, Gone, Waiting, Within
<1>6. ASSUME NEW fd \in Fd, Closes(fd) PROVE ~Gone(c) /\ \A g \in Fd : sock[g] = c => sock'[g] = c
  <2>1. /\ \A g \in Fd : sock'[g] = IF g = fd THEN None ELSE sock[g]
        /\ backlog' = backlog /\ SameIdle
    BY <1>1, <1>6 DEF Closes
  <2>2. ~Gone(c)
    BY <1>1, <2>1 DEF Gone, Waiting, SameIdle
  <2>3. sock[fd] # c
    <3> SUFFICES ASSUME sock[fd] = c PROVE FALSE
      OBVIOUS
    <3>1. ~Waiting(c) /\ peer[c] # "idle"
      BY <1>1 DEF OneBacklogEntry
    <3>2. \A g \in Fd : sock'[g] # c
      BY <1>1, <2>1
    <3> QED
      BY <2>1, <3>1, <3>2 DEF Gone, Waiting, SameIdle
  <2> QED
    BY <2>1, <2>2, <2>3
<1>7. ASSUME NEW d \in Conn, Connect(d) PROVE ~Gone(c) /\ \A g \in Fd : sock[g] = c => sock'[g] = c
  <2>1. /\ peer[d] = "idle" /\ peer' = [peer EXCEPT ![d] = "open"]
        /\ backlog' = Append(backlog, d) /\ UNCHANGED sock
    BY <1>7 DEF Connect
  <2>2. Within(c, backlog') => Within(c, backlog) \/ c = d
    BY <1>1, <2>1, AppendHeld
  <2> QED
    BY <1>1, <2>1, <2>2 DEF Gone, Waiting, Within
<1> QED
  BY <1>1, <1>2, <1>3, <1>4, <1>5, <1>6, <1>7, SocketStep

LEMMA LifeStep ==
  ASSUME TypeInv, [Next]_vars
  PROVE  /\ pc = "killed" => pc' = "killed"
         /\ script' = script
         /\ \A c \in Conn : peer'[c] \in {"idle", "open"} => peer[c] \in {"idle", "open"}
<1>1. peer \in [Conn -> PeerState]
  BY DEF TypeInv, TypeOK
<1> USE DEF userVars
<1> DEFINE Goal == /\ pc = "killed" => pc' = "killed"
                   /\ script' = script
                   /\ \A c \in Conn : peer'[c] \in {"idle", "open"} => peer[c] \in {"idle", "open"}
<1>2. CASE BeginPoll \/ PollReturn \/ AcceptDone \/ Notified \/ Signal \/ CloseNotify
           \/ StopPool \/ HandleRun \/ HandleHuge \/ (\E fd \in Fd : WriteOnly(fd)) \/ Finished
           \/ UNCHANGED vars \/ Accept \/ StopServer \/ DiscardCompletions
  BY <1>2 DEF BeginPoll, BetweenPolls, PollReturn, AcceptDone, Notified,
     Signal, CloseNotify, StopPool, HandleRun, HandleHuge, Take, WriteOnly, Finished, vars,
     Accept, StopServer, DiscardCompletions
<1>3. ASSUME NEW fd \in Fd, NEW buf \in Seq(Reply), Sent(fd, buf), pc # "killed", script' = script
      PROVE  Goal
  BY <1>1, <1>3 DEF Sent, SentSome, SentNone
<1>4. CASE SendDrained \/ SendNotified
  <2>1. pc # "killed" /\ script' = script
    BY <1>4 DEF SendDrained, SendNotified, SendBatch
  <2>2. CASE peer' = peer
    BY <2>1, <2>2
  <2>3. CASE \E next : Responds(Head(batch).fd, Head(batch).req, next)
    <3>1. Head(batch).fd \in Fd /\ Head(batch).req \in Reply
      BY <1>4, BatchItem DEF Reply
    <3>2. Append(sendBuf[Head(batch).fd], Head(batch).req) \in Seq(Reply)
      BY <3>1, AppendFacts DEF TypeInv, TypeOK, Reply
    <3>3. Sent(Head(batch).fd, Append(sendBuf[Head(batch).fd], Head(batch).req))
      BY <2>3, <3>1, RespondSent
    <3> QED
      BY <1>3, <2>1, <3>1, <3>2, <3>3
  <2> QED
    BY <1>4, <2>2, <2>3, BatchItem
<1>5. CASE HandleQuery \/ HandleBad \/ HandleShutdown
  <2>1. PICK x \in Reply : Responds(cur, x, "process")
    BY <1>5, HandleResponds
  <2>2. pc # "killed" /\ script' = script /\ cur \in Fd
    BY <1>5, HandleResponds
  <2>3. Append(sendBuf[cur], x) \in Seq(Reply)
    BY <2>2, AppendFacts DEF TypeInv, TypeOK, Reply
  <2> QED
    BY <1>3, <2>1, <2>2, <2>3, RespondSent
<1>6. CASE Flush
  <2>1. pc # "killed" /\ script' = script /\ cur \in Fd /\ sendBuf[cur] \in Seq(Reply)
    BY <1>6 DEF Flush, TypeInv, TypeOK, Reply
  <2>2. Sent(cur, sendBuf[cur]) \/ peer' = peer
    BY <1>6, <2>1, SendSent DEF Flush
  <2> QED
    BY <1>3, <2>1, <2>2
<1>7. ASSUME NEW fd \in Fd, HangUp(fd) \/ ReceiveEnd(fd) \/ Receive(fd) PROVE Goal
  BY <1>7 DEF HangUp, ReceiveEnd, Receive
<1>8. ASSUME NEW item, PushCompletion(item) \/ WriteEvent(item) PROVE Goal
  BY <1>8 DEF PushCompletion, WriteEvent
<1>9. ASSUME NEW c \in Conn, User(c) PROVE Goal
  BY <1>1, <1>9 DEF User, Connect, ClientSend, ClientRead, ClientClose
<1> QED
  BY <1>2, <1>4, <1>5, <1>6, <1>7, <1>8, <1>9
     DEF Next, Main, PollStep, ClientStep, FrameStep, StopStep, WorkerStep

LEMMA FlightStep ==
  ASSUME TypeInv, Dropping \/ Moving
  PROVE  /\ \A item \in InFlight' :
               \/ item \in InFlight
               \/ Submitted /\ item = [fd |-> cur, req |-> Head(recvBuf[cur])]
         /\ InFlight \subseteq Completion
<1>1. work \in SUBSET Completion /\ done \in Seq(Completion) /\ batch \in Seq(Completion)
  BY DEF TypeInv, TypeOK
<1>2. InFlight \subseteq Completion
  BY <1>1, ItemsFacts DEF InFlight
<1>3. work' \subseteq work /\ Items(done') \subseteq Items(done) \cup work
         /\ Items(batch') \subseteq Items(batch) \cup Items(done)
      => InFlight' \subseteq InFlight
  BY DEF InFlight
<1>4. ASSUME Dropping PROVE InFlight' \subseteq InFlight
  <2>1. work' \subseteq work /\ done' \in {done, <<>>} /\ batch' = batch
    BY <1>4 DEF Dropping
  <2>2. Items(done') \subseteq Items(done)
    <3>1. CASE done' = <<>>
      BY <3>1, ItemsFacts
    <3> QED
      BY <2>1, <3>1
  <2>3. Items(batch') = Items(batch)
    BY <2>1
  <2> QED
    BY <1>3, <2>1, <2>2, <2>3
<1>5. ASSUME Swapped PROVE InFlight' \subseteq InFlight
  <2>1. done' = <<>> /\ batch' = done /\ work' = work
    BY <1>5 DEF Swapped
  <2>2. Items(done') = {} /\ Items(batch') = Items(done)
    BY <2>1, ItemsFacts
  <2> QED
    BY <1>3, <2>1, <2>2
<1>6. ASSUME Discarded \/ Answered PROVE InFlight' \subseteq InFlight
  <2>1. batch # <<>> /\ batch' = Tail(batch) /\ done' = done /\ work' = work
    BY <1>6 DEF Discarded, Answered
  <2>2. Items(batch) = Items(Tail(batch)) \cup {Head(batch)}
    BY <1>1, <2>1, ItemsFacts
  <2>3. Items(batch') \subseteq Items(batch) /\ Items(done') = Items(done)
    BY <2>1, <2>2
  <2> QED
    BY <1>3, <2>1, <2>3
<1>7. ASSUME \/ Flushed \/ (\E x \in Reply : Replied(x)) \/ (\E c \in Conn : Asks(c) \/ Reads(c))
             \/ (\E fd \in Fd : \E n \in 0 .. Len(inbox[sock[fd]]) : Took(fd, n))
      PROVE  InFlight' \subseteq InFlight
  <2>1. work' = work /\ done' = done /\ batch' = batch
    BY <1>7 DEF Flushed, Replied, Asks, Reads, Took
  <2>2. Items(batch') = Items(batch) /\ Items(done') = Items(done)
    BY <2>1
  <2> QED
    BY <1>3, <2>1, <2>2
<1>8. ASSUME NEW item \in Completion, Finishes(item) PROVE InFlight' \subseteq InFlight
  <2>1. item \in work /\ work' = work \ {item} /\ done' = Append(done, item) /\ batch' = batch
    BY <1>8 DEF Finishes
  <2>2. Items(Append(done, item)) = Items(done) \cup {item}
    BY <1>1, ItemsFacts
  <2>3. Items(done') \subseteq Items(done) \cup work /\ Items(batch') = Items(batch)
    BY <2>1, <2>2
  <2> QED
    BY <1>3, <2>1, <2>3
<1>9. ASSUME Submitted
      PROVE  \A item \in InFlight' :
                item \in InFlight \/ item = [fd |-> cur, req |-> Head(recvBuf[cur])]
  <2>1. /\ work' = work \cup {[fd |-> cur, req |-> Head(recvBuf[cur])]}
        /\ done' = done /\ batch' = batch
    BY <1>9 DEF Submitted
  <2>2. Items(batch') = Items(batch) /\ Items(done') = Items(done)
    BY <2>1
  <2> QED
    BY <2>1, <2>2 DEF InFlight
<1>10. (InFlight' \subseteq InFlight) \/ Submitted
  BY <1>4, <1>5, <1>6, <1>7, <1>8 DEF Moving
<1> QED
  BY <1>2, <1>9, <1>10

LEMMA OnlyRunsStep == ASSUME DescriptorInv, OnlyRuns, [Next]_vars PROVE OnlyRuns'
<1>1. TypeInv /\ (Dropping \/ Moving)
  BY DataStep DEF DescriptorInv
<1>2. ASSUME NEW item \in InFlight' PROVE Kind[item.req] = "run"
  <2>1. CASE item \in InFlight
    BY <2>1 DEF OnlyRuns
  <2>2. CASE Submitted /\ item = [fd |-> cur, req |-> Head(recvBuf[cur])]
    BY <2>2 DEF Submitted
  <2> QED
    BY <1>1, <2>1, <2>2, FlightStep
<1> QED
  BY <1>2 DEF OnlyRuns

LEMMA HomeStep ==
  ASSUME DescriptorInv, AtHome, [Next]_vars
  PROVE  AtHome'
<1> SUFFICES ASSUME NEW c \in Conn, NEW r \in Request, Owner(c, r)', ~Gone(c)'
             PROVE  HomeIs(c, r)'
  BY DEF AtHome
<1>1. /\ TypeInv /\ wire \in [Conn -> Seq(Reply)] /\ todo \in [Conn -> Seq(Request)]
      /\ inbox \in [Conn -> Seq(Request)] /\ got \in [Conn -> SUBSET Reply]
      /\ recvBuf \in [Fd -> Seq(Request)] /\ sendBuf \in [Fd -> Seq(Reply)]
      /\ work \in SUBSET Completion /\ done \in Seq(Completion) /\ batch \in Seq(Completion)
      /\ sock \in [Fd -> Conn \cup {None}] /\ cur \in Fd /\ NoId \notin Request
  BY ConstantFacts DEF DescriptorInv, TypeInv, TypeOK, Reply
<1>2. Owner(c, r) /\ ~Gone(c) /\ \A fd \in Fd : sock[fd] = c => sock'[fd] = c
  BY <1>1, HomeStays, LifeStep DEF Owner
<1>3. HomeIs(c, r)
  BY <1>2 DEF AtHome
<1>4. /\ \A d \in Conn : /\ Within(r, todo[d]) => d = c
                         /\ Within(r, inbox[d]) => d = c
                         /\ Within(r, wire[d]) => d = c
                         /\ r \in got[d] => d = c
      /\ \A fd \in Fd : /\ Within(r, recvBuf[fd]) => sock[fd] = c
                        /\ Within(r, sendBuf[fd]) => sock[fd] = c
      /\ \A item \in InFlight : item.req = r => sock[item.fd] = c
  BY <1>3 DEF HomeIs
<1> DEFINE Conns == \A d \in Conn : /\ Within(r, todo'[d]) => d = c
                                    /\ Within(r, inbox'[d]) => d = c
                                    /\ Within(r, wire'[d]) => d = c
                                    /\ r \in got'[d] => d = c
           Fds == \A fd \in Fd : /\ Within(r, recvBuf'[fd]) => sock[fd] = c
                                 /\ Within(r, sendBuf'[fd]) => sock[fd] = c
<1>5. ASSUME NEW fd \in Fd, NEW buf \in Seq(Reply), Sent(fd, buf),
             Within(r, sendBuf[fd]) => Within(r, buf), Within(r, buf) => sock[fd] = c
      PROVE  /\ \A d \in Conn : Within(r, wire'[d]) => d = c
             /\ \A g \in Fd : Within(r, sendBuf'[g]) => sock[g] = c
  BY <1>1, <1>4, <1>5, SentWithin
<1>6. Conns /\ Fds
  <2>1. CASE Dropping
    BY <1>4, <2>1, EmptyHeld DEF Dropping
  <2>2. CASE Swapped \/ Discarded \/ (\E item \in Completion : Finishes(item))
    BY <1>4, <2>2 DEF Swapped, Discarded, Finishes
  <2>3. CASE Answered
    <3> DEFINE fd == Head(batch).fd
               x == Head(batch).req
               buf == Append(sendBuf[fd], x)
    <3>1. batch # <<>> /\ Sent(fd, buf) /\ UNCHANGED <<todo, inbox, got, recvBuf>>
      BY <2>3 DEF Answered
    <3>2. Head(batch) \in InFlight /\ Head(batch) \in Completion
      BY <1>1, <3>1, ItemsFacts, TakeFacts DEF InFlight
    <3>3. fd \in Fd /\ x \in Reply /\ (x = r => sock[fd] = c)
      BY <1>4, <3>2 DEF Completion, Reply
    <3> HIDE DEF fd, x
    <3>4. buf \in Seq(Reply) /\ (Within(r, buf) <=> Within(r, sendBuf[fd]) \/ r = x)
      BY <1>1, <3>3, AppendFacts, AppendHeld
    <3> HIDE DEF buf
    <3>5. /\ \A d \in Conn : Within(r, wire'[d]) => d = c
          /\ \A g \in Fd : Within(r, sendBuf'[g]) => sock[g] = c
      BY <1>4, <1>5, <3>1, <3>3, <3>4
    <3> QED
      BY <1>4, <3>1, <3>5
  <2>4. ASSUME NEW x \in Reply, Replied(x) PROVE Conns /\ Fds
    <3> DEFINE s == recvBuf[cur]
               buf == Append(sendBuf[cur], x)
    <3>1. /\ s # <<>> /\ Sent(cur, buf) /\ UNCHANGED <<todo, inbox, got>>
          /\ recvBuf' = [recvBuf EXCEPT ![cur] = Tail(s)] /\ x \in {NoId, Head(s)}
      BY <2>4 DEF Replied
    <3>2. \A g \in Fd : recvBuf'[g] = IF g = cur THEN Tail(s) ELSE recvBuf[g]
      BY <1>1, <3>1
    <3>3. s \in Seq(Request) /\ (Within(r, s) <=> Within(r, Tail(s)) \/ r = Head(s))
      BY <1>1, <3>1, TailHeld
    <3>4. Within(r, s) => sock[cur] = c
      BY <1>1, <1>4
    <3> HIDE DEF s
    <3>5. buf \in Seq(Reply) /\ (Within(r, buf) <=> Within(r, sendBuf[cur]) \/ r = x)
      BY <1>1, AppendFacts, AppendHeld
    <3> HIDE DEF buf
    <3>6. Within(r, buf) => sock[cur] = c
      BY <1>1, <1>4, <3>1, <3>3, <3>4, <3>5
    <3>7. /\ \A d \in Conn : Within(r, wire'[d]) => d = c
          /\ \A g \in Fd : Within(r, sendBuf'[g]) => sock[g] = c
      BY <1>1, <1>5, <3>1, <3>5, <3>6
    <3>8. \A g \in Fd : Within(r, recvBuf'[g]) => sock[g] = c
      BY <1>4, <3>2, <3>3, <3>4
    <3> QED
      BY <1>4, <3>1, <3>7, <3>8
  <2>5. CASE Flushed
    <3>1. sendBuf[cur] \in Seq(Reply) /\ Sent(cur, sendBuf[cur])
          /\ UNCHANGED <<todo, inbox, got, recvBuf>>
      BY <1>1, <2>5 DEF Flushed
    <3>2. /\ \A d \in Conn : Within(r, wire'[d]) => d = c
          /\ \A g \in Fd : Within(r, sendBuf'[g]) => sock[g] = c
      BY <1>1, <1>4, <1>5, <3>1
    <3> QED
      BY <1>4, <3>1, <3>2
  <2>6. CASE Submitted
    <3> DEFINE s == recvBuf[cur]
    <3>1. /\ s # <<>> /\ UNCHANGED <<todo, inbox, got, wire, sendBuf>>
          /\ recvBuf' = [recvBuf EXCEPT ![cur] = Tail(s)]
      BY <2>6 DEF Submitted
    <3>2. \A g \in Fd : recvBuf'[g] = IF g = cur THEN Tail(s) ELSE recvBuf[g]
      BY <1>1, <3>1
    <3>3. Within(r, Tail(s)) => Within(r, s)
      BY <1>1, <3>1, TailHeld
    <3>4. Within(r, s) => sock[cur] = c
      BY <1>1, <1>4
    <3> HIDE DEF s
    <3>5. \A g \in Fd : Within(r, recvBuf'[g]) => sock[g] = c
      BY <1>4, <3>2, <3>3, <3>4
    <3> QED
      BY <1>4, <3>1, <3>5
  <2>7. ASSUME NEW fd \in Fd, NEW n \in 0 .. Len(inbox[sock[fd]]), Took(fd, n)
        PROVE  Conns /\ Fds
    <3> DEFINE e == sock[fd]
               s == inbox[e]
               t == recvBuf[fd]
               p == SubSeq(s, 1, n)
               q == SubSeq(s, n + 1, Len(s))
    <3>1. /\ e \in Conn /\ recvBuf' = [recvBuf EXCEPT ![fd] = t \o p]
          /\ inbox' = [inbox EXCEPT ![e] = q]
          /\ UNCHANGED <<todo, got, wire, sendBuf>>
      BY <2>7 DEF Took
    <3>2. /\ \A d \in Conn : inbox'[d] = IF d = e THEN q ELSE inbox[d]
          /\ \A g \in Fd : recvBuf'[g] = IF g = fd THEN t \o p ELSE recvBuf[g]
      BY <1>1, <3>1
    <3>3. /\ Within(r, s) => e = c
          /\ Within(r, t) => sock[fd] = c
      BY <1>4, <3>1
    <3>4. s \in Seq(Request) /\ t \in Seq(Request)
      BY <1>1, <3>1
    <3>5. p \in Seq(Request) /\ (Within(r, s) <=> Within(r, p) \/ Within(r, q))
      <4> HIDE DEF s
      <4> QED
        BY <3>4, SplitHeld DEF s
    <3> HIDE DEF s, t, p, q
    <3>6. Within(r, t \o p) <=> Within(r, t) \/ Within(r, p)
      BY <3>4, <3>5, JoinHeld
    <3>7. /\ \A g \in Fd : Within(r, recvBuf'[g]) => sock[g] = c
          /\ \A d \in Conn : Within(r, inbox'[d]) => d = c
      BY <1>4, <3>2, <3>3, <3>5, <3>6
    <3> QED
      BY <1>4, <3>1, <3>7
  <2>8. ASSUME NEW d \in Conn, Asks(d) PROVE Conns /\ Fds
    <3> DEFINE s == todo[d]
               t == inbox[d]
               x == Head(s)
    <3>1. /\ s # <<>> /\ inbox' = [inbox EXCEPT ![d] = Append(t, x)]
          /\ todo' = [todo EXCEPT ![d] = Tail(s)]
          /\ UNCHANGED <<got, wire, recvBuf, sendBuf>>
      BY <2>8 DEF Asks
    <3>2. /\ \A e \in Conn : inbox'[e] = IF e = d THEN Append(t, x) ELSE inbox[e]
          /\ \A e \in Conn : todo'[e] = IF e = d THEN Tail(s) ELSE todo[e]
      BY <1>1, <3>1
    <3>3. (Within(r, s) => d = c) /\ (Within(r, t) => d = c)
      BY <1>4
    <3>4. s \in Seq(Request) /\ t \in Seq(Request) /\ x \in Request
          /\ (Within(r, s) <=> Within(r, Tail(s)) \/ r = x)
      BY <1>1, <3>1, TakeFacts, TailHeld
    <3> HIDE DEF s, t, x
    <3>5. Within(r, Append(t, x)) <=> Within(r, t) \/ r = x
      BY <3>4, AppendHeld
    <3>6. \A e \in Conn : /\ Within(r, todo'[e]) => e = c
                          /\ Within(r, inbox'[e]) => e = c
      BY <1>4, <3>2, <3>3, <3>4, <3>5
    <3> QED
      BY <1>4, <3>1, <3>6
  <2>9. ASSUME NEW d \in Conn, Reads(d) PROVE Conns /\ Fds
    <3> DEFINE s == wire[d]
    <3>1. /\ s # <<>> /\ got' = [got EXCEPT ![d] = got[d] \cup {Head(s)}]
          /\ wire' = [wire EXCEPT ![d] = Tail(s)]
          /\ UNCHANGED <<todo, inbox, recvBuf, sendBuf>>
      BY <2>9 DEF Reads
    <3>2. /\ \A e \in Conn : got'[e] = IF e = d THEN got[d] \cup {Head(s)} ELSE got[e]
          /\ \A e \in Conn : wire'[e] = IF e = d THEN Tail(s) ELSE wire[e]
      BY <1>1, <3>1
    <3>3. Within(r, s) => d = c
      BY <1>4
    <3>4. Within(r, s) <=> Within(r, Tail(s)) \/ r = Head(s)
      BY <1>1, <3>1, TailHeld
    <3> HIDE DEF s
    <3>5. \A e \in Conn : /\ Within(r, wire'[e]) => e = c
                          /\ r \in got'[e] => e = c
      BY <1>4, <3>2, <3>3, <3>4
    <3> QED
      BY <1>4, <3>1, <3>5
  <2> QED
    BY <2>1, <2>2, <2>3, <2>4, <2>5, <2>6, <2>7, <2>8, <2>9, DataStep DEF Moving
<1>7. \A item \in InFlight' : item.req = r => item.fd \in Fd /\ sock[item.fd] = c
  <2> SUFFICES ASSUME NEW item \in InFlight', item.req = r
               PROVE  item.fd \in Fd /\ sock[item.fd] = c
    OBVIOUS
  <2>1. TypeInv /\ (Dropping \/ Moving)
    BY <1>1, DataStep
  <2>2. CASE item \in InFlight
    BY <1>4, <2>1, <2>2, FlightStep DEF Completion
  <2>3. CASE Submitted /\ item = [fd |-> cur, req |-> Head(recvBuf[cur])]
    <3>1. Within(r, recvBuf[cur])
      BY <1>1, <2>3, TailHeld DEF Submitted
    <3> QED
      BY <1>1, <1>4, <2>3, <3>1
  <2> QED
    BY <2>1, <2>2, <2>3, FlightStep
<1> QED
  BY <1>2, <1>6, <1>7 DEF HomeIs

-----------------------------------------------------------------------------
(* No request of a client that stays connected is dropped.                  *)
Asked(r) == \E d \in Conn : Within(r, todo[d]) \/ Within(r, inbox[d])
Buffered(r) == \E fd \in Fd : Within(r, recvBuf[fd])
InPool(r) == \E item \in InFlight : item.req = r
BeingSent(r) == (\E fd \in Fd : Within(r, sendBuf[fd])) \/ (\E d \in Conn : Within(r, wire[d]))
HasReply(r) == \E d \in Conn : r \in got[d]
Somewhere(r) == Asked(r) \/ Buffered(r) \/ InPool(r) \/ BeingSent(r) \/ HasReply(r)
Answerable(r) == Kind[r] \in {"run", "query", "shutdown"}
NoneDropped ==
    pc # "killed" =>
        \A c \in Conn : peer[c] \in {"idle", "open"} /\ ~Gone(c) =>
            \A r \in Request : Owner(c, r) /\ Answerable(r) => Somewhere(r)

LEMMA NoneDroppedStep ==
  ASSUME DescriptorInv, AtHome, NoneDropped, [Next]_vars
  PROVE  NoneDropped'
<1> SUFFICES ASSUME (pc # "killed")', NEW c \in Conn, (peer[c] \in {"idle", "open"})', ~Gone(c)',
                    NEW r \in Request, Owner(c, r)', Answerable(r)
             PROVE  Somewhere(r)'
  BY DEF NoneDropped, Answerable
<1>1. /\ TypeInv /\ wire \in [Conn -> Seq(Reply)] /\ todo \in [Conn -> Seq(Request)]
      /\ inbox \in [Conn -> Seq(Request)] /\ got \in [Conn -> SUBSET Reply]
      /\ recvBuf \in [Fd -> Seq(Request)] /\ sendBuf \in [Fd -> Seq(Reply)]
      /\ work \in SUBSET Completion /\ done \in Seq(Completion) /\ batch \in Seq(Completion)
      /\ sock \in [Fd -> Conn \cup {None}] /\ cur \in Fd /\ c # None
  BY ConstantFacts DEF DescriptorInv, TypeInv, TypeOK, Reply
<1>2. Owner(c, r) /\ ~Gone(c) /\ \A fd \in Fd : sock[fd] = c => sock'[fd] = c
  BY <1>1, HomeStays, LifeStep DEF Owner
<1>3. pc # "killed" /\ peer[c] \in {"idle", "open"}
  BY <1>1, LifeStep
<1>4. Somewhere(r) /\ HomeIs(c, r)
  BY <1>2, <1>3 DEF AtHome, NoneDropped
<1>5. /\ \A d \in Conn : Within(r, wire[d]) => d = c
      /\ \A fd \in Fd : /\ Within(r, recvBuf[fd]) => sock[fd] = c
                        /\ Within(r, sendBuf[fd]) => sock[fd] = c
      /\ \A item \in InFlight : item.req = r => sock[item.fd] = c
  BY <1>4 DEF HomeIs
<1>6. ASSUME NEW fd \in Fd, NEW buf \in Seq(Reply), Sent(fd, buf),
             Within(r, sendBuf[fd]) => Within(r, buf), Within(r, buf) => sock[fd] = c
      PROVE  BeingSent(r) \/ Within(r, buf) => BeingSent(r)'
  <2>1. /\ \A g \in Fd : g # fd => sendBuf'[g] = sendBuf[g]
        /\ \A d \in Conn : Within(r, wire[d]) => Within(r, wire'[d])
        /\ Within(r, buf) =>
              \/ Within(r, sendBuf'[fd])
              \/ sock[fd] \in Conn /\ Within(r, wire'[sock[fd]])
              \/ sock[fd] \in Conn /\ peer'[sock[fd]] = "broken"
    BY <1>1, <1>6, SentWithin
  <2>2. Within(r, buf) => Within(r, sendBuf'[fd]) \/ \E d \in Conn : Within(r, wire'[d])
    BY <1>6, <2>1
  <2> QED
    BY <1>6, <2>1, <2>2 DEF BeingSent
<1>7. CASE Dropping
  <2>1. \A d \in Conn : Within(r, wire[d]) => wire'[d] = wire[d]
    BY <1>5, <1>7 DEF Dropping
  <2>2. \A fd \in Fd : sock[fd] = c => recvBuf'[fd] = recvBuf[fd] /\ sendBuf'[fd] = sendBuf[fd]
    BY <1>1, <1>2, <1>7 DEF Dropping
  <2>3. InPool(r) => InFlight' = InFlight
    <3>1. SUFFICES ASSUME NEW item \in InFlight, item.req = r PROVE InFlight' = InFlight
      BY DEF InPool
    <3>2. item.fd \in Fd /\ sock[item.fd] = c
      <4>1. Items(done) \subseteq Completion /\ Items(batch) \subseteq Completion
        BY <1>1, ItemsFacts
      <4>2. item \in Completion
        BY <1>1, <3>1, <4>1 DEF InFlight
      <4> QED
        BY <1>5, <3>1, <4>2 DEF Completion
    <3>3. work' = work /\ done' = done /\ batch' = batch
      BY <1>1, <1>7, <3>2 DEF Dropping
    <3> QED
      BY <3>3 DEF InFlight
  <2>4. todo' = todo /\ inbox' = inbox /\ got' = got
    BY <1>7 DEF Dropping
  <2>5. /\ Asked(r) => Asked(r)'
        /\ Buffered(r) => Buffered(r)'
        /\ HasReply(r) => HasReply(r)'
    BY <1>5, <2>2, <2>4 DEF Asked, Buffered, HasReply
  <2>6. BeingSent(r) => BeingSent(r)'
    BY <1>5, <2>1, <2>2 DEF BeingSent
  <2>7. InPool(r) => InPool(r)'
    BY <2>3 DEF InPool
  <2> QED
    BY <1>4, <2>5, <2>6, <2>7 DEF Somewhere
<1>8. CASE Swapped
  <2>1. InFlight' = InFlight
    <3>1. work' = work /\ done' = <<>> /\ batch' = done /\ batch = <<>>
      BY <1>8 DEF Swapped
    <3>2. Items(batch) = {} /\ Items(done') = {} /\ Items(batch') = Items(done)
      BY <3>1, ItemsFacts
    <3> QED
      BY <3>1, <3>2 DEF InFlight
  <2>2. UNCHANGED <<todo, inbox, got, wire, recvBuf, sendBuf>>
    BY <1>8 DEF Swapped
  <2> QED
    BY <1>4, <2>1, <2>2 DEF Somewhere, Asked, Buffered, InPool, BeingSent, HasReply
<1>9. ASSUME batch # <<>>, batch' = Tail(batch), UNCHANGED <<work, done>>
      PROVE  /\ \A item \in InFlight : item \in InFlight' \/ item = Head(batch)
             /\ Head(batch) \in InFlight /\ Head(batch) \in Completion
  <2>1. Items(batch) = Items(Tail(batch)) \cup {Head(batch)} /\ Items(batch) \subseteq Completion
    BY <1>1, <1>9, ItemsFacts
  <2>2. Items(batch') = Items(Tail(batch)) /\ Items(done') = Items(done) /\ work' = work
    BY <1>9
  <2> QED
    BY <2>1, <2>2 DEF InFlight
<1>10. CASE Discarded
  <2>1. batch # <<>> /\ batch' = Tail(batch) /\ UNCHANGED <<work, done>>
        /\ sock[Head(batch).fd] = None /\ UNCHANGED <<todo, inbox, got, wire, recvBuf, sendBuf>>
    BY <1>10 DEF Discarded
  <2>2. InPool(r) => InPool(r)'
    BY <1>1, <1>5, <1>9, <2>1 DEF InPool
  <2> QED
    BY <1>4, <2>1, <2>2 DEF Somewhere, Asked, Buffered, BeingSent, HasReply
<1>11. CASE Answered
  <2> DEFINE fd == Head(batch).fd
             x == Head(batch).req
             buf == Append(sendBuf[fd], x)
  <2>1. batch # <<>> /\ batch' = Tail(batch) /\ UNCHANGED <<work, done>>
        /\ Sent(fd, buf) /\ UNCHANGED <<todo, inbox, got, recvBuf>>
    BY <1>11 DEF Answered
  <2>2. /\ \A item \in InFlight : item \in InFlight' \/ item = Head(batch)
        /\ Head(batch) \in InFlight /\ Head(batch) \in Completion
    BY <1>9, <2>1
  <2>3. fd \in Fd /\ x \in Reply /\ (x = r => sock[fd] = c)
    BY <1>5, <2>2 DEF Completion, Reply
  <2>4. InPool(r) => InPool(r)' \/ x = r
    BY <2>2 DEF InPool
  <2> HIDE DEF fd, x
  <2>5. buf \in Seq(Reply) /\ (Within(r, buf) <=> Within(r, sendBuf[fd]) \/ r = x)
    BY <1>1, <2>3, AppendFacts, AppendHeld
  <2> HIDE DEF buf
  <2>6. BeingSent(r) \/ Within(r, buf) => BeingSent(r)'
    BY <1>5, <1>6, <2>1, <2>3, <2>5
  <2>7. Asked(r)' = Asked(r) /\ Buffered(r)' = Buffered(r) /\ HasReply(r)' = HasReply(r)
    BY <2>1 DEF Asked, Buffered, HasReply
  <2> QED
    BY <1>4, <2>4, <2>5, <2>6, <2>7 DEF Somewhere
<1>12. ASSUME NEW x \in Reply, Replied(x) PROVE Somewhere(r)'
  <2> DEFINE s == recvBuf[cur]
             buf == Append(sendBuf[cur], x)
  <2>1. /\ s # <<>> /\ Sent(cur, buf) /\ UNCHANGED <<todo, inbox, got, work, done, batch>>
        /\ recvBuf' = [recvBuf EXCEPT ![cur] = Tail(s)]
        /\ (Kind[Head(s)] # "bad" => x = Head(s)) /\ x \in {NoId, Head(s)}
    BY <1>12 DEF Replied
  <2>2. \A g \in Fd : recvBuf'[g] = IF g = cur THEN Tail(s) ELSE recvBuf[g]
    BY <1>1, <2>1
  <2>3. Within(r, s) <=> Within(r, Tail(s)) \/ r = Head(s)
    BY <1>1, <2>1, TailHeld
  <2>4. Within(r, s) => sock[cur] = c
    BY <1>1, <1>5
  <2>5. r = Head(s) => r = x
    BY <2>1 DEF Answerable
  <2>6. buf \in Seq(Reply) /\ (Within(r, buf) <=> Within(r, sendBuf[cur]) \/ r = x)
    BY <1>1, AppendFacts, AppendHeld
  <2>7. Buffered(r) => Buffered(r)' \/ r = x
    <3> HIDE DEF s
    <3> QED
      BY <2>2, <2>3, <2>5 DEF Buffered, s
  <2>8. r = x => sock[cur] = c
    BY <2>1, <2>3, <2>4, ConstantFacts
  <2> HIDE DEF s, buf
  <2>9. BeingSent(r) \/ Within(r, buf) => BeingSent(r)'
    BY <1>1, <1>5, <1>6, <2>1, <2>6, <2>8
  <2>10. InFlight' = InFlight
    BY <2>1 DEF InFlight
  <2>11. Asked(r)' = Asked(r) /\ InPool(r)' = InPool(r) /\ HasReply(r)' = HasReply(r)
    BY <2>1, <2>10 DEF Asked, InPool, HasReply
  <2> QED
    BY <1>4, <2>6, <2>7, <2>9, <2>11 DEF Somewhere
<1>13. CASE Submitted
  <2> DEFINE s == recvBuf[cur]
             item == [fd |-> cur, req |-> Head(s)]
  <2>1. /\ s # <<>> /\ UNCHANGED <<todo, inbox, got, wire, sendBuf, done, batch>>
        /\ recvBuf' = [recvBuf EXCEPT ![cur] = Tail(s)]
        /\ work' = work \cup {item}
    BY <1>13 DEF Submitted
  <2>2. \A g \in Fd : recvBuf'[g] = IF g = cur THEN Tail(s) ELSE recvBuf[g]
    BY <1>1, <2>1
  <2>3. Within(r, s) <=> Within(r, Tail(s)) \/ r = Head(s)
    BY <1>1, <2>1, TailHeld
  <2>4. InFlight' = InFlight \cup {item}
    <3>1. Items(done') = Items(done) /\ Items(batch') = Items(batch)
      BY <2>1
    <3> QED
      BY <2>1, <3>1 DEF InFlight
  <2>5. item.req = Head(s)
    OBVIOUS
  <2> HIDE DEF item
  <2>6. InPool(r) \/ r = Head(s) => InPool(r)'
    BY <2>4, <2>5 DEF InPool
  <2>7. Buffered(r) => Buffered(r)' \/ r = Head(s)
    BY <2>2, <2>3 DEF Buffered
  <2>8. Asked(r)' = Asked(r) /\ BeingSent(r)' = BeingSent(r) /\ HasReply(r)' = HasReply(r)
    BY <2>1 DEF Asked, BeingSent, HasReply
  <2> QED
    BY <1>4, <2>6, <2>7, <2>8 DEF Somewhere
<1>14. CASE Flushed
  <2>1. sendBuf[cur] \in Seq(Reply) /\ Sent(cur, sendBuf[cur])
        /\ UNCHANGED <<todo, inbox, got, recvBuf, work, done, batch>>
    BY <1>1, <1>14 DEF Flushed
  <2>2. BeingSent(r) => BeingSent(r)'
    BY <1>1, <1>5, <1>6, <2>1
  <2>3. InFlight' = InFlight
    BY <2>1 DEF InFlight
  <2> QED
    BY <1>4, <2>1, <2>2, <2>3 DEF Somewhere, Asked, Buffered, InPool, HasReply
<1>15. ASSUME NEW fd \in Fd, NEW n \in 0 .. Len(inbox[sock[fd]]), Took(fd, n)
       PROVE  Somewhere(r)'
  <2> DEFINE e == sock[fd]
             s == inbox[e]
             t == recvBuf[fd]
             p == SubSeq(s, 1, n)
             q == SubSeq(s, n + 1, Len(s))
  <2>1. /\ e \in Conn /\ recvBuf' = [recvBuf EXCEPT ![fd] = t \o p]
        /\ inbox' = [inbox EXCEPT ![e] = q]
        /\ UNCHANGED <<todo, got, wire, sendBuf, work, done, batch>>
    BY <1>15 DEF Took
  <2>2. /\ \A d \in Conn : inbox'[d] = IF d = e THEN q ELSE inbox[d]
        /\ \A g \in Fd : recvBuf'[g] = IF g = fd THEN t \o p ELSE recvBuf[g]
    BY <1>1, <2>1
  <2>3. s \in Seq(Request) /\ t \in Seq(Request)
    BY <1>1, <2>1
  <2>4. p \in Seq(Request) /\ (Within(r, s) <=> Within(r, p) \/ Within(r, q))
    <3> HIDE DEF s
    <3> QED
      BY <2>3, SplitHeld DEF s
  <2> HIDE DEF t, p, q
  <2>5. Within(r, t \o p) <=> Within(r, t) \/ Within(r, p)
    BY <2>3, <2>4, JoinHeld
  <2>6. Asked(r) => Asked(r)' \/ Within(r, p)
    BY <2>1, <2>2, <2>4 DEF Asked
  <2>7. Buffered(r) \/ Within(r, p) => Buffered(r)'
    BY <2>2, <2>5 DEF Buffered, t
  <2>8. InFlight' = InFlight
    BY <2>1 DEF InFlight
  <2> QED
    BY <1>4, <2>1, <2>6, <2>7, <2>8 DEF Somewhere, InPool, BeingSent, HasReply
<1>16. ASSUME NEW item \in Completion, Finishes(item) PROVE Somewhere(r)'
  <2>1. /\ item \in work /\ work' = work \ {item} /\ done' = Append(done, item) /\ batch' = batch
        /\ UNCHANGED <<todo, inbox, got, wire, recvBuf, sendBuf>>
    BY <1>16 DEF Finishes
  <2>2. InFlight' = InFlight
    <3>1. Items(Append(done, item)) = Items(done) \cup {item}
      BY <1>1, ItemsFacts
    <3>2. Items(done') = Items(done) \cup {item} /\ Items(batch') = Items(batch)
      BY <2>1, <3>1
    <3> QED
      BY <2>1, <3>2 DEF InFlight
  <2> QED
    BY <1>4, <2>1, <2>2 DEF Somewhere, Asked, Buffered, InPool, BeingSent, HasReply
<1>17. ASSUME NEW d \in Conn, Asks(d) PROVE Somewhere(r)'
  <2> DEFINE s == todo[d]
             t == inbox[d]
             x == Head(s)
  <2>1. /\ s # <<>> /\ inbox' = [inbox EXCEPT ![d] = Append(t, x)]
        /\ todo' = [todo EXCEPT ![d] = Tail(s)]
        /\ UNCHANGED <<got, wire, recvBuf, sendBuf, work, done, batch>>
    BY <1>17 DEF Asks
  <2>2. /\ \A e \in Conn : inbox'[e] = IF e = d THEN Append(t, x) ELSE inbox[e]
        /\ \A e \in Conn : todo'[e] = IF e = d THEN Tail(s) ELSE todo[e]
    BY <1>1, <2>1
  <2>3. s \in Seq(Request) /\ t \in Seq(Request) /\ x \in Request
        /\ (Within(r, s) <=> Within(r, Tail(s)) \/ r = x)
    BY <1>1, <2>1, TakeFacts, TailHeld
  <2> HIDE DEF x
  <2>4. Within(r, Append(t, x)) <=> Within(r, t) \/ r = x
    BY <2>3, AppendHeld
  <2>5. Asked(r) => Asked(r)'
    BY <2>2, <2>3, <2>4 DEF Asked
  <2>6. InFlight' = InFlight
    BY <2>1 DEF InFlight
  <2> QED
    BY <1>4, <2>1, <2>5, <2>6 DEF Somewhere, Buffered, InPool, BeingSent, HasReply
<1>18. ASSUME NEW d \in Conn, Reads(d) PROVE Somewhere(r)'
  <2> DEFINE s == wire[d]
  <2>1. /\ s # <<>> /\ got' = [got EXCEPT ![d] = got[d] \cup {Head(s)}]
        /\ wire' = [wire EXCEPT ![d] = Tail(s)]
        /\ UNCHANGED <<todo, inbox, recvBuf, sendBuf, work, done, batch>>
    BY <1>18 DEF Reads
  <2>2. /\ \A e \in Conn : got'[e] = IF e = d THEN got[d] \cup {Head(s)} ELSE got[e]
        /\ \A e \in Conn : wire'[e] = IF e = d THEN Tail(s) ELSE wire[e]
    BY <1>1, <2>1
  <2>3. Within(r, s) <=> Within(r, Tail(s)) \/ r = Head(s)
    BY <1>1, <2>1, TailHeld
  <2>4. BeingSent(r) => BeingSent(r)' \/ r = Head(s)
    BY <2>1, <2>2, <2>3 DEF BeingSent
  <2>5. HasReply(r) \/ r = Head(s) => HasReply(r)'
    BY <2>2 DEF HasReply
  <2>6. InFlight' = InFlight
    BY <2>1 DEF InFlight
  <2> QED
    BY <1>4, <2>1, <2>4, <2>5, <2>6 DEF Somewhere, Asked, Buffered, InPool
<1> QED
  BY <1>7, <1>8, <1>10, <1>11, <1>12, <1>13, <1>14, <1>15, <1>16, <1>17, <1>18, DataStep
     DEF Moving

-----------------------------------------------------------------------------
(* No reply that is made at once overtakes an earlier one of its client:    *)
(* wherever the later request is, the earlier one is ahead of it.           *)
Queried(r) == Kind[r] \in {"query", "shutdown"}
Answering(c, r) == Delivered(c, r) \/ \E fd \in Fd : sock[fd] = c /\ Within(r, sendBuf[fd])
Taken(c, r) == Answering(c, r) \/ \E fd \in Fd : sock[fd] = c /\ Within(r, recvBuf[fd])
RepliesInOrder(c, a, b) ==
    \A fd \in Fd : sock[fd] = c => Delivered(c, a) \/ Before(sendBuf[fd], a, b)
FramesInOrder(c, a, b) ==
    \A fd \in Fd : sock[fd] = c => Answering(c, a) \/ Before(recvBuf[fd], a, b)
RequestsInOrder(c, a, b) ==
    ~Gone(c) => /\ Taken(c, a) \/ Before(inbox[c], a, b)
                /\ Taken(c, a) \/ Within(a, inbox[c]) \/ Before(todo[c], a, b)
NotOvertaken(c, a, b) ==
    /\ Delivered(c, b) => Delivered(c, a)
    /\ pc # "killed" => /\ RepliesInOrder(c, a, b)
                        /\ FramesInOrder(c, a, b)
                        /\ RequestsInOrder(c, a, b)
Precedes(c, a, b) ==
    \E i, j \in DOMAIN script[c] : i < j /\ script[c][i] = a /\ script[c][j] = b
InOrder ==
    \A c \in Conn : peer[c] \in {"idle", "open"} =>
        \A a, b \in Request :
            Precedes(c, a, b) /\ Queried(a) /\ Queried(b) => NotOvertaken(c, a, b)

(* A dead process changes nothing: the clients read what was sent. *)
LEMMA KilledStep ==
  ASSUME TypeInv, pc = "killed", [Next]_vars, NEW c \in Conn, NEW r \in Request
  PROVE  pc' = "killed" /\ (peer'[c] \in {"idle", "open"} => (Delivered(c, r)' <=> Delivered(c, r)))
<1>1. CASE UNCHANGED vars
  BY <1>1 DEF vars, userVars, Delivered
<1>2. ASSUME NEW d \in Conn, ClientRead(d) PROVE Delivered(c, r)' <=> Delivered(c, r)
  <2>1. /\ wire[d] # <<>> /\ wire \in [Conn -> Seq(Reply)] /\ got \in [Conn -> SUBSET Reply]
        /\ got' = [got EXCEPT ![d] = got[d] \cup {Head(wire[d])}]
        /\ wire' = [wire EXCEPT ![d] = Tail(wire[d])]
    BY <1>2 DEF ClientRead, TypeInv, TypeOK, Reply
  <2>2. Within(r, wire[d]) <=> Within(r, Tail(wire[d])) \/ r = Head(wire[d])
    BY <2>1, TailHeld
  <2>3. /\ got'[c] = IF c = d THEN got[d] \cup {Head(wire[d])} ELSE got[c]
        /\ wire'[c] = IF c = d THEN Tail(wire[d]) ELSE wire[c]
    BY <2>1
  <2> QED
    BY <2>2, <2>3 DEF Delivered
<1>3. UNCHANGED vars \/ \E d \in Conn : ClientRead(d)
  BY DEF Next, Main, PollStep, ClientStep, FrameStep, StopStep, WorkerStep, User, Finished,
     BeginPoll, BetweenPolls, SendDrained, SendNotified, SendBatch, PollReturn, Accept, AcceptDone,
     Notified, HangUp, Receive, ReceiveEnd, WriteOnly, Flush, HandleRun, HandleQuery, HandleBad,
     HandleShutdown, HandleHuge, Take, Signal, StopServer, DiscardCompletions, CloseNotify,
     StopPool, PushCompletion, WriteEvent, Connect, ClientSend, ClientClose, Alive
<1> QED
  BY <1>1, <1>2, <1>3, LifeStep

(* send() to a client that stays keeps the order of the buffer. *)
LEMMA SentOrder ==
  ASSUME DescriptorInv, NEW c \in Conn, peer'[c] \in {"idle", "open"},
         NEW a \in Request, NEW b \in Request,
         Delivered(c, b) => Delivered(c, a), RepliesInOrder(c, a, b),
         NEW fd \in Fd, NEW buf \in Seq(Reply), Sent(fd, buf), sock' = sock, got' = got,
         Within(a, sendBuf[fd]) => Within(a, buf),
         sock[fd] = c => Delivered(c, a) \/ Before(buf, a, b)
  PROVE  /\ Delivered(c, b)' => Delivered(c, a)'
         /\ pc' # "killed" => RepliesInOrder(c, a, b)'
         /\ pc' # "killed" =>
               (Answering(c, a) \/ (sock[fd] = c /\ Within(a, buf)) => Answering(c, a)')
<1>1. /\ TypeInv /\ sendBuf \in [Fd -> Seq(Reply)] /\ wire \in [Conn -> Seq(Reply)]
      /\ peer \in [Conn -> PeerState] /\ c # None
      /\ \A f, g \in Fd : sock[f] # None /\ sock[f] = sock[g] => f = g
  BY ConstantFacts DEF DescriptorInv, DescriptorsOwned, TypeInv, TypeOK, Reply
<1>2. CASE pc' = "killed" /\ UNCHANGED <<sendBuf, wire, peer>>
  BY <1>2 DEF Delivered
<1>3. ASSUME wire'[c] = wire[c], \A g \in Fd : sock[g] = c => sendBuf'[g] = sendBuf[g],
             sock[fd] # c
      PROVE  /\ Delivered(c, b)' => Delivered(c, a)'
             /\ RepliesInOrder(c, a, b)'
             /\ Answering(c, a) => Answering(c, a)'
  BY <1>3 DEF Delivered, RepliesInOrder, Answering
<1>4. CASE sock[fd] # c
  <2>1. wire'[c] = wire[c]
    BY <1>1, <1>4 DEF Sent, SentSome, SentNone
  <2>2. \A g \in Fd : g # fd => sendBuf'[g] = sendBuf[g]
    BY <1>1, SentWithin
  <2> QED
    BY <1>3, <1>4, <2>1, <2>2
<1>5. ASSUME sock[fd] = c, NEW n \in 0 .. Len(buf), SentSome(fd, buf, n)
      PROVE  /\ Delivered(c, b)' => Delivered(c, a)'
             /\ RepliesInOrder(c, a, b)'
             /\ Answering(c, a) \/ Within(a, buf) => Answering(c, a)'
  <2> DEFINE w == wire[c]
             p == SubSeq(buf, 1, n)
             q == SubSeq(buf, n + 1, Len(buf))
  <2>1. /\ w \in Seq(Reply) /\ wire' = [wire EXCEPT ![c] = w \o p]
        /\ sendBuf' = [sendBuf EXCEPT ![fd] = q]
    BY <1>1, <1>5 DEF SentSome
  <2>2. /\ p \in Seq(Reply)
        /\ \A r : Within(r, buf) <=> Within(r, p) \/ Within(r, q)
        /\ Before(buf, a, b) => Before(p, a, b) /\ (Within(a, p) \/ Before(q, a, b))
    BY SplitHeld
  <2> HIDE DEF p, q, w
  <2>3. \A r : Within(r, w \o p) <=> Within(r, w) \/ Within(r, p)
    BY <2>1, <2>2, JoinHeld
  <2>4. wire'[c] = w \o p /\ sendBuf'[fd] = q
    BY <1>1, <2>1
  <2>5. \A g \in Fd : sock[g] = c => g = fd
    BY <1>1, <1>5
  <2>6. \A r : Delivered(c, r)' <=> Delivered(c, r) \/ Within(r, p)
    BY <2>3, <2>4 DEF Delivered, w
  <2>7. Before(p, a, b) => (Within(b, p) => Within(a, p))
    BY DEF Before, Within
  <2>8. Delivered(c, b)' => Delivered(c, a)'
    BY <1>5, <2>2, <2>6, <2>7
  <2>9. RepliesInOrder(c, a, b)'
    BY <1>5, <2>2, <2>4, <2>5, <2>6 DEF RepliesInOrder
  <2>10. Answering(c, a) \/ Within(a, buf) => Answering(c, a)'
    <3>1. Answering(c, a) => Delivered(c, a) \/ Within(a, buf)
      BY <2>5 DEF Answering
    <3>2. Within(a, buf) => Within(a, p) \/ Within(a, sendBuf'[fd])
      BY <2>2, <2>4
    <3> QED
      BY <1>5, <2>6, <3>1, <3>2 DEF Answering
  <2> QED
    BY <2>8, <2>9, <2>10
<1>6. CASE SentNone(fd, buf)
  <2>1. sock[fd] # c
    BY <1>1, <1>6 DEF SentNone
  <2> QED
    BY <1>4, <2>1
<1> QED
  BY <1>2, <1>4, <1>5, <1>6 DEF Sent

(* A step keeps two requests of a client in order. *)
LEMMA OrderKept ==
  ASSUME DescriptorInv, OnlyRuns, [Next]_vars, NEW c \in Conn, peer'[c] \in {"idle", "open"},
         NEW a \in Request, NEW b \in Request, Queried(a), Queried(b),
         pc # "killed", NotOvertaken(c, a, b)
  PROVE  NotOvertaken(c, a, b)'
<1>1. /\ TypeInv /\ wire \in [Conn -> Seq(Reply)] /\ todo \in [Conn -> Seq(Request)]
      /\ inbox \in [Conn -> Seq(Request)] /\ got \in [Conn -> SUBSET Reply]
      /\ recvBuf \in [Fd -> Seq(Request)] /\ sendBuf \in [Fd -> Seq(Reply)]
      /\ work \in SUBSET Completion /\ done \in Seq(Completion) /\ batch \in Seq(Completion)
      /\ sock \in [Fd -> Conn \cup {None}] /\ cur \in Fd /\ c # None
      /\ \A f, g \in Fd : sock[f] # None /\ sock[f] = sock[g] => f = g
      /\ NoId \notin Request
  BY ConstantFacts DEF DescriptorInv, DescriptorsOwned, TypeInv, TypeOK, Reply
<1>2. /\ Delivered(c, b) => Delivered(c, a)
      /\ RepliesInOrder(c, a, b) /\ FramesInOrder(c, a, b) /\ RequestsInOrder(c, a, b)
  BY DEF NotOvertaken
<1>3. ~Gone(c)' => ~Gone(c) /\ \A fd \in Fd : sock[fd] = c => sock'[fd] = c
  BY HomeStays
<1>4. \A fd, g \in Fd : sock[fd] = c /\ sock[g] = c => fd = g
  BY <1>1
<1> DEFINE Kept == /\ RepliesInOrder(c, a, b)'
                   /\ FramesInOrder(c, a, b)'
                   /\ RequestsInOrder(c, a, b)'
           Goal == (Delivered(c, b)' => Delivered(c, a)') /\ (pc' # "killed" => Kept)
<1> SUFFICES Goal
  BY DEF NotOvertaken
<1>5. ASSUME wire'[c] = wire[c], got' = got, todo' = todo, inbox' = inbox,
             \A fd \in Fd : sock[fd] = c /\ sock'[fd] = c =>
                               sendBuf'[fd] = sendBuf[fd] /\ recvBuf'[fd] = recvBuf[fd],
             \A fd \in Fd : sock[fd] # c /\ sock'[fd] = c =>
                               sendBuf'[fd] = <<>> /\ recvBuf'[fd] = <<>>
      PROVE  Goal
  <2>1. \A r : Delivered(c, r)' <=> Delivered(c, r)
    BY <1>5 DEF Delivered
  <2>2. RepliesInOrder(c, a, b)'
    BY <1>2, <1>5, <2>1, EmptyHeld DEF RepliesInOrder
  <2>3. (\A fd \in Fd : sock[fd] = c => sock'[fd] = c) =>
           (Answering(c, a) => Answering(c, a)') /\ (Taken(c, a) => Taken(c, a)')
    BY <1>5, <2>1 DEF Answering, Taken
  <2>4. FramesInOrder(c, a, b)'
    <3> SUFFICES ASSUME NEW fd \in Fd, sock'[fd] = c
                 PROVE  Answering(c, a)' \/ Before(recvBuf'[fd], a, b)
      BY DEF FramesInOrder
    <3>1. CASE sock[fd] # c
      BY <1>5, <3>1, EmptyHeld
    <3>2. CASE sock[fd] = c
      <4>1. Answering(c, a) => Answering(c, a)'
        BY <1>4, <2>1, <1>5, <3>2 DEF Answering
      <4> QED
        BY <1>2, <1>5, <3>2, <4>1 DEF FramesInOrder
    <3> QED
      BY <3>1, <3>2
  <2>5. RequestsInOrder(c, a, b)'
    BY <1>2, <1>3, <1>5, <2>3 DEF RequestsInOrder
  <2> QED
    BY <1>2, <2>1, <2>2, <2>4, <2>5
<1>6. CASE Accept
  <2>1. PICK fd \in Fd :
           /\ recvBuf' = [recvBuf EXCEPT ![fd] = <<>>]
           /\ sendBuf' = [sendBuf EXCEPT ![fd] = <<>>]
           /\ sock' = [sock EXCEPT ![fd] = Head(backlog)] /\ sock[fd] = None
           /\ UNCHANGED <<inbox, wire, todo, got>>
    BY <1>1, <1>6, AcceptEffect DEF userVars
  <2>2. \A g \in Fd : /\ sock'[g] = IF g = fd THEN Head(backlog) ELSE sock[g]
                      /\ recvBuf'[g] = IF g = fd THEN <<>> ELSE recvBuf[g]
                      /\ sendBuf'[g] = IF g = fd THEN <<>> ELSE sendBuf[g]
    BY <1>1, <2>1
  <2> QED
    BY <1>1, <1>5, <2>1, <2>2
<1>7. CASE Dropping /\ ~Accept
  <2>1. \A fd \in Fd : sock'[fd] = c => sock[fd] = c
    <3>1. CASE StopServer
      BY <1>1, <3>1 DEF StopServer, CloseAll
    <3>2. CASE \E fd \in Fd : Closes(fd)
      BY <1>1, <3>2 DEF Closes
    <3>3. CASE Keeps \/ DiscardCompletions \/ \E d \in Conn : Connect(d)
      BY <3>3 DEF Keeps, DiscardCompletions, Connect
    <3> QED
      BY <1>1, <1>7, <3>1, <3>2, <3>3, SocketStep
  <2>2. wire'[c] = wire[c] /\ got' = got /\ todo' = todo /\ inbox' = inbox
    BY <1>7 DEF Dropping
  <2>3. \A fd \in Fd : sock[fd] = c /\ sock'[fd] = c =>
                          sendBuf'[fd] = sendBuf[fd] /\ recvBuf'[fd] = recvBuf[fd]
    BY <1>1, <1>7 DEF Dropping
  <2> QED
    BY <1>5, <2>1, <2>2, <2>3
<1>8. CASE Swapped \/ Discarded \/ \E item \in Completion : Finishes(item)
  BY <1>5, <1>8 DEF Swapped, Discarded, Finishes, Stays
<1>9. CASE Submitted
  <2> DEFINE s == recvBuf[cur]
  <2>1. /\ s # <<>> /\ UNCHANGED <<sock, todo, inbox, got, wire, sendBuf>>
        /\ recvBuf' = [recvBuf EXCEPT ![cur] = Tail(s)] /\ Kind[Head(s)] = "run"
    BY <1>9 DEF Submitted, Stays
  <2>2. \A g \in Fd : recvBuf'[g] = IF g = cur THEN Tail(s) ELSE recvBuf[g]
    BY <1>1, <2>1
  <2>3. Head(s) # a
    BY <2>1 DEF Queried
  <2>4. /\ Within(a, s) => Within(a, Tail(s))
        /\ Before(s, a, b) => Before(Tail(s), a, b)
    BY <1>1, <2>1, <2>3, TailHeld
  <2>5. \A r : (Delivered(c, r)' <=> Delivered(c, r)) /\ (Answering(c, r)' <=> Answering(c, r))
    BY <2>1 DEF Delivered, Answering
  <2>6. Taken(c, a) => Taken(c, a)'
    BY <2>1, <2>2, <2>4, <2>5 DEF Taken
  <2>7. RepliesInOrder(c, a, b)' /\ FramesInOrder(c, a, b)'
    BY <1>2, <2>1, <2>2, <2>4, <2>5 DEF RepliesInOrder, FramesInOrder
  <2>8. RequestsInOrder(c, a, b)'
    BY <1>2, <1>3, <2>1, <2>6 DEF RequestsInOrder
  <2> QED
    BY <1>2, <2>5, <2>7, <2>8
<1>10. ASSUME NEW fd \in Fd, NEW buf \in Seq(Reply), Sent(fd, buf),
              UNCHANGED <<sock, got, todo, inbox, recvBuf>>,
              Within(a, sendBuf[fd]) => Within(a, buf),
              sock[fd] = c => Delivered(c, a) \/ Before(buf, a, b)
       PROVE  Goal
  <2>1. /\ Delivered(c, b)' => Delivered(c, a)'
        /\ pc' # "killed" => RepliesInOrder(c, a, b)'
        /\ pc' # "killed" => (Answering(c, a) => Answering(c, a)')
    BY <1>2, <1>10, SentOrder
  <2>2. pc' # "killed" => (Taken(c, a) => Taken(c, a)')
    BY <1>10, <2>1 DEF Taken
  <2>3. pc' # "killed" => FramesInOrder(c, a, b)'
    BY <1>2, <1>10, <2>1 DEF FramesInOrder
  <2>4. pc' # "killed" => RequestsInOrder(c, a, b)'
    BY <1>2, <1>3, <1>10, <2>2 DEF RequestsInOrder
  <2> QED
    BY <2>1, <2>3, <2>4
<1>11. CASE Answered
  <2> DEFINE fd == Head(batch).fd
             x == Head(batch).req
             buf == Append(sendBuf[fd], x)
  <2>1. batch # <<>> /\ Sent(fd, buf) /\ UNCHANGED <<sock, todo, inbox, got, recvBuf>>
    BY <1>11 DEF Answered, Stays
  <2>2. Head(batch) \in InFlight /\ Head(batch) \in Completion
    BY <1>1, <2>1, ItemsFacts, TakeFacts DEF InFlight
  <2>3. fd \in Fd /\ x \in Reply /\ x # b
    BY <2>2 DEF Completion, Reply, OnlyRuns, Queried
  <2> HIDE DEF fd, x
  <2>4. /\ buf \in Seq(Reply)
        /\ Within(a, sendBuf[fd]) => Within(a, buf)
        /\ Before(sendBuf[fd], a, b) => Before(buf, a, b)
    BY <1>1, <2>3, AppendFacts, AppendHeld
  <2> HIDE DEF buf
  <2>5. sock[fd] = c => Delivered(c, a) \/ Before(buf, a, b)
    BY <1>2, <2>3, <2>4 DEF RepliesInOrder
  <2> QED
    BY <1>10, <2>1, <2>3, <2>4, <2>5
<1>12. CASE Flushed
  <2>1. sendBuf[cur] \in Seq(Reply) /\ Sent(cur, sendBuf[cur])
        /\ UNCHANGED <<sock, todo, inbox, got, recvBuf>>
    BY <1>1, <1>12 DEF Flushed, Stays
  <2>2. sock[cur] = c => Delivered(c, a) \/ Before(sendBuf[cur], a, b)
    BY <1>1, <1>2 DEF RepliesInOrder
  <2> QED
    BY <1>1, <1>10, <2>1, <2>2
<1>13. ASSUME NEW x \in Reply, Replied(x) PROVE Goal
  <2> DEFINE s == recvBuf[cur]
             h == Head(s)
             t == sendBuf[cur]
             buf == Append(t, x)
  <2>1. /\ s # <<>> /\ Sent(cur, buf) /\ UNCHANGED <<sock, todo, inbox, got>>
        /\ recvBuf' = [recvBuf EXCEPT ![cur] = Tail(s)]
        /\ (Kind[h] # "bad" => x = h) /\ x \in {NoId, h}
    BY <1>13 DEF Replied, Stays
  <2>2. \A g \in Fd : recvBuf'[g] = IF g = cur THEN Tail(s) ELSE recvBuf[g]
    BY <1>1, <2>1
  <2>3. /\ Within(a, s) <=> Within(a, Tail(s)) \/ a = h
        /\ Before(s, a, b) => h # b /\ (h # a => Before(Tail(s), a, b))
    BY <1>1, <2>1, TailHeld
  <2>4. (a = h => a = x) /\ (x = b => h = b)
    BY <1>1, <2>1 DEF Queried
  <2>5. /\ buf \in Seq(Reply)
        /\ Within(a, buf) <=> Within(a, t) \/ a = x
        /\ Before(t, a, b) /\ (x = b => Within(a, t)) => Before(buf, a, b)
    BY <1>1, AppendFacts, AppendHeld
  <2>6. sock[cur] = c => (Answering(c, a) => Delivered(c, a) \/ Within(a, t))
    BY <1>1, <1>4 DEF Answering
  <2>7. sock[cur] = c => (Answering(c, a) \/ Before(s, a, b))
    BY <1>1, <1>2 DEF FramesInOrder
  <2>8. sock[cur] = c => Delivered(c, a) \/ Before(t, a, b)
    BY <1>1, <1>2 DEF RepliesInOrder
  <2> HIDE DEF s, h, t, buf
  <2>9. sock[cur] = c => Delivered(c, a) \/ Before(buf, a, b)
    BY <2>3, <2>4, <2>5, <2>6, <2>7, <2>8
  <2>10. /\ Delivered(c, b)' => Delivered(c, a)'
         /\ pc' # "killed" => RepliesInOrder(c, a, b)'
         /\ pc' # "killed" =>
               (Answering(c, a) \/ (sock[cur] = c /\ Within(a, buf)) => Answering(c, a)')
    <3>1. Within(a, sendBuf[cur]) => Within(a, buf)
      BY <2>5 DEF t
    <3> QED
      BY <1>1, <1>2, <2>1, <2>5, <2>9, <3>1, SentOrder
  <2>11. ASSUME pc' # "killed" PROVE Taken(c, a) => Taken(c, a)'
    <3>1. sock[cur] = c /\ Within(a, s) => Within(a, recvBuf'[cur]) \/ Answering(c, a)'
      BY <1>1, <2>2, <2>3, <2>4, <2>5, <2>10, <2>11
    <3>2. \A g \in Fd : g # cur => recvBuf'[g] = recvBuf[g]
      BY <2>2
    <3>3. sock' = sock
      BY <2>1
    <3> QED
      BY <1>1, <2>10, <2>11, <3>1, <3>2, <3>3 DEF Taken, s
  <2>12. ASSUME pc' # "killed" PROVE FramesInOrder(c, a, b)'
    <3> SUFFICES ASSUME NEW g \in Fd, sock[g] = c
                 PROVE  Answering(c, a)' \/ Before(recvBuf'[g], a, b)
      BY <2>1 DEF FramesInOrder
    <3>1. CASE g # cur
      BY <1>2, <2>2, <2>10, <2>12, <3>1 DEF FramesInOrder
    <3>2. CASE g = cur
      BY <2>2, <2>3, <2>4, <2>5, <2>7, <2>10, <2>12, <3>2
    <3> QED
      BY <3>1, <3>2
  <2>13. pc' # "killed" => RequestsInOrder(c, a, b)'
    BY <1>2, <1>3, <2>1, <2>11 DEF RequestsInOrder
  <2> QED
    BY <2>10, <2>12, <2>13
<1>14. ASSUME NEW fd \in Fd, NEW n \in 0 .. Len(inbox[sock[fd]]), Took(fd, n) PROVE Goal
  <2> DEFINE e == sock[fd]
             s == inbox[e]
             t == recvBuf[fd]
             p == SubSeq(s, 1, n)
             q == SubSeq(s, n + 1, Len(s))
  <2>1. /\ e \in Conn /\ recvBuf' = [recvBuf EXCEPT ![fd] = t \o p]
        /\ inbox' = [inbox EXCEPT ![e] = q]
        /\ UNCHANGED <<sock, todo, got, wire, sendBuf>>
    BY <1>14 DEF Took, Stays
  <2>2. /\ \A d \in Conn : inbox'[d] = IF d = e THEN q ELSE inbox[d]
        /\ \A g \in Fd : recvBuf'[g] = IF g = fd THEN t \o p ELSE recvBuf[g]
    BY <1>1, <2>1
  <2>3. s \in Seq(Request) /\ t \in Seq(Request)
    BY <1>1, <2>1
  <2>4. /\ p \in Seq(Request)
        /\ Within(a, s) <=> Within(a, p) \/ Within(a, q)
        /\ Before(s, a, b) => Before(p, a, b) /\ (Within(a, p) \/ Before(q, a, b))
    <3> HIDE DEF s
    <3> QED
      BY <2>3, SplitHeld DEF s
  <2> HIDE DEF p, q
  <2>5. /\ Within(a, t \o p) <=> Within(a, t) \/ Within(a, p)
        /\ Before(t, a, b) /\ (Within(a, t) \/ Before(p, a, b)) => Before(t \o p, a, b)
    <3> HIDE DEF t, s
    <3> QED
      BY <2>3, <2>4, JoinHeld
  <2>6. \A r : (Delivered(c, r)' <=> Delivered(c, r)) /\ (Answering(c, r)' <=> Answering(c, r))
    BY <2>1 DEF Delivered, Answering
  <2>7. RepliesInOrder(c, a, b)'
    BY <1>2, <2>1, <2>6 DEF RepliesInOrder
  <2>8. Taken(c, a) \/ (e = c /\ Within(a, p)) => Taken(c, a)'
    BY <2>1, <2>2, <2>5, <2>6 DEF Taken
  <2>9. CASE e # c
    <3>1. FramesInOrder(c, a, b)'
      BY <1>2, <2>1, <2>2, <2>6, <2>9 DEF FramesInOrder
    <3>2. RequestsInOrder(c, a, b)'
      BY <1>2, <1>3, <2>1, <2>2, <2>8, <2>9 DEF RequestsInOrder
    <3> QED
      BY <1>2, <2>6, <2>7, <3>1, <3>2
  <2>10. CASE e = c
    <3>1. ~Gone(c)
      BY <2>10 DEF Gone
    <3>2. /\ Taken(c, a) \/ Before(s, a, b)
          /\ Taken(c, a) \/ Within(a, s) \/ Before(todo[c], a, b)
      BY <1>2, <2>10, <3>1 DEF RequestsInOrder
    <3>3. Answering(c, a) \/ Before(t, a, b)
      BY <1>2, <2>10 DEF FramesInOrder
    <3>4. Taken(c, a) => Answering(c, a) \/ Within(a, t)
      BY <1>4, <2>10 DEF Taken
    <3>5. \A g \in Fd : sock[g] = c => g = fd
      BY <1>4, <2>10
    <3> HIDE DEF s, t
    <3>6. Answering(c, a) \/ Before(t \o p, a, b)
      BY <2>4, <2>5, <3>2, <3>3, <3>4
    <3>7. FramesInOrder(c, a, b)'
      BY <2>1, <2>2, <2>6, <3>5, <3>6 DEF FramesInOrder
    <3>8. /\ Taken(c, a)' \/ Before(q, a, b)
          /\ Taken(c, a)' \/ Within(a, q) \/ Before(todo[c], a, b)
      BY <2>4, <2>8, <2>10, <3>2
    <3>9. RequestsInOrder(c, a, b)'
      BY <2>1, <2>2, <2>10, <3>8 DEF RequestsInOrder
    <3> QED
      BY <1>2, <2>6, <2>7, <3>7, <3>9
  <2> QED
    BY <2>9, <2>10
<1>15. ASSUME NEW d \in Conn, Asks(d) PROVE Goal
  <2> DEFINE s == todo[d]
             t == inbox[d]
             x == Head(s)
  <2>1. /\ s # <<>> /\ inbox' = [inbox EXCEPT ![d] = Append(t, x)]
        /\ todo' = [todo EXCEPT ![d] = Tail(s)]
        /\ UNCHANGED <<sock, got, wire, recvBuf, sendBuf>>
    BY <1>15 DEF Asks, Stays
  <2>2. /\ \A e \in Conn : inbox'[e] = IF e = d THEN Append(t, x) ELSE inbox[e]
        /\ \A e \in Conn : todo'[e] = IF e = d THEN Tail(s) ELSE todo[e]
    BY <1>1, <2>1
  <2>3. /\ s \in Seq(Request) /\ t \in Seq(Request) /\ x \in Request
        /\ Before(s, a, b) => x # b /\ (x # a => Before(Tail(s), a, b))
    BY <1>1, <2>1, TakeFacts, TailHeld
  <2> HIDE DEF s, t, x
  <2>4. /\ Within(a, Append(t, x)) <=> Within(a, t) \/ a = x
        /\ Before(t, a, b) /\ (x = b => Within(a, t)) => Before(Append(t, x), a, b)
    BY <2>3, AppendHeld
  <2>5. \A r : /\ Delivered(c, r)' <=> Delivered(c, r)
               /\ Answering(c, r)' <=> Answering(c, r)
               /\ Taken(c, r)' <=> Taken(c, r)
    BY <2>1 DEF Delivered, Answering, Taken
  <2>6. RepliesInOrder(c, a, b)' /\ FramesInOrder(c, a, b)'
    BY <1>2, <2>1, <2>5 DEF RepliesInOrder, FramesInOrder
  <2>7. RequestsInOrder(c, a, b)'
    <3>1. CASE d # c
      BY <1>2, <1>3, <2>2, <2>5, <3>1 DEF RequestsInOrder
    <3>2. ASSUME d = c, ~Gone(c)
          PROVE  /\ Taken(c, a) \/ Before(Append(t, x), a, b)
                 /\ Taken(c, a) \/ Within(a, Append(t, x)) \/ Before(Tail(s), a, b)
      <4>1. /\ Taken(c, a) \/ Before(t, a, b)
            /\ Taken(c, a) \/ Within(a, t) \/ Before(s, a, b)
        BY <1>2, <3>2 DEF RequestsInOrder, s, t
      <4> QED
        BY <2>3, <2>4, <4>1
    <3> QED
      BY <1>3, <2>2, <2>5, <3>1, <3>2 DEF RequestsInOrder
  <2> QED
    BY <1>2, <2>5, <2>6, <2>7
<1>16. ASSUME NEW d \in Conn, Reads(d) PROVE Goal
  <2> DEFINE s == wire[d]
  <2>1. /\ s # <<>> /\ got' = [got EXCEPT ![d] = got[d] \cup {Head(s)}]
        /\ wire' = [wire EXCEPT ![d] = Tail(s)]
        /\ UNCHANGED <<sock, todo, inbox, recvBuf, sendBuf>>
    BY <1>16 DEF Reads, Stays
  <2>2. /\ \A e \in Conn : got'[e] = IF e = d THEN got[d] \cup {Head(s)} ELSE got[e]
        /\ \A e \in Conn : wire'[e] = IF e = d THEN Tail(s) ELSE wire[e]
    BY <1>1, <2>1
  <2>3. \A r : Within(r, s) <=> Within(r, Tail(s)) \/ r = Head(s)
    BY <1>1, <2>1, TailHeld
  <2>4. \A r : Delivered(c, r)' <=> Delivered(c, r)
    BY <2>2, <2>3 DEF Delivered
  <2>5. \A r : (Answering(c, r)' <=> Answering(c, r)) /\ (Taken(c, r)' <=> Taken(c, r))
    BY <2>1, <2>4 DEF Answering, Taken
  <2>6. RepliesInOrder(c, a, b)' /\ FramesInOrder(c, a, b)'
    BY <1>2, <2>1, <2>4, <2>5 DEF RepliesInOrder, FramesInOrder
  <2>7. RequestsInOrder(c, a, b)'
    BY <1>2, <1>3, <2>1, <2>5 DEF RequestsInOrder
  <2> QED
    BY <1>2, <2>4, <2>6, <2>7
<1> QED
  BY <1>6, <1>7, <1>8, <1>9, <1>11, <1>12, <1>13, <1>14, <1>15, <1>16, DataStep DEF Moving

LEMMA InOrderStep ==
  ASSUME DescriptorInv, OnlyRuns, InOrder, [Next]_vars
  PROVE  InOrder'
<1>1. TypeInv /\ script' = script
  BY LifeStep DEF DescriptorInv
<1> SUFFICES ASSUME NEW c \in Conn, peer'[c] \in {"idle", "open"}, NEW a \in Request,
                    NEW b \in Request, Precedes(c, a, b)', Queried(a), Queried(b)
             PROVE  NotOvertaken(c, a, b)'
  BY DEF InOrder, Queried
<1>2. peer[c] \in {"idle", "open"} /\ Precedes(c, a, b)
  BY <1>1, LifeStep DEF Precedes
<1>3. NotOvertaken(c, a, b)
  BY <1>2 DEF InOrder
<1>4. CASE pc = "killed"
  BY <1>1, <1>3, <1>4, KilledStep DEF NotOvertaken
<1>5. CASE pc # "killed"
  BY <1>3, <1>5, OrderKept
<1> QED
  BY <1>4, <1>5

KeptInv ==
    /\ DescriptorInv
    /\ OnceInEach /\ EachInOneBox
    /\ OnlyRuns /\ AtHome /\ NoneDropped
    /\ InOrder

LEMMA KeptInit == Init => KeptInv
<1> SUFFICES ASSUME Init PROVE KeptInv
  OBVIOUS
<1>1. /\ todo = script /\ script \in Scripts /\ work = {} /\ done = <<>> /\ batch = <<>>
      /\ pc # "killed" /\ None \notin Conn
      /\ \A c \in Conn : inbox[c] = <<>> /\ wire[c] = <<>> /\ got[c] = {}
      /\ \A fd \in Fd : recvBuf[fd] = <<>> /\ sendBuf[fd] = <<>> /\ sock[fd] = None
  BY ConstantFacts DEF Init
<1>2. \A c, d \in Conn : \A i \in DOMAIN todo[c], j \in DOMAIN todo[d] :
         todo[c][i] = todo[d][j] => c = d /\ i = j
  BY <1>1, SentOnceAssumption
<1>3. InFlight = {}
  BY <1>1, ItemsFacts DEF InFlight
<1>4. OnlyRuns
  BY <1>3 DEF OnlyRuns
<1>5. AtHome
  <2> SUFFICES ASSUME NEW c \in Conn, NEW r \in Request, Owner(c, r) PROVE HomeIs(c, r)
    BY DEF AtHome
  <2>1. \A d \in Conn : Within(r, todo[d]) => d = c
    BY <1>1, <1>2 DEF Owner, Within
  <2> QED
    BY <1>1, <1>3, <2>1, EmptyHeld DEF HomeIs
<1>6. NoneDropped
  BY <1>1 DEF NoneDropped, Owner, Somewhere, Asked
<1>7. InOrder
  <2> SUFFICES ASSUME NEW c \in Conn, NEW a \in Request, NEW b \in Request, Precedes(c, a, b)
               PROVE  NotOvertaken(c, a, b)
    BY DEF InOrder
  <2>1. Before(todo[c], a, b)
    BY <1>1, <1>2 DEF Before, Precedes
  <2>2. /\ ~Delivered(c, b) /\ Before(inbox[c], a, b)
        /\ \A fd \in Fd : sock[fd] # c
    BY <1>1, EmptyHeld DEF Delivered
  <2> QED
    BY <2>1, <2>2 DEF NotOvertaken, RepliesInOrder, FramesInOrder, RequestsInOrder
<1> QED
  BY <1>4, <1>5, <1>6, <1>7, UniqueInit, DescriptorInit DEF KeptInv

LEMMA KeptStep == KeptInv /\ [Next]_vars => KeptInv'
<1> SUFFICES ASSUME KeptInv, [Next]_vars PROVE KeptInv'
  OBVIOUS
<1>1. DescriptorInv'
  BY DescriptorStep DEF KeptInv
<1>2. OnceInEach' /\ EachInOneBox'
  BY UniqueStep DEF KeptInv
<1>3. OnlyRuns' /\ AtHome'
  BY OnlyRunsStep, HomeStep DEF KeptInv
<1>4. NoneDropped' /\ InOrder'
  BY NoneDroppedStep, InOrderStep DEF KeptInv
<1> QED
  BY <1>1, <1>2, <1>3, <1>4 DEF KeptInv

(* A place is a position in a box. *)
At(p, r, b) ==
    \/ \E c \in Conn : \E i \in DOMAIN todo[c] :
          todo[c][i] = r /\ p = <<"todo", c, i>> /\ b = <<"todo", c>>
    \/ \E c \in Conn : \E i \in DOMAIN inbox[c] :
          inbox[c][i] = r /\ p = <<"inbox", c, i>> /\ b = <<"inbox", c>>
    \/ \E c \in Conn : \E i \in DOMAIN wire[c] :
          wire[c][i] = r /\ p = <<"wire", c, i>> /\ b = <<"wire", c>>
    \/ \E fd \in Fd : \E i \in DOMAIN recvBuf[fd] :
          recvBuf[fd][i] = r /\ p = <<"recvBuf", fd, i>> /\ b = <<"recvBuf", fd>>
    \/ \E fd \in Fd : \E i \in DOMAIN sendBuf[fd] :
          sendBuf[fd][i] = r /\ p = <<"sendBuf", fd, i>> /\ b = <<"sendBuf", fd>>
    \/ \E i \in DOMAIN done : done[i].req = r /\ p = <<"done", i>> /\ b = <<"done", 0>>
    \/ \E i \in DOMAIN batch : batch[i].req = r /\ p = <<"batch", i>> /\ b = <<"batch", 0>>
    \/ \E x \in work : x.req = r /\ p = <<"work", x>> /\ b = <<"work", 0>>
    \/ \E c \in Conn : r \in got[c] /\ p = <<"got", c>> /\ b = <<"got", c>>

LEMMA SpotsFacts ==
  ASSUME NEW name, NEW f, NEW r, NEW p
  PROVE  p \in Spots(name, f, r) <=>
            \E x \in DOMAIN f : \E i \in DOMAIN f[x] : f[x][i] = r /\ p = <<name, x, i>>
  BY DEF Spots

LEMMA EntriesFacts ==
  ASSUME NEW name, NEW s, NEW r, NEW p
  PROVE  p \in Entries(name, s, r) <=> \E i \in DOMAIN s : s[i].req = r /\ p = <<name, i>>
  BY DEF Entries

LEMMA PlaceAt ==
  ASSUME TypeInv, NEW r, NEW p
  PROVE  p \in Places(r) <=> \E b : At(p, r, b)
<1>1. /\ DOMAIN todo = Conn /\ DOMAIN inbox = Conn /\ DOMAIN wire = Conn
      /\ DOMAIN recvBuf = Fd /\ DOMAIN sendBuf = Fd
  BY DEF TypeInv, TypeOK
<1>2. /\ p \in Spots("todo", todo, r) <=>
            \E c \in Conn : \E i \in DOMAIN todo[c] : todo[c][i] = r /\ p = <<"todo", c, i>>
      /\ p \in Spots("inbox", inbox, r) <=>
            \E c \in Conn : \E i \in DOMAIN inbox[c] : inbox[c][i] = r /\ p = <<"inbox", c, i>>
      /\ p \in Spots("wire", wire, r) <=>
            \E c \in Conn : \E i \in DOMAIN wire[c] : wire[c][i] = r /\ p = <<"wire", c, i>>
  BY <1>1, SpotsFacts
<1>3. /\ p \in Spots("recvBuf", recvBuf, r) <=>
            \E fd \in Fd : \E i \in DOMAIN recvBuf[fd] :
               recvBuf[fd][i] = r /\ p = <<"recvBuf", fd, i>>
      /\ p \in Spots("sendBuf", sendBuf, r) <=>
            \E fd \in Fd : \E i \in DOMAIN sendBuf[fd] :
               sendBuf[fd][i] = r /\ p = <<"sendBuf", fd, i>>
  BY <1>1, SpotsFacts
<1>4. /\ p \in Entries("done", done, r) <=> \E i \in DOMAIN done : done[i].req = r /\ p = <<"done", i>>
      /\ p \in Entries("batch", batch, r) <=>
            \E i \in DOMAIN batch : batch[i].req = r /\ p = <<"batch", i>>
  BY EntriesFacts
<1>5. /\ p \in {<<"work", item>> : item \in {x \in work : x.req = r}} <=>
            \E x \in work : x.req = r /\ p = <<"work", x>>
      /\ p \in {<<"got", c>> : c \in {d \in Conn : r \in got[d]}} <=>
            \E c \in Conn : r \in got[c] /\ p = <<"got", c>>
  OBVIOUS
<1>6. p \in Places(r) <=>
         \/ p \in Spots("todo", todo, r) \/ p \in Spots("inbox", inbox, r)
         \/ p \in Spots("wire", wire, r)
         \/ p \in Spots("recvBuf", recvBuf, r) \/ p \in Spots("sendBuf", sendBuf, r)
         \/ p \in Entries("done", done, r) \/ p \in Entries("batch", batch, r)
         \/ p \in {<<"work", item>> : item \in {x \in work : x.req = r}}
         \/ p \in {<<"got", c>> : c \in {d \in Conn : r \in got[d]}}
  BY DEF Places
<1>7. (\E b : At(p, r, b)) <=>
         \/ \E c \in Conn : \E i \in DOMAIN todo[c] : todo[c][i] = r /\ p = <<"todo", c, i>>
         \/ \E c \in Conn : \E i \in DOMAIN inbox[c] : inbox[c][i] = r /\ p = <<"inbox", c, i>>
         \/ \E c \in Conn : \E i \in DOMAIN wire[c] : wire[c][i] = r /\ p = <<"wire", c, i>>
         \/ \E fd \in Fd : \E i \in DOMAIN recvBuf[fd] :
               recvBuf[fd][i] = r /\ p = <<"recvBuf", fd, i>>
         \/ \E fd \in Fd : \E i \in DOMAIN sendBuf[fd] :
               sendBuf[fd][i] = r /\ p = <<"sendBuf", fd, i>>
         \/ \E i \in DOMAIN done : done[i].req = r /\ p = <<"done", i>>
         \/ \E i \in DOMAIN batch : batch[i].req = r /\ p = <<"batch", i>>
         \/ \E x \in work : x.req = r /\ p = <<"work", x>>
         \/ \E c \in Conn : r \in got[c] /\ p = <<"got", c>>
  BY DEF At
<1> QED
  BY <1>2, <1>3, <1>4, <1>5, <1>6, <1>7

LEMMA BoxOfPlace ==
  ASSUME NEW r \in Request, NEW p, NEW b, At(p, r, b)
  PROVE  b \in Box /\ r \in Contents[b]
<1>1. ASSUME NEW c \in Conn, b = <<"todo", c>>, Within(r, todo[c])
      PROVE b \in Box /\ r \in Contents[b]
  BY <1>1, Boxes, ContentsNow DEF Held
<1>2. ASSUME NEW c \in Conn, b = <<"inbox", c>>, Within(r, inbox[c])
      PROVE b \in Box /\ r \in Contents[b]
  BY <1>2, Boxes, ContentsNow DEF Held
<1>3. ASSUME NEW c \in Conn, b = <<"wire", c>>, Within(r, wire[c])
      PROVE b \in Box /\ r \in Contents[b]
  BY <1>3, Boxes, ContentsNow DEF Held
<1>4. ASSUME NEW c \in Conn, b = <<"got", c>>, r \in got[c] PROVE b \in Box /\ r \in Contents[b]
  BY <1>4, Boxes, ContentsNow
<1>5. ASSUME NEW fd \in Fd, b = <<"recvBuf", fd>>, Within(r, recvBuf[fd])
      PROVE  b \in Box /\ r \in Contents[b]
  BY <1>5, Boxes, ContentsNow DEF Held
<1>6. ASSUME NEW fd \in Fd, b = <<"sendBuf", fd>>, Within(r, sendBuf[fd])
      PROVE  b \in Box /\ r \in Contents[b]
  BY <1>6, Boxes, ContentsNow DEF Held
<1>7. ASSUME NEW x \in work, x.req = r, b = <<"work", 0>> PROVE b \in Box /\ r \in Contents[b]
  BY <1>7, Boxes, ContentsNow
<1>8. ASSUME NEW i \in DOMAIN done, done[i].req = r, b = <<"done", 0>>
      PROVE  b \in Box /\ r \in Contents[b]
  BY <1>8, Boxes, ContentsNow DEF HeldIds
<1>9. ASSUME NEW i \in DOMAIN batch, batch[i].req = r, b = <<"batch", 0>>
      PROVE  b \in Box /\ r \in Contents[b]
  BY <1>9, Boxes, ContentsNow DEF HeldIds
<1> QED
  BY <1>1, <1>2, <1>3, <1>4, <1>5, <1>6, <1>7, <1>8, <1>9 DEF At, Within

LEMMA OnePlaceInBox ==
  ASSUME OnceInEach, NEW r \in Request, NEW p, NEW q, NEW b, At(p, r, b), At(q, r, b)
  PROVE  p = q
<1>1. ASSUME NEW s, OnceIn(s), NEW i \in DOMAIN s, NEW j \in DOMAIN s, s[i] = r, s[j] = r
      PROVE  i = j
  BY <1>1 DEF OnceIn
<1>2. /\ \A c \in Conn : OnceIn(todo[c]) /\ OnceIn(inbox[c]) /\ OnceIn(wire[c])
      /\ \A fd \in Fd : OnceIn(recvBuf[fd]) /\ OnceIn(sendBuf[fd])
      /\ OnceIds(done) /\ OnceIds(batch)
      /\ \A x, y \in work : x.req = y.req => x = y
  BY DEF OnceInEach
<1>3. CASE \E c \in Conn : b = <<"todo", c>>
  BY <1>1, <1>2, <1>3 DEF At
<1>4. CASE \E c \in Conn : b = <<"inbox", c>>
  BY <1>1, <1>2, <1>4 DEF At
<1>5. CASE \E c \in Conn : b = <<"wire", c>>
  BY <1>1, <1>2, <1>5 DEF At
<1>6. CASE \E c \in Conn : b = <<"got", c>>
  BY <1>6 DEF At
<1>7. CASE \E fd \in Fd : b = <<"recvBuf", fd>>
  BY <1>1, <1>2, <1>7 DEF At
<1>8. CASE \E fd \in Fd : b = <<"sendBuf", fd>>
  BY <1>1, <1>2, <1>8 DEF At
<1>9. CASE b = <<"work", 0>>
  BY <1>2, <1>9 DEF At
<1>10. CASE b = <<"done", 0>>
  BY <1>2, <1>10 DEF At, OnceIds
<1>11. CASE b = <<"batch", 0>>
  BY <1>2, <1>11 DEF At, OnceIds
<1>12. b \in Box
  BY BoxOfPlace
<1> QED
  BY <1>3, <1>4, <1>5, <1>6, <1>7, <1>8, <1>9, <1>10, <1>11, <1>12, Boxes

LEMMA KeptMeaning == KeptInv => RequestsKept
<1> SUFFICES ASSUME KeptInv PROVE RequestsKept
  OBVIOUS
<1>1. /\ TypeInv /\ OnceInEach /\ EachInOneBox /\ NoneDropped /\ InOrder
      /\ script \in [Conn -> Seq(Request)] /\ clients \subseteq Fd
  BY ConstantFacts DEF KeptInv, DescriptorInv, TypeInv, TypeOK
<1>2. ASSUME NEW r \in Request, NEW p \in Places(r), NEW q \in Places(r) PROVE p = q
  <2>1. PICK b : At(p, r, b)
    BY <1>1, PlaceAt
  <2>2. PICK d : At(q, r, d)
    BY <1>1, PlaceAt
  <2>3. b = d
    BY <1>1, <2>1, <2>2, BoxOfPlace DEF EachInOneBox, Apart
  <2> QED
    BY <1>1, <2>1, <2>2, <2>3, OnePlaceInBox
<1>3. ASSUME pc # "killed", NEW c \in Conn, Connected(c), NEW i \in DOMAIN script[c],
             Answerable(script[c][i])
      PROVE  Places(script[c][i]) # {}
  <2> DEFINE r == script[c][i]
  <2>1. r \in Request /\ Owner(c, r)
    BY <1>1, ElementOfSeq, LenProperties DEF Owner, Within
  <2> HIDE DEF r
  <2>2. peer[c] = "open" /\ ~Gone(c)
    BY <1>1, <1>3 DEF Connected, Gone, Attached
  <2>3. Somewhere(r)
    BY <1>1, <1>3, <2>1, <2>2 DEF NoneDropped, r
  <2>4. (\E b : \E p : At(p, r, b)) => Places(r) # {}
    BY <1>1, PlaceAt
  <2>5. Asked(r) => \E b : \E p : At(p, r, b)
    BY DEF Asked, Within, At
  <2>6. Buffered(r) => \E b : \E p : At(p, r, b)
    BY DEF Buffered, Within, At
  <2>7. InPool(r) => \E b : \E p : At(p, r, b)
    BY DEF InPool, InFlight, Items, At
  <2>8. BeingSent(r) => \E b : \E p : At(p, r, b)
    BY DEF BeingSent, Within, At
  <2>9. HasReply(r) => \E b : \E p : At(p, r, b)
    BY DEF HasReply, At
  <2>10. Places(r) # {}
    BY <2>3, <2>4, <2>5, <2>6, <2>7, <2>8, <2>9 DEF Somewhere
  <2> QED
    BY <2>10 DEF r
<1>4. EachRequestInOnePlace
  BY <1>2, <1>3 DEF EachRequestInOnePlace, Answerable
<1>5. QueriesInOrder
  <2> SUFFICES ASSUME NEW c \in Conn, NEW i \in DOMAIN script[c], NEW j \in DOMAIN script[c], i < j,
                      Queried(script[c][i]), Queried(script[c][j]), peer[c] = "open",
                      Delivered(c, script[c][j])
               PROVE  Delivered(c, script[c][i])
    BY DEF QueriesInOrder, Queried
  <2>1. script[c][i] \in Request /\ script[c][j] \in Request
    BY <1>1, ElementOfSeq, LenProperties
  <2>2. Precedes(c, script[c][i], script[c][j])
    BY DEF Precedes
  <2> QED
    BY <1>1, <2>1, <2>2 DEF InOrder, NotOvertaken
<1>6. AnswersGoHome
  <2> SUFFICES ASSUME NEW c \in Conn, NEW d \in Conn, Waiting(c) \/ Attached(c),
                      NEW i \in DOMAIN script[c], Delivered(d, script[c][i])
               PROVE  d = c
    BY DEF AnswersGoHome
  <2> DEFINE r == script[c][i]
  <2>1. r \in Request /\ Owner(c, r)
    BY <1>1, ElementOfSeq, LenProperties DEF Owner, Within
  <2>2. Delivered(d, r)
    OBVIOUS
  <2> HIDE DEF r
  <2>3. ~Gone(c)
    BY <1>1 DEF Gone, Attached
  <2>4. HomeIs(c, r)
    BY <2>1, <2>3 DEF KeptInv, AtHome
  <2> QED
    BY <2>2, <2>4 DEF HomeIs, Delivered
<1> QED
  BY <1>4, <1>5, <1>6 DEF RequestsKept

(* No request is answered twice, and of a client whose connection is open   *)
(* none is lost, sent to another client or, when answered at once,          *)
(* overtaken, however poll, partial sends, the drains and the workers       *)
(* interleave.                                                              *)
THEOREM RequestsAreKept == Spec => []RequestsKept
  BY KeptInit, KeptStep, KeptMeaning, PTL DEF Spec
=============================================================================
