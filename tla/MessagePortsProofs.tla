------------------------- MODULE MessagePortsProofs -------------------------
(***************************************************************************)
(* Proofs about MessagePorts, for any number of channels and of messages,  *)
(* however deep the callbacks of the ports nest.                           *)
(***************************************************************************)
EXTENDS MessagePorts, SequenceTheorems, FiniteSetTheorems, TLAPS

LEMMA PeerIsPort == \A p \in Port : Peer(p) \in Port /\ Peer(p)[1] = p[1]
  BY DEF Port, Peer

LEMMA PushFacts ==
  ASSUME NEW S, NEW s \in Seq(S), NEW f \in S
  PROVE  /\ Append(s, f) \in Seq(S) /\ Last(Append(s, f)) = f
         /\ Len(Append(s, f)) = Len(s) + 1
         /\ \A i \in 1 .. Len(s) : Append(s, f)[i] = s[i]
         /\ Append(s, f)[Len(s) + 1] = f
  BY AppendProperties DEF Last

LEMMA FrontFacts ==
  ASSUME NEW S, NEW s \in Seq(S), s # <<>>
  PROVE  /\ Front(s) \in Seq(S) /\ Len(Front(s)) = Len(s) - 1
         /\ \A i \in 1 .. Len(s) - 1 : Front(s)[i] = s[i]
         /\ Len(s) \in Nat \ {0} /\ Last(s) \in S
<1>1. Len(s) \in Nat /\ Len(s) # 0 /\ \A i \in 1 .. Len(s) : s[i] \in S
  BY LenProperties, EmptySeq, ElementOfSeq
<1>2. \A i \in 1 .. Len(s) - 1 : s[i] \in S
  BY <1>1
<1> DEFINE n == Len(s) - 1
           f == SubSeq(s, 1, n)
<1>3. /\ f \in Seq(S)
      /\ Len(f) = IF 1 <= n THEN n - 1 + 1 ELSE 0
      /\ \A i \in 1 .. n - 1 + 1 : f[i] = s[1 + i - 1]
  BY <1>1, <1>2, SubSeqProperties
<1>4. Last(s) \in S
  BY <1>1 DEF Last
<1>5. n \in Nat /\ n - 1 + 1 = n /\ \A i \in 1 .. n : 1 + i - 1 = i
  BY <1>1
<1> HIDE DEF f
<1> HIDE DEF n
<1>6. Len(f) = n
  <2>1. CASE 1 <= n
    BY <1>3, <1>5, <2>1
  <2>2. CASE n = 0
    BY <1>3, <1>5, <2>2
  <2> QED
    BY <1>5, <2>1, <2>2
<1>7. \A i \in 1 .. n : f[i] = s[i]
  BY <1>3, <1>5
<1> QED
  BY <1>1, <1>3, <1>4, <1>6, <1>7 DEF Front, f, n

(* A message that is queued, or taken from the queue and given to a         *)
(* callback, keeps its place in the order.                                  *)
LEMMA PostKeepsOrder ==
  \A h, q \in Seq(1 .. MaxPosts), m \in 1 .. MaxPosts :
    Append(h \o q, m) = h \o Append(q, m)
<1> SUFFICES ASSUME NEW h \in Seq(1 .. MaxPosts), NEW q \in Seq(1 .. MaxPosts),
                    NEW m \in 1 .. MaxPosts
             PROVE  Append(h \o q, m) = h \o Append(q, m)
  OBVIOUS
<1>1. h \o q \in Seq(1 .. MaxPosts) /\ <<m>> \in Seq(1 .. MaxPosts)
  BY ConcatProperties
<1>2. Append(h \o q, m) = (h \o q) \o <<m>> /\ Append(q, m) = q \o <<m>>
  BY <1>1, AppendIsConcat
<1>3. (h \o q) \o <<m>> = h \o (q \o <<m>>)
  BY <1>1, ConcatAssociative
<1> QED
  BY <1>1, <1>2, <1>3

LEMMA TakeKeepsOrder ==
  ASSUME NEW S, NEW h \in Seq(S), NEW q \in Seq(S), q # <<>>
  PROVE  /\ Head(q) \in S /\ Tail(q) \in Seq(S) /\ Append(h, Head(q)) \in Seq(S)
         /\ h \o q = Append(h, Head(q)) \o Tail(q)
<1>1. Head(q) \in S /\ Tail(q) \in Seq(S) /\ <<Head(q)>> \in Seq(S)
  BY HeadTailProperties
<1>2. Append(h, Head(q)) = h \o <<Head(q)>> /\ Append(h, Head(q)) \in Seq(S)
  BY <1>1, AppendIsConcat, AppendProperties
<1>3. q = <<Head(q)>> \o Tail(q)
  <2> DEFINE r == <<Head(q)>> \o Tail(q)
  <2>1. r \in Seq(S) /\ Len(r) = 1 + Len(Tail(q))
    BY <1>1, ConcatProperties
  <2>2. Len(r) = Len(q) /\ Len(q) \in Nat \ {0}
    BY <1>1, <2>1, HeadTailProperties, EmptySeq
  <2>3. ASSUME NEW i \in 1 .. Len(q) PROVE q[i] = r[i]
    <3>1. CASE i = 1
      BY <1>1, <2>1, <2>2, <3>1, ConcatProperties
    <3>2. CASE i > 1
      <4>1. r[i] = Tail(q)[i - 1]
        BY <1>1, <2>1, <2>2, <3>2, ConcatProperties
      <4>2. Tail(q)[i - 1] = q[i]
        BY <1>1, <2>1, <2>2, <3>2, HeadTailProperties
      <4> QED BY <4>1, <4>2
    <3> QED BY <2>2, <3>1, <3>2
  <2> HIDE DEF r
  <2>4. q = r
    BY <2>1, <2>2, <2>3, SeqEqual
  <2> QED BY <2>4 DEF r
<1>4. (h \o <<Head(q)>>) \o Tail(q) = h \o (<<Head(q)>> \o Tail(q))
  BY <1>1, ConcatAssociative
<1> QED
  BY <1>1, <1>2, <1>3, <1>4

-----------------------------------------------------------------------------
(* The types of what the properties speak of. *)
PortTypes ==
  /\ made \subseteq Channel
  /\ closed \in [Port -> BOOLEAN] /\ started \in [Port -> BOOLEAN]
  /\ entangled \in [Port -> Port \cup {None}]
  /\ queue \in [Port -> Seq(1 .. MaxPosts)]
  /\ stack \in Seq(Frame) /\ posts \in 0 .. MaxPosts
  /\ accepted \in [Port -> Seq(1 .. MaxPosts)]
  /\ taken \in [Port -> Seq(1 .. MaxPosts)]
  /\ listeners \in [Port -> Seq(Listener)] /\ \A p \in Port : IsInjective(listeners[p])
  /\ given \in [Port -> Seq(Given)]

(* Ports talk to their peer only; one that is not made has no messages; a  *)
(* live one is started: onmessage, start() and the making of the channel   *)
(* all start it, and only close() stops it.                                *)
Paired ==
  /\ \A p \in Port : entangled[p] # None => entangled[p] = Peer(p)
  /\ \A p \in Port : p[1] \notin made => queue[p] = <<>>
  /\ \A p \in Live : started[p]

InOrder == \A p \in Port : ~closed[p] => accepted[p] = taken[p] \o queue[p]

(* A drain of the port is under way. *)
Flushing(p) == \E i \in 1 .. Len(stack) : stack[i] = Flush(p)
Drained == \A p \in Live : queue[p] # <<>> => Flushing(p)

PortsInv == PortTypes /\ Paired /\ InOrder /\ Drained

LEMMA RemoveAtFacts ==
  ASSUME NEW S, NEW s \in Seq(S), NEW i \in 1 .. Len(s)
  PROVE  /\ RemoveAt(s, i) \in Seq(S) /\ Len(RemoveAt(s, i)) = Len(s) - 1
         /\ \A j \in 1 .. Len(s) - 1 :
              RemoveAt(s, i)[j] = IF j < i THEN s[j] ELSE s[j + 1]
<1> DEFINE n == Len(s)
           a == SubSeq(s, 1, i - 1)
           b == SubSeq(s, i + 1, n)
<1>1. n \in Nat /\ \A j \in 1 .. n : s[j] \in S
  BY LenProperties, ElementOfSeq
<1>2. a \in Seq(S) /\ Len(a) = i - 1 /\ \A j \in 1 .. i - 1 : a[j] = s[j]
  <2>1. \A j \in 1 .. i - 1 : s[j] \in S
    BY <1>1
  <2>2. /\ a \in Seq(S) /\ Len(a) = IF 1 <= i - 1 THEN (i - 1) - 1 + 1 ELSE 0
        /\ \A j \in 1 .. (i - 1) - 1 + 1 : a[j] = s[1 + j - 1]
    BY <1>1, <2>1, SubSeqProperties
  <2> HIDE DEF a
  <2> QED
    BY <1>1, <2>2
<1>3. b \in Seq(S) /\ Len(b) = n - i /\ \A j \in 1 .. n - i : b[j] = s[i + j]
  <2>1. \A j \in i + 1 .. n : s[j] \in S
    BY <1>1
  <2>2. /\ b \in Seq(S) /\ Len(b) = IF i + 1 <= n THEN n - (i + 1) + 1 ELSE 0
        /\ \A j \in 1 .. n - (i + 1) + 1 : b[j] = s[i + 1 + j - 1]
    BY <1>1, <2>1, SubSeqProperties
  <2> HIDE DEF b
  <2> QED
    BY <1>1, <2>2
<1>4. RemoveAt(s, i) = a \o b
  BY DEF RemoveAt
<1> HIDE DEF a, b
<1>5. /\ a \o b \in Seq(S) /\ Len(a \o b) = Len(a) + Len(b)
      /\ \A j \in 1 .. Len(a) + Len(b) :
           (a \o b)[j] = IF j <= Len(a) THEN a[j] ELSE b[j - Len(a)]
  BY <1>2, <1>3, ConcatProperties
<1>6. ASSUME NEW j \in 1 .. n - 1
      PROVE  (a \o b)[j] = IF j < i THEN s[j] ELSE s[j + 1]
  <2>0. j \in Int /\ i \in Int
    BY <1>1
  <2>1. j \in 1 .. Len(a) + Len(b)
    BY <1>1, <1>2, <1>3
  <2>2. CASE j < i
    BY <1>1, <1>2, <1>5, <2>1, <2>2
  <2>3. CASE ~(j < i)
    <3>1. j - (i - 1) \in 1 .. n - i /\ i + (j - (i - 1)) = j + 1 /\ ~(j <= i - 1)
      BY <1>1, <2>0, <2>3
    <3>2. (a \o b)[j] = b[j - (i - 1)]
      BY <1>2, <1>5, <2>1, <3>1
    <3>3. b[j - (i - 1)] = s[j + 1]
      BY <1>3, <3>1
    <3> QED
      BY <2>3, <3>2, <3>3
  <2> QED
    BY <2>2, <2>3
<1> QED
  BY <1>1, <1>2, <1>3, <1>4, <1>5, <1>6

LEMMA FrameFacts ==
  /\ \A p \in Port : Flush(p) \in Frame
  /\ \A p \in Port, m \in 1 .. MaxPosts, ls \in Seq(Listener) :
       Onmessage(p, m) \in Frame /\ ListenerCall(p, m, ls) \in Frame
  /\ \A f \in Frame : /\ f.port \in Port /\ f.rest \in Seq(Listener)
                      /\ f.in # "flush" => f.msg \in 1 .. MaxPosts
                                           /\ f.in \in {"onmessage", "listener"}
<1>1. <<>> \in Seq(Listener)
  BY EmptySeq
<1> QED
  BY <1>1 DEF Flush, Onmessage, ListenerCall, Frame

(* The list of listeners after one is added or removed.                    *)
LEMMA AddedOnce ==
  ASSUME NEW S, NEW s \in Seq(S), NEW e \in S, IsInjective(s), ~Contains(s, e)
  PROVE  Append(s, e) \in Seq(S) /\ IsInjective(Append(s, e))
<1> DEFINE r == Append(s, e)
<1>1. /\ r \in Seq(S) /\ Len(r) = Len(s) + 1 /\ Len(s) \in Nat
      /\ \A i \in 1 .. Len(s) : r[i] = s[i]
      /\ r[Len(s) + 1] = e
  BY PushFacts, LenProperties
<1>2. DOMAIN r = 1 .. Len(s) + 1 /\ DOMAIN s = 1 .. Len(s)
  BY <1>1, LenProperties
<1>3. \A i \in 1 .. Len(s) : s[i] # e
  BY DEF Contains
<1> HIDE DEF r
<1>4. ASSUME NEW i \in 1 .. Len(s) + 1, NEW j \in 1 .. Len(s) + 1, r[i] = r[j]
      PROVE  i = j
  <2>1. i \in 1 .. Len(s) \/ i = Len(s) + 1
    BY <1>1
  <2>2. j \in 1 .. Len(s) \/ j = Len(s) + 1
    BY <1>1
  <2> QED
    BY <1>1, <1>2, <1>3, <1>4, <2>1, <2>2 DEF IsInjective
<1> QED
  BY <1>1, <1>2, <1>4 DEF r, IsInjective

LEMMA RemovedOnce ==
  ASSUME NEW S, NEW s \in Seq(S), IsInjective(s), NEW i \in DOMAIN s
  PROVE  RemoveAt(s, i) \in Seq(S) /\ IsInjective(RemoveAt(s, i))
<1> DEFINE r == RemoveAt(s, i)
           n == Len(s)
<1>1. n \in Nat /\ DOMAIN s = 1 .. n
  BY LenProperties
<1>2. /\ r \in Seq(S) /\ Len(r) = n - 1
      /\ \A j \in 1 .. n - 1 : r[j] = IF j < i THEN s[j] ELSE s[j + 1]
  BY <1>1, RemoveAtFacts
<1>3. DOMAIN r = 1 .. n - 1
  BY <1>2, LenProperties
<1> HIDE DEF r, n
<1>4. \A j, k \in 1 .. n : s[j] = s[k] => j = k
  BY <1>1 DEF IsInjective
<1>5. \A m \in 1 .. n - 1 :
        \/ m < i /\ m \in 1 .. n /\ r[m] = s[m]
        \/ m >= i /\ m + 1 \in 1 .. n /\ r[m] = s[m + 1]
  BY <1>1, <1>2
<1>6. \A j, k \in 1 .. n - 1 : r[j] = r[k] => j = k
  BY <1>1, <1>4, <1>5
<1> QED
  BY <1>2, <1>3, <1>6 DEF r, IsInjective

LEMMA TailFacts ==
  ASSUME NEW S, NEW s \in Seq(S), s # <<>>
  PROVE  /\ Tail(s) \in Seq(S) /\ Head(s) \in S /\ Head(s) = s[1]
         /\ Len(s) \in Nat \ {0} /\ Len(Tail(s)) = Len(s) - 1
         /\ \A i \in 1 .. Len(s) - 1 : Tail(s)[i] = s[i + 1]
<1>1. Len(s) \in Nat /\ Len(s) # 0
  BY LenProperties, EmptySeq
<1> QED
  BY <1>1, HeadTailProperties

(* What is given to a callback, if the loop over the listeners ls goes on. *)
Calls(below, p, m, ls) ==
  /\ ls \in Seq(Listener) /\ ls # <<>>
  /\ stack' = Append(below, ListenerCall(p, m, Tail(ls)))
  /\ given' = [given EXCEPT ![p] = Append(given[p], [to |-> Head(ls), msg |-> m])]

LEMMA FlushNextFacts ==
  ASSUME PortTypes, NEW p \in Port, FlushNext(p)
  PROVE  LET m == Head(queue[p]) IN
         /\ stack # <<>> /\ m \in 1 .. MaxPosts /\ queue[p] # <<>> /\ ~closed[p]
         /\ queue' = [queue EXCEPT ![p] = Tail(queue[p])]
         /\ \/ /\ stack' = Append(stack, Onmessage(p, m))
               /\ given' = [given EXCEPT ![p] =
                              Append(given[p], [to |-> "onmessage", msg |-> m])]
            \/ Calls(stack, p, m, listeners[p])
            \/ stack' = stack /\ given' = given
<1>1. Head(queue[p]) \in 1 .. MaxPosts
  BY TakeKeepsOrder DEF PortTypes, FlushNext, Deliverable
<1>2. listeners[p] \in Seq(Listener)
  BY DEF PortTypes
<1> QED
  BY <1>1, <1>2 DEF FlushNext, Deliverable, CallListeners, Calls, Push, Give

LEMMA ReturnFacts ==
  ASSUME PortTypes, CallbackReturns
  PROVE  /\ stack # <<>> /\ Top \in Frame /\ Top.in # "flush"
         /\ Top.port \in Port /\ Top.msg \in 1 .. MaxPosts
         /\ Front(stack) \in Seq(Frame)
         /\ UNCHANGED <<made, closed, queue, listeners, started, entangled>>
         /\ \/ stack' = Front(stack) /\ given' = given
            \/ /\ Top.in = "onmessage" /\ ~closed[Top.port]
               /\ Calls(Front(stack), Top.port, Top.msg, listeners[Top.port])
            \/ /\ Top.in = "listener"
               /\ Calls(Front(stack), Top.port, Top.msg, Top.rest)
<1>1. stack # <<>> /\ Top.in # "flush"
  BY DEF CallbackReturns
<1>2. Front(stack) \in Seq(Frame) /\ Top \in Frame
  BY <1>1, FrontFacts DEF PortTypes, Top
<1>3. /\ Top.port \in Port /\ Top.rest \in Seq(Listener) /\ Top.msg \in 1 .. MaxPosts
      /\ Top.in \in {"onmessage", "listener"}
  BY <1>1, <1>2, FrameFacts
<1>4. listeners[Top.port] \in Seq(Listener)
  BY <1>3 DEF PortTypes
<1> DEFINE ls(stopped) ==
             CASE stopped -> <<>>
               [] ~stopped /\ Top.in = "onmessage" ->
                    IF closed[Top.port] THEN <<>> ELSE listeners[Top.port]
               [] OTHER -> Top.rest
<1>5. PICK stopped \in BOOLEAN : CallListeners(Front(stack), Top.port, Top.msg, ls(stopped))
  BY DEF CallbackReturns
<1>6. \/ ls(stopped) = <<>>
      \/ Top.in = "onmessage" /\ ~closed[Top.port] /\ ls(stopped) = listeners[Top.port]
      \/ Top.in = "listener" /\ ls(stopped) = Top.rest
  <2>1. CASE stopped
    BY <2>1
  <2>2. CASE ~stopped /\ Top.in = "onmessage"
    <3>1. ls(stopped) = IF closed[Top.port] THEN <<>> ELSE listeners[Top.port]
      BY <2>2
    <3> QED
      BY <2>2, <3>1
  <2>3. CASE ~stopped /\ Top.in = "listener"
    <3>1. ls(stopped) = Top.rest
      BY <2>3
    <3> QED
      BY <2>3, <3>1
  <2> QED
    BY <1>3, <2>1, <2>2, <2>3
<1> HIDE DEF ls
<1>7. \/ ls(stopped) = <<>> /\ stack' = Front(stack) /\ given' = given
      \/ /\ ls(stopped) # <<>>
         /\ stack' = Append(Front(stack), ListenerCall(Top.port, Top.msg, Tail(ls(stopped))))
         /\ given' = [given EXCEPT ![Top.port] =
                        Append(given[Top.port], [to |-> Head(ls(stopped)), msg |-> Top.msg])]
  BY <1>5 DEF CallListeners, Give
<1>8. UNCHANGED <<made, closed, queue, listeners, started, entangled>>
  BY DEF CallbackReturns, portVars
<1> QED
  BY <1>1, <1>2, <1>3, <1>4, <1>6, <1>7, <1>8 DEF Calls

LEMMA CallsTypes ==
  ASSUME given \in [Port -> Seq(Given)], NEW below \in Seq(Frame), NEW p \in Port,
         NEW m \in 1 .. MaxPosts, NEW ls, Calls(below, p, m, ls)
  PROVE  /\ ListenerCall(p, m, Tail(ls)) \in Frame
         /\ stack' \in Seq(Frame) /\ given' \in [Port -> Seq(Given)]
<1>1. Tail(ls) \in Seq(Listener) /\ Head(ls) \in Listener
  BY TailFacts DEF Calls
<1>2. ListenerCall(p, m, Tail(ls)) \in Frame
  BY <1>1, FrameFacts
<1>3. [to |-> Head(ls), msg |-> m] \in Given
  BY <1>1 DEF Given
<1>4. Append(given[p], [to |-> Head(ls), msg |-> m]) \in Seq(Given)
  BY <1>3, PushFacts
<1>5. Append(below, ListenerCall(p, m, Tail(ls))) \in Seq(Frame)
  BY <1>2, PushFacts
<1> QED
  BY <1>2, <1>4, <1>5 DEF Calls

LEMMA TypesStep ==
  PortTypes /\ [Next]_vars => PortTypes'
<1> SUFFICES ASSUME PortTypes, [Next]_vars
             PROVE  PortTypes'
  OBVIOUS
<1> USE DEF portVars, history
<1>1. ASSUME NEW c \in Channel, EnsureChannelState(c) PROVE PortTypes'
  BY <1>1, PeerIsPort DEF PortTypes, EnsureChannelState
<1>2. ASSUME NEW p \in Port, SetOnmessage(p) PROVE PortTypes'
  BY <1>2 DEF PortTypes, SetOnmessage
<1>3. ASSUME NEW p \in Port, Start(p) PROVE PortTypes'
  BY <1>3 DEF PortTypes, Start
<1>4. ASSUME NEW p \in Port, Close(p) PROVE PortTypes'
  <2>1. <<>> \in Seq(1 .. MaxPosts)
    BY EmptySeq
  <2> QED
    BY <1>4, <2>1 DEF PortTypes, Close
<1>5. ASSUME NEW p \in Port, PostMessage(p) PROVE PortTypes'
  <2> DEFINE q == entangled[p]
  <2>1. q \in Port /\ posts + 1 \in 1 .. MaxPosts
    <3>1. q # None /\ posts < MaxPosts
      BY <1>5 DEF PostMessage
    <3>2. q \in Port \cup {None} /\ posts \in 0 .. MaxPosts
      BY DEF PortTypes
    <3> QED
      BY <3>1, <3>2, PostsAssumption
  <2>2. /\ Append(queue[q], posts + 1) \in Seq(1 .. MaxPosts)
        /\ Append(accepted[q], posts + 1) \in Seq(1 .. MaxPosts)
    BY <2>1, AppendProperties DEF PortTypes
  <2>3. stack' \in Seq(Frame)
    <3>1. Append(stack, Flush(q)) \in Seq(Frame)
      BY <2>1, FrameFacts, PushFacts DEF PortTypes
    <3> QED
      BY <1>5, <3>1 DEF PortTypes, PostMessage, Push
  <2>4. /\ queue' = [queue EXCEPT ![q] = Append(queue[q], posts + 1)]
        /\ accepted' = [accepted EXCEPT ![q] = Append(accepted[q], posts + 1)]
        /\ posts' = posts + 1 /\ UNCHANGED <<made, portVars, listeners, taken, given>>
    BY <1>5 DEF PostMessage
  <2> QED
    BY <2>1, <2>2, <2>3, <2>4 DEF PortTypes
<1>6. ASSUME NEW p \in Port, FlushNext(p) PROVE PortTypes'
  <2>1. /\ Head(queue[p]) \in 1 .. MaxPosts
        /\ Tail(queue[p]) \in Seq(1 .. MaxPosts)
        /\ Append(taken[p], Head(queue[p])) \in Seq(1 .. MaxPosts)
    BY <1>6, TakeKeepsOrder DEF PortTypes, FlushNext, Deliverable
  <2>2. stack' \in Seq(Frame) /\ given' \in [Port -> Seq(Given)]
    <3> DEFINE m == Head(queue[p])
    <3>1. stack \in Seq(Frame) /\ given \in [Port -> Seq(Given)] /\ m \in 1 .. MaxPosts
      BY <2>1 DEF PortTypes
    <3>2. \/ /\ stack' = Append(stack, Onmessage(p, m))
             /\ given' = [given EXCEPT ![p] =
                            Append(given[p], [to |-> "onmessage", msg |-> m])]
          \/ Calls(stack, p, m, listeners[p])
          \/ stack' = stack /\ given' = given
      BY <1>6, FlushNextFacts
    <3> HIDE DEF m
    <3>3. Onmessage(p, m) \in Frame /\ [to |-> "onmessage", msg |-> m] \in Given
      BY <3>1, FrameFacts, EmptySeq DEF Given
    <3>4. /\ Append(stack, Onmessage(p, m)) \in Seq(Frame)
          /\ Append(given[p], [to |-> "onmessage", msg |-> m]) \in Seq(Given)
      BY <3>1, <3>3, PushFacts
    <3> QED
      BY <3>1, <3>2, <3>4, CallsTypes
  <2>3. /\ queue' = [queue EXCEPT ![p] = Tail(queue[p])]
        /\ taken' = [taken EXCEPT ![p] = Append(taken[p], Head(queue[p]))]
        /\ UNCHANGED <<made, portVars, listeners, posts, accepted>>
    BY <1>6 DEF FlushNext
  <2> QED
    BY <2>1, <2>2, <2>3 DEF PortTypes
<1>7. ASSUME NEW p \in Port, FlushEnds(p) PROVE PortTypes'
  <2>1. Front(stack) \in Seq(Frame)
    BY <1>7, FrontFacts DEF PortTypes, FlushEnds
  <2> QED
    BY <1>7, <2>1 DEF PortTypes, FlushEnds, Pop
<1>8. ASSUME NEW p \in Port, RunScheduledFlush(p) PROVE PortTypes'
  <2>1. Append(stack, Flush(p)) \in Seq(Frame)
    BY FrameFacts, PushFacts DEF PortTypes
  <2> QED
    BY <1>8, <2>1 DEF PortTypes, RunScheduledFlush, Push
<1>9. CASE CallbackReturns
  <2>1. stack' \in Seq(Frame) /\ given' \in [Port -> Seq(Given)]
    BY <1>9, ReturnFacts, CallsTypes DEF PortTypes
  <2>2. UNCHANGED <<made, portVars, queue, listeners, posts, accepted, taken>>
    BY <1>9 DEF CallbackReturns
  <2> QED
    BY <2>1, <2>2 DEF PortTypes
<1>10. CASE ResetTaskState
  <2>1. <<>> \in Seq(1 .. MaxPosts)
    BY EmptySeq
  <2> QED
    BY <1>10, <2>1 DEF PortTypes, ResetTaskState
<1>11. CASE UNCHANGED vars
  BY <1>11 DEF PortTypes, vars
<1>12. ASSUME NEW p \in Port, NEW l \in Listener, AddEventListener(p, l) PROVE PortTypes'
  <2>1. Append(listeners[p], l) \in Seq(Listener) /\ IsInjective(Append(listeners[p], l))
    BY <1>12, AddedOnce DEF PortTypes, AddEventListener
  <2>2. /\ listeners' = [listeners EXCEPT ![p] = Append(listeners[p], l)]
        /\ UNCHANGED <<made, portVars, queue, stack, posts, history>>
    BY <1>12 DEF AddEventListener
  <2> QED
    BY <2>1, <2>2 DEF PortTypes
<1>13. ASSUME NEW p \in Port, NEW i \in DOMAIN listeners[p], RemoveEventListener(p, i)
       PROVE  PortTypes'
  <2>1. RemoveAt(listeners[p], i) \in Seq(Listener) /\ IsInjective(RemoveAt(listeners[p], i))
    BY RemovedOnce DEF PortTypes
  <2>2. /\ listeners' = [listeners EXCEPT ![p] = RemoveAt(listeners[p], i)]
        /\ UNCHANGED <<made, portVars, queue, stack, posts, history>>
    BY <1>13 DEF RemoveEventListener
  <2> QED
    BY <2>1, <2>2 DEF PortTypes
<1> QED
  BY <1>1, <1>2, <1>3, <1>4, <1>5, <1>6, <1>7, <1>8, <1>9, <1>10, <1>11, <1>12, <1>13
  DEF Next

LEMMA PairedStep ==
  PortTypes /\ Paired /\ [Next]_vars => Paired'
<1> SUFFICES ASSUME PortTypes, Paired, [Next]_vars
             PROVE  Paired'
  OBVIOUS
<1> USE DEF portVars, history
<1>1. ASSUME NEW c \in Channel, EnsureChannelState(c) PROVE Paired'
  BY <1>1 DEF PortTypes, Paired, Live, EnsureChannelState, Script
<1>2. ASSUME NEW p \in Port, SetOnmessage(p) PROVE Paired'
  BY <1>2 DEF PortTypes, Paired, Live, SetOnmessage
<1>3. ASSUME NEW p \in Port, Start(p) PROVE Paired'
  BY <1>3 DEF PortTypes, Paired, Live, Start
<1>4. ASSUME NEW p \in Port, Close(p) PROVE Paired'
  BY <1>4 DEF PortTypes, Paired, Live, Close
<1>5. ASSUME NEW p \in Port, PostMessage(p) PROVE Paired'
  <2> DEFINE q == entangled[p]
  <2>1. q \in Port /\ q = Peer(p) /\ p[1] \in made
    BY <1>5 DEF PortTypes, Paired, PostMessage
  <2>2. q[1] \in made
    BY <2>1, PeerIsPort
  <2>3. /\ queue' = [queue EXCEPT ![q] = Append(queue[q], posts + 1)]
        /\ UNCHANGED <<made, portVars>>
    BY <1>5 DEF PostMessage
  <2> QED
    BY <2>1, <2>2, <2>3 DEF PortTypes, Paired, Live
<1>6. ASSUME NEW p \in Port, FlushNext(p) PROVE Paired'
  BY <1>6 DEF PortTypes, Paired, Live, FlushNext, Deliverable
<1>7. ASSUME NEW p \in Port, FlushEnds(p) PROVE Paired'
  BY <1>7 DEF PortTypes, Paired, Live, FlushEnds, Pop
<1>8. ASSUME NEW p \in Port, RunScheduledFlush(p) PROVE Paired'
  BY <1>8 DEF PortTypes, Paired, Live, RunScheduledFlush, Push
<1>9. CASE CallbackReturns
  BY <1>9 DEF PortTypes, Paired, Live, CallbackReturns
<1>10. CASE ResetTaskState
  BY <1>10 DEF PortTypes, Paired, Live, ResetTaskState
<1>11. CASE UNCHANGED vars
  BY <1>11 DEF PortTypes, Paired, Live, vars
<1>12. ASSUME NEW p \in Port, NEW x, AddEventListener(p, x) \/ RemoveEventListener(p, x)
       PROVE  Paired'
  BY <1>12 DEF PortTypes, Paired, Live, AddEventListener, RemoveEventListener
<1> QED
  BY <1>1, <1>2, <1>3, <1>4, <1>5, <1>6, <1>7, <1>8, <1>9, <1>10, <1>11, <1>12 DEF Next

LEMMA InOrderStep ==
  PortTypes /\ InOrder /\ [Next]_vars => InOrder'
<1> SUFFICES ASSUME PortTypes, InOrder, [Next]_vars
             PROVE  InOrder'
  OBVIOUS
<1> USE DEF portVars, history
<1>1. ASSUME NEW c \in Channel, EnsureChannelState(c) PROVE InOrder'
  BY <1>1 DEF PortTypes, InOrder, EnsureChannelState
<1>2. ASSUME NEW p \in Port, SetOnmessage(p) PROVE InOrder'
  BY <1>2 DEF PortTypes, InOrder, SetOnmessage
<1>3. ASSUME NEW p \in Port, Start(p) PROVE InOrder'
  BY <1>3 DEF PortTypes, InOrder, Start
<1>4. ASSUME NEW p \in Port, Close(p) PROVE InOrder'
  BY <1>4 DEF PortTypes, InOrder, Close
<1>5. ASSUME NEW p \in Port, PostMessage(p) PROVE InOrder'
  <2> DEFINE q == entangled[p]
  <2>1. q \in Port /\ posts + 1 \in 1 .. MaxPosts
    <3>1. q # None /\ posts < MaxPosts
      BY <1>5 DEF PostMessage
    <3>2. q \in Port \cup {None} /\ posts \in 0 .. MaxPosts
      BY DEF PortTypes
    <3> QED
      BY <3>1, <3>2, PostsAssumption
  <2>2. Append(taken[q] \o queue[q], posts + 1) = taken[q] \o Append(queue[q], posts + 1)
    <3>1. taken[q] \in Seq(1 .. MaxPosts) /\ queue[q] \in Seq(1 .. MaxPosts)
      BY <2>1 DEF PortTypes
    <3> HIDE DEF q
    <3> QED
      BY <2>1, <3>1, PostKeepsOrder
  <2>3. /\ queue' = [queue EXCEPT ![q] = Append(queue[q], posts + 1)]
        /\ accepted' = [accepted EXCEPT ![q] = Append(accepted[q], posts + 1)]
        /\ UNCHANGED <<closed, taken>>
    BY <1>5 DEF PostMessage
  <2> HIDE DEF q
  <2>4. ASSUME NEW r \in Port, ~closed[r]
        PROVE  accepted'[r] = taken'[r] \o queue'[r]
    <3>1. accepted[r] = taken[r] \o queue[r]
      BY <2>4 DEF InOrder
    <3>2. CASE r = q
      BY <2>1, <2>2, <2>3, <3>1, <3>2 DEF PortTypes
    <3>3. CASE r # q
      BY <2>1, <2>3, <3>1, <3>3 DEF PortTypes
    <3> QED
      BY <3>2, <3>3
  <2> QED
    BY <2>3, <2>4 DEF InOrder
<1>6. ASSUME NEW p \in Port, FlushNext(p) PROVE InOrder'
  <2>1. taken[p] \o queue[p] = Append(taken[p], Head(queue[p])) \o Tail(queue[p])
    <3>1. /\ taken[p] \in Seq(1 .. MaxPosts) /\ queue[p] \in Seq(1 .. MaxPosts)
          /\ queue[p] # <<>>
      BY <1>6 DEF PortTypes, FlushNext, Deliverable
    <3> QED
      BY <3>1, TakeKeepsOrder
  <2>2. /\ queue' = [queue EXCEPT ![p] = Tail(queue[p])]
        /\ taken' = [taken EXCEPT ![p] = Append(taken[p], Head(queue[p]))]
        /\ UNCHANGED <<closed, accepted>>
    BY <1>6 DEF FlushNext
  <2>3. ASSUME NEW r \in Port, ~closed[r]
        PROVE  accepted'[r] = taken'[r] \o queue'[r]
    <3>1. accepted[r] = taken[r] \o queue[r]
      BY <2>3 DEF InOrder
    <3>2. CASE r = p
      BY <2>1, <2>2, <3>1, <3>2 DEF PortTypes
    <3>3. CASE r # p
      BY <2>2, <3>1, <3>3 DEF PortTypes
    <3> QED
      BY <3>2, <3>3
  <2> QED
    BY <2>2, <2>3 DEF InOrder
<1>7. ASSUME NEW p \in Port, FlushEnds(p) PROVE InOrder'
  BY <1>7 DEF PortTypes, InOrder, FlushEnds, Pop
<1>8. ASSUME NEW p \in Port, RunScheduledFlush(p) PROVE InOrder'
  BY <1>8 DEF PortTypes, InOrder, RunScheduledFlush, Push
<1>9. CASE CallbackReturns
  BY <1>9 DEF PortTypes, InOrder, CallbackReturns
<1>10. CASE ResetTaskState
  BY <1>10 DEF PortTypes, InOrder, ResetTaskState
<1>11. CASE UNCHANGED vars
  BY <1>11 DEF PortTypes, InOrder, vars
<1>12. ASSUME NEW p \in Port, NEW x, AddEventListener(p, x) \/ RemoveEventListener(p, x)
       PROVE  InOrder'
  BY <1>12 DEF PortTypes, InOrder, AddEventListener, RemoveEventListener
<1> QED
  BY <1>1, <1>2, <1>3, <1>4, <1>5, <1>6, <1>7, <1>8, <1>9, <1>10, <1>11, <1>12 DEF Next

(* A call keeps the drains under way below it; only FlushEnds ends one.    *)
LEMMA PushKeepsFlushes ==
  ASSUME PortTypes, NEW f \in Frame, stack' = Append(stack, f), NEW p \in Port
  PROVE  /\ Flushing(p) => Flushing(p)'
         /\ f = Flush(p) => Flushing(p)'
<1>1. /\ Len(stack') = Len(stack) + 1 /\ Len(stack) \in Nat
      /\ \A i \in 1 .. Len(stack) : stack'[i] = stack[i]
      /\ stack'[Len(stack) + 1] = f
  BY PushFacts, LenProperties DEF PortTypes
<1> QED
  BY <1>1 DEF Flushing

LEMMA PopKeepsFlushes ==
  ASSUME PortTypes, stack # <<>>, NEW p \in Port, Top # Flush(p), Flushing(p)
  PROVE  /\ stack' = Front(stack) => Flushing(p)'
         /\ \A f \in Frame : stack' = Append(Front(stack), f) => Flushing(p)'
<1>1. /\ Front(stack) \in Seq(Frame) /\ Len(Front(stack)) = Len(stack) - 1
      /\ \A i \in 1 .. Len(stack) - 1 : Front(stack)[i] = stack[i]
      /\ Len(stack) \in Nat \ {0}
  BY FrontFacts DEF PortTypes
<1>2. PICK i \in 1 .. Len(stack) : stack[i] = Flush(p)
  BY DEF Flushing
<1>3. i \in 1 .. Len(stack) - 1
  BY <1>1, <1>2 DEF Top, Last
<1> DEFINE s == Front(stack)
<1>4. i \in 1 .. Len(s) /\ s[i] = Flush(p) /\ s \in Seq(Frame)
  BY <1>1, <1>2, <1>3
<1> HIDE DEF s
<1>5. ASSUME stack' = s PROVE Flushing(p)'
  BY <1>4, <1>5 DEF Flushing
<1>6. ASSUME NEW f \in Frame, stack' = Append(s, f) PROVE Flushing(p)'
  <2>1. /\ Len(stack') = Len(s) + 1 /\ Len(s) \in Nat
        /\ \A j \in 1 .. Len(s) : stack'[j] = s[j]
    BY <1>4, <1>6, PushFacts, LenProperties
  <2> QED
    BY <1>4, <2>1 DEF Flushing
<1> QED
  BY <1>5, <1>6 DEF s

LEMMA DrainedStep ==
  PortTypes /\ Paired /\ Drained /\ [Next]_vars => Drained'
<1> SUFFICES ASSUME PortTypes, Paired, Drained, [Next]_vars
             PROVE  Drained'
  OBVIOUS
<1> USE DEF portVars, history
<1>1. ASSUME NEW c \in Channel, EnsureChannelState(c) PROVE Drained'
  <2>1. UNCHANGED <<closed, queue, stack>> /\ made' = made \cup {c}
    BY <1>1 DEF EnsureChannelState
  <2>2. \A p \in Port : p[1] \notin made => queue[p] = <<>>
    BY DEF Paired
  <2> QED
    BY <2>1, <2>2 DEF Drained, Live, Flushing
<1>2. ASSUME NEW p \in Port, SetOnmessage(p) PROVE Drained'
  BY <1>2 DEF PortTypes, Drained, Live, Flushing, SetOnmessage
<1>3. ASSUME NEW p \in Port, Start(p) PROVE Drained'
  BY <1>3 DEF PortTypes, Drained, Live, Flushing, Start
<1>4. ASSUME NEW p \in Port, Close(p) PROVE Drained'
  BY <1>4 DEF PortTypes, Drained, Live, Flushing, Close
<1>5. ASSUME NEW p \in Port, PostMessage(p) PROVE Drained'
  <2> DEFINE q == entangled[p]
  <2>1. q \in Port /\ Flush(q) \in Frame
    BY <1>5, FrameFacts DEF PortTypes, PostMessage
  <2>2. /\ queue' = [queue EXCEPT ![q] = Append(queue[q], posts + 1)]
        /\ UNCHANGED <<made, closed>>
        /\ IF started[q] THEN stack' = Append(stack, Flush(q)) ELSE stack' = stack
    BY <1>5 DEF PostMessage, Push
  <2> HIDE DEF q
  <2> SUFFICES ASSUME NEW r \in Live, queue'[r] # <<>> PROVE Flushing(r)'
    BY <2>2 DEF Drained, Live
  <2>3. CASE r = q
    <3>1. started[q]
      BY <2>3 DEF Paired
    <3> QED
      BY <2>1, <2>2, <2>3, <3>1, PushKeepsFlushes
  <2>4. CASE r # q
    <3>1. r \in Port /\ Flushing(r)
      BY <2>1, <2>2, <2>4 DEF PortTypes, Drained, Live
    <3>2. CASE stack' = stack
      BY <3>1, <3>2 DEF Flushing
    <3>3. CASE stack' = Append(stack, Flush(q))
      BY <2>1, <3>1, <3>3, PushKeepsFlushes
    <3> QED
      BY <2>2, <3>2, <3>3
  <2> QED
    BY <2>3, <2>4
<1>6. ASSUME NEW p \in Port, FlushNext(p) PROVE Drained'
  <2>1. (\E f \in Frame : stack' = Append(stack, f)) \/ stack' = stack
    <3>1. Onmessage(p, Head(queue[p])) \in Frame
      BY <1>6, FlushNextFacts, FrameFacts, EmptySeq
    <3> QED
      BY <1>6, <3>1, FlushNextFacts, CallsTypes DEF PortTypes, Calls
  <2>2. /\ queue' = [queue EXCEPT ![p] = Tail(queue[p])] /\ UNCHANGED <<made, closed>>
        /\ queue[p] # <<>>
    BY <1>6 DEF FlushNext, Deliverable
  <2> SUFFICES ASSUME NEW r \in Live, queue'[r] # <<>> PROVE Flushing(r)'
    BY <2>2 DEF Drained, Live
  <2>3. r \in Port /\ queue[r] # <<>>
    BY <2>2 DEF PortTypes, Live
  <2>4. Flushing(r)
    BY <2>3 DEF Drained
  <2>5. CASE stack' = stack
    BY <2>4, <2>5 DEF Flushing
  <2> QED
    BY <2>1, <2>3, <2>4, <2>5, PushKeepsFlushes
<1>7. ASSUME NEW p \in Port, FlushEnds(p) PROVE Drained'
  <2>1. /\ stack # <<>> /\ Top = Flush(p) /\ stack' = Front(stack)
        /\ UNCHANGED <<made, closed, queue>> /\ ~Deliverable(p)
    BY <1>7 DEF FlushEnds, Pop
  <2> SUFFICES ASSUME NEW r \in Live, queue[r] # <<>> PROVE Flushing(r)'
    BY <2>1 DEF Drained, Live
  <2>2. r \in Port /\ ~closed[r] /\ started[r]
    BY DEF Live, Paired
  <2>3. r # p
    BY <2>1, <2>2 DEF Deliverable
  <2>4. Top # Flush(r)
    BY <2>1, <2>3 DEF Flush
  <2> QED
    BY <2>1, <2>2, <2>4, PopKeepsFlushes DEF Drained
<1>8. ASSUME NEW p \in Port, RunScheduledFlush(p) PROVE Drained'
  <2>1. UNCHANGED <<made, closed, queue>> /\ stack = <<>>
    BY <1>8 DEF RunScheduledFlush
  <2>2. Len(stack) = 0
    BY <2>1
  <2>3. \A r \in Live : queue[r] = <<>>
    BY <2>2 DEF Drained, Flushing
  <2> QED
    BY <2>1, <2>3 DEF Drained, Live
<1>9. CASE CallbackReturns
  <2>1. /\ stack # <<>> /\ Top.in # "flush" /\ UNCHANGED <<made, closed, queue>>
        /\ \/ stack' = Front(stack)
           \/ \E f \in Frame : stack' = Append(Front(stack), f)
    BY <1>9, ReturnFacts, CallsTypes DEF PortTypes, Calls
  <2> SUFFICES ASSUME NEW r \in Live, queue[r] # <<>> PROVE Flushing(r)'
    BY <2>1 DEF Drained, Live
  <2>2. r \in Port /\ Flushing(r) /\ Top # Flush(r)
    BY <2>1 DEF Drained, Live, Flush
  <2> QED
    BY <2>1, <2>2, PopKeepsFlushes
<1>10. CASE ResetTaskState
  BY <1>10 DEF PortTypes, Drained, Live, Flushing, ResetTaskState
<1>11. CASE UNCHANGED vars
  BY <1>11 DEF PortTypes, Drained, Live, Flushing, vars
<1>12. ASSUME NEW p \in Port, NEW x, AddEventListener(p, x) \/ RemoveEventListener(p, x)
       PROVE  Drained'
  BY <1>12 DEF PortTypes, Drained, Live, Flushing, AddEventListener, RemoveEventListener
<1> QED
  BY <1>1, <1>2, <1>3, <1>4, <1>5, <1>6, <1>7, <1>8, <1>9, <1>10, <1>11, <1>12 DEF Next

LEMMA PortsInvInit == Init => PortsInv
<1> SUFFICES ASSUME Init PROVE PortsInv
  OBVIOUS
<1>1. PortTypes
  <2>1. /\ <<>> \in Seq(1 .. MaxPosts) /\ <<>> \in Seq(Frame)
        /\ <<>> \in Seq(Listener) /\ <<>> \in Seq(Given)
    BY EmptySeq
  <2>2. IsInjective(<<>>)
    BY EmptySeq DEF IsInjective
  <2> QED
    BY <2>1, <2>2, PostsAssumption DEF Init, PortTypes
<1>2. Paired /\ Drained
  BY DEF Init, Paired, Drained, Live
<1>3. InOrder
  <2>1. <<>> \in Seq(Nat)
    BY EmptySeq
  <2>2. <<>> \o <<>> = <<>>
    BY <2>1, ConcatEmptySeq
  <2> QED
    BY <2>2 DEF Init, InOrder
<1> QED
  BY <1>1, <1>2, <1>3 DEF PortsInv

LEMMA PortsInvStep == PortsInv /\ [Next]_vars => PortsInv'
  BY TypesStep, PairedStep, InOrderStep, DrainedStep DEF PortsInv

LEMMA PortsInvariant == Spec => []PortsInv
  BY PortsInvInit, PortsInvStep, PTL DEF Spec

-----------------------------------------------------------------------------
(* The places of queues of given lengths, and what is left of them when one *)
(* queue gets longer or shorter by a message, or is emptied.               *)
Places(len) == UNION {{p} \X (1 .. len[p]) : p \in Port}

LEMMA PlacesAre ==
  ASSUME NEW len \in [Port -> Nat]
  PROVE  \A x : x \in Places(len) <=> \E p \in Port : \E i \in 1 .. len[p] : x = <<p, i>>
  BY DEF Places

LEMMA PlaceGiven ==
  ASSUME NEW len \in [Port -> Nat], NEW p \in Port
  PROVE  LET more == [len EXCEPT ![p] = len[p] + 1] IN
         /\ Places(more) = Places(len) \cup {<<p, len[p] + 1>>}
         /\ <<p, len[p] + 1>> \notin Places(len)
<1> DEFINE more == [len EXCEPT ![p] = len[p] + 1]
           n == len[p] + 1
<1>1. /\ more \in [Port -> Nat] /\ more[p] = n /\ len[p] \in Nat
      /\ \A r \in Port \ {p} : more[r] = len[r]
  OBVIOUS
<1>2. 1 .. n = 1 .. len[p] \cup {n} /\ n \notin 1 .. len[p]
  BY <1>1
<1> HIDE DEF more, n
<1>3. /\ \A x : x \in Places(len) <=> \E r \in Port : \E i \in 1 .. len[r] : x = <<r, i>>
      /\ \A x : x \in Places(more) <=> \E r \in Port : \E i \in 1 .. more[r] : x = <<r, i>>
  BY <1>1, PlacesAre
<1>4. <<p, n>> \notin Places(len)
  BY <1>2, <1>3
<1>5. ASSUME NEW x PROVE x \in Places(more) <=> x \in Places(len) \/ x = <<p, n>>
  BY <1>1, <1>2, <1>3
<1> QED
  BY <1>4, <1>5 DEF more, n

LEMMA PlaceTaken ==
  ASSUME NEW len \in [Port -> Nat], NEW p \in Port, len[p] # 0
  PROVE  LET less == [len EXCEPT ![p] = len[p] - 1] IN
         /\ Places(less) = Places(len) \ {<<p, len[p]>>}
         /\ <<p, len[p]>> \in Places(len)
<1> DEFINE less == [len EXCEPT ![p] = len[p] - 1]
           n == len[p]
<1>1. /\ less \in [Port -> Nat] /\ less[p] = n - 1 /\ n \in Nat \ {0} /\ len[p] = n
      /\ \A r \in Port \ {p} : less[r] = len[r]
  OBVIOUS
<1> HIDE DEF less, n
<1>2. 1 .. n = 1 .. n - 1 \cup {n} /\ n \notin 1 .. n - 1
  BY <1>1
<1>3. /\ \A x : x \in Places(len) <=> \E r \in Port : \E i \in 1 .. len[r] : x = <<r, i>>
      /\ \A x : x \in Places(less) <=> \E r \in Port : \E i \in 1 .. less[r] : x = <<r, i>>
  BY <1>1, PlacesAre
<1>4. <<p, n>> \in Places(len) /\ <<p, n>> \notin Places(less)
  BY <1>1, <1>2, <1>3
<1>5. ASSUME NEW x PROVE x \in Places(len) <=> x \in Places(less) \/ x = <<p, n>>
  BY <1>1, <1>2, <1>3
<1> QED
  BY <1>4, <1>5 DEF less, n

LEMMA PlacesEmptied ==
  ASSUME NEW len \in [Port -> Nat], NEW p \in Port
  PROVE  LET none == [len EXCEPT ![p] = 0]
             gone == {p} \X (1 .. len[p]) IN
         /\ Places(none) = Places(len) \ gone /\ gone \subseteq Places(len)
         /\ IsFiniteSet(gone) /\ Cardinality(gone) = len[p]
<1> DEFINE none == [len EXCEPT ![p] = 0]
           gone == {p} \X (1 .. len[p])
<1>1. /\ none \in [Port -> Nat] /\ none[p] = 0 /\ len[p] \in Nat
      /\ \A r \in Port \ {p} : none[r] = len[r]
  OBVIOUS
<1>2. 1 .. 0 = {}
  OBVIOUS
<1> HIDE DEF none
<1>3. /\ \A x : x \in Places(len) <=> \E r \in Port : \E i \in 1 .. len[r] : x = <<r, i>>
      /\ \A x : x \in Places(none) <=> \E r \in Port : \E i \in 1 .. none[r] : x = <<r, i>>
      /\ \A x : x \in gone <=> \E i \in 1 .. len[p] : x = <<p, i>>
  BY <1>1, PlacesAre
<1>4. IsFiniteSet(gone) /\ Cardinality(gone) = len[p]
  <2>1. IsFiniteSet({p}) /\ Cardinality({p}) = 1
    BY FS_Singleton
  <2>2. IsFiniteSet(1 .. len[p]) /\ Cardinality(1 .. len[p]) = len[p]
    BY <1>1, FS_Interval
  <2>3. IsFiniteSet(gone) /\ Cardinality(gone) = 1 * len[p]
    BY <2>1, <2>2, FS_Product
  <2> QED
    BY <1>1, <2>3
<1> HIDE DEF gone
<1>5. gone \subseteq Places(len)
  BY <1>3
<1>6. ASSUME NEW x PROVE x \in Places(none) <=> x \in Places(len) /\ x \notin gone
  BY <1>1, <1>2, <1>3
<1> QED
  BY <1>4, <1>5, <1>6 DEF none, gone
-----------------------------------------------------------------------------
(* The types of the other variables, and what the counters count: a port    *)
(* is closed once and then holds no message, so that nothing is counted     *)
(* off twice; a channel counts its own open ports.                          *)
CountTypes ==
  /\ onmessage \in [Port -> BOOLEAN] /\ scheduled \in [Port -> BOOLEAN]
  /\ openPorts \in [Channel -> 0 .. 2] /\ flushes \in [Port -> Nat]
  /\ stats \in [channels : Int, open : Int, shut : Nat, queued : Int]

One(b) == IF b THEN 1 ELSE 0
Lens == [p \in Port |-> Len(queue[p])]
LiveChannels == {p[1] : p \in Live}

ClosedIsEmpty == \A p \in Port : closed[p] => p[1] \in made /\ queue[p] = <<>>
OpenCounted ==
  \A c \in Channel : openPorts[c] = One(<<c, 1>> \in Live) + One(<<c, 2>> \in Live)
QueueCounted == IsFiniteSet(Waiting) /\ stats.queued = Cardinality(Waiting)
LiveCounted ==
  /\ IsFiniteSet(Live) /\ IsFiniteSet(LiveChannels)
  /\ stats.open = Cardinality(Live) /\ stats.channels = Cardinality(LiveChannels)

CountInv == CountTypes /\ ClosedIsEmpty /\ OpenCounted /\ QueueCounted /\ LiveCounted

LEMMA PortFacts ==
  /\ \A p \in Port : p = <<p[1], p[2]>> /\ p[1] \in Channel /\ p[2] \in {1, 2}
  /\ \A c \in Channel : <<c, 1>> \in Port /\ <<c, 2>> \in Port
BY DEF Port

LEMMA LensFacts ==
  ASSUME PortTypes PROVE Lens \in [Port -> Nat] /\ Waiting = Places(Lens)
<1>1. \A p \in Port : Len(queue[p]) \in Nat
  BY LenProperties DEF PortTypes
<1>2. Lens \in [Port -> Nat] /\ \A p \in Port : Lens[p] = Len(queue[p])
  BY <1>1 DEF Lens
<1> QED
  BY <1>2 DEF Waiting, Places

(* A message that is queued, taken, or dropped with its port, is counted.  *)
LEMMA QueueCountedStep ==
  PortTypes /\ CountInv /\ Paired /\ [Next]_vars => QueueCounted'
<1> SUFFICES ASSUME PortTypes, CountInv, Paired, [Next]_vars PROVE QueueCounted'
  OBVIOUS
<1>1. PortTypes'
  BY TypesStep
<1>2. Lens \in [Port -> Nat] /\ Waiting = Places(Lens)
  BY LensFacts
<1>3. Lens' \in [Port -> Nat] /\ Waiting' = Places(Lens')
  <2>1. \A p \in Port : Len(queue'[p]) \in Nat
    BY <1>1, LenProperties DEF PortTypes
  <2>2. Lens' \in [Port -> Nat] /\ \A p \in Port : Lens'[p] = Len(queue'[p])
    BY <2>1 DEF Lens
  <2> QED
    BY <2>2 DEF Waiting, Places
<1>4. IsFiniteSet(Waiting) /\ stats.queued = Cardinality(Waiting)
      /\ Cardinality(Waiting) \in Nat
      /\ stats \in [channels : Int, open : Int, shut : Nat, queued : Int]
  BY FS_CardinalityType DEF CountInv, QueueCounted, CountTypes
<1>5. /\ \A p \in Port : Lens[p] = Len(queue[p]) /\ queue[p] \in Seq(1 .. MaxPosts)
      /\ Lens' = [p \in Port |-> Len(queue'[p])]
  BY DEF Lens, PortTypes
<1>6. CASE UNCHANGED <<queue, stats>>
  BY <1>4, <1>6 DEF QueueCounted, Waiting
<1>7. ASSUME NEW c \in Channel, EnsureChannelState(c) PROVE QueueCounted'
  <2>1. UNCHANGED queue /\ stats'.queued = stats.queued
    BY <1>4, <1>7 DEF EnsureChannelState
  <2> QED
    BY <1>4, <2>1 DEF QueueCounted, Waiting
<1>8. ASSUME NEW p \in Port, Close(p) PROVE QueueCounted'
  <2>1. queue' = [queue EXCEPT ![p] = <<>>]
        /\ stats'.queued = stats.queued - Len(queue[p])
    BY <1>8 DEF Close, NotePortClosed
  <2> DEFINE none == [Lens EXCEPT ![p] = 0]
             gone == {p} \X (1 .. Lens[p])
  <2>2. Lens' = none
    <3>1. \A r \in Port : Len(queue'[r]) = IF r = p THEN 0 ELSE Lens[r]
      BY <1>5, <2>1, EmptySeq DEF PortTypes
    <3> QED
      BY <1>2, <1>5, <3>1
  <2>3. /\ Places(none) = Places(Lens) \ gone /\ gone \subseteq Places(Lens)
        /\ Cardinality(gone) = Lens[p]
    BY <1>2, PlacesEmptied
  <2> HIDE DEF none, gone
  <2>4. Waiting' = Waiting \ gone /\ Waiting \cap gone = gone
    <3>1. Waiting = Places(Lens)
      BY <1>2
    <3>2. Waiting' = Places(none)
      BY <1>3, <2>2
    <3> QED
      BY <2>3, <3>1, <3>2
  <2>5. IsFiniteSet(Waiting \ gone)
        /\ Cardinality(Waiting \ gone) = Cardinality(Waiting) - Lens[p]
    <3>1. IsFiniteSet(Waiting \ gone)
          /\ Cardinality(Waiting \ gone) = Cardinality(Waiting) - Cardinality(Waiting \cap gone)
      BY <1>4, FS_Difference
    <3> QED
      BY <2>3, <2>4, <3>1
  <2> QED
    BY <1>4, <1>5, <2>1, <2>4, <2>5 DEF QueueCounted
<1>9. ASSUME NEW p \in Port, PostMessage(p) PROVE QueueCounted'
  <2> DEFINE q == entangled[p]
             more == [Lens EXCEPT ![q] = Lens[q] + 1]
             new == <<q, Lens[q] + 1>>
  <2>1. q \in Port /\ queue' = [queue EXCEPT ![q] = Append(queue[q], posts + 1)]
        /\ stats'.queued = stats.queued + 1 /\ posts + 1 \in 1 .. MaxPosts
    <3>1. q \in Port /\ posts \in Nat /\ posts < MaxPosts
      BY <1>9 DEF PostMessage, PortTypes
    <3>2. /\ queue' = [queue EXCEPT ![q] = Append(queue[q], posts + 1)]
          /\ stats' = [stats EXCEPT !.queued = @ + 1]
      BY <1>9 DEF PostMessage
    <3>3. posts + 1 \in 1 .. MaxPosts
      BY <3>1, PostsAssumption
    <3> HIDE DEF q
    <3> QED
      BY <1>4, <3>1, <3>2, <3>3
  <2> HIDE DEF q
  <2>2. Lens' = more
    <3>1. Len(Append(queue[q], posts + 1)) = Len(queue[q]) + 1
      BY <1>5, <2>1, AppendProperties
    <3>2. \A r \in Port : Len(queue'[r]) = IF r = q THEN Lens[q] + 1 ELSE Lens[r]
      BY <1>5, <2>1, <3>1 DEF PortTypes
    <3> QED
      BY <1>2, <1>5, <3>2
  <2>3. Places(more) = Places(Lens) \cup {new} /\ new \notin Places(Lens)
    BY <1>2, <2>1, PlaceGiven
  <2> HIDE DEF more, new
  <2>4. Waiting' = Waiting \cup {new} /\ new \notin Waiting
    BY <1>2, <1>3, <2>2, <2>3
  <2>5. IsFiniteSet(Waiting \cup {new})
        /\ Cardinality(Waiting \cup {new}) = Cardinality(Waiting) + 1
    BY <1>4, <2>4, FS_AddElement
  <2> QED
    BY <1>4, <2>1, <2>4, <2>5 DEF QueueCounted
<1>10. ASSUME NEW p \in Port, FlushNext(p) PROVE QueueCounted'
  <2> DEFINE less == [Lens EXCEPT ![p] = Lens[p] - 1]
             old == <<p, Lens[p]>>
  <2>1. queue' = [queue EXCEPT ![p] = Tail(queue[p])] /\ queue[p] # <<>>
        /\ stats'.queued = stats.queued - 1
    BY <1>4, <1>10 DEF FlushNext, Deliverable
  <2>2. Lens' = less /\ Lens[p] # 0
    <3>1. Len(Tail(queue[p])) = Len(queue[p]) - 1 /\ Len(queue[p]) # 0
      BY <1>5, <2>1, HeadTailProperties, EmptySeq
    <3>2. \A r \in Port : Len(queue'[r]) = IF r = p THEN Lens[p] - 1 ELSE Lens[r]
      BY <1>5, <2>1, <3>1 DEF PortTypes
    <3> QED
      BY <1>2, <1>5, <3>1, <3>2
  <2>3. Places(less) = Places(Lens) \ {old} /\ old \in Places(Lens)
    BY <1>2, <2>2, PlaceTaken
  <2> HIDE DEF less, old
  <2>4. Waiting' = Waiting \ {old} /\ old \in Waiting
    BY <1>2, <1>3, <2>2, <2>3
  <2>5. IsFiniteSet(Waiting \ {old})
        /\ Cardinality(Waiting \ {old}) = Cardinality(Waiting) - 1
    BY <1>4, <2>4, FS_RemoveElement
  <2> QED
    BY <1>4, <2>1, <2>4, <2>5 DEF QueueCounted
<1>11. CASE ResetTaskState
  <2>1. \A p \in Port : queue'[p] = <<>>
    BY <1>11 DEF ResetTaskState, Paired, CountInv, ClosedIsEmpty
  <2>2. \A p \in Port : Len(queue'[p]) = 0 /\ 1 .. 0 = {}
    BY <2>1, EmptySeq
  <2>3. Waiting' = {}
    BY <2>2 DEF Waiting
  <2> QED
    BY <1>11, <2>3, FS_EmptySet DEF QueueCounted, ResetTaskState
<1> QED
  BY <1>6, <1>7, <1>8, <1>9, <1>10, <1>11
  DEF Next, SetOnmessage, Start, AddEventListener, RemoveEventListener, FlushEnds,
      RunScheduledFlush, CallbackReturns, vars

(* A port that is made, closed or reset is counted, and so is its channel. *)
LEMMA LiveCountedStep ==
  PortTypes /\ CountInv /\ Paired /\ [Next]_vars
    => CountTypes' /\ ClosedIsEmpty' /\ OpenCounted' /\ LiveCounted'
<1> DEFINE Goal == CountTypes' /\ ClosedIsEmpty' /\ OpenCounted' /\ LiveCounted'
<1> SUFFICES ASSUME PortTypes, CountInv, Paired, [Next]_vars PROVE Goal
  OBVIOUS
<1> USE DEF portVars, history
<1>1. CountTypes /\ ClosedIsEmpty /\ OpenCounted /\ LiveCounted
      /\ Cardinality(Live) \in Nat /\ Cardinality(LiveChannels) \in Nat
  BY FS_CardinalityType DEF CountInv, LiveCounted
<1>2. ASSUME UNCHANGED <<made, closed>> PROVE UNCHANGED <<Live, LiveChannels>>
  BY <1>2 DEF Live, LiveChannels
<1>3. CASE UNCHANGED <<made, closed, queue, openPorts, stats>> /\ CountTypes'
  BY <1>1, <1>2, <1>3 DEF ClosedIsEmpty, OpenCounted, LiveCounted
<1>s. /\ stats \in [channels : Int, open : Int, shut : Nat, queued : Int]
      /\ stats.channels + 1 \in Int /\ stats.open + 2 \in Int /\ stats.queued + 1 \in Int
  BY <1>1 DEF CountTypes
<1>4. ASSUME NEW c \in Channel, EnsureChannelState(c) PROVE Goal
  <2> DEFINE a == <<c, 1>>
             b == <<c, 2>>
  <2>1. /\ made' = made \cup {c} /\ c \notin made /\ UNCHANGED <<closed, queue>>
        /\ openPorts' = [openPorts EXCEPT ![c] = 2]
        /\ stats' = [stats EXCEPT !.channels = @ + 1, !.open = @ + 2]
    BY <1>4 DEF EnsureChannelState
  <2>2. a \in Port /\ b \in Port /\ a # b /\ \A p \in Port : p[1] = c <=> p = a \/ p = b
    BY PortFacts
  <2>3. a[1] = c /\ b[1] = c
    OBVIOUS
  <2> HIDE DEF a, b
  <2>4. ~closed[a] /\ ~closed[b] /\ a \notin Live /\ b \notin Live
    BY <1>1, <2>1, <2>2, <2>3 DEF ClosedIsEmpty, Live
  <2>5. Live' = (Live \cup {a}) \cup {b}
    BY <2>1, <2>2, <2>4 DEF Live
  <2>6. LiveChannels' = LiveChannels \cup {c} /\ c \notin LiveChannels
    <3>1. LiveChannels' = {p[1] : p \in Live'} /\ LiveChannels = {p[1] : p \in Live}
      BY DEF LiveChannels
    <3>2. c \notin LiveChannels
      BY <2>1, <3>1 DEF Live
    <3> QED
      BY <2>3, <2>5, <3>1, <3>2
  <2>7. IsFiniteSet(Live \cup {a}) /\ Cardinality(Live \cup {a}) = Cardinality(Live) + 1
    BY <1>1, <2>4, FS_AddElement DEF LiveCounted
  <2>8. b \notin Live \cup {a}
    BY <2>2, <2>4
  <2>9. IsFiniteSet(Live') /\ Cardinality(Live') = (Cardinality(Live) + 1) + 1
    BY <2>5, <2>7, <2>8, FS_AddElement
  <2>10. IsFiniteSet(LiveChannels')
         /\ Cardinality(LiveChannels') = Cardinality(LiveChannels) + 1
    BY <1>1, <2>6, FS_AddElement DEF LiveCounted
  <2>11. LiveCounted'
    BY <1>1, <2>1, <2>9, <2>10 DEF CountTypes, LiveCounted
  <2>12. OpenCounted'
    <3>1. ASSUME NEW d \in Channel
          PROVE  openPorts'[d] = One(<<d, 1>> \in Live') + One(<<d, 2>> \in Live')
      <4>1. CASE d = c
        <5>1. a \in Live' /\ b \in Live' /\ openPorts'[d] = 2
          BY <1>1, <2>1, <2>5, <4>1 DEF CountTypes
        <5> QED
          BY <4>1, <5>1 DEF One, a, b
      <4>2. CASE d # c
        <5>1. <<d, 1>> \notin {a, b} /\ <<d, 2>> \notin {a, b}
          BY <4>2 DEF a, b
        <5>2. (<<d, 1>> \in Live' <=> <<d, 1>> \in Live)
              /\ (<<d, 2>> \in Live' <=> <<d, 2>> \in Live)
          BY <2>5, <5>1
        <5>3. openPorts'[d] = openPorts[d]
          BY <1>1, <2>1, <4>2 DEF CountTypes
        <5>4. openPorts[d] = One(<<d, 1>> \in Live) + One(<<d, 2>> \in Live)
          BY <1>1 DEF OpenCounted
        <5> QED
          BY <5>2, <5>3, <5>4 DEF One
      <4> QED
        BY <4>1, <4>2
    <3> QED
      BY <3>1 DEF OpenCounted
  <2>13. ClosedIsEmpty'
    BY <1>1, <2>1 DEF ClosedIsEmpty
  <2>14. CountTypes'
    <3>1. UNCHANGED <<onmessage, scheduled, flushes>>
      BY <1>4 DEF EnsureChannelState
    <3>2. openPorts' \in [Channel -> 0 .. 2]
      BY <1>1, <2>1 DEF CountTypes
    <3>3. stats' \in [channels : Int, open : Int, shut : Nat, queued : Int]
      BY <1>s, <2>1
    <3> QED
      BY <1>1, <3>1, <3>2, <3>3 DEF CountTypes
  <2> QED
    BY <2>11, <2>12, <2>13, <2>14
<1>5. ASSUME NEW p \in Port, Close(p) PROVE Goal
  <2> DEFINE c == p[1]
             last == openPorts[c] = 1
  <2>1. /\ c \in made /\ ~closed[p] /\ made' = made
        /\ closed' = [closed EXCEPT ![p] = TRUE] /\ queue' = [queue EXCEPT ![p] = <<>>]
        /\ openPorts' = [openPorts EXCEPT ![c] = openPorts[c] - 1]
        /\ stats' = [channels |-> stats.channels - (IF last THEN 1 ELSE 0),
                     open |-> stats.open - 1, shut |-> stats.shut + 1,
                     queued |-> stats.queued - Len(queue[p])]
    BY <1>5 DEF Close, NotePortClosed
  <2>2. p \in Live /\ Live' = Live \ {p}
    BY <2>1 DEF Live, PortTypes
  <2>3. PICK q \in Port : /\ q # p /\ q[1] = c /\ {p, q} = {<<c, 1>>, <<c, 2>>}
                          /\ \A r \in Port : r[1] = c => r = p \/ r = q
    <3>1. p = <<c, 1>> \/ p = <<c, 2>>
      BY PortFacts
    <3>2. c \in Channel /\ <<c, 1>> \in Port /\ <<c, 2>> \in Port
          /\ <<c, 1>> # <<c, 2>> /\ <<c, 1>>[1] = c /\ <<c, 2>>[1] = c
      BY PortFacts
    <3>3. \A r \in Port : r[1] = c => r = <<c, 1>> \/ r = <<c, 2>>
      BY PortFacts
    <3> QED
      BY <3>1, <3>2, <3>3
  <2>4. c \in Channel
    BY PortFacts
  <2> HIDE DEF c
  <2>5. openPorts[c] = One(q \in Live) + 1
    <3>1. openPorts[c] = One(<<c, 1>> \in Live) + One(<<c, 2>> \in Live)
      BY <1>1, <2>4 DEF OpenCounted
    <3>2. \/ p = <<c, 1>> /\ q = <<c, 2>>
          \/ p = <<c, 2>> /\ q = <<c, 1>>
      BY <2>3
    <3> QED
      BY <2>2, <3>1, <3>2 DEF One
  <2>6. openPorts'[c] = One(q \in Live) /\ (last <=> q \notin Live)
        /\ \A d \in Channel \ {c} : openPorts'[d] = openPorts[d]
    BY <1>1, <2>1, <2>4, <2>5 DEF One, CountTypes
  <2>7. LiveChannels = {r[1] : r \in Live} /\ LiveChannels' = {r[1] : r \in Live'}
        /\ Live \subseteq Port
    BY DEF LiveChannels, Live
  <2>8. c \in LiveChannels
    BY <2>2, <2>7 DEF c
  <2>9. IsFiniteSet(LiveChannels') /\ stats'.channels = Cardinality(LiveChannels')
    <3>1. CASE q \in Live
      <4>1. c \in LiveChannels'
        BY <2>2, <2>3, <2>7, <3>1
      <4>2. \A d : d \in LiveChannels' <=> d \in LiveChannels
        BY <2>2, <2>7, <2>8, <4>1 DEF c
      <4>3. LiveChannels' = LiveChannels /\ ~last
        BY <2>6, <3>1, <4>2
      <4> QED
        BY <1>1, <2>1, <4>3 DEF LiveCounted, CountTypes
    <3>2. CASE q \notin Live
      <4>1. c \notin LiveChannels'
        BY <2>2, <2>3, <2>7, <3>2
      <4>2. ASSUME NEW d PROVE d \in LiveChannels' <=> d \in LiveChannels /\ d # c
        BY <2>2, <2>7, <4>1 DEF c
      <4>3. LiveChannels' = LiveChannels \ {c} /\ last
        BY <2>6, <3>2, <4>2
      <4>4. IsFiniteSet(LiveChannels \ {c})
            /\ Cardinality(LiveChannels \ {c}) = Cardinality(LiveChannels) - 1
        BY <1>1, <2>8, FS_RemoveElement DEF LiveCounted
      <4>5. stats'.channels = stats.channels - 1 /\ stats.channels = Cardinality(LiveChannels)
        BY <1>1, <2>1, <4>3 DEF LiveCounted
      <4> QED
        BY <4>3, <4>4, <4>5
    <3> QED
      BY <3>1, <3>2
  <2>10. IsFiniteSet(Live') /\ stats'.open = Cardinality(Live')
    <3>1. IsFiniteSet(Live \ {p}) /\ Cardinality(Live \ {p}) = Cardinality(Live) - 1
      BY <1>1, <2>2, FS_RemoveElement DEF LiveCounted
    <3>2. stats'.open = stats.open - 1 /\ stats.open = Cardinality(Live)
      BY <1>1, <2>1 DEF LiveCounted
    <3> QED
      BY <2>2, <3>1, <3>2
  <2>11. OpenCounted'
    <3>1. ASSUME NEW d \in Channel
          PROVE  openPorts'[d] = One(<<d, 1>> \in Live') + One(<<d, 2>> \in Live')
      <4>1. CASE d = c
        <5>1. \/ p = <<c, 1>> /\ q = <<c, 2>>
              \/ p = <<c, 2>> /\ q = <<c, 1>>
          BY <2>3
        <5>2. p \notin Live' /\ (q \in Live' <=> q \in Live)
          BY <2>2, <2>3
        <5> QED
          BY <2>6, <4>1, <5>1, <5>2 DEF One
      <4>2. CASE d # c
        <5>1. <<d, 1>> # p /\ <<d, 2>> # p
          BY <4>2 DEF c
        <5>2. (<<d, 1>> \in Live' <=> <<d, 1>> \in Live)
              /\ (<<d, 2>> \in Live' <=> <<d, 2>> \in Live)
          BY <2>2, <5>1
        <5>3. openPorts[d] = One(<<d, 1>> \in Live) + One(<<d, 2>> \in Live)
          BY <1>1 DEF OpenCounted
        <5> QED
          BY <2>6, <4>2, <5>2, <5>3 DEF One
      <4> QED
        BY <4>1, <4>2
    <3> QED
      BY <3>1 DEF OpenCounted
  <2>12. ClosedIsEmpty'
    BY <1>1, <2>1 DEF ClosedIsEmpty, PortTypes, c
  <2>13. CountTypes'
    <3>1. openPorts' \in [Channel -> 0 .. 2]
      <4>1. openPorts[c] - 1 \in 0 .. 2
        BY <2>5 DEF One
      <4> QED
        BY <1>1, <2>1, <2>4, <4>1 DEF CountTypes
    <3>2. Len(queue[p]) \in Int
      BY LenProperties DEF PortTypes
    <3>3. stats' \in [channels : Int, open : Int, shut : Nat, queued : Int]
      <4>1. /\ stats.channels \in Int /\ stats.open \in Int
            /\ stats.shut \in Nat /\ stats.queued \in Int
        BY <1>1 DEF CountTypes
      <4>2. /\ stats.channels - (IF last THEN 1 ELSE 0) \in Int /\ stats.open - 1 \in Int
            /\ stats.shut + 1 \in Nat /\ stats.queued - Len(queue[p]) \in Int
        BY <3>2, <4>1
      <4> QED
        BY <2>1, <4>2
    <3> QED
      BY <1>1, <1>5, <3>1, <3>3 DEF CountTypes, Close
  <2> QED
    BY <2>9, <2>10, <2>11, <2>12, <2>13 DEF LiveCounted
<1>6. ASSUME NEW p \in Port, PostMessage(p) PROVE Goal
  <2>1. entangled[p] \in Port /\ ~closed[entangled[p]]
        /\ queue' = [queue EXCEPT ![entangled[p]] = Append(@, posts + 1)]
        /\ stats' = [stats EXCEPT !.queued = @ + 1]
        /\ UNCHANGED <<made, closed, onmessage, openPorts>>
    BY <1>6 DEF PostMessage, PortTypes
  <2>2. CountTypes'
    <3>1. stats' \in [channels : Int, open : Int, shut : Nat, queued : Int]
      BY <1>s, <2>1
    <3> DEFINE q == entangled[p]
               n == flushes[q] + (IF scheduled[q] THEN 0 ELSE 1)
    <3>2. \/ scheduled' = [scheduled EXCEPT ![q] = FALSE] /\ flushes' = [flushes EXCEPT ![q] = n]
          \/ UNCHANGED <<scheduled, flushes>>
      BY <1>6 DEF PostMessage
    <3>3. n \in Nat
      BY <1>1, <2>1 DEF CountTypes
    <3> HIDE DEF n
    <3>4. scheduled' \in [Port -> BOOLEAN] /\ flushes' \in [Port -> Nat]
      BY <1>1, <3>2, <3>3 DEF CountTypes
    <3> QED
      BY <1>1, <2>1, <3>1, <3>4 DEF CountTypes
  <2>3. ClosedIsEmpty'
    BY <1>1, <2>1 DEF ClosedIsEmpty, PortTypes
  <2>4. LiveCounted' /\ OpenCounted'
    BY <1>1, <1>2, <2>1 DEF LiveCounted, OpenCounted, CountTypes
  <2> QED
    BY <2>2, <2>3, <2>4
<1>7. ASSUME NEW p \in Port, FlushNext(p) PROVE Goal
  <2>1. ~closed[p] /\ queue' = [queue EXCEPT ![p] = Tail(@)]
        /\ stats' = [stats EXCEPT !.queued = @ - 1]
        /\ UNCHANGED <<made, closed, onmessage, scheduled, flushes, openPorts>>
    BY <1>7 DEF FlushNext, Deliverable
  <2>2. CountTypes'
    <3>1. stats' \in [channels : Int, open : Int, shut : Nat, queued : Int]
      BY <1>s, <2>1
    <3> QED
      BY <1>1, <2>1, <3>1 DEF CountTypes
  <2>3. ClosedIsEmpty'
    BY <1>1, <2>1 DEF ClosedIsEmpty, PortTypes
  <2>4. LiveCounted' /\ OpenCounted'
    BY <1>1, <1>2, <2>1 DEF LiveCounted, OpenCounted, CountTypes
  <2> QED
    BY <2>2, <2>3, <2>4
<1>8. CASE ResetTaskState
  <2> DEFINE live == {p \in Port : p[1] \in made /\ ~closed[p]}
  <2>1. /\ made' = made
        /\ closed' = [p \in Port |-> IF p \in live THEN TRUE ELSE closed[p]]
        /\ queue' = [p \in Port |-> IF p \in live THEN <<>> ELSE queue[p]]
        /\ openPorts' = [c \in Channel |-> 0]
        /\ stats' = [channels |-> 0, open |-> 0, shut |-> 0, queued |-> 0]
    BY <1>8 DEF ResetTaskState
  <2>2. Live' = {}
    BY <2>1 DEF Live
  <2>3. LiveChannels' = {}
    BY <2>2 DEF LiveChannels
  <2>4. LiveCounted'
    BY <2>1, <2>2, <2>3, FS_EmptySet DEF LiveCounted
  <2>5. OpenCounted'
    BY <2>1, <2>2 DEF OpenCounted, One
  <2>6. ClosedIsEmpty'
    BY <1>1, <2>1 DEF ClosedIsEmpty, PortTypes
  <2>7. CountTypes'
    <3>1. /\ onmessage' = [p \in Port |-> IF p \in live THEN FALSE ELSE onmessage[p]]
          /\ scheduled' = [p \in Port |-> IF p \in live THEN FALSE ELSE scheduled[p]]
          /\ UNCHANGED flushes
      BY <1>8 DEF ResetTaskState
    <3> HIDE DEF live
    <3>2. onmessage' \in [Port -> BOOLEAN] /\ scheduled' \in [Port -> BOOLEAN]
      BY <1>1, <3>1 DEF CountTypes
    <3>3. stats' \in [channels : Int, open : Int, shut : Nat, queued : Int]
          /\ openPorts' \in [Channel -> 0 .. 2]
      BY <2>1
    <3> QED
      BY <1>1, <3>1, <3>2, <3>3 DEF CountTypes
  <2> QED
    BY <2>4, <2>5, <2>6, <2>7
<1>9. ASSUME NEW p \in Port, SetOnmessage(p) \/ Start(p) \/ FlushEnds(p) \/ RunScheduledFlush(p)
      PROVE  Goal
  <2>1. CountTypes'
    <3>1. UNCHANGED <<openPorts, stats>>
      BY <1>9 DEF SetOnmessage, Start, FlushEnds, RunScheduledFlush
    <3>2. onmessage' \in [Port -> BOOLEAN]
      <4>1. \/ \E f \in BOOLEAN : onmessage' = [onmessage EXCEPT ![p] = f]
            \/ UNCHANGED onmessage
        BY <1>9 DEF SetOnmessage, Start, FlushEnds, RunScheduledFlush
      <4> QED
        BY <1>1, <4>1 DEF CountTypes
    <3>3. \/ UNCHANGED <<scheduled, flushes>>
          \/ /\ scheduled' = [scheduled EXCEPT ![p] = TRUE]
             /\ flushes' = [flushes EXCEPT ![p] = @ + 1]
          \/ /\ scheduled' = [scheduled EXCEPT ![p] = FALSE]
             /\ flushes' = [flushes EXCEPT ![p] = @ - 1] /\ flushes[p] > 0
      BY <1>9 DEF SetOnmessage, Start, FlushEnds, RunScheduledFlush, Schedule
    <3>4. scheduled' \in [Port -> BOOLEAN] /\ flushes' \in [Port -> Nat]
      <4>1. scheduled \in [Port -> BOOLEAN] /\ flushes \in [Port -> Nat]
        BY <1>1 DEF CountTypes
      <4>2. flushes[p] + 1 \in Nat /\ (flushes[p] > 0 => flushes[p] - 1 \in Nat)
        BY <4>1
      <4> QED
        BY <3>3, <4>1, <4>2
    <3> QED
      BY <1>1, <3>1, <3>2, <3>4 DEF CountTypes
  <2> QED
    BY <1>3, <1>9, <2>1 DEF SetOnmessage, Start, FlushEnds, RunScheduledFlush
<1>10. CASE \/ CallbackReturns \/ UNCHANGED vars
            \/ \E p \in Port : \E x : AddEventListener(p, x) \/ RemoveEventListener(p, x)
  <2>1. UNCHANGED <<made, closed, onmessage, scheduled, queue, openPorts, stats, flushes>>
    BY <1>10 DEF CallbackReturns, AddEventListener, RemoveEventListener, vars
  <2>2. CountTypes'
    BY <1>1, <2>1 DEF CountTypes
  <2> QED
    BY <1>3, <2>1, <2>2
<1> QED
  BY <1>4, <1>5, <1>6, <1>7, <1>8, <1>9, <1>10 DEF Next

LEMMA CountInvInit == Init => CountInv
<1> SUFFICES ASSUME Init PROVE CountInv
  OBVIOUS
<1>1. \A p \in Port : Len(queue[p]) = 0 /\ 1 .. 0 = {}
  BY EmptySeq DEF Init
<1>2. Waiting = {} /\ Live = {}
  BY <1>1 DEF Waiting, Live, Init
<1>3. LiveChannels = {}
  BY <1>2 DEF LiveChannels
<1>4. QueueCounted /\ LiveCounted
  BY <1>2, <1>3, FS_EmptySet DEF Init, QueueCounted, LiveCounted
<1>5. ClosedIsEmpty /\ OpenCounted /\ CountTypes
  BY <1>2 DEF Init, ClosedIsEmpty, OpenCounted, One, CountTypes
<1> QED
  BY <1>4, <1>5 DEF CountInv

LEMMA CountInvariant == Spec => []CountInv
<1>1. PortsInv /\ CountInv /\ [Next]_vars => CountInv'
  BY QueueCountedStep, LiveCountedStep DEF PortsInv, CountInv
<1> QED
  BY <1>1, CountInvInit, PortsInvariant, PTL DEF Spec

(* Every variable has its type, and no counter is ever negative, although  *)
(* the model leaves out the guards of notePortClosed that keep them so.    *)
THEOREM TypeCorrect == Spec => []TypeOK
<1>1. PortsInv /\ CountInv => TypeOK
  <2> SUFFICES ASSUME PortsInv, CountInv PROVE TypeOK
    OBVIOUS
  <2>1. stats \in [channels : Nat, open : Nat, shut : Nat, queued : Nat]
    BY FS_CardinalityType DEF CountInv, CountTypes, QueueCounted, LiveCounted
  <2> QED
    BY <2>1 DEF PortsInv, PortTypes, CountInv, CountTypes, TypeOK
<1> QED
  BY <1>1, PortsInvariant, CountInvariant, PTL

(* The runtime statistics are those of the ports, through every close that  *)
(* happens inside a drain and every reset (notePortClosed,                  *)
(* noteMessageQueued, flushPortQueue, resetMessagePortTaskState).           *)
THEOREM StatisticsMatch == Spec => []CountsMatch
<1>1. CountInv => CountsMatch
  BY DEF CountInv, QueueCounted, LiveCounted, LiveChannels, CountsMatch
<1> QED
  BY <1>1, CountInvariant, PTL

(* Every message of an open port leaves its queue once and in order, and    *)
(* none waits there when the script has ended.                             *)
THEOREM MessagesLeaveInOrder == Spec => []TakenInOrder
<1>1. PortsInv => TakenInOrder
  <2> SUFFICES ASSUME PortsInv, NEW p \in Live
               PROVE  /\ accepted[p] = taken[p] \o queue[p]
                      /\ stack = <<>> => queue[p] = <<>>
    BY DEF TakenInOrder
  <2>1. accepted[p] = taken[p] \o queue[p]
    BY DEF PortsInv, InOrder, Live
  <2>2. ASSUME stack = <<>> PROVE queue[p] = <<>>
    <3>1. Len(stack) = 0
      BY <2>2
    <3> QED
      BY <3>1 DEF PortsInv, Drained, Flushing
  <2> QED
    BY <2>1, <2>2
<1> QED
  BY PortsInvariant, <1>1, PTL

-----------------------------------------------------------------------------
(***************************************************************************)
(* What the callbacks get.  Messages that wait are later than all that a   *)
(* callback has got; each callback's frame is for another message of its   *)
(* port, which has reached a callback, and the listeners it has still to   *)
(* call are not among them.                                                *)
(***************************************************************************)
Entries == [p \in Port |-> ToSet(given[p])]

Fresh(E) ==
  \A p \in Port :
    /\ \A i \in 1 .. Len(queue[p]) : queue[p][i] <= posts
    /\ \A i, j \in 1 .. Len(queue[p]) : i < j => queue[p][i] < queue[p][j]
    /\ \A e \in E[p] : /\ e.msg <= posts
                       /\ \A i \in 1 .. Len(queue[p]) : e.msg < queue[p][i]

Begun(E, f) ==
  f.in # "flush" =>
    /\ \E e \in E[f.port] : e.msg = f.msg
    /\ IsInjective(f.rest)
    /\ \A i \in 1 .. Len(f.rest) : [to |-> f.rest[i], msg |-> f.msg] \notin E[f.port]
    /\ f.in = "onmessage" =>
         \A l \in Listener : [to |-> l, msg |-> f.msg] \notin E[f.port]

Differ(f, g) == f.in # "flush" /\ g.in # "flush" /\ f.port = g.port => f.msg # g.msg

AllBegun(E, st) ==
  /\ \A n \in 1 .. Len(st) : Begun(E, st[n])
  /\ \A n, o \in 1 .. Len(st) : n # o => Differ(st[n], st[o])

Ordered(s) ==
  /\ IsInjective(s)
  /\ \A i, j \in DOMAIN s :
       i < j /\ s[i].msg > s[j].msg => \E k \in 1 .. i - 1 : s[k].msg = s[j].msg

GivenInv == Fresh(Entries) /\ AllBegun(Entries, stack) /\ \A p \in Port : Ordered(given[p])

LEMMA TailOnce ==
  ASSUME NEW S, NEW s \in Seq(S), s # <<>>, IsInjective(s)
  PROVE  /\ IsInjective(Tail(s)) /\ Head(s) \in S
         /\ \A i \in 1 .. Len(Tail(s)) : Tail(s)[i] # Head(s)
<1> DEFINE t == Tail(s)
           n == Len(s)
<1>1. /\ t \in Seq(S) /\ Head(s) \in S /\ Head(s) = s[1] /\ n \in Nat \ {0}
      /\ Len(t) = n - 1 /\ \A i \in 1 .. n - 1 : t[i] = s[i + 1]
  BY TailFacts
<1>2. DOMAIN s = 1 .. n /\ DOMAIN t = 1 .. n - 1
  BY <1>1, LenProperties
<1> HIDE DEF t, n
<1>3. \A i, j \in 1 .. n : s[i] = s[j] => i = j
  BY <1>2 DEF IsInjective
<1>4. 1 \in 1 .. n /\ \A i \in 1 .. n - 1 : i + 1 \in 1 .. n /\ i + 1 # 1
  BY <1>1
<1>5. \A i, j \in 1 .. n - 1 : i + 1 = j + 1 => i = j
  BY <1>1
<1>6. \A i, j \in 1 .. n - 1 : t[i] = t[j] => i = j
  BY <1>1, <1>3, <1>4, <1>5
<1>7. \A i \in 1 .. n - 1 : t[i] # Head(s)
  BY <1>1, <1>3, <1>4
<1> QED
  BY <1>1, <1>2, <1>6, <1>7 DEF IsInjective, t

(* A callback that has not got this message yet gets it: it is later than  *)
(* all that any callback got, or another callback has got it before.       *)
LEMMA OrderedGrows ==
  ASSUME NEW s \in Seq(Given), Ordered(s), NEW e \in Given, e \notin ToSet(s),
         \/ \A x \in ToSet(s) : x.msg < e.msg
         \/ \E x \in ToSet(s) : x.msg = e.msg
  PROVE  Ordered(Append(s, e))
<1> DEFINE r == Append(s, e)
           n == Len(s)
<1>1. /\ r \in Seq(Given) /\ Len(r) = n + 1 /\ n \in Nat
      /\ \A i \in 1 .. n : r[i] = s[i]
      /\ r[n + 1] = e
  BY PushFacts, LenProperties
<1>2. DOMAIN r = 1 .. n + 1 /\ DOMAIN s = 1 .. n
  BY <1>1, LenProperties
<1>3. \A i \in 1 .. n : s[i] \in ToSet(s) /\ s[i] # e /\ s[i].msg \in Int
  <2>1. \A i \in 1 .. n : s[i] \in ToSet(s)
    BY <1>2 DEF ToSet
  <2>2. \A i \in 1 .. n : s[i] \in Given
    BY ElementOfSeq
  <2> QED
    BY <2>1, <2>2 DEF Given
<1>4. e.msg \in Int
  BY DEF Given
<1> HIDE DEF r, n
<1>5. ASSUME NEW i \in 1 .. n + 1, NEW j \in 1 .. n + 1, r[i] = r[j] PROVE i = j
  <2>1. (i \in 1 .. n \/ i = n + 1) /\ (j \in 1 .. n \/ j = n + 1)
    BY <1>1
  <2> QED
    BY <1>1, <1>2, <1>3, <1>5, <2>1 DEF Ordered, IsInjective
<1>6. ASSUME NEW i \in 1 .. n + 1, NEW j \in 1 .. n + 1, i < j, r[i].msg > r[j].msg
      PROVE  \E k \in 1 .. i - 1 : r[k].msg = r[j].msg
  <2>1. i \in 1 .. n /\ r[i] = s[i]
    BY <1>1, <1>6
  <2>2. CASE j \in 1 .. n
    <3>1. PICK k \in 1 .. i - 1 : s[k].msg = s[j].msg
      BY <1>1, <1>2, <1>6, <2>1, <2>2 DEF Ordered
    <3>2. k \in 1 .. n /\ r[k] = s[k] /\ r[j] = s[j]
      BY <1>1, <2>1, <2>2
    <3> QED
      BY <3>1, <3>2
  <2>3. CASE j = n + 1
    <3>1. r[j] = e /\ s[i].msg > e.msg
      BY <1>1, <1>6, <2>1, <2>3
    <3>2. ~ \A x \in ToSet(s) : x.msg < e.msg
      BY <1>3, <1>4, <2>1, <3>1
    <3>3. PICK x \in ToSet(s) : x.msg = e.msg
      BY <3>2
    <3>4. PICK k \in 1 .. n : s[k] = x
      BY <1>2 DEF ToSet
    <3>5. CASE k < i
      <4>1. k \in 1 .. i - 1 /\ r[k] = s[k]
        BY <1>1, <2>1, <3>5
      <4> QED
        BY <3>1, <3>3, <3>4, <4>1
    <3>6. CASE ~(k < i)
      <4>1. k # i
        BY <1>3, <1>4, <2>1, <3>1, <3>3, <3>4
      <4>2. i < k /\ s[i].msg > s[k].msg
        BY <1>1, <2>1, <3>1, <3>3, <3>4, <3>6, <4>1
      <4>3. PICK l \in 1 .. i - 1 : s[l].msg = s[k].msg
        BY <1>2, <2>1, <4>2 DEF Ordered
      <4>4. l \in 1 .. n /\ r[l] = s[l]
        BY <1>1, <2>1
      <4> QED
        BY <3>1, <3>3, <3>4, <4>3, <4>4
    <3> QED
      BY <3>5, <3>6
  <2> QED
    BY <1>1, <2>2, <2>3
<1> QED
  BY <1>2, <1>5, <1>6 DEF r, Ordered, IsInjective

LEMMA EntriesGrow ==
  ASSUME given \in [Port -> Seq(Given)], NEW p \in Port, NEW e \in Given,
         given' = [given EXCEPT ![p] = Append(given[p], e)]
  PROVE  /\ Entries'[p] = Entries[p] \cup {e}
         /\ \A q \in Port \ {p} : Entries'[q] = Entries[q]
<1> DEFINE s == given[p]
           r == Append(s, e)
<1>1. /\ r \in Seq(Given) /\ Len(r) = Len(s) + 1 /\ Len(s) \in Nat /\ s \in Seq(Given)
      /\ \A i \in 1 .. Len(s) : r[i] = s[i]
      /\ r[Len(s) + 1] = e
  BY PushFacts, LenProperties
<1>2. DOMAIN r = 1 .. Len(s) + 1 /\ DOMAIN s = 1 .. Len(s)
  BY <1>1, LenProperties
<1>3. given'[p] = r /\ \A q \in Port \ {p} : given'[q] = given[q]
  OBVIOUS
<1> HIDE DEF r, s
<1>4. ASSUME NEW x PROVE x \in ToSet(r) <=> x \in ToSet(s) \cup {e}
  <2>1. ASSUME x \in ToSet(r) PROVE x \in ToSet(s) \cup {e}
    <3>1. PICK i \in 1 .. Len(s) + 1 : r[i] = x
      BY <1>2, <2>1 DEF ToSet
    <3>2. i \in 1 .. Len(s) \/ i = Len(s) + 1
      BY <1>1
    <3> QED
      BY <1>1, <1>2, <3>1, <3>2 DEF ToSet
  <2>2. ASSUME x \in ToSet(s) PROVE x \in ToSet(r)
    <3>1. PICK i \in 1 .. Len(s) : s[i] = x
      BY <1>2, <2>2 DEF ToSet
    <3>2. i \in 1 .. Len(s) + 1
      BY <1>1
    <3> QED
      BY <1>1, <1>2, <3>1, <3>2 DEF ToSet
  <2>3. e \in ToSet(r)
    <3>1. Len(s) + 1 \in DOMAIN r /\ r[Len(s) + 1] = e
      BY <1>1, <1>2
    <3> QED
      BY <3>1 DEF ToSet
  <2> QED
    BY <2>1, <2>2, <2>3
<1>5. ToSet(r) = ToSet(s) \cup {e}
  BY <1>4
<1> QED
  BY <1>3, <1>5 DEF Entries, s

LEMMA EntriesTyped ==
  ASSUME given \in [Port -> Seq(Given)]
  PROVE  \A p \in Port : Entries[p] = ToSet(given[p]) /\ Entries[p] \subseteq Given
<1>1. ASSUME NEW p \in Port PROVE ToSet(given[p]) \subseteq Given
  <2>1. given[p] \in Seq(Given)
    OBVIOUS
  <2>2. DOMAIN given[p] = 1 .. Len(given[p])
    BY <2>1, LenProperties
  <2> QED
    BY <2>1, <2>2, ElementOfSeq DEF ToSet
<1> QED
  BY <1>1 DEF Entries

LEMMA BegunGrows ==
  ASSUME NEW E, NEW F, NEW p \in Port, NEW e, F[p] = E[p] \cup {e},
         \A q \in Port \ {p} : F[q] = E[q],
         NEW f \in Frame, Begun(E, f), f.in # "flush" /\ f.port = p => f.msg # e.msg
  PROVE  Begun(F, f)
<1>1. CASE f.in = "flush"
  BY <1>1 DEF Begun
<1>2. CASE f.in # "flush" /\ f.port # p
  <2>1. F[f.port] = E[f.port]
    BY <1>2, FrameFacts
  <2> QED
    BY <2>1 DEF Begun
<1>3. CASE f.in # "flush" /\ f.port = p
  <2>1. \A to : [to |-> to, msg |-> f.msg] # e
    BY <1>3
  <2>2. E[f.port] \subseteq F[f.port] /\ \A x \in F[f.port] : x \in E[f.port] \/ x = e
    BY <1>3
  <2> QED
    BY <2>1, <2>2 DEF Begun
<1> QED
  BY <1>1, <1>2, <1>3

(* The frame f is pushed on calls that are begun, or one is popped.        *)
LEMMA BegunPushed ==
  ASSUME NEW E, NEW st \in Seq(Frame), NEW f \in Frame, Begun(E, f), AllBegun(E, st),
         \A n \in 1 .. Len(st) : Differ(st[n], f)
  PROVE  AllBegun(E, Append(st, f))
<1> DEFINE r == Append(st, f)
<1>1. /\ Len(r) = Len(st) + 1 /\ Len(st) \in Nat
      /\ \A i \in 1 .. Len(st) : r[i] = st[i]
      /\ r[Len(st) + 1] = f
  BY PushFacts, LenProperties
<1> HIDE DEF r
<1>2. \A n \in 1 .. Len(r) : n \in 1 .. Len(st) \/ n = Len(st) + 1
  BY <1>1
<1>3. \A n \in 1 .. Len(r) : Begun(E, r[n])
  BY <1>1, <1>2 DEF AllBegun
<1>4. \A n, o \in 1 .. Len(r) : n # o => Differ(r[n], r[o])
  <2>1. \A g, h : Differ(g, h) => Differ(h, g)
    BY DEF Differ
  <2> QED
    BY <1>1, <1>2, <2>1 DEF AllBegun
<1> QED
  BY <1>3, <1>4 DEF AllBegun, r

LEMMA BegunFront ==
  ASSUME NEW E, NEW st \in Seq(Frame), AllBegun(E, st), st # <<>>
  PROVE  /\ Front(st) \in Seq(Frame) /\ AllBegun(E, Front(st))
         /\ Last(st) \in Frame /\ Begun(E, Last(st))
         /\ \A n \in 1 .. Len(Front(st)) : Differ(Front(st)[n], Last(st))
<1> DEFINE s == Front(st)
<1>1. /\ s \in Seq(Frame) /\ Len(s) = Len(st) - 1
      /\ \A i \in 1 .. Len(st) - 1 : s[i] = st[i]
      /\ Len(st) \in Nat \ {0} /\ Last(st) = st[Len(st)] /\ Last(st) \in Frame
  BY FrontFacts DEF Last
<1> HIDE DEF s
<1>2. \A n \in 1 .. Len(s) : s[n] = st[n] /\ n \in 1 .. Len(st) /\ n # Len(st)
  BY <1>1
<1>3. Len(st) \in 1 .. Len(st)
  BY <1>1
<1>4. /\ \A n \in 1 .. Len(s) : Begun(E, s[n]) /\ Differ(s[n], Last(st))
      /\ \A n, o \in 1 .. Len(s) : n # o => Differ(s[n], s[o])
  BY <1>1, <1>2, <1>3 DEF AllBegun
<1> QED
  BY <1>1, <1>3, <1>4 DEF AllBegun, s

(* A callback of the frame f gets the entry e.                             *)
LEMMA GiveStep ==
  ASSUME given \in [Port -> Seq(Given)], \A p \in Port : Ordered(given[p]),
         NEW E, NEW F, E = Entries, F = Entries',
         NEW st \in Seq(Frame), AllBegun(E, st),
         NEW p \in Port, NEW e \in Given, NEW f \in Frame, f.port = p, f.msg = e.msg,
         given' = [given EXCEPT ![p] = Append(given[p], e)],
         \A n \in 1 .. Len(st) : Differ(st[n], f),
         f.in # "flush", Begun(E, f) \/ \A x \in E[p] : x.msg < e.msg,
         f.in = "onmessage" => e.to = "onmessage" /\ f.rest = <<>>,
         e \notin E[p], IsInjective(f.rest),
         \A i \in 1 .. Len(f.rest) : f.rest[i] # e.to
                                      /\ [to |-> f.rest[i], msg |-> f.msg] \notin E[p],
         f.in = "onmessage" => \A x \in E[p] : x.msg < e.msg
  PROVE  AllBegun(F, Append(st, f)) /\ \A q \in Port : Ordered(given'[q])
<1>1. F[p] = E[p] \cup {e} /\ \A q \in Port \ {p} : F[q] = E[q]
  BY EntriesGrow
<1>2. E[p] = ToSet(given[p]) /\ E[p] \subseteq Given
  BY EntriesTyped
<1>3. \A n \in 1 .. Len(st) : st[n] \in Frame
  BY ElementOfSeq
<1>4. AllBegun(F, st)
  <2>1. ASSUME NEW n \in 1 .. Len(st) PROVE Begun(F, st[n])
    <3> DEFINE g == st[n]
    <3>1. g \in Frame /\ Begun(E, g)
      BY <1>3 DEF AllBegun
    <3>2. g.in # "flush" /\ g.port = p => g.msg # e.msg
      BY DEF Differ
    <3>3. F[p] = E[p] \cup {e}
      BY <1>1
    <3>4. \A q \in Port \ {p} : F[q] = E[q]
      BY <1>1
    <3> HIDE DEF g
    <3>5. Begun(F, g)
      BY ONLY <3>1, <3>2, <3>3, <3>4, p \in Port, BegunGrows, Zenon
    <3> QED
      BY <3>5 DEF g
  <2> QED
    BY <2>1 DEF AllBegun
<1>5. Begun(F, f)
  <2>1. \E x \in F[p] : x.msg = f.msg
    BY <1>1
  <2>2. \A i \in 1 .. Len(f.rest) : [to |-> f.rest[i], msg |-> f.msg] \notin F[p]
    <3>1. \A i \in 1 .. Len(f.rest) : [to |-> f.rest[i], msg |-> f.msg] # e
      OBVIOUS
    <3> QED
      BY <1>1, <3>1
  <2>3. ASSUME f.in = "onmessage", NEW l \in Listener PROVE [to |-> l, msg |-> f.msg] \notin F[p]
    <3> DEFINE x == [to |-> l, msg |-> f.msg]
    <3>1. x \notin E[p]
      <4>1. x.msg = e.msg /\ e.msg \in Int
        BY DEF Given
      <4>2. ~(x.msg < e.msg)
        BY <4>1
      <4> HIDE DEF x
      <4> QED
        BY <2>3, <4>2
    <3>2. x # e
      BY <2>3, ListenerAssumption
    <3> QED
      BY <1>1, <3>1, <3>2
  <2> QED
    BY <2>1, <2>2, <2>3 DEF Begun
<1>6. AllBegun(F, Append(st, f))
  BY <1>4, <1>5, BegunPushed
<1>7. \/ \A x \in E[p] : x.msg < e.msg
      \/ \E x \in E[p] : x.msg = e.msg
  BY DEF Begun
<1>8. Ordered(Append(given[p], e))
  BY <1>2, <1>7, OrderedGrows
<1>9. given'[p] = Append(given[p], e) /\ \A q \in Port \ {p} : given'[q] = given[q]
  OBVIOUS
<1> QED
  BY <1>6, <1>8, <1>9

(* The messages in the queue, those the callbacks got, and the frames stay *)
(* as GivenInv has them through every step.                                *)
LEMMA GivenInvStep ==
  PortTypes /\ PortTypes' /\ GivenInv /\ [Next]_vars => GivenInv'
<1> SUFFICES ASSUME PortTypes, PortTypes', GivenInv, [Next]_vars PROVE GivenInv'
  OBVIOUS
<1> USE DEF portVars, history
<1> PICK E, F : E = Entries /\ F = Entries'
  OBVIOUS
<1>1. /\ stack \in Seq(Frame) /\ given \in [Port -> Seq(Given)] /\ posts \in Nat
      /\ \A p \in Port : /\ queue[p] \in Seq(1 .. MaxPosts) /\ listeners[p] \in Seq(Listener)
                         /\ IsInjective(listeners[p])
      /\ Fresh(E) /\ AllBegun(E, stack) /\ \A p \in Port : Ordered(given[p])
  BY DEF PortTypes, GivenInv
<1>2. \A p \in Port : E[p] = ToSet(given[p]) /\ E[p] \subseteq Given
  BY <1>1, EntriesTyped
<1>3. given' = given => F = E
  BY DEF Entries
<1>g. ASSUME Fresh(F)', AllBegun(F, stack'), \A p \in Port : Ordered(given'[p])
      PROVE  GivenInv'
  BY <1>g DEF GivenInv, Fresh
<1>4. ASSUME given' = given, stack' = stack, posts' = posts,
             \A p \in Port : queue'[p] = queue[p] \/ queue'[p] = <<>>
      PROVE  GivenInv'
  <2>1. Fresh(E)'
    <3>1. \A p \in Port : queue'[p] = queue[p] \/ Len(queue'[p]) = 0
      BY <1>4, EmptySeq
    <3> QED
      BY <1>1, <1>4, <3>1 DEF Fresh
  <2> QED
    BY <1>1, <1>3, <1>4, <1>g, <2>1
<1>5. ASSUME NEW q \in Port PROVE AllBegun(E, Append(stack, Flush(q)))
  <2>1. Flush(q) \in Frame /\ Begun(E, Flush(q)) /\ \A f : Differ(f, Flush(q))
    BY FrameFacts DEF Begun, Differ, Flush
  <2> HIDE DEF Flush
  <2> QED
    BY <1>1, <2>1, BegunPushed
<1>7. ASSUME UNCHANGED <<queue, posts>> PROVE Fresh(E)'
  BY <1>1, <1>7 DEF Fresh
<1>8. ASSUME NEW p \in Port, FlushEnds(p) PROVE GivenInv'
  <2>1. stack # <<>> /\ stack' = Front(stack) /\ UNCHANGED <<queue, posts, given>>
    BY <1>8 DEF FlushEnds, Pop
  <2> QED
    BY <1>1, <1>3, <1>7, <1>g, <2>1, BegunFront
<1>9. ASSUME NEW p \in Port, RunScheduledFlush(p) PROVE GivenInv'
  <2>1. UNCHANGED <<queue, posts, given>>
        /\ (stack' = Append(stack, Flush(p)) \/ stack' = stack)
    BY <1>9 DEF RunScheduledFlush, Push
  <2> QED
    BY <1>1, <1>3, <1>5, <1>7, <1>g, <2>1
<1>10. ASSUME NEW p \in Port, PostMessage(p) PROVE GivenInv'
  <2> DEFINE q == entangled[p]
             m == posts + 1
  <2>1. q \in Port /\ posts' = m /\ given' = given
        /\ queue' = [queue EXCEPT ![q] = Append(queue[q], m)]
        /\ (stack' = Append(stack, Flush(q)) \/ stack' = stack)
    BY <1>10 DEF PostMessage, PortTypes, Push
  <2>2. m \in 1 .. MaxPosts
    BY <1>1, <1>10, PostsAssumption DEF PostMessage, PortTypes
  <2>3. /\ Len(Append(queue[q], m)) = Len(queue[q]) + 1 /\ Len(queue[q]) \in Nat
        /\ \A i \in 1 .. Len(queue[q]) : Append(queue[q], m)[i] = queue[q][i]
        /\ Append(queue[q], m)[Len(queue[q]) + 1] = m
    BY <1>1, <2>1, <2>2, PushFacts, LenProperties
  <2>4. queue'[q] = Append(queue[q], m) /\ \A r \in Port \ {q} : queue'[r] = queue[r]
    BY <2>1 DEF PortTypes
  <2>5. ASSUME NEW r \in Port, NEW i \in 1 .. Len(queue[r]) PROVE queue[r][i] \in Int
    <3>1. queue[r] \in Seq(1 .. MaxPosts)
      BY <1>1
    <3>2. queue[r][i] \in 1 .. MaxPosts
      BY <3>1, ElementOfSeq
    <3> QED
      BY <3>2, PostsAssumption
  <2>6. \A r \in Port : \A e \in E[r] : e.msg \in Int
    BY <1>2 DEF Given
  <2>7. m = posts + 1 /\ posts \in Int /\ m \in Int
    BY <1>1
  <2> HIDE DEF q, m
  <2>8. ASSUME NEW r \in Port
        PROVE  /\ \A i \in 1 .. Len(queue'[r]) : queue'[r][i] <= m
               /\ \A i, j \in 1 .. Len(queue'[r]) : i < j => queue'[r][i] < queue'[r][j]
               /\ \A e \in E[r] : /\ e.msg <= m
                                  /\ \A i \in 1 .. Len(queue'[r]) : e.msg < queue'[r][i]
    <3>1. /\ \A i \in 1 .. Len(queue[r]) : queue[r][i] <= posts
          /\ \A i, j \in 1 .. Len(queue[r]) : i < j => queue[r][i] < queue[r][j]
          /\ \A e \in E[r] : /\ e.msg <= posts
                             /\ \A i \in 1 .. Len(queue[r]) : e.msg < queue[r][i]
      BY <1>1 DEF Fresh
    <3>2. CASE r # q
      <4>1. queue'[r] = queue[r]
        BY <2>4, <3>2
      <4> QED
        BY <1>1, <2>5, <2>6, <2>7, <3>1, <4>1
    <3>3. CASE r = q
      <4>1. /\ Len(queue'[r]) = Len(queue[r]) + 1 /\ Len(queue[r]) \in Nat
            /\ \A i \in 1 .. Len(queue[r]) : queue'[r][i] = queue[r][i]
            /\ queue'[r][Len(queue[r]) + 1] = m
        BY <2>3, <2>4, <3>3
      <4>2. \A i \in 1 .. Len(queue'[r]) : \/ i \in 1 .. Len(queue[r])
                                          \/ i = Len(queue[r]) + 1
        BY <4>1
      <4>3. \A i \in 1 .. Len(queue'[r]) : queue'[r][i] <= m
        <5>1. ASSUME NEW i \in 1 .. Len(queue'[r]) PROVE queue'[r][i] <= m
          BY <2>5, <2>7, <3>1, <4>1, <4>2
        <5> QED
          BY <5>1
      <4>4. \A i, j \in 1 .. Len(queue'[r]) : i < j => queue'[r][i] < queue'[r][j]
        <5>1. ASSUME NEW i \in 1 .. Len(queue'[r]), NEW j \in 1 .. Len(queue'[r]), i < j
              PROVE  queue'[r][i] < queue'[r][j]
          <6>1. i \in 1 .. Len(queue[r]) /\ queue'[r][i] = queue[r][i]
            BY <4>1, <4>2, <5>1
          <6>2. CASE j \in 1 .. Len(queue[r])
            BY <3>1, <4>1, <5>1, <6>1, <6>2
          <6>3. CASE j = Len(queue[r]) + 1
            <7>1. queue'[r][i] \in Int /\ queue'[r][i] <= posts /\ queue'[r][j] = m
              BY <2>5, <3>1, <4>1, <6>1, <6>3
            <7> QED
              BY <2>7, <7>1
          <6> QED
            BY <4>2, <6>2, <6>3
        <5> QED
          BY <5>1
      <4>5. \A e \in E[r] : /\ e.msg <= m
                            /\ \A i \in 1 .. Len(queue'[r]) : e.msg < queue'[r][i]
        <5>1. ASSUME NEW e \in E[r] PROVE e.msg <= m
          BY <2>6, <2>7, <3>1
        <5>2. ASSUME NEW e \in E[r], NEW i \in 1 .. Len(queue'[r])
              PROVE  e.msg < queue'[r][i]
          <6>1. CASE i \in 1 .. Len(queue[r])
            BY <3>1, <4>1, <6>1
          <6>2. CASE i = Len(queue[r]) + 1
            BY <2>6, <2>7, <3>1, <4>1, <6>2
          <6> QED
            BY <4>2, <6>1, <6>2
        <5> QED
          BY <5>1, <5>2
      <4> QED
        BY <4>3, <4>4, <4>5
    <3> QED
      BY <3>2, <3>3
  <2>9. Fresh(E)'
    BY <2>1, <2>8 DEF Fresh
  <2> QED
    BY <1>1, <1>3, <1>5, <1>g, <2>1, <2>9
<1>11. ASSUME NEW p \in Port, FlushNext(p) PROVE GivenInv'
  <2> DEFINE m == Head(queue[p])
             q == queue[p]
  <2>1. /\ stack # <<>> /\ m \in 1 .. MaxPosts /\ queue[p] # <<>>
        /\ queue' = [queue EXCEPT ![p] = Tail(queue[p])] /\ posts' = posts
        /\ \/ /\ stack' = Append(stack, Onmessage(p, m))
              /\ given' = [given EXCEPT ![p] =
                             Append(given[p], [to |-> "onmessage", msg |-> m])]
           \/ Calls(stack, p, m, listeners[p])
           \/ stack' = stack /\ given' = given
    BY <1>11, FlushNextFacts DEF FlushNext
  <2>2. /\ Tail(q) \in Seq(1 .. MaxPosts) /\ m = q[1] /\ Len(q) \in Nat \ {0}
        /\ Len(Tail(q)) = Len(q) - 1
        /\ \A i \in 1 .. Len(q) - 1 : Tail(q)[i] = q[i + 1]
    BY <1>1, <2>1, TailFacts
  <2>3. queue'[p] = Tail(q) /\ \A r \in Port \ {p} : queue'[r] = queue[r]
    BY <2>1 DEF PortTypes
  <2>4. /\ \A i \in 1 .. Len(q) : q[i] <= posts
        /\ \A i, j \in 1 .. Len(q) : i < j => q[i] < q[j]
        /\ \A e \in E[p] : /\ e.msg <= posts
                           /\ \A i \in 1 .. Len(q) : e.msg < q[i]
    BY <1>1 DEF Fresh
  <2>5. 1 \in 1 .. Len(q)
    BY <2>2
  <2>6. \A e \in E[p] : e.msg < m
    BY <2>2, <2>4, <2>5
  <2>7. m <= posts /\ \A i \in 1 .. Len(q) - 1 : m < Tail(q)[i]
    <3>1. \A i \in 1 .. Len(q) - 1 : i + 1 \in 1 .. Len(q) /\ 1 < i + 1
      BY <2>2
    <3> QED
      BY <2>2, <2>4, <2>5, <3>1
  <2> HIDE DEF m, q
  <2>8. ASSUME F[p] \subseteq E[p] \cup {e \in Given : e.msg = m},
               \A r \in Port \ {p} : F[r] = E[r]
        PROVE  Fresh(F)'
    <3>1. ASSUME NEW r \in Port
          PROVE  /\ \A i \in 1 .. Len(queue'[r]) : queue'[r][i] <= posts
                 /\ \A i, j \in 1 .. Len(queue'[r]) : i < j => queue'[r][i] < queue'[r][j]
                 /\ \A e \in F[r] : /\ e.msg <= posts
                                    /\ \A i \in 1 .. Len(queue'[r]) : e.msg < queue'[r][i]
      <4>1. CASE r # p
        <5>1. queue'[r] = queue[r] /\ F[r] = E[r]
          BY <2>3, <2>8, <4>1
        <5> QED
          BY <1>1, <5>1 DEF Fresh
      <4>2. CASE r = p
        <5>1. /\ Len(queue'[r]) = Len(q) - 1
              /\ \A i \in 1 .. Len(q) - 1 : /\ queue'[r][i] = q[i + 1]
                                            /\ i + 1 \in 1 .. Len(q) /\ m < queue'[r][i]
          <6>1. queue'[r] = Tail(q)
            BY <2>3, <4>2
          <6>2. \A i \in 1 .. Len(q) - 1 : i + 1 \in 1 .. Len(q)
            BY <2>2
          <6> QED
            BY ONLY <2>2, <2>7, <6>1, <6>2
        <5>2. \A i, j \in 1 .. Len(q) - 1 : i < j => i + 1 < j + 1
          BY <2>2
        <5>3. \A e \in F[r] : e \in E[p] \/ e.msg = m
          BY <2>8, <4>2
        <5>4. \A i, j \in 1 .. Len(q) - 1 : i < j => queue'[r][i] < queue'[r][j]
          BY <2>4, <5>1, <5>2
        <5>5. \A e \in F[r] : /\ e.msg <= posts
                              /\ \A i \in 1 .. Len(q) - 1 : e.msg < queue'[r][i]
          BY <2>4, <2>7, <5>1, <5>3
        <5> QED
          BY <2>4, <5>1, <5>4, <5>5
      <4> QED
        BY <4>1, <4>2
    <3> QED
      BY <2>1, <3>1 DEF Fresh
  <2>9. CASE stack' = stack /\ given' = given
    BY <1>1, <1>3, <1>g, <2>8, <2>9
  <2>10. ASSUME NEW f \in Frame, NEW to \in Listener \cup {"onmessage"},
                f.port = p, f.msg = m, f.in # "flush", stack' = Append(stack, f),
                given' = [given EXCEPT ![p] = Append(given[p], [to |-> to, msg |-> m])],
                f.in = "onmessage" => to = "onmessage" /\ f.rest = <<>>,
                IsInjective(f.rest), \A i \in 1 .. Len(f.rest) : f.rest[i] # to
         PROVE  GivenInv'
    <3> DEFINE e == [to |-> to, msg |-> m]
    <3>1. e \in Given /\ e.msg = m /\ e.to = to
      BY <2>1 DEF Given
    <3>2. given' = [given EXCEPT ![p] = Append(given[p], e)]
      BY <2>10
    <3> HIDE DEF e
    <3>3. m \in Int
      BY <2>1
    <3>4. \A x \in E[p] : x.msg # m
      BY <2>6, <3>3
    <3>5. e \notin E[p]
      BY <3>1, <3>4
    <3>6. \A i \in 1 .. Len(f.rest) : [to |-> f.rest[i], msg |-> f.msg] \notin E[p]
      BY <2>10, <3>4
    <3>7. \A n \in 1 .. Len(stack) : Differ(stack[n], f)
      BY <1>1, <2>10, <3>4 DEF AllBegun, Begun, Differ
    <3>8. AllBegun(F, stack') /\ \A r \in Port : Ordered(given'[r])
      <4>1. /\ f.port = p /\ f.msg = e.msg /\ f.in # "flush" /\ IsInjective(f.rest)
            /\ f.in = "onmessage" => e.to = "onmessage" /\ f.rest = <<>>
            /\ \A x \in E[p] : x.msg < e.msg
            /\ \A i \in 1 .. Len(f.rest) : f.rest[i] # e.to
                                            /\ [to |-> f.rest[i], msg |-> f.msg] \notin E[p]
        BY <2>6, <2>10, <3>1, <3>6
      <4>2. given \in [Port -> Seq(Given)] /\ \A r \in Port : Ordered(given[r])
        BY <1>1
      <4>3. stack \in Seq(Frame) /\ AllBegun(E, stack) /\ E = Entries /\ F = Entries'
        BY <1>1
      <4>4. e \in Given
        BY <3>1
      <4>5. AllBegun(F, Append(stack, f)) /\ \A r \in Port : Ordered(given'[r])
        BY ONLY <3>2, <3>5, <3>7, <4>1, <4>2, <4>3, <4>4, p \in Port, f \in Frame, GiveStep
      <4> QED
        BY <2>10, <4>5
    <3>9. F[p] = E[p] \cup {e} /\ \A r \in Port \ {p} : F[r] = E[r]
      BY <1>1, <3>1, <3>2, EntriesGrow
    <3>10. Fresh(F)'
      BY <2>8, <3>1, <3>9
    <3> QED
      BY <1>g, <3>8, <3>10
  <2>11. CASE /\ stack' = Append(stack, Onmessage(p, m))
              /\ given' = [given EXCEPT ![p] =
                             Append(given[p], [to |-> "onmessage", msg |-> m])]
    <3> DEFINE f == Onmessage(p, m)
    <3>1. f \in Frame /\ f.port = p /\ f.msg = m /\ f.in = "onmessage" /\ f.rest = <<>>
      BY <2>1, FrameFacts, EmptySeq DEF Onmessage
    <3>2. stack' = Append(stack, f)
      BY <2>11
    <3> HIDE DEF f
    <3>3. IsInjective(f.rest) /\ \A i \in 1 .. Len(f.rest) : f.rest[i] # "onmessage"
      <4>1. Len(f.rest) = 0 /\ DOMAIN f.rest = {}
        BY <3>1, EmptySeq
      <4> QED
        BY <4>1 DEF IsInjective
    <3>4. "onmessage" \in Listener \cup {"onmessage"}
      OBVIOUS
    <3>5. given' = [given EXCEPT ![p] = Append(given[p], [to |-> "onmessage", msg |-> m])]
      BY <2>11
    <3>6. f \in Frame /\ f.port = p /\ f.msg = m /\ f.in # "flush"
          /\ (f.in = "onmessage" => "onmessage" = "onmessage" /\ f.rest = <<>>)
      BY <3>1
    <3> QED
      BY ONLY <2>10, <3>2, <3>3, <3>4, <3>5, <3>6
  <2>12. CASE Calls(stack, p, m, listeners[p])
    <3> DEFINE ls == listeners[p]
               f == ListenerCall(p, m, Tail(ls))
    <3>1. /\ f \in Frame /\ f.port = p /\ f.msg = m /\ f.in = "listener" /\ f.rest = Tail(ls)
          /\ stack' = Append(stack, f)
          /\ given' = [given EXCEPT ![p] = Append(given[p], [to |-> Head(ls), msg |-> m])]
      BY <1>1, <2>1, <2>12, CallsTypes DEF Calls, ListenerCall
    <3>2. ls \in Seq(Listener) /\ ls # <<>> /\ IsInjective(ls)
      BY <1>1, <2>12 DEF Calls
    <3> HIDE DEF f, ls
    <3>3. /\ IsInjective(Tail(ls)) /\ Head(ls) \in Listener
          /\ \A i \in 1 .. Len(Tail(ls)) : Tail(ls)[i] # Head(ls)
      BY <3>2, TailOnce
    <3> QED
      BY <2>10, <3>1, <3>3
  <2> QED
    BY <2>1, <2>9, <2>11, <2>12
<1>12. CASE CallbackReturns
  <2>1. /\ stack # <<>> /\ Top \in Frame /\ Top.in # "flush"
        /\ Top.port \in Port /\ Top.msg \in 1 .. MaxPosts
        /\ UNCHANGED <<queue, posts>>
        /\ \/ stack' = Front(stack) /\ given' = given
           \/ /\ Top.in = "onmessage"
              /\ Calls(Front(stack), Top.port, Top.msg, listeners[Top.port])
           \/ /\ Top.in = "listener"
              /\ Calls(Front(stack), Top.port, Top.msg, Top.rest)
    BY <1>12, ReturnFacts DEF CallbackReturns
  <2>2. /\ Front(stack) \in Seq(Frame) /\ AllBegun(E, Front(stack)) /\ Begun(E, Top)
        /\ \A n \in 1 .. Len(Front(stack)) : Differ(Front(stack)[n], Top)
    BY <1>1, <2>1, BegunFront DEF Top
  <2>3. CASE stack' = Front(stack) /\ given' = given
    BY <1>1, <1>3, <1>7, <1>g, <2>1, <2>2, <2>3
  <2>4. ASSUME NEW ls \in Seq(Listener), IsInjective(ls),
               Calls(Front(stack), Top.port, Top.msg, ls),
               \A i \in 1 .. Len(ls) : [to |-> ls[i], msg |-> Top.msg] \notin E[Top.port]
        PROVE  GivenInv'
    <3> DEFINE p == Top.port
               m == Top.msg
               st == Front(stack)
               f == ListenerCall(p, m, Tail(ls))
               e == [to |-> Head(ls), msg |-> m]
    <3>1. /\ f \in Frame /\ f.port = p /\ f.msg = m /\ f.in = "listener" /\ f.rest = Tail(ls)
          /\ stack' = Append(st, f)
          /\ given' = [given EXCEPT ![p] = Append(given[p], e)]
      BY <1>1, <2>1, <2>2, <2>4, CallsTypes DEF Calls, ListenerCall
    <3>2. ls # <<>>
      BY <2>4 DEF Calls
    <3>3. /\ IsInjective(Tail(ls)) /\ Head(ls) \in Listener /\ Head(ls) = ls[1]
          /\ Len(ls) \in Nat \ {0} /\ Len(Tail(ls)) = Len(ls) - 1
          /\ \A i \in 1 .. Len(Tail(ls)) : Tail(ls)[i] # Head(ls)
          /\ \A i \in 1 .. Len(ls) - 1 : Tail(ls)[i] = ls[i + 1]
      BY <2>4, <3>2, TailOnce, TailFacts
    <3>4. p \in Port /\ m \in 1 .. MaxPosts /\ e \in Given /\ e.msg = m /\ e.to = Head(ls)
      BY <2>1, <3>3 DEF Given
    <3>5. st \in Seq(Frame) /\ AllBegun(E, st) /\ \E x \in E[p] : x.msg = m
      BY <2>1, <2>2 DEF Begun
    <3>6. \A n \in 1 .. Len(st) : Differ(st[n], f)
      BY <2>1, <2>2, <3>1 DEF Differ
    <3>7. 1 \in 1 .. Len(ls) /\ \A i \in 1 .. Len(Tail(ls)) : i + 1 \in 1 .. Len(ls)
      BY <3>3
    <3>8. e \notin E[p]
      BY <2>4, <3>3, <3>7
    <3>9. \A i \in 1 .. Len(f.rest) : f.rest[i] # e.to
                                       /\ [to |-> f.rest[i], msg |-> f.msg] \notin E[p]
      BY <2>4, <3>1, <3>3, <3>4, <3>7
    <3> HIDE DEF p, m, st, f, e
    <3>10. Begun(E, f)
      BY <3>1, <3>3, <3>5, <3>9 DEF Begun
    <3>11. AllBegun(F, stack') /\ \A r \in Port : Ordered(given'[r])
      <4>1. f.in # "flush" /\ f.in # "onmessage" /\ IsInjective(f.rest)
        BY <3>1, <3>3
      <4>2. AllBegun(F, Append(st, f)) /\ \A r \in Port : Ordered(given'[r])
        <5>1. given \in [Port -> Seq(Given)] /\ \A r \in Port : Ordered(given[r])
          BY <1>1
        <5>2. /\ f \in Frame /\ f.port = p /\ f.msg = e.msg /\ p \in Port /\ e \in Given
              /\ given' = [given EXCEPT ![p] = Append(given[p], e)]
              /\ E = Entries /\ F = Entries' /\ st \in Seq(Frame) /\ AllBegun(E, st)
          BY <3>1, <3>4, <3>5
        <5> QED
          BY ONLY <3>6, <3>8, <3>9, <3>10, <4>1, <5>1, <5>2, GiveStep
      <4> QED
        BY <3>1, <4>2
    <3>12. F[p] = E[p] \cup {e} /\ \A r \in Port \ {p} : F[r] = E[r]
      BY <1>1, <3>1, <3>4, EntriesGrow
    <3>13. Fresh(F)'
      <4>1. ASSUME NEW r \in Port, NEW x \in F[r] PROVE \E y \in E[r] : y.msg = x.msg
        <5>1. x \in E[r] \/ (r = p /\ x = e)
          BY <3>12
        <5> QED
          BY <3>4, <3>5, <5>1
      <4>2. UNCHANGED <<queue, posts>>
        BY <2>1
      <4>3. Fresh(E)
        BY <1>1
      <4>4. ASSUME NEW r \in Port, NEW x \in F[r]
            PROVE  /\ x.msg <= posts
                   /\ \A i \in 1 .. Len(queue[r]) : x.msg < queue[r][i]
        <5>1. PICK y \in E[r] : y.msg = x.msg
          BY <4>1
        <5> QED
          BY <4>3, <5>1 DEF Fresh
      <4> QED
        BY <4>2, <4>3, <4>4 DEF Fresh
    <3> QED
      BY <1>g, <3>11, <3>13
  <2>5. CASE Top.in = "onmessage" /\ Calls(Front(stack), Top.port, Top.msg, listeners[Top.port])
    <3>1. listeners[Top.port] \in Seq(Listener) /\ IsInjective(listeners[Top.port])
      BY <1>1, <2>1
    <3>2. \A i \in 1 .. Len(listeners[Top.port]) : listeners[Top.port][i] \in Listener
      BY <3>1, ElementOfSeq
    <3> QED
      BY <2>2, <2>4, <2>5, <3>1, <3>2 DEF Begun
  <2>6. CASE Top.in = "listener" /\ Calls(Front(stack), Top.port, Top.msg, Top.rest)
    <3>1. Top.rest \in Seq(Listener)
      BY <2>1, FrameFacts
    <3> QED
      BY <2>1, <2>2, <2>4, <2>6, <3>1 DEF Begun
  <2> QED
    BY <2>1, <2>3, <2>5, <2>6
<1>13. ASSUME NEW c \in Channel, EnsureChannelState(c) PROVE GivenInv'
  BY <1>4, <1>13 DEF EnsureChannelState
<1>14. ASSUME NEW p \in Port, SetOnmessage(p) \/ Start(p) \/ Close(p) PROVE GivenInv'
  BY <1>4, <1>14 DEF SetOnmessage, Start, Close, PortTypes
<1>15. ASSUME NEW p \in Port, NEW x, AddEventListener(p, x) \/ RemoveEventListener(p, x)
       PROVE  GivenInv'
  BY <1>4, <1>15 DEF AddEventListener, RemoveEventListener
<1>16. CASE ResetTaskState
  BY <1>4, <1>16 DEF ResetTaskState, PortTypes
<1>17. CASE UNCHANGED vars
  BY <1>4, <1>17 DEF vars
<1> QED
  BY <1>8, <1>9, <1>10, <1>11, <1>12, <1>13, <1>14, <1>15, <1>16, <1>17 DEF Next

(* No callback gets a message twice, and messages reach their first callback *)
(* in order, however deep the drains nest and whatever listeners come and go. *)
THEOREM CallbacksInOrder == Spec => []GivenInOrder
<1>1. Init => GivenInv
  <2> SUFFICES ASSUME Init PROVE GivenInv
    OBVIOUS
  <2>1. \A p \in Port : given[p] = <<>> /\ queue[p] = <<>>
    BY DEF Init
  <2>2. Len(<<>>) = 0 /\ DOMAIN <<>> = {} /\ stack = <<>>
    BY EmptySeq DEF Init
  <2>3. \A p \in Port : Entries[p] = {}
    BY <2>1, <2>2 DEF Entries, ToSet
  <2>4. Fresh(Entries)
    BY <2>1, <2>2, <2>3 DEF Fresh
  <2>5. AllBegun(Entries, stack)
    BY <2>2 DEF AllBegun
  <2>6. \A p \in Port : Ordered(given[p])
    BY <2>1, <2>2 DEF Ordered, IsInjective
  <2> QED
    BY <2>4, <2>5, <2>6 DEF GivenInv
<1>2. PortsInv /\ PortsInv' /\ GivenInv /\ [Next]_vars => GivenInv'
  BY GivenInvStep DEF PortsInv
<1>3. GivenInv => GivenInOrder
  BY DEF GivenInv, Ordered, GivenInOrder
<1> QED
  BY <1>1, <1>2, <1>3, PortsInvariant, PTL DEF Spec

(* What postMessage accepts leaves the queue once and in order, waits for   *)
(* nothing once the script has ended, and reaches no callback twice and the *)
(* first one in order (flushPortQueue, dispatchPortMessage).                *)
THEOREM MessagesAreDelivered == Spec => []Delivered
<1>1. TakenInOrder /\ GivenInOrder => Delivered
  BY DEF Delivered
<1> QED
  BY <1>1, MessagesLeaveInOrder, CallbacksInOrder, PTL

(* A closed port dispatches no message; only the rest of a snapshot that   *)
(* had begun is still called.                                              *)
THEOREM ClosedPortsAreSilent == Spec => ClosedIsSilent
<1>1. PortsInv /\ [Next]_vars =>
        [stack' # stack /\ Len(stack') >= Len(stack) /\ Last(stack').in # "flush"
           /\ closed[Last(stack').port]
         => /\ Top.in = "listener" /\ Last(stack').in = "listener"
            /\ Top.port = Last(stack').port /\ Top.msg = Last(stack').msg]_vars
  <2> SUFFICES ASSUME PortsInv, Next, stack' # stack, Len(stack') >= Len(stack),
                      Last(stack').in # "flush", closed[Last(stack').port]
               PROVE  /\ Top.in = "listener" /\ Last(stack').in = "listener"
                      /\ Top.port = Last(stack').port /\ Top.msg = Last(stack').msg
    BY DEF vars
  <2> PortTypes
    BY DEF PortsInv
  <2>1. ASSUME NEW f \in Frame, stack' = Append(stack, f) PROVE Last(stack') = f
    BY <2>1, PushFacts DEF PortTypes
  <2>2. ASSUME NEW p \in Port, FlushNext(p) PROVE FALSE
    <3>1. \E f \in Frame : stack' = Append(stack, f) /\ f.port = p
      <4> DEFINE m == Head(queue[p])
      <4>1. m \in 1 .. MaxPosts
        BY <2>2, FlushNextFacts
      <4>2. \/ stack' = Append(stack, Onmessage(p, m))
            \/ Calls(stack, p, m, listeners[p])
        BY <2>2, FlushNextFacts
      <4> HIDE DEF m
      <4>3. CASE stack' = Append(stack, Onmessage(p, m))
        <5>1. Onmessage(p, m) \in Frame /\ Onmessage(p, m).port = p
          BY <4>1, FrameFacts, EmptySeq DEF Onmessage
        <5> QED
          BY <4>3, <5>1
      <4>4. CASE Calls(stack, p, m, listeners[p])
        <5> DEFINE f == ListenerCall(p, m, Tail(listeners[p]))
        <5>1. f \in Frame /\ stack' = Append(stack, f)
          BY <4>1, <4>4, CallsTypes DEF PortTypes, Calls
        <5>2. f.port = p
          BY DEF ListenerCall
        <5> QED
          BY <5>1, <5>2
      <4> QED
        BY <4>2, <4>3, <4>4
    <3> QED
      BY <2>1, <2>2, <3>1, FlushNextFacts
  <2>3. ASSUME NEW p \in Port, FlushEnds(p) PROVE FALSE
    <3>1. Len(Front(stack)) = Len(stack) - 1 /\ Len(stack) \in Nat
      BY <2>3, FrontFacts DEF PortTypes, FlushEnds
    <3> QED
      BY <2>3, <3>1 DEF FlushEnds, Pop
  <2>4. ASSUME NEW p \in Port, PostMessage(p) \/ RunScheduledFlush(p) PROVE FALSE
    <3>1. PICK q \in Port : stack' = Append(stack, Flush(q))
      BY <2>4 DEF PortTypes, PostMessage, RunScheduledFlush, Push
    <3>2. Last(stack') = Flush(q)
      BY <2>1, <3>1, FrameFacts
    <3> QED
      BY <3>2 DEF Flush
  <2>5. CASE CallbackReturns
    <3>1. /\ Front(stack) \in Seq(Frame) /\ Len(Front(stack)) = Len(stack) - 1
          /\ Len(stack) \in Nat /\ Top \in Frame
      BY <2>5, ReturnFacts, FrontFacts DEF PortTypes
    <3>2. stack' # Front(stack)
      BY <3>1
    <3>3. PICK ls : /\ Calls(Front(stack), Top.port, Top.msg, ls)
                    /\ Top.in = "listener" \/ ~closed[Top.port]
      BY <2>5, <3>2, ReturnFacts
    <3> DEFINE f == ListenerCall(Top.port, Top.msg, Tail(ls))
    <3>4. f \in Frame /\ stack' = Append(Front(stack), f)
      BY <2>5, <3>1, <3>3, ReturnFacts, CallsTypes DEF PortTypes, Calls
    <3>5. Last(stack') = f
      BY <3>1, <3>4, PushFacts
    <3>6. f.in = "listener" /\ f.port = Top.port /\ f.msg = Top.msg
      BY DEF ListenerCall
    <3> QED
      BY <3>3, <3>5, <3>6
  <2>6. ASSUME UNCHANGED stack PROVE FALSE
    BY <2>6
  <2> QED
    BY <2>2, <2>3, <2>4, <2>5, <2>6
    DEF Next, EnsureChannelState, SetOnmessage, Start, AddEventListener,
        RemoveEventListener, Close, ResetTaskState
<1> QED
  BY PortsInvariant, <1>1, PTL DEF Spec, ClosedIsSilent
=============================================================================
