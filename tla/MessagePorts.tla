---------------------------- MODULE MessagePorts ----------------------------
(***************************************************************************)
(* MessageChannel and MessagePort (leap-env/src/impl/MessageChannel.impl.js *)
(* and MessagePort.impl.js).                                               *)
(*                                                                         *)
(* postMessage drains the queue of the other port before it returns, so    *)
(* the callbacks of the ports run inside each other.  The stack holds the  *)
(* calls under way: the loop of flushPortQueue and, above it, the callback *)
(* it runs, onmessage first and then each listener of a snapshot.  The     *)
(* script acts when the stack is empty or a callback is on top of it.  A   *)
(* callback that throws ends like one that returns.  Listeners are added   *)
(* without the capture flag (EventDispatch has both); a once listener is   *)
(* one that removes itself.  A message is the number of its postMessage.   *)
(* Bounds: MaxPosts messages, the functions in Listener.                   *)
(*                                                                         *)
(* Name_Fault is Name with a mistake a maintainer could make.              *)
(***************************************************************************)
EXTENDS Integers, Sequences, FiniteSets, SequencesExt

CONSTANTS
  Channel,             \* the channels the script makes
  Listener,            \* the functions added as listeners for 'message'
  MaxPosts,            \* bound: calls of postMessage that queue a message
  None                 \* null

Port == Channel \X {1, 2}
Peer(p) == <<p[1], 3 - p[2]>>

ASSUME ChannelAssumption == IsFiniteSet(Channel) /\ None \notin Port
ASSUME ListenerAssumption == "onmessage" \notin Listener
ASSUME PostsAssumption == MaxPosts \in Nat

VARIABLES
  made,                \* the channels whose ports exist
  closed, started, onmessage, entangled, scheduled, queue,  \* state of a port
  listeners,           \* _listeners of a port, in the order they were added
  openPorts,           \* channelState.openPorts; 0: not active
  stats,               \* runtimeStats
  flushes,             \* runScheduledFlush microtasks of a port to come
  stack,               \* the calls under way, the innermost last
  posts,               \* messages queued so far
  accepted, taken,     \* history: the messages of a port, sent and shifted
  given                \* history: its callbacks that started, with their messages

portVars == <<closed, started, onmessage, entangled>>
history == <<accepted, taken, given>>
vars == <<made, portVars, scheduled, queue, listeners, openPorts, stats, flushes,
          stack, posts, history>>

\* A callback's frame has its message and the listeners still to be called.
Frame == [in : {"flush"}, port : Port, msg : {0}, rest : {<<>>}]
         \cup [in : {"onmessage", "listener"}, port : Port,
               msg : 1 .. MaxPosts, rest : Seq(Listener)]
Flush(p) == [in |-> "flush", port |-> p, msg |-> 0, rest |-> <<>>]
Onmessage(p, m) == [in |-> "onmessage", port |-> p, msg |-> m, rest |-> <<>>]
ListenerCall(p, m, ls) == [in |-> "listener", port |-> p, msg |-> m, rest |-> ls]
Given == [to : Listener \cup {"onmessage"}, msg : 1 .. MaxPosts]

Top == Last(stack)
Push(f) == stack' = Append(stack, f)
Pop == stack' = Front(stack)

\* The script runs: no call under way, or one of its callbacks.
Script == stack # <<>> => Top.in # "flush"

Init ==
  /\ made = {} /\ stack = <<>> /\ posts = 0
  /\ closed = [p \in Port |-> FALSE] /\ started = [p \in Port |-> FALSE]
  /\ onmessage = [p \in Port |-> FALSE] /\ entangled = [p \in Port |-> None]
  /\ scheduled = [p \in Port |-> FALSE] /\ queue = [p \in Port |-> <<>>]
  /\ openPorts = [c \in Channel |-> 0] /\ flushes = [p \in Port |-> 0]
  /\ stats = [channels |-> 0, open |-> 0, shut |-> 0, queued |-> 0]
  /\ listeners = [p \in Port |-> <<>>]
  /\ accepted = [p \in Port |-> <<>>] /\ taken = [p \in Port |-> <<>>]
  /\ given = [p \in Port |-> <<>>]

-----------------------------------------------------------------------------
\* ensureChannelState, by the first read of port1 or port2.
EnsureChannelState(c) ==
  /\ Script /\ c \notin made
  /\ made' = made \cup {c}
  /\ started' = [p \in Port |-> started[p] \/ p[1] = c]
  /\ entangled' = [p \in Port |-> IF p[1] = c THEN Peer(p) ELSE entangled[p]]
  /\ openPorts' = [openPorts EXCEPT ![c] = 2]
  /\ stats' = [stats EXCEPT !.channels = @ + 1, !.open = @ + 2]
  /\ UNCHANGED <<closed, onmessage, scheduled, queue, listeners, flushes, stack,
                 posts, history>>

\* schedulePortFlush, for a port with messages that is started if up holds.
Schedule(p, up) ==
  IF closed[p] \/ scheduled[p] \/ ~up THEN UNCHANGED <<scheduled, flushes>>
  ELSE /\ scheduled' = [scheduled EXCEPT ![p] = TRUE]
       /\ flushes' = [flushes EXCEPT ![p] = @ + 1]

\* The setter of onmessage, with a function or null.  It starts a closed port too.
SetOnmessage(p) ==
  /\ Script /\ p[1] \in made
  /\ \E f \in BOOLEAN : onmessage' = [onmessage EXCEPT ![p] = f]
  /\ started' = [started EXCEPT ![p] = TRUE]
  /\ IF queue[p] = <<>> THEN UNCHANGED <<scheduled, flushes>> ELSE Schedule(p, TRUE)
  /\ UNCHANGED <<made, closed, entangled, queue, listeners, openPorts, stats,
                 stack, posts, history>>

Start(p) ==
  /\ Script /\ p[1] \in made /\ ~closed[p]
  /\ started' = [started EXCEPT ![p] = TRUE]
  /\ IF queue[p] = <<>> THEN UNCHANGED <<scheduled, flushes>> ELSE Schedule(p, TRUE)
  /\ UNCHANGED <<made, closed, onmessage, entangled, queue, listeners, openPorts,
                 stats, stack, posts, history>>

AddEventListener_Live(p, l) ==
  /\ Script /\ p[1] \in made /\ ~Contains(listeners[p], l)
  /\ listeners' = [listeners EXCEPT ![p] = Append(@, l)]
  /\ stack' = [i \in DOMAIN stack |->
       IF stack[i].in = "listener" /\ stack[i].port = p
       THEN [stack[i] EXCEPT !.rest = Append(@, l)] ELSE stack[i]]
  /\ UNCHANGED <<made, portVars, scheduled, queue, openPorts, stats, flushes,
                 posts, history>>

\* addEventListener and removeEventListener for 'message'; a closed port
\* takes listeners too, and keeps those it has.
AddEventListener(p, l) ==
  /\ Script /\ p[1] \in made /\ ~Contains(listeners[p], l)
  /\ listeners' = [listeners EXCEPT ![p] = Append(@, l)]
  /\ UNCHANGED <<made, portVars, scheduled, queue, openPorts, stats, flushes,
                 stack, posts, history>>

RemoveEventListener(p, i) ==
  /\ Script /\ i \in DOMAIN listeners[p]
  /\ listeners' = [listeners EXCEPT ![p] = RemoveAt(@, i)]
  /\ UNCHANGED <<made, portVars, scheduled, queue, openPorts, stats, flushes,
                 stack, posts, history>>

\* notePortClosed.  Its guards against negative counters never apply: that the
\* counters are natural numbers is part of TypeOK.
NotePortClosed(p) ==
  LET c == p[1]
      last == openPorts[c] = 1
  IN  /\ openPorts' = [openPorts EXCEPT ![c] = @ - 1]
      /\ stats' = [channels |-> stats.channels - (IF last THEN 1 ELSE 0),
                   open |-> stats.open - 1, shut |-> stats.shut + 1,
                   queued |-> stats.queued - Len(queue[p])]

Close_Again(p) ==
  /\ Script /\ p[1] \in made
  /\ closed' = [closed EXCEPT ![p] = TRUE]
  /\ started' = [started EXCEPT ![p] = FALSE]
  /\ onmessage' = [onmessage EXCEPT ![p] = FALSE]
  /\ scheduled' = [scheduled EXCEPT ![p] = FALSE]
  /\ NotePortClosed(p)
  /\ queue' = [queue EXCEPT ![p] = <<>>]
  /\ entangled' = [entangled EXCEPT ![p] = None]
  /\ UNCHANGED <<made, listeners, flushes, stack, posts, history>>

Close(p) ==
  /\ Script /\ p[1] \in made /\ ~closed[p]
  /\ closed' = [closed EXCEPT ![p] = TRUE]
  /\ started' = [started EXCEPT ![p] = FALSE]
  /\ onmessage' = [onmessage EXCEPT ![p] = FALSE]
  /\ scheduled' = [scheduled EXCEPT ![p] = FALSE]
  /\ NotePortClosed(p)
  /\ queue' = [queue EXCEPT ![p] = <<>>]
  /\ entangled' = [q \in Port |->
       IF q = p \/ (q = entangled[p] /\ entangled[q] = p) THEN None ELSE entangled[q]]
  /\ UNCHANGED <<made, listeners, flushes, stack, posts, history>>

PostMessage_NoDrain(p) ==
  LET q == entangled[p]
  IN  /\ Script /\ p[1] \in made /\ posts < MaxPosts
      /\ ~closed[p] /\ q # None /\ ~closed[q]
      /\ posts' = posts + 1
      /\ queue' = [queue EXCEPT ![q] = Append(@, posts + 1)]
      /\ accepted' = [accepted EXCEPT ![q] = Append(@, posts + 1)]
      /\ stats' = [stats EXCEPT !.queued = @ + 1]
      /\ Schedule(q, started[q])
      /\ UNCHANGED <<made, portVars, listeners, openPorts, stack, taken, given>>

\* postMessage queues, schedules a flush and, as the queue is not empty, runs
\* one now (flushPortQueue, which resets the flag schedulePortFlush has set).
PostMessage(p) ==
  LET q == entangled[p]
  IN  /\ Script /\ p[1] \in made /\ posts < MaxPosts
      /\ ~closed[p] /\ q # None /\ ~closed[q]
      /\ posts' = posts + 1
      /\ queue' = [queue EXCEPT ![q] = Append(@, posts + 1)]
      /\ accepted' = [accepted EXCEPT ![q] = Append(@, posts + 1)]
      /\ stats' = [stats EXCEPT !.queued = @ + 1]
      /\ IF started[q]
         THEN /\ scheduled' = [scheduled EXCEPT ![q] = FALSE]
              /\ flushes' = [flushes EXCEPT ![q] = @ + (IF scheduled[q] THEN 0 ELSE 1)]
              /\ Push(Flush(q))
         ELSE UNCHANGED <<scheduled, flushes, stack>>
      /\ UNCHANGED <<made, portVars, listeners, openPorts, taken, given>>

-----------------------------------------------------------------------------
Deliverable(p) == ~closed[p] /\ started[p] /\ queue[p] # <<>>

Give(p, to, m) == given' = [given EXCEPT ![p] = Append(@, [to |-> to, msg |-> m])]

\* The loop of dispatchEvent over the snapshot ls, above the calls below: its
\* first listener starts, or the dispatch ends.
CallListeners(below, p, m, ls) ==
  IF ls = <<>> THEN stack' = below /\ UNCHANGED given
  ELSE stack' = Append(below, ListenerCall(p, m, Tail(ls))) /\ Give(p, Head(ls), m)

\* One turn of the loop in flushPortQueue, up to the first callback of
\* dispatchPortMessage.  A message that finds no callback is lost.
FlushNext(p) ==
  /\ stack # <<>> /\ Top = Flush(p) /\ Deliverable(p)
  /\ LET m == Head(queue[p])
     IN  /\ queue' = [queue EXCEPT ![p] = Tail(@)]
         /\ taken' = [taken EXCEPT ![p] = Append(@, m)]
         /\ stats' = [stats EXCEPT !.queued = @ - 1]
         /\ IF onmessage[p] THEN Push(Onmessage(p, m)) /\ Give(p, "onmessage", m)
            ELSE CallListeners(stack, p, m, listeners[p])
  /\ UNCHANGED <<made, portVars, scheduled, listeners, openPorts, flushes, posts,
                 accepted>>

\* The loop ends; the flush it would schedule then needs a queue that is not empty.
FlushEnds(p) ==
  /\ stack # <<>> /\ Top = Flush(p) /\ ~Deliverable(p)
  /\ Pop
  /\ UNCHANGED <<made, portVars, scheduled, queue, listeners, openPorts, stats,
                 flushes, posts, history>>

CallbackReturns_IgnoresClose ==
  /\ stack # <<>> /\ Top.in # "flush"
  /\ \E stopped \in BOOLEAN :
       CallListeners(Front(stack), Top.port, Top.msg,
         CASE stopped -> <<>>
           [] ~stopped /\ Top.in = "onmessage" -> listeners[Top.port]
           [] OTHER -> Top.rest)
  /\ UNCHANGED <<made, portVars, scheduled, queue, listeners, openPorts, stats,
                 flushes, posts, accepted, taken>>

\* A callback returns or throws.  After onmessage comes the dispatch to the
\* listeners, unless the port was closed meanwhile; between two listeners
\* closed is not read again.  A callback may also have stopped the event.
CallbackReturns ==
  /\ stack # <<>> /\ Top.in # "flush"
  /\ \E stopped \in BOOLEAN :
       CallListeners(Front(stack), Top.port, Top.msg,
         CASE stopped -> <<>>
           [] ~stopped /\ Top.in = "onmessage" ->
                IF closed[Top.port] THEN <<>> ELSE listeners[Top.port]
           [] OTHER -> Top.rest)
  /\ UNCHANGED <<made, portVars, scheduled, queue, listeners, openPorts, stats,
                 flushes, posts, accepted, taken>>

\* The microtask of schedulePortFlush, after the script.
RunScheduledFlush(p) ==
  /\ stack = <<>> /\ flushes[p] > 0
  /\ flushes' = [flushes EXCEPT ![p] = @ - 1]
  /\ scheduled' = [scheduled EXCEPT ![p] = FALSE]
  /\ IF ~closed[p] /\ started[p] THEN Push(Flush(p)) ELSE UNCHANGED stack
  /\ UNCHANGED <<made, portVars, queue, listeners, openPorts, stats, posts, history>>

\* resetMessagePortTaskState, in the cleanup of a task: closes what is live.
ResetTaskState ==
  LET live == {p \in Port : p[1] \in made /\ ~closed[p]}
      Closed(f, v) == [p \in Port |-> IF p \in live THEN v ELSE f[p]]
  IN  /\ stack = <<>>
      /\ closed' = Closed(closed, TRUE)
      /\ started' = Closed(started, FALSE)
      /\ onmessage' = Closed(onmessage, FALSE)
      /\ scheduled' = Closed(scheduled, FALSE)
      /\ queue' = Closed(queue, <<>>)
      /\ entangled' = [p \in Port |-> None]
      /\ openPorts' = [c \in Channel |-> 0]
      /\ stats' = [channels |-> 0, open |-> 0, shut |-> 0, queued |-> 0]
      /\ UNCHANGED <<made, listeners, flushes, stack, posts, history>>

-----------------------------------------------------------------------------
Next ==
  \/ \E c \in Channel : EnsureChannelState(c)
  \/ \E p \in Port :
       \/ SetOnmessage(p) \/ Start(p) \/ Close(p) \/ PostMessage(p)
       \/ \E l \in Listener : AddEventListener(p, l)
       \/ \E i \in DOMAIN listeners[p] : RemoveEventListener(p, i)
       \/ FlushNext(p) \/ FlushEnds(p) \/ RunScheduledFlush(p)
  \/ CallbackReturns
  \/ ResetTaskState

Spec == Init /\ [][Next]_vars

-----------------------------------------------------------------------------
Live == {p \in Port : p[1] \in made /\ ~closed[p]}

\* The type invariant.
TypeOK ==
  /\ made \subseteq Channel
  /\ closed \in [Port -> BOOLEAN] /\ started \in [Port -> BOOLEAN]
  /\ onmessage \in [Port -> BOOLEAN] /\ scheduled \in [Port -> BOOLEAN]
  /\ entangled \in [Port -> Port \cup {None}]
  /\ queue \in [Port -> Seq(1 .. MaxPosts)]
  /\ openPorts \in [Channel -> 0 .. 2] /\ flushes \in [Port -> Nat]
  /\ stats \in [channels : Nat, open : Nat, shut : Nat, queued : Nat]
  /\ listeners \in [Port -> Seq(Listener)] /\ \A p \in Port : IsInjective(listeners[p])
  /\ stack \in Seq(Frame) /\ posts \in 0 .. MaxPosts
  /\ accepted \in [Port -> Seq(1 .. MaxPosts)] /\ taken \in [Port -> Seq(1 .. MaxPosts)]
  /\ given \in [Port -> Seq(Given)]

\* The places in the queues of the ports, each with a message.
Waiting == UNION {{p} \X (1 .. Len(queue[p])) : p \in Port}

\* The numbers of getRuntimeStats are those of the ports: what is open, the
\* channels that still have an open port, and what is queued; through every
\* close inside a drain and every reset, whatever order they come in.
CountsMatch ==
  /\ stats.open = Cardinality(Live)
  /\ stats.channels = Cardinality({p[1] : p \in Live})
  /\ stats.queued = Cardinality(Waiting)

\* Each message of an open port leaves its queue once, in the order they were
\* posted, also when a callback posts and the drain runs inside itself; and
\* nothing waits in a queue once the script has ended ("leftover queues across
\* tasks" is what the reset is for).  Who gets a message that left the queue,
\* if anyone, is the next formula's subject.
TakenInOrder ==
  \A p \in Live : /\ accepted[p] = taken[p] \o queue[p]
                  /\ stack = <<>> => queue[p] = <<>>

\* No callback gets a message twice, although listeners come and go inside
\* the dispatches and the dispatches are inside each other.  The messages
\* reach their first callback in the order they were posted; a later one gets
\* an earlier message after a later message only when another callback of
\* the port had the earlier one before: it posted the later one, or called
\* what did, and the nested drain overtook the rest of its dispatch.
GivenInOrder ==
  \A p \in Port :
    /\ IsInjective(given[p])
    /\ \A i, j \in DOMAIN given[p] :
         i < j /\ given[p][i].msg > given[p][j].msg =>
           \E k \in 1 .. i - 1 : given[p][k].msg = given[p][j].msg

\* What postMessage accepts is delivered: it leaves the queue, and reaches the
\* callbacks, as these two formulas say.
Delivered == TakenInOrder /\ GivenInOrder

\* Once a port is closed, by its callbacks or by the reset of the task, it
\* dispatches no message, although drains and microtasks of it are still
\* under way: its onmessage does not start, nor the first listener of a
\* dispatch.  Only a dispatch that has reached the listeners goes on, to the
\* next one of its snapshot, with the same message.
ClosedIsSilent ==
  [][stack' # stack /\ Len(stack') >= Len(stack) /\ Last(stack').in # "flush"
       /\ closed[Last(stack').port]
     => /\ Top.in = "listener" /\ Last(stack').in = "listener"
        /\ Top.port = Last(stack').port /\ Top.msg = Last(stack').msg]_vars
=============================================================================
