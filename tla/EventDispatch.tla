---------------------------- MODULE EventDispatch ----------------------------
(***************************************************************************)
(* Event listeners and dispatchEvent (leap-env/src/impl/                   *)
(* 00-dom-shared.impl.js, with the event state of Event.impl.js).          *)
(*                                                                         *)
(* The nodes are a chain: 1 .. Root, the parent of n is n + 1.  The path of *)
(* a dispatch is taken when it begins, so moves of nodes do not matter.    *)
(* A listener may add and remove listeners, stop events and dispatch, also *)
(* the event that it was called for.  The stack holds the dispatches under *)
(* way.  The events have one type.  A listener that throws ends like one   *)
(* that returns.  preventDefault, passive, initEvent inside a dispatch and *)
(* listeners on window (another function) are left out.                    *)
(*                                                                         *)
(* Bounds: MaxDepth dispatches inside each other, MaxListeners at a time.  *)
(* Name_Fault is Name with a mistake a maintainer could make.              *)
(***************************************************************************)
EXTENDS Integers, Sequences, SequencesExt, FiniteSetsExt

CONSTANTS
  Root,                \* the last node of the path
  Fn,                  \* the functions that listen
  Options,             \* how scripts add them: records fn, capture, once
  Target,              \* the nodes they dispatch to
  Event, Bubbles,      \* the events, and those with bubbles set
  MaxDepth, MaxListeners,
  Null                 \* null

PathNode == 1 .. Root
Entry == [fn : Fn, capture : BOOLEAN, once : BOOLEAN]

ASSUME RootAssumption == Root \in Nat \ {0}
ASSUME NullAssumption == Null \notin PathNode \cup Entry
ASSUME EventAssumption == Bubbles \subseteq Event
ASSUME ScriptAssumption == Options \subseteq Entry /\ Target \subseteq PathNode
ASSUME BoundAssumption == MaxDepth \in Nat /\ MaxListeners \in Nat

VARIABLES
  listeners,           \* the list of a node
  target, currentTarget, eventPhase, stop, stopNow,   \* of an event
  stoppedAt,           \* history: the node where the event was stopped
  stack                \* the dispatches under way, the innermost last

eventVars == <<target, currentTarget, eventPhase, stop, stopNow>>
dispatchVars == <<listeners, eventVars, stoppedAt, stack>>

(***************************************************************************)
(* A dispatch: the stage and the node it is at, the snapshot it goes over  *)
(* there, how far it is, and the listener that runs, if any.  History: owed, *)
(* the listeners of the visit still to be called and not removed since, and *)
(* again, was its event dispatched anew inside it?                         *)
(***************************************************************************)
Stage == {"begin", "capture", "target1", "target2", "bubble", "end"}
Frame == [event : Event, target : PathNode, stage : Stage, at : 1 .. Root + 1,
          entries : Seq(Entry), i : Nat \ {0}, running : Entry \cup {Null},
          owed : SUBSET (Fn \X BOOLEAN), again : BOOLEAN]
Key(l) == <<l.fn, l.capture>>

Top == Last(stack)
Script == stack # <<>> => Top.running # Null
SetTop(f) == stack' = Append(Front(stack), f)

EventInit ==
  /\ listeners = [n \in PathNode |-> <<>>] /\ stack = <<>>
  /\ target = [e \in Event |-> Null] /\ currentTarget = [e \in Event |-> Null]
  /\ eventPhase = [e \in Event |-> 0]
  /\ stop = [e \in Event |-> FALSE] /\ stopNow = [e \in Event |-> FALSE]
  /\ stoppedAt = [e \in Event |-> Null]

-----------------------------------------------------------------------------
(***************************************************************************)
(* What scripts call.                                                      *)
(***************************************************************************)

\* removeEventListener splices out what matches; a key is in a list once.
Without(list, k) ==
  IF \E i \in DOMAIN list : Key(list[i]) = k
  THEN RemoveAt(list, CHOOSE i \in DOMAIN list : Key(list[i]) = k)
  ELSE list

Drop(frames, n, k) ==
  [i \in DOMAIN frames |->
     IF frames[i].at = n THEN [frames[i] EXCEPT !.owed = @ \ {k}] ELSE frames[i]]

AddEventListener_NoDedupe(n, l) ==
  /\ Script /\ MapThenSumSet(LAMBDA m : Len(listeners[m]), PathNode) < MaxListeners
  /\ listeners' = [listeners EXCEPT ![n] = Append(@, l)]
  /\ UNCHANGED <<eventVars, stoppedAt, stack>>

AddEventListener(n, l) ==
  /\ Script /\ MapThenSumSet(LAMBDA m : Len(listeners[m]), PathNode) < MaxListeners
  /\ \A i \in DOMAIN listeners[n] : Key(listeners[n][i]) # Key(l)
  /\ listeners' = [listeners EXCEPT ![n] = Append(@, l)]
  /\ UNCHANGED <<eventVars, stoppedAt, stack>>

RemoveEventListener(n, k) ==
  /\ Script
  /\ listeners' = [listeners EXCEPT ![n] = Without(@, k)]
  /\ stack' = Drop(stack, n, k)
  /\ UNCHANGED <<eventVars, stoppedAt>>

OnStack(e) == {i \in DOMAIN stack : stack[i].event = e}

\* stopPropagation, and with now stopImmediatePropagation.
StopPropagation(e, now) ==
  /\ Script /\ OnStack(e) # {}
  /\ stop' = [stop EXCEPT ![e] = TRUE]
  /\ stopNow' = [stopNow EXCEPT ![e] = @ \/ now]
  /\ stoppedAt' = [stoppedAt EXCEPT ![e] =
       IF stop[e] THEN @ ELSE stack[Max(OnStack(e))].at]
  /\ UNCHANGED <<listeners, target, currentTarget, eventPhase, stack>>

\* dispatchEvent up to its first loop.  The event may be under way already; if
\* not, it may have been stopped before, or in a dispatch that has ended.
DispatchEvent(n, e) ==
  /\ Script /\ Len(stack) < MaxDepth
  /\ IF OnStack(e) # {} THEN UNCHANGED <<stop, stopNow>>
     ELSE \E s, now \in BOOLEAN :
            /\ now => s
            /\ stop' = [stop EXCEPT ![e] = s] /\ stopNow' = [stopNow EXCEPT ![e] = now]
  /\ target' = [target EXCEPT ![e] = n]
  /\ currentTarget' = [currentTarget EXCEPT ![e] = n]
  /\ eventPhase' = [eventPhase EXCEPT ![e] = 2]
  /\ stack' = Append(
       [i \in DOMAIN stack |-> [stack[i] EXCEPT !.again = @ \/ stack[i].event = e]],
       [event |-> e, target |-> n, stage |-> "begin", at |-> Root + 1,
        entries |-> <<>>, i |-> 1, running |-> Null,
        owed |-> {}, again |-> FALSE])
  /\ UNCHANGED <<listeners, stoppedAt>>

-----------------------------------------------------------------------------
(***************************************************************************)
(* The steps of a dispatch between the calls of listeners.                 *)
(***************************************************************************)

\* Where the loops of dispatchEvent go from f, if nothing stops them: the
\* capturing parents, the target twice, the bubbling parents.
After(f) ==
  CASE f.stage \in {"begin", "capture"} ->
         IF f.at - 1 > f.target THEN <<"capture", f.at - 1>> ELSE <<"target1", f.target>>
    [] f.stage = "target1" -> <<"target2", f.target>>
    [] OTHER ->
         IF f.event \in Bubbles /\ f.at < Root THEN <<"bubble", f.at + 1>> ELSE <<"end", f.at>>

\* stopPropagation ends each loop, but not the second half of the target.
MayEnter_BubbleAnyway(f, stage) ==
  CASE stage = "end" -> FALSE
    [] stage \in {"target2", "bubble"} -> ~stopNow[f.event]
    [] OTHER -> ~stop[f.event]

MayEnter(f, stage) ==
  CASE stage = "end" -> FALSE
    [] stage = "target2" -> ~stopNow[f.event]
    [] OTHER -> ~stop[f.event]

\* What invokeEventListenersAtNode calls of a list, in the order of the list.
Wanted(f, list) ==
  LET Some[j \in 0 .. Len(list)] ==
        IF j = 0 THEN <<>>
        ELSE IF list[j].capture <=> f.stage \in {"capture", "target1"}
             THEN Append(Some[j-1], list[j]) ELSE Some[j-1]
  IN  Some[Len(list)]

\* The list it goes over: a copy of typeMap.
Entries_Live(f) == IF f.at \in PathNode THEN Wanted(f, listeners[f.at]) ELSE <<>>

Entries(f) == f.entries

Pending(f) == f.i <= Len(Entries(f)) /\ ~stopNow[f.event]

Call ==
  /\ stack # <<>> /\ Top.running = Null /\ Pending(Top)
  /\ LET l == Entries(Top)[Top.i]
     IN  SetTop([Top EXCEPT !.running = l, !.owed = @ \ {Key(l)}])
  /\ UNCHANGED <<listeners, eventVars, stoppedAt>>

PhaseOf(stage) == CASE stage = "capture" -> 1 [] stage = "bubble" -> 3 [] OTHER -> 2

\* The stages that begin with currentTarget, eventPhase and setDispatchPhase.
NamesNode_NotBubbling(stage) == stage \in {"capture", "target1"}

NamesNode(stage) == stage # "target2"

\* The next node, or the target's other listeners.
Enter ==
  /\ stack # <<>> /\ Top.running = Null /\ ~Pending(Top)
  /\ LET f == Top
         to == After(f)
         here == [f EXCEPT !.stage = to[1], !.at = to[2]]
         copy == Wanted(here, listeners[to[2]])
     IN  /\ MayEnter(f, to[1])
         /\ SetTop([here EXCEPT !.entries = copy, !.i = 1,
              !.owed = {Key(l) : l \in ToSet(copy)}])
         /\ IF ~NamesNode(to[1]) THEN UNCHANGED <<target, currentTarget, eventPhase>>
            ELSE /\ target' = [target EXCEPT ![f.event] = f.target]
                 /\ currentTarget' = [currentTarget EXCEPT ![f.event] = to[2]]
                 /\ eventPhase' = [eventPhase EXCEPT ![f.event] = PhaseOf(to[1])]
  /\ UNCHANGED <<listeners, stop, stopNow, stoppedAt>>

\* The end of dispatchEvent.  What the event keeps is of interest only while
\* it is under way elsewhere.
EndDispatch ==
  /\ stack # <<>> /\ Top.running = Null /\ ~Pending(Top)
  /\ ~MayEnter(Top, After(Top)[1])
  /\ stack' = Front(stack)
  /\ currentTarget' = [currentTarget EXCEPT ![Top.event] = Null]
  /\ eventPhase' = [eventPhase EXCEPT ![Top.event] = 0]
  /\ LET e == Top.event
         last == OnStack(e) = {Len(stack)}
     IN  /\ target' = [target EXCEPT ![e] = IF last THEN Null ELSE @]
         /\ stop' = [stop EXCEPT ![e] = @ /\ ~last]
         /\ stopNow' = [stopNow EXCEPT ![e] = @ /\ ~last]
         /\ stoppedAt' = [stoppedAt EXCEPT ![e] = IF last THEN Null ELSE @]
  /\ UNCHANGED listeners

\* A listener returns or throws; a once listener is removed now.
ListenerReturns ==
  /\ stack # <<>> /\ Top.running # Null
  /\ LET f == Top
         l == f.running
         done == Append(Front(stack), [f EXCEPT !.i = @ + 1, !.running = Null])
     IN  IF l.once
         THEN /\ listeners' = [listeners EXCEPT ![f.at] = Without(@, Key(l))]
              /\ stack' = Drop(done, f.at, Key(l))
         ELSE /\ stack' = done
              /\ UNCHANGED listeners
  /\ UNCHANGED <<eventVars, stoppedAt>>

-----------------------------------------------------------------------------
EventNext ==
  \/ \E n \in PathNode, l \in Options : AddEventListener(n, l)
  \/ \E n \in PathNode : \E l \in ToSet(listeners[n]) : RemoveEventListener(n, Key(l))
  \/ \E e \in Event : \/ \E now \in BOOLEAN : StopPropagation(e, now)
                      \/ \E n \in Target : DispatchEvent(n, e)
  \/ Call \/ Enter \/ EndDispatch \/ ListenerReturns

EventSpec == EventInit /\ [][EventNext]_dispatchVars

-----------------------------------------------------------------------------
\* The type invariant; a list holds a function once for each capture flag.
EventTypeOK ==
  /\ listeners \in [PathNode -> Seq(Entry)]
  /\ \A n \in PathNode : \A i, j \in DOMAIN listeners[n] :
       Key(listeners[n][i]) = Key(listeners[n][j]) => i = j
  /\ target \in [Event -> PathNode \cup {Null}]
  /\ currentTarget \in [Event -> PathNode \cup {Null}]
  /\ eventPhase \in [Event -> 0 .. 3]
  /\ stop \in [Event -> BOOLEAN] /\ stopNow \in [Event -> BOOLEAN]
  /\ stoppedAt \in [Event -> PathNode \cup {Null}]
  /\ stack \in Seq(Frame)

\* While a listener runs, the event it was given names its node, its target
\* and its phase, whatever other dispatches run inside it; unless it is the
\* same event that is dispatched again.
ListenerSeesItsNode ==
  \A i \in DOMAIN stack :
    LET f == stack[i]
    IN  f.running # Null /\ ~f.again =>
          /\ target[f.event] = f.target /\ currentTarget[f.event] = f.at
          /\ eventPhase[f.event] = PhaseOf(f.stage)

\* A visit that nothing cuts short calls every listener that was there when it
\* began and was not removed since, although listeners remove themselves and
\* each other under the loop.
NoneSkipped ==
  \A i \in DOMAIN stack :
    LET f == stack[i]
    IN  f.running = Null /\ ~Pending(f) /\ ~stopNow[f.event] => f.owed = {}

\* No listener starts after stopImmediatePropagation; after stopPropagation
\* only those of the node where it was called do.  An event stopped before
\* its dispatch reaches no listener at all.
StopIsObeyed ==
  [][ /\ Len(stack') = Len(stack) /\ stack # <<>>
      /\ Top.running = Null /\ Last(stack').running # Null
      => /\ ~stopNow[Top.event]
         /\ stop[Top.event] /\ ~Top.again => stoppedAt[Top.event] = Top.at ]_dispatchVars
=============================================================================
