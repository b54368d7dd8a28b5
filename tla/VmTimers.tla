------------------------------ MODULE VmTimers ------------------------------
(***************************************************************************)
(* The timers of a VmInstance (leap-vm/src/leapvm/vm_instance.cc):         *)
(* setTimeout, setInterval, clearTimeout, and RunLoopOnce, which runs what *)
(* is due.  The server never calls RunLoopOnce; the tests of leapvm do.    *)
(*                                                                         *)
(* Everything happens on the VM thread.  A callback runs in the middle of  *)
(* the loop and may add and clear timers; its microtasks belong to it, and *)
(* one that throws ends like one that returns.  A callback whose function  *)
(* was released cannot be called (V8 does not check): crashed.             *)
(*                                                                         *)
(* Entries of the heap are shared pointers: those of a timer have one due  *)
(* time.  When the due time of a timer in the heap changes, the heap is out *)
(* of order, and any entry may be on top of it.                            *)
(*                                                                         *)
(* The nesting level of timeouts (a delay of at least 4 ms) and the bounds *)
(* of a delay are left out.  Bounds: MaxTimers, MaxTime.  Name_Fault is    *)
(* Name with a mistake a maintainer could make.                            *)
(***************************************************************************)
EXTENDS Integers, FiniteSets

CONSTANTS
  Threshold,           \* stale entries that make a compaction worthwhile: 8
  Delay,               \* the delays of timeouts and the periods of intervals
  Code,                \* the timers made with a string of code
  MaxTimers, MaxTime,
  None                 \* no timer, no period

Timer == 1 .. MaxTimers      \* timer ids

ASSUME ThresholdAssumption == Threshold \in Nat
ASSUME DelayAssumption == Delay \subseteq Nat /\ None \notin Nat
ASSUME TimerBoundAssumption == MaxTimers \in Nat /\ MaxTime \in Nat

VARIABLES
  nextTimerId,         \* next_timer_id_: the timers 1 .. nextTimerId were made
  due, period,         \* of a timer; the period of a timeout is None
  canceled,            \* the cleared timers
  byId,                \* timers_by_id_; the others' handles were released
  heap,                \* timer_queue_: how often each timer is in it
  ordered,             \* is the heap in order?
  stale,               \* stale_timer_queue_count_
  now,
  looping, running,    \* is RunLoopOnce under way?  The timer that it runs
  crashed,
  requeued             \* history: timers put back while they were running

timerVars == <<nextTimerId, due, period>>
loopVars == <<timerVars, canceled, byId, heap, ordered, stale, now, looping, running,
              crashed, requeued>>

TimersInit ==
  /\ nextTimerId = 0 /\ now = 0 /\ stale = 0
  /\ due = [t \in Timer |-> 0] /\ period = [t \in Timer |-> None]
  /\ canceled = {} /\ byId = {} /\ requeued = {}
  /\ heap = [t \in Timer |-> 0] /\ ordered = TRUE
  /\ looping = FALSE /\ running = None /\ crashed = FALSE

\* A script runs: outside the loop, or the callback of a timer.
ScriptRuns == ~crashed /\ (looping => running # None)

-----------------------------------------------------------------------------
\* AddTimeoutFunction, AddTimerString: a timeout, or an interval.
AddTimer(delay, isInterval) ==
  LET t == nextTimerId + 1
  IN  /\ ScriptRuns /\ t \in Timer
      /\ nextTimerId' = t
      /\ due' = [due EXCEPT ![t] = now + delay]
      /\ period' = [period EXCEPT ![t] = IF isInterval THEN delay ELSE None]
      /\ heap' = [heap EXCEPT ![t] = 1] /\ byId' = byId \cup {t}
      /\ UNCHANGED <<canceled, ordered, stale, now, looping, running, crashed, requeued>>

\* MaybeCompactTimerQueue, when s entries are stale and L are the live timers.
MustCompact(s, L) == L = {} \/ (s >= Threshold /\ s >= Cardinality(L))

Compacted_DropsLast(L) == [t \in Timer |-> IF t \in L /\ t # nextTimerId THEN 1 ELSE 0]

\* CompactTimerQueue: the heap is made anew of the live timers.
Compacted(L) == [t \in Timer |-> IF t \in L THEN 1 ELSE 0]

ClearTimer_NoFlag(t) ==
  LET live == byId \ {t}
      compact == MustCompact(stale + 1, live)
  IN  /\ ScriptRuns /\ t \in byId
      /\ byId' = live
      /\ heap' = IF compact THEN Compacted(live) ELSE heap
      /\ ordered' = (ordered \/ compact)
      /\ stale' = IF compact THEN 0 ELSE stale + 1
      /\ requeued' = requeued \cup (IF compact THEN live \cap {running} ELSE {})
      /\ UNCHANGED <<canceled, timerVars, now, looping, running, crashed>>

ClearTimer(t) ==
  LET live == byId \ {t}
      compact == MustCompact(stale + 1, live)
  IN  /\ ScriptRuns /\ t \in byId
      /\ canceled' = canceled \cup {t} /\ byId' = live
      /\ heap' = IF compact THEN Compacted(live) ELSE heap
      /\ ordered' = (ordered \/ compact)
      /\ stale' = IF compact THEN 0 ELSE stale + 1
      /\ requeued' = requeued \cup (IF compact THEN live \cap {running} ELSE {})
      /\ UNCHANGED <<timerVars, now, looping, running, crashed>>

-----------------------------------------------------------------------------
(***************************************************************************)
(* RunLoopOnce.                                                            *)
(***************************************************************************)

\* TimerTaskCompare: by due time, then by id.
Before(t, u) == due[t] < due[u] \/ (due[t] = due[u] /\ t <= u)

Top(t) ==
  /\ heap[t] > 0
  /\ ordered => \A u \in Timer : heap[u] > 0 => Before(t, u)

AtTop == looping /\ ~crashed /\ running = None

BeginLoop ==
  /\ ~looping /\ ~crashed
  /\ looping' = TRUE
  /\ UNCHANGED <<timerVars, canceled, byId, heap, ordered, stale, now, running,
                 crashed, requeued>>

\* The queue is empty, or the time is up.
EndLoop ==
  /\ AtTop
  /\ looping' = FALSE
  /\ UNCHANGED <<timerVars, canceled, byId, heap, ordered, stale, now, running,
                 crashed, requeued>>

DropCanceled_Underflow(t) ==
  /\ AtTop /\ Top(t) /\ t \in canceled
  /\ heap' = [heap EXCEPT ![t] = @ - 1]
  /\ stale' = stale - 1
  /\ UNCHANGED <<timerVars, canceled, byId, ordered, now, looping, running,
                 crashed, requeued>>

DropCanceled(t) ==
  /\ AtTop /\ Top(t) /\ t \in canceled
  /\ heap' = [heap EXCEPT ![t] = @ - 1]
  /\ stale' = IF stale > 0 THEN stale - 1 ELSE 0
  /\ UNCHANGED <<timerVars, canceled, byId, ordered, now, looping, running,
                 crashed, requeued>>

\* A timer whose handles were released has no function, but still its code.
RunTimer(t) ==
  /\ AtTop /\ Top(t) /\ t \notin canceled /\ due[t] <= now
  /\ heap' = [heap EXCEPT ![t] = @ - 1]
  /\ crashed' = (t \notin byId \cup Code)
  /\ running' = t
  /\ UNCHANGED <<timerVars, canceled, byId, ordered, stale, now, looping, requeued>>

\* When the interval is due next.
NextDue(t) == IF due[t] + period[t] > now THEN due[t] + period[t] ELSE now + period[t]

\* The callback is over: an interval is queued again, a timeout is forgotten.
CallbackReturns ==
  /\ running # None /\ ~crashed
  /\ running' = None
  /\ LET t == running
     IN  IF period[t] # None /\ t \notin canceled
         THEN /\ due' = [due EXCEPT ![t] = NextDue(t)]
              /\ ordered' = (ordered /\ heap[t] = 0)
              /\ heap' = [heap EXCEPT ![t] = @ + 1]
              /\ UNCHANGED byId
         ELSE /\ byId' = byId \ {t}
              /\ UNCHANGED <<due, ordered, heap>>
  /\ UNCHANGED <<nextTimerId, period, canceled, stale, now, looping, crashed, requeued>>

\* Time passes, also while the loop sleeps and while a callback runs.
Tick ==
  /\ now < MaxTime /\ ~crashed
  /\ now' = now + 1
  /\ UNCHANGED <<timerVars, canceled, byId, heap, ordered, stale, looping, running,
                 crashed, requeued>>

\* V8 ends the process.
Crashed == crashed /\ UNCHANGED loopVars

-----------------------------------------------------------------------------
TimersNext ==
  \/ \E delay \in Delay, isInterval \in BOOLEAN : AddTimer(delay, isInterval)
  \/ \E t \in Timer : ClearTimer(t) \/ DropCanceled(t) \/ RunTimer(t)
  \/ BeginLoop \/ EndLoop \/ CallbackReturns
  \/ Tick \/ Crashed

TimersSpec == TimersInit /\ [][TimersNext]_loopVars

-----------------------------------------------------------------------------
\* The type invariant.
TimersTypeOK ==
  /\ nextTimerId \in 0 .. MaxTimers
  /\ due \in [Timer -> Nat] /\ period \in [Timer -> Nat \cup {None}]
  /\ canceled \subseteq 1 .. nextTimerId /\ byId \subseteq 1 .. nextTimerId
  /\ canceled \cap byId = {} /\ requeued \subseteq Timer
  /\ heap \in [Timer -> Nat] /\ ordered \in BOOLEAN
  /\ stale \in Nat /\ now \in Nat
  /\ looping \in BOOLEAN /\ running \in Timer \cup {None} /\ crashed \in BOOLEAN

\* The heap has an entry for every live timer but the one that runs, and no
\* more than one: no compaction inside a callback loses a timer.  Entries of
\* a timer that is over are those of a cleared one.  A compaction inside a
\* callback puts the running timer back: that timer, and no other, may then
\* be in the heap twice or after its end.
EntriesMatch ==
  /\ \A t \in byId \ {running} : heap[t] > 0
  /\ \A t \in Timer \ requeued :
       /\ heap[t] <= 1 /\ (t = running => heap[t] = 0)
       /\ heap[t] > 0 => t \in byId \cup canceled

\* No cleared timer is run, none before it is due, and none before a live
\* timer that is due earlier or, at the same time, was made earlier; unless a
\* running timer was put back.  A timer is called after its end only then.
StartsInOrder ==
  [][running = None /\ running' # None =>
       LET t == running'
       IN  /\ t \notin canceled /\ due[t] <= now
           /\ requeued = {} => \A u \in byId : Before(t, u)
           /\ t \notin requeued => t \in byId]_loopVars

=============================================================================
