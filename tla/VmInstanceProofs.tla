-------------------------- MODULE VmInstanceProofs --------------------------
(***************************************************************************)
(* Proofs about what happens on the thread of a VmInstance: the signature  *)
(* tasks (SignatureTask) and the timers (VmTimers).                        *)
(***************************************************************************)
EXTENDS SignatureTask, VmTimers, TLAPS

(***************************************************************************)
(* SignatureTask, for any set of ids and any number of requests: nothing   *)
(* of a request reaches a later one, but for what it does in microtasks    *)
(* after its cleanup, and that needs the combined path.                    *)
(***************************************************************************)
(* Nothing is left in the environment, and it is at no task. *)
Clean ==
  /\ \A a \in Area : area[a] \subseteq late
  /\ \A d \in docs : d[1] = DefaultId /\ d[2] \in late
  /\ runtimeTask = NoId /\ domTask = DefaultId /\ phase = "idle"

(* The environment is at the request, and holds what the request put there. *)
Own ==
  /\ \A a \in Area : area[a] \subseteq {count} \cup late
  /\ \A d \in docs : d[1] = id /\ d[2] \in {count} \cup late
  /\ runtimeTask = id /\ domTask = id /\ phase = "task"

(* The stages before the setup and after a cleanup, and those between them. *)
Outside == stage \in {"idle", "setup", "fallback"} \/ Cleaned
Inside  == Script \/ (stage = "drain" /\ then \in {"target", "again", "cleanup"})

(* A cleanup finds the environment of the request or, if its setup did not *)
(* parse, a clean one.                                                     *)
Environment ==
  /\ Outside => Clean
  /\ Inside => Own
  /\ stage = "cleanup" => Own \/ Clean
  /\ stage = "drain" => then \in {"target", "again", "cleanup", "idle", "fallback"}
  /\ stage # "idle" => count \in Request

(* No microtask is left where the split path cleans up. *)
NothingQueued ==
  \/ stage \in {"idle", "setup", "fallback"}
  \/ path = "split" /\ (stage = "cleanup" \/ Cleaned)
  => microtasks = FALSE

TaskInv == TypeOK /\ Environment /\ NothingQueued
-----------------------------------------------------------------------------
LEMMA TaskInitially == Init => TaskInv
<1> SUFFICES ASSUME Init PROVE TaskInv
  OBVIOUS
<1>1. TypeOK
  <2>1. 0 \in 0 .. MaxRequests
    BY BoundAssumption
  <2>2. area \in [Area -> SUBSET Request] /\ docs \subseteq Id \X Request
    BY DEF Init
  <2> QED BY IdAssumption, <2>1, <2>2 DEF Init, TypeOK, Stage
<1>2. Environment
  BY DEF Init, Environment, Outside, Inside, Script, Cleaned, Clean
<1>3. NothingQueued
  BY DEF Init, NothingQueued
<1> QED BY <1>1, <1>2, <1>3 DEF TaskInv

(* What a reset leaves, whatever it finds. *)
LEMMA ResetCleans ==
  ASSUME TypeOK, Own \/ Clean, ResetAll, UNCHANGED late
  PROVE  /\ Clean'
         /\ area' \in [Area -> SUBSET Request] /\ docs' \subseteq Id \X Request
         /\ runtimeTask' \in Id \cup {NoId} /\ domTask' \in Id
         /\ phase' \in {"idle", "task"}
  BY IdAssumption DEF TypeOK, Own, Clean, ResetAll

LEMMA TaskStep == TaskInv /\ [Next]_vars => TaskInv'
<1> SUFFICES ASSUME TaskInv, [Next]_vars PROVE TaskInv'
  OBVIOUS
<1> USE IdAssumption, BoundAssumption DEF request, env, Request
<1>1. ASSUME NEW i \in Id, NEW p \in {"split", "combined"}, ExecuteTask(i, p)
      PROVE  TaskInv'
  <2>1. TypeOK'
    <3>1. count' \in 0 .. MaxRequests
      BY <1>1 DEF TaskInv, TypeOK, ExecuteTask
    <3> QED BY <1>1, <3>1 DEF TaskInv, TypeOK, ExecuteTask, Stage
  <2>2. Clean'
    BY <1>1 DEF TaskInv, Environment, Outside, ExecuteTask, Clean
  <2>3. Environment' /\ NothingQueued'
    BY <1>1, <2>2 DEF TaskInv, TypeOK, Environment, NothingQueued, ExecuteTask,
       Outside, Inside, Script, Cleaned
  <2> QED BY <2>1, <2>3 DEF TaskInv
<1>2. CASE Setup
  <2> DEFINE A(fp, location, st, mode) == Applied(fp, location, st, mode)
  <2>1. PICK fp \in BOOLEAN, location \in BOOLEAN, st \in BOOLEAN, doc \in BOOLEAN,
             mode \in {"replace", "merge"} :
          /\ area' = Applied(fp, location, st, mode)
          /\ docs' = {d \in docs : d[1] = id}
                       \cup (IF fp \/ doc THEN {<<id, count>>} ELSE {})
    BY <1>2 DEF Setup
  <2>2. Clean /\ count \in Request /\ microtasks = FALSE
    BY <1>2 DEF TaskInv, Environment, NothingQueued, Outside, Setup
  <2>3. TypeOK'
    <3>1. area' \in [Area -> SUBSET Request]
      BY <2>1, <2>2 DEF TaskInv, TypeOK, Applied
    <3>2. docs' \subseteq Id \X Request
      BY <2>1, <2>2 DEF TaskInv, TypeOK
    <3> QED BY <1>2, <3>1, <3>2 DEF TaskInv, TypeOK, Setup, Stage
  <2>4. Own'
    <3>1. \A a \in Area : area'[a] \subseteq {count} \cup late
      BY <2>1, <2>2 DEF Clean, Applied
    <3>2. \A d \in docs' : d[1] = id /\ d[2] \in {count} \cup late
      BY <2>1, <2>2 DEF Clean
    <3> QED BY <1>2, <3>1, <3>2 DEF Own, Setup
  <2> QED
    BY <1>2, <2>2, <2>3, <2>4 DEF TaskInv, Environment, NothingQueued, Setup,
       Outside, Inside, Script, Cleaned
<1>3. CASE SetupDoesNotParse
  BY <1>3 DEF TaskInv, TypeOK, Environment, NothingQueued, SetupDoesNotParse,
     Outside, Inside, Script, Cleaned, Clean, Own, Stage
<1>4. CASE Act
  <2>1. stage # "idle" /\ count \in Request /\ (Inside \/ Cleaned)
    BY <1>4 DEF Act, TaskInv, Environment, Script, Inside, Cleaned
  <2>2. TypeOK'
    <3>1. area' \in [Area -> SUBSET Request] /\ docs' \subseteq Id \X Request
      BY <1>4, <2>1 DEF Act, TaskInv, TypeOK, Writable
    <3> QED BY <1>4, <2>1, <3>1 DEF Act, TaskInv, TypeOK
  <2>3. CASE Inside
    <3>1. Own /\ ~Cleaned
      BY <2>3 DEF TaskInv, Environment, Inside, Script, Cleaned
    <3>2. Own'
      BY <1>4, <3>1 DEF Act, TaskInv, TypeOK, Own, Writable
    <3> QED
      BY <1>4, <2>1, <2>2, <2>3, <3>1, <3>2 DEF Act, TaskInv, TypeOK, Environment,
         NothingQueued, Outside, Inside, Script, Cleaned
  <2>4. CASE Cleaned
    <3>1. Clean
      BY <2>4 DEF TaskInv, Environment, Outside
    <3>2. Clean'
      BY <1>4, <2>4, <3>1 DEF Act, TaskInv, TypeOK, Clean, Writable
    <3> QED
      BY <1>4, <2>1, <2>2, <2>4, <3>1, <3>2 DEF Act, TaskInv, TypeOK, Environment,
         NothingQueued, Outside, Inside, Script, Cleaned
  <2> QED BY <2>1, <2>3, <2>4
<1>5. CASE QueueMicrotask
  BY <1>5 DEF TaskInv, TypeOK, Environment, NothingQueued, QueueMicrotask,
     Outside, Inside, Script, Cleaned, Clean, Own
<1>6. CASE BeforeEnds
  BY <1>6 DEF TaskInv, TypeOK, Environment, NothingQueued, BeforeEnds,
     Outside, Inside, Script, Cleaned, Clean, Own, Stage
<1>7. CASE TargetEnds
  BY <1>7 DEF TaskInv, TypeOK, Environment, NothingQueued, TargetEnds,
     Outside, Inside, Script, Cleaned, Clean, Own, Stage
<1>8. CASE DrainEnds
  BY <1>8 DEF TaskInv, TypeOK, Environment, NothingQueued, DrainEnds,
     Outside, Inside, Script, Cleaned, Clean, Own
<1>9. CASE Cleanup
  <2>1. Clean' /\ TypeOK'
    BY <1>9, ResetCleans DEF Cleanup, TaskInv, Environment, TypeOK, Stage
  <2> QED
    BY <1>9, <2>1 DEF Cleanup, TaskInv, TypeOK, Environment, NothingQueued,
       Outside, Inside, Script, Cleaned
<1>10. CASE FallbackCleanup
  <2>1. Clean' /\ TypeOK'
    BY <1>10, ResetCleans DEF FallbackCleanup, TaskInv, Environment, Outside, TypeOK, Stage
  <2> QED
    BY <1>10, <2>1 DEF FallbackCleanup, TaskInv, TypeOK, Environment, NothingQueued,
       Outside, Inside, Script, Cleaned
<1>11. CASE UNCHANGED vars
  BY <1>11 DEF vars, TaskInv, TypeOK, Environment, NothingQueued,
     Outside, Inside, Script, Cleaned, Clean, Own
<1> QED
  BY <1>1, <1>2, <1>3, <1>4, <1>5, <1>6, <1>7, <1>8, <1>9, <1>10, <1>11 DEF Next

LEMMA TaskInvariant == Spec => []TaskInv
  BY TaskInitially, TaskStep, PTL DEF Spec
-----------------------------------------------------------------------------
(* The variables keep their types, for any number of requests. *)
THEOREM TaskTypeCorrect == Spec => []TypeOK
<1>1. TaskInv => TypeOK
  BY DEF TaskInv
<1> QED BY TaskInvariant, <1>1, PTL

(* A script meets nothing of an earlier request (resetSignatureTaskState,   *)
(* beginTaskScope), whichever scripts failed before.                       *)
THEOREM NoForeignTraces == Spec => []OnlyOwnTraces
<1>1. TaskInv => OnlyOwnTraces
  BY DEF TaskInv, Environment, Inside, Own, OnlyOwnTraces
<1> QED BY TaskInvariant, <1>1, PTL

(* Between two requests the environment is empty. *)
THEOREM EmptyBetweenTasks == Spec => []CleanBetweenTasks
<1>1. TaskInv => CleanBetweenTasks
  BY DEF TaskInv, Environment, Outside, Clean, CleanBetweenTasks
<1> QED BY TaskInvariant, <1>1, PTL

(* Only the combined path lets a request act after its cleanup. *)
THEOREM LateNeedsCombined == Spec => SplitEndsInTime
<1>1. TaskInv /\ [Next]_vars => [late' # late => path = "combined"]_vars
  <2> SUFFICES ASSUME TaskInv, Next, late' # late PROVE path = "combined"
    BY DEF vars
  <2>1. Act /\ Cleaned
    BY DEF Next, ExecuteTask, Setup, SetupDoesNotParse, Act, QueueMicrotask,
       BeforeEnds, TargetEnds, DrainEnds, Cleanup, FallbackCleanup
  <2>2. microtasks
    BY <2>1 DEF Act, Cleaned, Script
  <2> QED BY <2>1, <2>2 DEF TaskInv, NothingQueued, TypeOK, Cleaned
<1> QED BY TaskInvariant, <1>1, PTL DEF Spec, SplitEndsInTime

-----------------------------------------------------------------------------
(***************************************************************************)
(* VmTimers, for any threshold, delays, number of timers and time: no      *)
(* timer is lost, none is run after it was cleared, and only a timer that  *)
(* a compaction put back while it was running can have two entries or be   *)
(* called after its end.                                                   *)
(***************************************************************************)
(* A timer runs only in the loop, and is live or cleared since; the count  *)
(* of entries of a timer that does not exist yet is 0.  The heap is in     *)
(* order as long as no timer was put back.                                 *)
Running ==
  /\ running # None => looping /\ running \in 1 .. nextTimerId
  /\ running # None /\ running \notin requeued => running \in byId \cup canceled
  /\ crashed => running # None
  /\ \A t \in Timer : t > nextTimerId => heap[t] = 0
  /\ requeued \subseteq 1 .. nextTimerId
  /\ requeued = {} => ordered

TimersInv == TimersTypeOK /\ Running /\ EntriesMatch
-----------------------------------------------------------------------------
(* Ids are numbers, and live timers exist. *)
LEMMA Ids ==
  ASSUME TimersTypeOK
  PROVE  /\ Timer \subseteq Nat /\ None \notin Timer
         /\ byId \subseteq Timer /\ canceled \subseteq Timer
BY DelayAssumption, TimerBoundAssumption DEF TimersTypeOK, Timer

LEMMA TimersInitially == TimersInit => TimersInv
<1> SUFFICES ASSUME TimersInit PROVE TimersInv
  OBVIOUS
<1>1. TimersTypeOK
  <2>1. 0 \in 0 .. MaxTimers
    BY TimerBoundAssumption
  <2>2. /\ due \in [Timer -> Nat] /\ period \in [Timer -> Nat \cup {None}]
        /\ heap \in [Timer -> Nat]
    BY DEF TimersInit
  <2> QED BY <2>1, <2>2 DEF TimersInit, TimersTypeOK
<1>2. Running
  BY DEF TimersInit, Running, Timer
<1>3. EntriesMatch
  BY DEF TimersInit, EntriesMatch
<1> QED BY <1>1, <1>2, <1>3 DEF TimersInv

(* A script makes a timer. *)
LEMMA AddTimerInv ==
  ASSUME TimersInv, NEW delay \in Delay, NEW isInterval \in BOOLEAN, AddTimer(delay, isInterval)
  PROVE  TimersInv'
<1> DEFINE n == nextTimerId + 1
<1>1. /\ n \in Timer /\ n \in Nat /\ nextTimerId' = n /\ delay \in Nat
      /\ now + delay \in Nat
  BY DelayAssumption, TimerBoundAssumption DEF AddTimer, Timer, TimersInv, TimersTypeOK
<1>2. TimersTypeOK'
  <2>1. due' \in [Timer -> Nat] /\ heap' \in [Timer -> Nat]
    BY <1>1 DEF AddTimer, TimersInv, TimersTypeOK
  <2>2. period' \in [Timer -> Nat \cup {None}]
    BY <1>1 DEF AddTimer, TimersInv, TimersTypeOK
  <2>3. canceled' \subseteq 1 .. n /\ byId' \subseteq 1 .. n /\ canceled' \cap byId' = {}
    BY <1>1 DEF AddTimer, TimersInv, TimersTypeOK
  <2>4. nextTimerId' \in 0 .. MaxTimers
    BY <1>1, TimerBoundAssumption DEF Timer
  <2> QED BY <1>1, <2>1, <2>2, <2>3, <2>4 DEF AddTimer, TimersInv, TimersTypeOK, timerVars
<1>3. Running'
  BY <1>1 DEF AddTimer, TimersInv, TimersTypeOK, Running, Timer
<1>4. EntriesMatch'
  <2>1. heap' = [heap EXCEPT ![n] = 1] /\ byId' = byId \cup {n}
        /\ UNCHANGED <<canceled, running, requeued>>
    BY DEF AddTimer
  <2>2. heap'[n] = 1 /\ \A u \in Timer \ {n} : heap'[u] = heap[u]
    BY <1>1, <2>1 DEF TimersInv, TimersTypeOK
  <2>3. n # running
    BY <1>1, Ids DEF TimersInv, TimersTypeOK, Running
  <2>4. \A u \in byId' \ {running'} : heap'[u] > 0
    BY <2>1, <2>2, Ids DEF TimersInv, EntriesMatch
  <2>5. ASSUME NEW u \in Timer \ requeued'
        PROVE  /\ heap'[u] <= 1 /\ (u = running' => heap'[u] = 0)
               /\ heap'[u] > 0 => u \in byId' \cup canceled'
    BY <2>1, <2>2, <2>3, <2>5 DEF TimersInv, EntriesMatch
  <2> QED BY <2>4, <2>5 DEF EntriesMatch
<1> QED BY <1>2, <1>3, <1>4 DEF TimersInv

(* A script clears a timer, and the heap may be compacted. *)
LEMMA ClearTimerInv ==
  ASSUME TimersInv, NEW t \in Timer, ClearTimer(t)
  PROVE  TimersInv'
<1> DEFINE live == byId \ {t}
           compact == MustCompact(stale + 1, live)
<1>1. /\ t \in byId /\ canceled' = canceled \cup {t} /\ byId' = live
      /\ running' = running /\ looping' = looping /\ crashed' = crashed
      /\ nextTimerId' = nextTimerId /\ ~crashed
  BY DEF ClearTimer, timerVars, ScriptRuns
<1>2. requeued' = requeued \cup (IF compact THEN live \cap {running} ELSE {})
  BY DEF ClearTimer
<1>3. heap' = IF compact THEN [u \in Timer |-> IF u \in live THEN 1 ELSE 0] ELSE heap
  BY DEF ClearTimer, Compacted
<1> HIDE DEF compact
<1>4. TimersTypeOK'
  <2>1. heap' \in [Timer -> Nat]
    BY <1>3 DEF TimersInv, TimersTypeOK
  <2>2. stale' \in Nat /\ ordered' \in BOOLEAN
    BY DEF ClearTimer, TimersInv, TimersTypeOK
  <2>3. canceled' \subseteq 1 .. nextTimerId /\ canceled' \cap byId' = {}
        /\ requeued' \subseteq Timer
    BY <1>1, <1>2, Ids DEF TimersInv, TimersTypeOK
  <2> QED BY <1>1, <2>1, <2>2, <2>3 DEF ClearTimer, TimersInv, TimersTypeOK, timerVars
<1>5. Running'
  <2>1. \A u \in Timer : u > nextTimerId => heap'[u] = 0
    BY <1>3 DEF TimersInv, TimersTypeOK, Running
  <2>2. requeued' \subseteq 1 .. nextTimerId
    BY <1>2 DEF TimersInv, TimersTypeOK, Running
  <2>3. requeued' = {} => ordered'
    BY <1>2 DEF ClearTimer, TimersInv, Running
  <2> QED BY <1>1, <1>2, <2>1, <2>2, <2>3 DEF TimersInv, Running
<1>6. EntriesMatch'
  <2>1. CASE compact
    <3>1. \A u \in Timer : heap'[u] = IF u \in live THEN 1 ELSE 0
      BY <1>3, <2>1
    <3>2. requeued' = requeued \cup (live \cap {running})
      BY <1>2, <2>1
    <3>3. \A u \in byId' \ {running'} : heap'[u] > 0
      BY <1>1, <3>1, Ids DEF TimersInv
    <3>4. ASSUME NEW u \in Timer \ requeued'
          PROVE  /\ heap'[u] <= 1 /\ (u = running' => heap'[u] = 0)
                 /\ heap'[u] > 0 => u \in byId' \cup canceled'
      BY <1>1, <3>1, <3>2, <3>4
    <3> QED BY <3>3, <3>4 DEF EntriesMatch
  <2>2. CASE ~compact
    BY <1>1, <1>2, <1>3, <2>2 DEF TimersInv, TimersTypeOK, EntriesMatch
  <2> QED BY <2>1, <2>2
<1> QED BY <1>4, <1>5, <1>6 DEF TimersInv

(* The loop takes an entry off the heap: of a cleared timer, or to run it. *)
LEMMA PopInv ==
  ASSUME TimersInv, NEW t \in Timer, DropCanceled(t) \/ RunTimer(t)
  PROVE  TimersInv'
<1>1. /\ heap[t] \in Nat /\ heap[t] > 0 /\ heap' = [heap EXCEPT ![t] = heap[t] - 1]
      /\ running = None /\ looping /\ ~crashed
      /\ UNCHANGED <<nextTimerId, due, period, canceled, byId, looping, requeued>>
  BY DEF DropCanceled, RunTimer, Top, AtTop, TimersInv, TimersTypeOK, timerVars
<1>2. heap' \in [Timer -> Nat] /\ heap'[t] = heap[t] - 1
      /\ \A u \in Timer \ {t} : heap'[u] = heap[u]
  BY <1>1 DEF TimersInv, TimersTypeOK
<1>3. CASE DropCanceled(t)
  <2>1. t \in canceled /\ running' = None /\ crashed' = crashed
    BY <1>1, <1>3 DEF DropCanceled
  <2>2. TimersTypeOK'
    <3>1. stale' \in Nat
      BY <1>3 DEF DropCanceled, TimersInv, TimersTypeOK
    <3> QED BY <1>1, <1>2, <1>3, <3>1 DEF DropCanceled, TimersInv, TimersTypeOK, timerVars
  <2>3. Running'
    BY <1>1, <1>2, <1>3, <2>1 DEF DropCanceled, TimersInv, Running, TimersTypeOK
  <2>4. EntriesMatch'
    BY <1>1, <1>2, <2>1 DEF TimersInv, EntriesMatch, TimersTypeOK
  <2> QED BY <2>2, <2>3, <2>4 DEF TimersInv
<1>4. CASE RunTimer(t)
  <2>1. t \notin canceled /\ running' = t
    BY <1>4 DEF RunTimer
  <2>2. TimersTypeOK'
    <3>1. crashed' \in BOOLEAN
      BY <1>4 DEF RunTimer
    <3> QED BY <1>1, <1>2, <1>4, <2>1, <3>1 DEF RunTimer, TimersInv, TimersTypeOK, timerVars
  <2>3. t # None
    BY DelayAssumption DEF Timer
  <2>4. Running'
    <3>1. t \in 1 .. nextTimerId
      BY <1>1 DEF TimersInv, Running, TimersTypeOK, Timer
    <3>2. t \notin requeued => t \in byId \cup canceled
      BY <1>1 DEF TimersInv, EntriesMatch
    <3>3. \A u \in Timer : u > nextTimerId => heap'[u] = 0
      BY <1>2, <3>1 DEF TimersInv, Running, TimersTypeOK
    <3>4. ordered' = ordered
      BY <1>4 DEF RunTimer
    <3> QED BY <1>1, <2>1, <2>3, <3>1, <3>2, <3>3, <3>4 DEF TimersInv, Running
  <2>5. EntriesMatch'
    <3>1. \A u \in byId' \ {running'} : heap'[u] > 0
      BY <1>1, <1>2, <2>1, Ids DEF TimersInv, EntriesMatch
    <3>2. ASSUME NEW u \in Timer \ requeued'
          PROVE  /\ heap'[u] <= 1 /\ (u = running' => heap'[u] = 0)
                 /\ heap'[u] > 0 => u \in byId' \cup canceled'
      <4>1. u \notin requeued /\ heap[u] \in Nat
        BY <1>1, <3>2 DEF TimersInv, TimersTypeOK
      <4>2. CASE u = t
        BY <1>1, <1>2, <2>1, <4>1, <4>2 DEF TimersInv, EntriesMatch
      <4>3. CASE u # t
        BY <1>1, <1>2, <2>1, <4>1, <4>3 DEF TimersInv, EntriesMatch
      <4> QED BY <4>2, <4>3
    <3> QED BY <3>1, <3>2 DEF EntriesMatch
  <2> QED BY <2>2, <2>4, <2>5 DEF TimersInv
<1> QED BY <1>3, <1>4

(* A callback ends. *)
LEMMA CallbackReturnsInv ==
  ASSUME TimersInv, CallbackReturns
  PROVE  TimersInv'
<1> DEFINE t == running
<1>1. /\ t \in Timer /\ t \in 1 .. nextTimerId /\ running' = None /\ ~crashed
      /\ UNCHANGED <<nextTimerId, period, canceled, stale, now, looping, crashed, requeued>>
  BY DEF CallbackReturns, TimersInv, TimersTypeOK, Running
<1>2. CASE period[t] # None /\ t \notin canceled
  <2>1. /\ due' = [due EXCEPT ![t] = NextDue(t)] /\ byId' = byId
        /\ heap' = [heap EXCEPT ![t] = heap[t] + 1]
        /\ ordered' = (ordered /\ heap[t] = 0)
    BY <1>2 DEF CallbackReturns
  <2>2. NextDue(t) \in Nat /\ heap[t] \in Nat
    BY <1>1, <1>2 DEF NextDue, TimersInv, TimersTypeOK
  <2>3. heap' \in [Timer -> Nat] /\ heap'[t] = heap[t] + 1
        /\ \A u \in Timer \ {t} : heap'[u] = heap[u]
    BY <1>1, <2>1, <2>2 DEF TimersInv, TimersTypeOK
  <2>4. TimersTypeOK'
    BY <1>1, <2>1, <2>2, <2>3 DEF TimersInv, TimersTypeOK
  <2>5. Running'
    <3>1. requeued = {} => ordered'
      BY <1>1, <2>1 DEF TimersInv, Running, EntriesMatch
    <3> QED BY <1>1, <2>1, <2>3, <3>1 DEF TimersInv, Running, TimersTypeOK
  <2>6. EntriesMatch'
    <3>1. \A u \in byId' \ {running'} : heap'[u] > 0
      BY <1>1, <2>1, <2>2, <2>3, Ids DEF TimersInv, EntriesMatch
    <3>2. ASSUME NEW u \in Timer \ requeued'
          PROVE  /\ heap'[u] <= 1 /\ (u = running' => heap'[u] = 0)
                 /\ heap'[u] > 0 => u \in byId' \cup canceled'
      <4>1. u \notin requeued /\ u # None
        BY <1>1, <3>2, Ids DEF TimersInv
      <4>2. CASE u = t
        <5>1. t \in byId /\ heap[t] = 0
          BY <1>1, <1>2, <4>1, <4>2 DEF TimersInv, Running, EntriesMatch
        <5> QED BY <1>1, <2>1, <2>3, <4>1, <4>2, <5>1
      <4>3. CASE u # t
        BY <1>1, <2>1, <2>3, <4>1, <4>3 DEF TimersInv, EntriesMatch
      <4> QED BY <4>2, <4>3
    <3> QED BY <3>1, <3>2 DEF EntriesMatch
  <2> QED BY <2>4, <2>5, <2>6 DEF TimersInv
<1>3. CASE period[t] = None \/ t \in canceled
  <2>1. byId' = byId \ {t} /\ UNCHANGED <<due, ordered, heap>>
    BY <1>3 DEF CallbackReturns
  <2>2. TimersTypeOK'
    BY <1>1, <2>1 DEF TimersInv, TimersTypeOK
  <2>3. Running'
    BY <1>1, <2>1 DEF TimersInv, Running, TimersTypeOK
  <2>4. EntriesMatch'
    <3>1. \A u \in byId' \ {running'} : heap'[u] > 0
      BY <1>1, <2>1 DEF TimersInv, EntriesMatch
    <3>2. ASSUME NEW u \in Timer \ requeued'
          PROVE  /\ heap'[u] <= 1 /\ (u = running' => heap'[u] = 0)
                 /\ heap'[u] > 0 => u \in byId' \cup canceled'
      <4>1. u \notin requeued /\ u # None
        BY <1>1, <3>2, Ids DEF TimersInv
      <4> QED BY <1>1, <2>1, <4>1 DEF TimersInv, EntriesMatch
    <3> QED BY <3>1, <3>2 DEF EntriesMatch
  <2> QED BY <2>2, <2>3, <2>4 DEF TimersInv
<1> QED BY <1>2, <1>3

LEMMA TimersStep == TimersInv /\ [TimersNext]_loopVars => TimersInv'
<1> SUFFICES ASSUME TimersInv, [TimersNext]_loopVars PROVE TimersInv'
  OBVIOUS
<1>1. CASE \E delay \in Delay, isInterval \in BOOLEAN : AddTimer(delay, isInterval)
  BY <1>1, AddTimerInv
<1>2. CASE \E t \in Timer : ClearTimer(t)
  BY <1>2, ClearTimerInv
<1>3. CASE \E t \in Timer : DropCanceled(t) \/ RunTimer(t)
  BY <1>3, PopInv
<1>4. CASE CallbackReturns
  BY <1>4, CallbackReturnsInv
<1>5. CASE BeginLoop \/ EndLoop
  <2>1. /\ UNCHANGED <<timerVars, canceled, byId, heap, ordered, stale, now,
                       running, crashed, requeued>>
        /\ looping' \in BOOLEAN /\ (running # None => looping')
    BY <1>5 DEF BeginLoop, EndLoop, AtTop, TimersInv, Running
  <2> QED BY <2>1 DEF timerVars, TimersInv, TimersTypeOK, Running, EntriesMatch
<1>6. CASE Tick
  BY <1>6 DEF Tick, timerVars, TimersInv, TimersTypeOK, Running, EntriesMatch
<1>7. CASE UNCHANGED loopVars
  BY <1>7 DEF loopVars, timerVars, TimersInv, TimersTypeOK, Running, EntriesMatch
<1> QED
  BY <1>1, <1>2, <1>3, <1>4, <1>5, <1>6, <1>7 DEF TimersNext, Crashed

LEMMA TimersInvariant == TimersSpec => []TimersInv
  BY TimersInitially, TimersStep, PTL DEF TimersSpec
-----------------------------------------------------------------------------
(* The variables keep their types, for any number of timers. *)
THEOREM TimersTypeCorrect == TimersSpec => []TimersTypeOK
<1>1. TimersInv => TimersTypeOK
  BY DEF TimersInv
<1> QED BY TimersInvariant, <1>1, PTL

(* No live timer is lost, and no other entry than those of live and of     *)
(* cleared timers is in the heap, but for timers that a compaction put     *)
(* back (ClearTimer, CompactTimerQueue, RunLoopOnce).                      *)
THEOREM NoTimerLost == TimersSpec => []EntriesMatch
<1>1. TimersInv => EntriesMatch
  BY DEF TimersInv
<1> QED BY TimersInvariant, <1>1, PTL

(* Timers start in the order of TimerTaskCompare, no cleared one starts,   *)
(* and one that is over only if a compaction put it back (RunLoopOnce).    *)
THEOREM TimersStartInOrder == TimersSpec => StartsInOrder
<1> DEFINE Start(t) ==
      /\ t \notin canceled /\ due[t] <= now
      /\ requeued = {} => \A u \in byId : Before(t, u)
      /\ t \notin requeued => t \in byId
<1>1. ASSUME TimersInv, NEW t \in Timer, RunTimer(t) PROVE Start(t)
  <2>1. running = None /\ t \notin canceled /\ due[t] <= now /\ Top(t)
    BY <1>1 DEF RunTimer, AtTop
  <2>2. \A u \in byId : u \in Timer /\ heap[u] > 0
    BY <1>1, <2>1, Ids DEF TimersInv, EntriesMatch
  <2>3. requeued = {} => \A u \in byId : Before(t, u)
    BY <1>1, <2>1, <2>2 DEF Top, TimersInv, Running
  <2>4. t \notin requeued => t \in byId
    BY <1>1, <2>1 DEF Top, TimersInv, EntriesMatch
  <2> QED BY <2>1, <2>3, <2>4
<1>2. TimersInv /\ [TimersNext]_loopVars =>
        [running = None /\ running' # None => Start(running')]_loopVars
  <2> SUFFICES ASSUME TimersInv, TimersNext, running = None, running' # None
               PROVE  Start(running')
    BY DEF loopVars
  <2>1. PICK t \in Timer : RunTimer(t)
    BY DEF TimersNext, AddTimer, ClearTimer, DropCanceled, BeginLoop, EndLoop,
       CallbackReturns, Tick, Crashed, loopVars
  <2>2. running' = t
    BY <2>1 DEF RunTimer
  <2> QED BY <2>1, <2>2, <1>1
<1> QED BY TimersInvariant, <1>2, PTL DEF TimersSpec, StartsInOrder
=============================================================================
