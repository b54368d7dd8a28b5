----------------------------- MODULE WorkerPool -----------------------------
(***************************************************************************)
(* The thread pool of leapvm_server: leap-vm/src/service/worker_pool.cc.   *)
(*                                                                         *)
(* One main thread (main.cc) starts the pool, submits the tasks that the   *)
(* IPC server receives, reads statistics and stops the pool.  Every worker *)
(* thread owns a VmInstance and a queue protected by task_mu.  A region    *)
(* that holds task_mu is one action; every store to an atomic that another *)
(* thread reads is an action of its own.                                   *)
(*                                                                         *)
(* Task n stands for the n-th call of SubmitTask.  The script it runs is   *)
(* abstract: it succeeds or fails.                                         *)
(*                                                                         *)
(* Name_Fault, as in PopTask_FrontOnly, is Name with a mistake a           *)
(* maintainer could make; Spec does not use it.                            *)
(***************************************************************************)
EXTENDS Integers, Sequences, FiniteSets

CONSTANTS
    NumWorkers,     \* config_.num_workers
    MaxTasks,       \* config_.max_tasks_per_worker; 0 or less: no recycling
    NumTasks,       \* bound: how often SubmitTask is called
    BadStart,       \* workers whose first InitWorkerVm fails
    RecycleMayFail  \* can InitWorkerVm fail when a worker is recycled?

Worker == 0 .. NumWorkers - 1
Task == 1 .. NumTasks

ASSUME NumWorkersAssumption == NumWorkers \in Nat \ {0}
ASSUME MaxTasksAssumption == MaxTasks \in Int
ASSUME NumTasksAssumption == NumTasks \in Nat
ASSUME BadStartAssumption == BadStart \subseteq Worker
ASSUME RecycleAssumption == RecycleMayFail \in BOOLEAN

VARIABLES
    running,     \* running_
    mpc,         \* where the main thread is
    cur,         \* the slot the main thread is at, in a loop over workers_
    nextWorker,  \* next_worker_
    report,      \* the PoolStats that GetStats is filling in
    completed,   \* total_completed_
    failed,      \* total_failed_
    pending,     \* slot.pending
    shouldStop,  \* slot.should_stop
    wstate,      \* slot.state
    handled,     \* slot.tasks_handled
    vm,          \* slot.vm: absent, initialised, or left by a failed init
    wpc,         \* where each worker thread is
    hand,        \* the task a worker has popped, until its callback returns
    routed,      \* history: the tasks pushed to each slot, in order
    answered,    \* history: the tasks each worker called back, in order
    rejected     \* history: the tasks called back by SubmitTask itself

mainVars == <<running, mpc, cur, nextWorker, report>>
slotVars == <<wstate, handled, vm, wpc, hand>>
totals == <<completed, failed>>
history == <<routed, answered, rejected>>
vars == <<mainVars, totals, pending, shouldStop, slotVars, history>>

MainPc == {"off", "starting", "serving", "notify", "statsFailed", "statsState",
           "statsPending", "statsDone", "signal", "wake", "join", "stopped"}
StatsPc == {"statsFailed", "statsState", "statsPending", "statsDone"}
StopPc == {"signal", "wake", "join"}
WorkerPc == {"unborn", "init", "loop", "wait", "asleep", "popped", "exec",
             "answer", "after", "reinit", "cleanup", "exited"}
WorkerState == {"idle", "busy", "recycling", "stopped"}

NoReport == [idle |-> 0, busy |-> 0, recycling |-> 0,
             completed |-> 0, failed |-> 0, pending |-> 0]

TasksOf(s) == {s[i] : i \in DOMAIN s}
AllTasks(f) == UNION {TasksOf(f[w]) : w \in Worker}
Routed == AllTasks(routed)
Owed == AllTasks(hand) \cup AllTasks(pending)
Answered == rejected \cup AllTasks(answered)
Submitted == Routed \cup rejected

Init ==
    /\ running = FALSE
    /\ mpc = "off"
    /\ cur = 0
    /\ nextWorker = 0
    /\ report = NoReport
    /\ completed = 0
    /\ failed = 0
    /\ pending = [w \in Worker |-> <<>>]
    /\ shouldStop = [w \in Worker |-> FALSE]
    /\ wstate = [w \in Worker |-> "stopped"]
    /\ handled = [w \in Worker |-> 0]
    /\ vm = [w \in Worker |-> "none"]
    /\ wpc = [w \in Worker |-> "unborn"]
    /\ hand = [w \in Worker |-> <<>>]
    /\ routed = [w \in Worker |-> <<>>]
    /\ answered = [w \in Worker |-> <<>>]
    /\ rejected = {}

-----------------------------------------------------------------------------
(* The main thread. *)

(* Start: publish running_, create every slot and its thread. *)
StartPool ==
    /\ mpc = "off"
    /\ running' = TRUE
    /\ mpc' = "starting"
    /\ cur' = 0
    /\ wpc' = [w \in Worker |-> "init"]
    /\ UNCHANGED <<nextWorker, report, totals, pending, shouldStop,
                   wstate, handled, vm, hand, history>>

(* Start polls slot->state until the worker is no longer kStopped. *)
AwaitWorker ==
    /\ mpc = "starting"
    /\ wstate[cur] # "stopped"
    /\ IF cur = NumWorkers - 1
          THEN mpc' = "serving" /\ cur' = 0
          ELSE mpc' = mpc /\ cur' = cur + 1
    /\ UNCHANGED <<running, nextWorker, report, totals, pending, shouldStop,
                   slotVars, history>>

NextCall(t) == t \notin Submitted /\ \A u \in Task : u < t => u \in Submitted

(* SubmitTask on a pool that is not running: the callback is called by the *)
(* submitting thread itself.                                               *)
SubmitRejected(t) ==
    /\ mpc \in {"off", "stopped"}
    /\ ~running
    /\ NextCall(t)
    /\ rejected' = rejected \cup {t}
    /\ UNCHANGED <<mainVars, totals, pending, shouldStop, slotVars,
                   routed, answered>>

(* SubmitTask on a running pool: pick the next slot, whatever its state,   *)
(* and push under its lock.                                                *)
SubmitPush(t) ==
    LET w == nextWorker % NumWorkers IN
    /\ mpc = "serving"
    /\ running
    /\ NextCall(t)
    /\ nextWorker' = nextWorker + 1
    /\ pending' = [pending EXCEPT ![w] = Append(@, t)]
    /\ routed' = [routed EXCEPT ![w] = Append(@, t)]
    /\ mpc' = "notify"
    /\ cur' = w
    /\ UNCHANGED <<running, report, totals, shouldStop, slotVars,
                   answered, rejected>>

NotifyOne_Lost(w) == wpc' = wpc

(* task_cv.notify_one() wakes the worker if it sleeps on the condition     *)
(* variable; a notification nobody waits for is lost.                      *)
NotifyOne(w) ==
    wpc' = [wpc EXCEPT ![w] = IF @ = "asleep" THEN "wait" ELSE @]

SubmitNotify ==
    /\ mpc = "notify"
    /\ NotifyOne(cur)
    /\ mpc' = "serving"
    /\ cur' = 0
    /\ UNCHANGED <<running, nextWorker, report, totals, pending, shouldStop,
                   wstate, handled, vm, hand, history>>

(* GetStats: the two totals first, then slot by slot its state and, under  *)
(* its lock, the length of its queue.                                      *)
StatsCompleted ==
    /\ mpc = "serving"
    /\ mpc' = "statsFailed"
    /\ cur' = 0
    /\ report' = [NoReport EXCEPT !.completed = completed]
    /\ UNCHANGED <<running, nextWorker, totals, pending, shouldStop,
                   slotVars, history>>

StatsFailed ==
    /\ mpc = "statsFailed"
    /\ mpc' = "statsState"
    /\ report' = [report EXCEPT !.failed = failed]
    /\ UNCHANGED <<running, cur, nextWorker, totals, pending, shouldStop,
                   slotVars, history>>

One(b) == IF b THEN 1 ELSE 0

StatsState ==
    /\ mpc = "statsState"
    /\ mpc' = "statsPending"
    /\ report' = [report EXCEPT
                     !.idle = @ + One(wstate[cur] = "idle"),
                     !.busy = @ + One(wstate[cur] = "busy"),
                     !.recycling = @ + One(wstate[cur] = "recycling")]
    /\ UNCHANGED <<running, cur, nextWorker, totals, pending, shouldStop,
                   slotVars, history>>

ReadPending_ThenTotals(w) ==
    report' = [report EXCEPT !.pending = @ + Len(pending[w]),
                             !.completed = completed, !.failed = failed]

ReadPending(w) == report' = [report EXCEPT !.pending = @ + Len(pending[w])]

StatsPending ==
    /\ mpc = "statsPending"
    /\ ReadPending(cur)
    /\ IF cur = NumWorkers - 1
          THEN mpc' = "statsDone" /\ cur' = 0
          ELSE mpc' = "statsState" /\ cur' = cur + 1
    /\ UNCHANGED <<running, nextWorker, totals, pending, shouldStop,
                   slotVars, history>>

(* GetStats returns; the caller sends the report and forgets it. *)
StatsReturn ==
    /\ mpc = "statsDone"
    /\ mpc' = "serving"
    /\ report' = NoReport
    /\ UNCHANGED <<running, cur, nextWorker, totals, pending, shouldStop,
                   slotVars, history>>

(* Stop: running_ is cleared before any worker is told to stop. *)
StopPool ==
    /\ mpc = "serving"
    /\ running
    /\ running' = FALSE
    /\ mpc' = "signal"
    /\ cur' = 0
    /\ UNCHANGED <<nextWorker, report, totals, pending, shouldStop, slotVars,
                   history>>

RaiseStop(w) == shouldStop' = [shouldStop EXCEPT ![w] = TRUE]

SignalStop ==
    /\ mpc = "signal"
    /\ RaiseStop(cur)
    /\ mpc' = "wake"
    /\ UNCHANGED <<running, cur, nextWorker, report, totals, pending,
                   slotVars, history>>

WakeWorker ==
    /\ mpc = "wake"
    /\ NotifyOne(cur)
    /\ IF cur = NumWorkers - 1
          THEN mpc' = "join" /\ cur' = 0
          ELSE mpc' = "signal" /\ cur' = cur + 1
    /\ UNCHANGED <<running, nextWorker, report, totals, pending, shouldStop,
                   wstate, handled, vm, hand, history>>

Joinable(w) == wpc[w] = "exited"

(* Join the threads in order; after the last one workers_.clear() destroys *)
(* the slots, with whatever their queues still hold.                       *)
JoinWorker ==
    /\ mpc = "join"
    /\ Joinable(cur)
    /\ IF cur = NumWorkers - 1
          THEN /\ mpc' = "stopped"
               /\ cur' = 0
               /\ pending' = [w \in Worker |-> <<>>]
          ELSE /\ mpc' = mpc
               /\ cur' = cur + 1
               /\ pending' = pending
    /\ UNCHANGED <<running, nextWorker, report, totals, shouldStop, slotVars,
                   history>>

Main ==
    \/ StartPool
    \/ AwaitWorker
    \/ \E t \in Task : SubmitRejected(t) \/ SubmitPush(t)
    \/ SubmitNotify
    \/ StatsCompleted \/ StatsFailed \/ StatsState \/ StatsPending
    \/ StatsReturn
    \/ StopPool \/ SignalStop \/ WakeWorker \/ JoinWorker

-----------------------------------------------------------------------------
(* The worker threads. *)

(* The first InitWorkerVm; the thread of a worker that fails it returns,   *)
(* and the broken vm stays in the slot.                                    *)
InitVm(w) ==
    /\ wpc[w] = "init"
    /\ IF w \in BadStart
          THEN /\ vm' = [vm EXCEPT ![w] = "broken"]
               /\ wstate' = [wstate EXCEPT ![w] = "stopped"]
               /\ wpc' = [wpc EXCEPT ![w] = "exited"]
          ELSE /\ vm' = [vm EXCEPT ![w] = "ready"]
               /\ wstate' = [wstate EXCEPT ![w] = "idle"]
               /\ wpc' = [wpc EXCEPT ![w] = "loop"]
    /\ UNCHANGED <<mainVars, totals, pending, shouldStop, handled, hand,
                   history>>

(* while (running_) *)
LoopTest(w) ==
    /\ wpc[w] = "loop"
    /\ wpc' = [wpc EXCEPT ![w] = IF running THEN "wait" ELSE "cleanup"]
    /\ UNCHANGED <<mainVars, totals, pending, shouldStop, wstate, handled,
                   vm, hand, history>>

PopTask_FrontOnly(w) ==
    hand' = [hand EXCEPT ![w] = <<Head(pending[w])>>] /\ pending' = pending

PopTask(w) ==
    /\ hand' = [hand EXCEPT ![w] = <<Head(pending[w])>>]
    /\ pending' = [pending EXCEPT ![w] = Tail(@)]

(* Under task_mu: sleep until there is something to do, leave the loop, or *)
(* pop the oldest task.                                                    *)
WaitForTask(w) ==
    /\ wpc[w] = "wait"
    /\ IF pending[w] = <<>>
          THEN /\ wpc' = [wpc EXCEPT ![w] = IF shouldStop[w] THEN "cleanup"
                                                             ELSE "asleep"]
               /\ UNCHANGED <<pending, hand>>
          ELSE /\ wpc' = [wpc EXCEPT ![w] = "popped"]
               /\ PopTask(w)
    /\ UNCHANGED <<mainVars, totals, shouldStop, wstate, handled, vm, history>>

(* A condition variable may wake up without a notification. *)
SpuriousWake(w) ==
    /\ wpc[w] = "asleep"
    /\ wpc' = [wpc EXCEPT ![w] = "wait"]
    /\ UNCHANGED <<mainVars, totals, pending, shouldStop, wstate, handled, vm,
                   hand, history>>

MarkBusy(w) ==
    /\ wpc[w] = "popped"
    /\ wstate' = [wstate EXCEPT ![w] = "busy"]
    /\ wpc' = [wpc EXCEPT ![w] = "exec"]
    /\ UNCHANGED <<mainVars, totals, pending, shouldStop, handled, vm, hand,
                   history>>

CountOutcome ==
    \/ completed' = completed + 1 /\ failed' = failed
    \/ failed' = failed + 1 /\ completed' = completed

(* ExecuteTask returns with success or failure, and the total of that      *)
(* outcome is incremented.                                                 *)
FinishTask(w) ==
    /\ wpc[w] = "exec"
    /\ CountOutcome
    /\ wpc' = [wpc EXCEPT ![w] = "answer"]
    /\ UNCHANGED <<mainVars, pending, shouldStop, wstate, handled, vm, hand,
                   history>>

(* task_pair.second(result) *)
CallBack(w) ==
    /\ wpc[w] = "answer"
    /\ answered' = [answered EXCEPT ![w] = @ \o hand[w]]
    /\ hand' = [hand EXCEPT ![w] = <<>>]
    /\ wpc' = [wpc EXCEPT ![w] = "after"]
    /\ UNCHANGED <<mainVars, totals, pending, shouldStop, wstate, handled, vm,
                   routed, rejected>>

(* Is the worker due for recycling after n tasks?                          *)
MustRecycle_OffByOne(n) == MaxTasks > 0 /\ n > MaxTasks

MustRecycle(n) == MaxTasks > 0 /\ n >= MaxTasks

(* tasks_handled++, then either back to kIdle or RecycleWorker up to the   *)
(* destruction of the old VM.                                              *)
AfterTask(w) ==
    /\ wpc[w] = "after"
    /\ IF MustRecycle(handled[w] + 1)
          THEN /\ handled' = [handled EXCEPT ![w] = 0]
               /\ wstate' = [wstate EXCEPT ![w] = "recycling"]
               /\ vm' = [vm EXCEPT ![w] = "none"]
               /\ wpc' = [wpc EXCEPT ![w] = "reinit"]
          ELSE /\ handled' = [handled EXCEPT ![w] = @ + 1]
               /\ wstate' = [wstate EXCEPT ![w] = "idle"]
               /\ vm' = vm
               /\ wpc' = [wpc EXCEPT ![w] = "loop"]
    /\ UNCHANGED <<mainVars, totals, pending, shouldStop, hand, history>>

(* The second half of RecycleWorker: a failure is logged and the worker    *)
(* goes back to kIdle with the vm that failed to initialise.               *)
ReinitVm(w) ==
    /\ wpc[w] = "reinit"
    /\ \/ vm' = [vm EXCEPT ![w] = "ready"]
       \/ RecycleMayFail /\ vm' = [vm EXCEPT ![w] = "broken"]
    /\ wstate' = [wstate EXCEPT ![w] = "idle"]
    /\ wpc' = [wpc EXCEPT ![w] = "loop"]
    /\ UNCHANGED <<mainVars, totals, pending, shouldStop, handled, hand,
                   history>>

CleanupWorker(w) ==
    /\ wpc[w] = "cleanup"
    /\ vm' = [vm EXCEPT ![w] = "none"]
    /\ wstate' = [wstate EXCEPT ![w] = "stopped"]
    /\ wpc' = [wpc EXCEPT ![w] = "exited"]
    /\ UNCHANGED <<mainVars, totals, pending, shouldStop, handled, hand,
                   history>>

WorkerStep(w) ==
    \/ InitVm(w) \/ LoopTest(w) \/ WaitForTask(w) \/ MarkBusy(w)
    \/ FinishTask(w) \/ CallBack(w) \/ AfterTask(w) \/ ReinitVm(w)
    \/ CleanupWorker(w)

-----------------------------------------------------------------------------
(* The process ends after Stop. *)
Terminated == mpc = "stopped" /\ UNCHANGED vars

Next ==
    \/ Main
    \/ \E w \in Worker : WorkerStep(w) \/ SpuriousWake(w)
    \/ Terminated

Spec == Init /\ [][Next]_vars

(* Threads are scheduled: a thread that can take a step eventually does.   *)
(* Whether a task arrives, statistics are asked for or the process is told *)
(* to stop is up to the outside, so those actions carry no fairness.       *)
MainProgress ==
    \/ AwaitWorker \/ SubmitNotify
    \/ StatsFailed \/ StatsState \/ StatsPending \/ StatsReturn
    \/ SignalStop \/ WakeWorker \/ JoinWorker

Fairness ==
    /\ WF_vars(MainProgress)
    /\ \A w \in Worker : WF_vars(WorkerStep(w))

FairSpec == Spec /\ Fairness

-----------------------------------------------------------------------------
(* Properties. *)

TypeOK ==
    /\ running \in BOOLEAN
    /\ mpc \in MainPc
    /\ cur \in Worker
    /\ nextWorker \in Nat
    /\ report \in [idle : Nat, busy : Nat, recycling : Nat,
                   completed : Nat, failed : Nat, pending : Nat]
    /\ completed \in Nat
    /\ failed \in Nat
    /\ pending \in [Worker -> Seq(Task)]
    /\ shouldStop \in [Worker -> BOOLEAN]
    /\ wstate \in [Worker -> WorkerState]
    /\ handled \in [Worker -> Nat]
    /\ MaxTasks > 0 => \A w \in Worker : handled[w] < MaxTasks
    /\ vm \in [Worker -> {"none", "ready", "broken"}]
    /\ wpc \in [Worker -> WorkerPc]
    /\ hand \in [Worker -> Seq(Task)]
    /\ routed \in [Worker -> Seq(Task)]
    /\ answered \in [Worker -> Seq(Task)]
    /\ rejected \in SUBSET Task

(* What a slot holds, in order: the answers, the hand, the queue. *)
SlotOf(a, h, p) == a \o h \o p

(* Until Stop destroys the queues, what was routed to a worker is, in      *)
(* order, what it has called back, the task in its hands and its queue: no *)
(* task is lost, run twice, reordered or moved to another worker by any    *)
(* interleaving of SubmitTask, WorkerThread, RecycleWorker and Stop.       *)
NothingLost ==
    mpc # "stopped" =>
        \A w \in Worker : routed[w] = SlotOf(answered[w], hand[w], pending[w])

(* A task whose callback has run is already in total_completed_ or         *)
(* total_failed_, and nothing else is but the tasks about to be called     *)
(* back: a client that has its answer never reads statistics without it.   *)
CountedBeforeAnswered ==
    completed + failed =
        Cardinality(AllTasks(answered))
        + Cardinality({w \in Worker : wpc[w] = "answer"})

(* GetStats is no snapshot, yet the completed, failed and pending tasks it *)
(* returns are never more than the tasks submitted: a task that moves from *)
(* a queue to the totals while GetStats runs is not counted twice.         *)
StatsNoDoubleCount ==
    mpc = "statsDone" =>
        report.completed + report.failed + report.pending <= Cardinality(Routed)

(* While the pool serves, GetStats finds every worker idle, busy or        *)
(* recycling, whatever it does during the reads.                           *)
StatsSeesAllWorkers ==
    mpc = "statsDone" =>
        report.idle + report.busy + report.recycling = NumWorkers

(* What a client reads in statistics is true of the pool, though each      *)
(* number is read at another moment.                                       *)
StatsHonest == CountedBeforeAnswered /\ StatsNoDoubleCount /\ StatsSeesAllWorkers

(* After Stop has returned no worker calls back: the IPC server whose      *)
(* members the callbacks capture may then be destroyed.                    *)
QuietAfterStop == [][mpc = "stopped" => answered' = answered]_vars

(* Every task routed to a worker is answered, unless the pool is stopped.  *)
EveryTaskAnswered ==
    \A t \in Task : t \in Routed ~> (t \in Answered \/ ~running)

(* Stop always gets through its joins. *)
StopTerminates == mpc = "signal" ~> mpc = "stopped"

(* Start returns, when no worker fails to make its first vm. *)
StartReturns == mpc = "starting" ~> mpc # "starting"

(* Nobody waits for ever: neither a submitter, through recycling and lost  *)
(* notifications, nor the main thread in Start or in Stop.                 *)
EveryCallEnds == EveryTaskAnswered /\ StopTerminates /\ StartReturns

(* The pool implements TaskService: a task is owed an answer while a queue *)
(* or a worker holds it.                                                   *)
Phase ==
    CASE mpc = "off" -> "closed"
      [] mpc \in StopPc -> "closing"
      [] mpc = "stopped" -> "ended"
      [] OTHER -> "open"

Status ==
    [t \in Task |->
        IF t \in Owed THEN "accepted"
        ELSE IF t \in Answered THEN "answered"
        ELSE IF t \in Routed THEN "abandoned" ELSE "new"]

Service == INSTANCE TaskService WITH phase <- Phase, status <- Status

ImplementsTaskService == Service!SSpec
=============================================================================
