------------------------------ MODULE VmPlatform ------------------------------
(***************************************************************************)
(* The VM thread of a VmInstance and the platform layer that feeds it      *)
(* (leapvm/vm_instance.cc, leap_platform.cc, leap_foreground_task_runner.cc *)
(* and leap_delayed_task_scheduler.cc).                                    *)
(*                                                                         *)
(* Five threads meet here.  The creator (a pool worker) makes a VmInstance, *)
(* runs scripts on it and destroys it, several times over: the isolates of *)
(* successive lives may have the same address.  The VM thread runs the     *)
(* closures of task_queue_.  V8 posts foreground tasks through the runner  *)
(* of the isolate from a thread of its own, at once or with a delay.  The  *)
(* thread of the delayed scheduler, one for the process, hands a task that *)
(* is due to its runner.                                                   *)
(*                                                                         *)
(* A life is numbered, and so is the runner it registers.  All lives share *)
(* one isolate address, the case the comments of the code fear.  Which V8  *)
(* task is posted, when it is due and what it does are left open.          *)
(*                                                                         *)
(* Name_Fault, as in VmMayExit_AtOnce, is Name with a mistake a maintainer *)
(* could make; Spec does not use it.                                       *)
(***************************************************************************)
EXTENDS Integers, Sequences, FiniteSets, SequencesExt

CONSTANTS
  Tasks,        \* the foreground tasks V8 posts, each at most once
  MaxLives,     \* how many VmInstances are made in turn
  Modes         \* where the destructor prepares the platform for shutdown:
                \* "before" the VM thread stops, "on" it, or "after" it

Lives   == 1 .. MaxLives
None    == 0                          \* nullptr, or no entry in a map
Script  == "script"                   \* the closure RunScript posts
Prelude == "prelude"                  \* the closure the destructor posts
Nothing == "nothing"                  \* no closure
Posting == {"v8", "timer"}            \* the threads that call EnqueueTask

ASSUME TasksAssumption == IsFiniteSet(Tasks)
ASSUME ClosuresAssumption == {Script, Prelude, Nothing} \cap Tasks = {}
ASSUME LivesAssumption == MaxLives \in Nat \ {0}
ASSUME ModesAssumption == Modes \subseteq {"before", "on", "after"}

VARIABLES
  mode,                \* the environment variables of the process
  life, creator,       \* the life in progress and where its creator is
  answered,            \* the promise the creator waits for
  foreground_runners_, shutdown_isolates_,        \* LeapPlatform, one address
  owner_, active_, delayed_tasks_,                \* LeapForegroundTaskRunner
  scheduled_task_ids_, canceled_task_ids_,        \* LeapDelayedTaskScheduler
  vm, task_queue_, vm_thread_running_, accepting_tasks_, closure,
                                                  \* VmInstance and its thread
  deactivating,        \* the call of Deactivate in progress
  poster,              \* the calls of EnqueueTask and ScheduleDelayedTask
  runnerOf, ranOn,     \* through which runner a task came, where it ran
  crash                \* how the process died, if it did

platform  == <<foreground_runners_, shutdown_isolates_>>
runners   == <<owner_, active_, delayed_tasks_>>
scheduler == <<scheduled_task_ids_, canceled_task_ids_>>
thread    == <<vm, task_queue_, vm_thread_running_, accepting_tasks_, closure>>
history   == <<runnerOf, ranOn>>
maker     == <<life, creator, answered>>
vars == <<mode, maker, platform, runners, scheduler, thread, deactivating,
          poster, history, crash>>

Idle == [at |-> "idle", task |-> None, owner |-> None]
Done == [at |-> "done", runner |-> None, cancelling |-> {}]

Init ==
  /\ mode \in Modes
  /\ life = 0 /\ creator = "none" /\ answered = FALSE
  /\ foreground_runners_ = None /\ shutdown_isolates_ = FALSE
  /\ owner_ = [r \in Lives |-> None]
  /\ active_ = [r \in Lives |-> FALSE]
  /\ delayed_tasks_ = [r \in Lives |-> {}]
  /\ scheduled_task_ids_ = {} /\ canceled_task_ids_ = {}
  /\ vm = "off" /\ task_queue_ = <<>> /\ closure = Nothing
  /\ vm_thread_running_ = FALSE /\ accepting_tasks_ = FALSE
  /\ deactivating = Done
  /\ poster = [p \in Posting |-> Idle]
  /\ runnerOf = [t \in Tasks |-> None] /\ ranOn = [t \in Tasks |-> None]
  /\ crash = "no"

-----------------------------------------------------------------------------
(***************************************************************************)
(* VmInstance::PostTask and the condition variable task_cv_: a notification *)
(* wakes the VM thread only if it sleeps.                                  *)
(***************************************************************************)
Accepts == vm_thread_running_ /\ accepting_tasks_

Notify == vm' = IF vm = "asleep" THEN "test" ELSE vm

PostTask_Silent(c) ==
  /\ task_queue_' = Append(task_queue_, c)
  /\ UNCHANGED vm

PostTask(c) ==
  /\ task_queue_' = Append(task_queue_, c)
  /\ Notify

(***************************************************************************)
(* The life of a VmInstance, in its creator's thread.                      *)
(***************************************************************************)

\* What LeapPlatform::GetForegroundTaskRunner answers: the runner registered
\* for the isolate, null, or the runner of V8's default platform.
GetForegroundTaskRunner ==
  IF foreground_runners_ # None THEN "registered"
  ELSE IF shutdown_isolates_ THEN "null" ELSE "backend"

\* Isolate::New asks for the runner and dereferences it.
NewIsolate ==
  /\ creator = "none" /\ life < MaxLives
  /\ life' = life + 1 /\ creator' = "made"
  /\ crash' = IF GetForegroundTaskRunner = "null" THEN "null_runner" ELSE crash
  /\ UNCHANGED <<mode, answered, platform, runners, scheduler, thread,
                 deactivating, poster, history>>

RegisterIsolate ==
  /\ creator = "made" /\ creator' = "registered"
  /\ shutdown_isolates_' = FALSE
  /\ LET r == IF foreground_runners_ = None THEN life ELSE foreground_runners_
     IN  /\ foreground_runners_' = r
         /\ owner_' = [owner_ EXCEPT ![r] = life]
         /\ active_' = [active_ EXCEPT ![r] = TRUE]
  /\ UNCHANGED <<mode, life, answered, delayed_tasks_, scheduler, thread,
                 deactivating, poster, history, crash>>

StartVmThread ==
  /\ creator = "registered" /\ creator' = "starting"
  /\ vm_thread_running_' = TRUE /\ accepting_tasks_' = TRUE /\ vm' = "starting"
  /\ UNCHANGED <<mode, life, answered, platform, runners, scheduler,
                 task_queue_, closure, deactivating, poster, history, crash>>

\* The rest of StartVmThread: the wait for vm_thread_ready_.
AwaitReady ==
  /\ creator = "starting" /\ vm # "starting"
  /\ creator' = "live"
  /\ UNCHANGED <<mode, life, answered, platform, runners, scheduler, thread,
                 deactivating, poster, history, crash>>

\* RunScript posts a closure and waits for its promise.
RunScript ==
  /\ creator = "live" /\ Accepts
  /\ PostTask(Script)
  /\ creator' = "calling" /\ answered' = FALSE
  /\ UNCHANGED <<mode, life, platform, runners, scheduler, vm_thread_running_,
                 accepting_tasks_, closure, deactivating, poster, history, crash>>

RunScriptReturns ==
  /\ creator = "calling" /\ answered
  /\ creator' = "served"
  /\ UNCHANGED <<mode, life, answered, platform, runners, scheduler, thread,
                 deactivating, poster, history, crash>>

-----------------------------------------------------------------------------
(***************************************************************************)
(* LeapForegroundTaskRunner::Deactivate, in the thread of its caller: the   *)
(* flag, the owner, the list of delayed tasks and the cancellation of each  *)
(* are four critical sections.                                             *)
(***************************************************************************)
Deactivate(r) ==
  deactivating' = IF r = None THEN Done
                  ELSE [at |-> "active", runner |-> r, cancelling |-> {}]

DeactivateFlag ==
  /\ deactivating.at = "active"
  /\ active_' = [active_ EXCEPT ![deactivating.runner] = FALSE]
  /\ deactivating' = [deactivating EXCEPT !.at = "owner"]
  /\ UNCHANGED <<mode, maker, platform, owner_, delayed_tasks_, scheduler,
                 thread, poster, history, crash>>

DeactivateOwner ==
  /\ deactivating.at = "owner"
  /\ owner_' = [owner_ EXCEPT ![deactivating.runner] = None]
  /\ deactivating' = [deactivating EXCEPT !.at = "swap"]
  /\ UNCHANGED <<mode, maker, platform, active_, delayed_tasks_, scheduler,
                 thread, poster, history, crash>>

DeactivateSwap ==
  /\ deactivating.at = "swap"
  /\ delayed_tasks_' = [delayed_tasks_ EXCEPT ![deactivating.runner] = {}]
  /\ deactivating' = [deactivating EXCEPT !.at = "cancel",
                         !.cancelling = delayed_tasks_[deactivating.runner]]
  /\ UNCHANGED <<mode, maker, platform, owner_, active_, scheduler, thread,
                 poster, history, crash>>

Cancel_Unchecked(t) == canceled_task_ids_' = canceled_task_ids_ \cup {t}

\* LeapDelayedTaskScheduler::Cancel: only a task that is still scheduled is
\* marked; the thread of the scheduler drops it when it is due.
Cancel(t) ==
  canceled_task_ids_' = canceled_task_ids_ \cup ({t} \cap scheduled_task_ids_)

DeactivateCancel ==
  /\ deactivating.at = "cancel"
  /\ \/ \E t \in deactivating.cancelling :
          /\ Cancel(t)
          /\ deactivating' = [deactivating EXCEPT !.cancelling = @ \ {t}]
     \/ /\ deactivating.cancelling = {}
        /\ deactivating' = Done
        /\ UNCHANGED canceled_task_ids_
  /\ UNCHANGED <<mode, maker, platform, runners, scheduled_task_ids_, thread,
                 poster, history, crash>>

\* LeapPlatform::PrepareIsolateForShutdown marks the isolate, then
\* deactivates its runner.
PrepareIsolateForShutdown ==
  /\ shutdown_isolates_' = TRUE
  /\ Deactivate(foreground_runners_)
  /\ UNCHANGED foreground_runners_

Forget_KeepsRunner == shutdown_isolates_' = FALSE /\ UNCHANGED foreground_runners_

\* The critical section of LeapPlatform::UnregisterIsolate.
Forget == foreground_runners_' = None /\ shutdown_isolates_' = FALSE

(***************************************************************************)
(* VmInstance::~VmInstance.                                                *)
(***************************************************************************)

\* It starts with the shutdown of the platform, unless that comes later.
BeginDestroy ==
  /\ creator \in {"live", "served"}
  /\ \/ /\ mode = "on" /\ Accepts
        /\ PostTask(Prelude)
        /\ creator' = "prelude" /\ answered' = FALSE
        /\ UNCHANGED <<platform, deactivating>>
     \/ /\ mode = "before"
        /\ PrepareIsolateForShutdown
        /\ creator' = "preparing"
        /\ UNCHANGED <<vm, task_queue_, answered>>
     \/ /\ mode = "after"
        /\ creator' = "prepared"
        /\ UNCHANGED <<vm, task_queue_, answered, platform, deactivating>>
  /\ UNCHANGED <<mode, life, runners, scheduler, vm_thread_running_,
                 accepting_tasks_, closure, poster, history, crash>>

\* The prelude answered, or the creator's own call of Deactivate is over.
Prepared ==
  /\ \/ creator = "prelude" /\ answered
     \/ creator = "preparing" /\ deactivating = Done
  /\ creator' = "prepared"
  /\ UNCHANGED <<mode, life, answered, platform, runners, scheduler, thread,
                 deactivating, poster, history, crash>>

RefuseTasks ==
  /\ creator = "prepared" /\ creator' = "refusing"
  /\ accepting_tasks_' = FALSE
  /\ Notify
  /\ UNCHANGED <<mode, life, answered, platform, runners, scheduler,
                 task_queue_, vm_thread_running_, closure, deactivating, poster,
                 history, crash>>

\* StopVmThread up to the join.
StopVmThread ==
  /\ creator = "refusing" /\ creator' = "joining"
  /\ accepting_tasks_' = FALSE /\ vm_thread_running_' = FALSE
  /\ Notify
  /\ UNCHANGED <<mode, life, answered, platform, runners, scheduler,
                 task_queue_, closure, deactivating, poster, history, crash>>

\* The join; a destructor told to prepare the platform late does so now.
JoinVmThread ==
  /\ creator = "joining" /\ vm = "exited"
  /\ creator' = "joined"
  /\ IF mode = "after" THEN PrepareIsolateForShutdown
     ELSE UNCHANGED <<platform, deactivating>>
  /\ UNCHANGED <<mode, life, answered, runners, scheduler, thread, poster,
                 history, crash>>

\* After the quiesce loop, whose only effect here is a bounded delay.
UnregisterIsolate ==
  /\ creator = "joined" /\ deactivating = Done
  /\ creator' = "unregistering"
  /\ Forget
  /\ Deactivate(foreground_runners_)
  /\ UNCHANGED <<mode, life, answered, runners, scheduler, thread, poster,
                 history, crash>>

\* Isolate::Dispose waits for V8's own threads, then the object is freed.
Dispose ==
  /\ creator = "unregistering" /\ deactivating = Done
  /\ poster["v8"] = Idle
  /\ creator' = "none" /\ vm' = "off"
  /\ UNCHANGED <<mode, life, answered, platform, runners, scheduler,
                 task_queue_, vm_thread_running_, accepting_tasks_, closure,
                 deactivating, poster, history, crash>>
-----------------------------------------------------------------------------
(***************************************************************************)
(* VmInstance::ThreadMain.                                                 *)
(***************************************************************************)
VmReady ==
  /\ vm = "starting" /\ vm' = "test"
  /\ UNCHANGED <<mode, maker, platform, runners, scheduler, task_queue_,
                 vm_thread_running_, accepting_tasks_, closure, deactivating,
                 poster, history, crash>>

VmMayExit == ~vm_thread_running_ /\ task_queue_ = <<>>

\* One pass of the loop under task_mu_: take a closure, leave or sleep.
VmTest ==
  /\ vm = "test"
  /\ \/ VmMayExit /\ vm' = "exited" /\ UNCHANGED <<task_queue_, closure>>
     \/ /\ ~VmMayExit /\ task_queue_ # <<>>
        /\ closure' = Head(task_queue_) /\ task_queue_' = Tail(task_queue_)
        /\ vm' = "run"
     \/ /\ ~VmMayExit /\ task_queue_ = <<>>
        /\ vm' = "asleep" /\ UNCHANGED <<task_queue_, closure>>
  /\ UNCHANGED <<mode, maker, platform, runners, scheduler, vm_thread_running_,
                 accepting_tasks_, deactivating, poster, history, crash>>

\* A wakeup nobody sent.
SpuriousWake ==
  /\ vm = "asleep" /\ vm' = "test"
  /\ UNCHANGED <<mode, maker, platform, runners, scheduler, task_queue_,
                 vm_thread_running_, accepting_tasks_, closure, deactivating,
                 poster, history, crash>>

\* A script answers its caller; the prelude prepares the platform first.
VmRunScript ==
  /\ vm = "run" /\ closure = Script
  /\ answered' = TRUE /\ vm' = "test" /\ closure' = Nothing
  /\ UNCHANGED <<mode, life, creator, platform, runners, scheduler, task_queue_,
                 vm_thread_running_, accepting_tasks_, deactivating, poster,
                 history, crash>>

VmRunPrelude ==
  /\ vm = "run" /\ closure = Prelude
  /\ PrepareIsolateForShutdown
  /\ vm' = "preparing"
  /\ UNCHANGED <<mode, maker, runners, scheduler, task_queue_,
                 vm_thread_running_, accepting_tasks_, closure, poster, history,
                 crash>>

VmPreludeDone ==
  /\ vm = "preparing" /\ deactivating = Done
  /\ answered' = TRUE /\ vm' = "test" /\ closure' = Nothing
  /\ UNCHANGED <<mode, life, creator, platform, runners, scheduler, task_queue_,
                 vm_thread_running_, accepting_tasks_, deactivating, poster,
                 history, crash>>

\* ForegroundTaskEnvelope::Run reads active_, then runs the task.
VmCheckActive ==
  /\ vm = "run" /\ closure \in Tasks
  /\ IF active_[runnerOf[closure]]
     THEN vm' = "payload" /\ UNCHANGED closure
     ELSE vm' = "test" /\ closure' = Nothing
  /\ UNCHANGED <<mode, maker, platform, runners, scheduler, task_queue_,
                 vm_thread_running_, accepting_tasks_, deactivating, poster,
                 history, crash>>

VmRunTask ==
  /\ vm = "payload"
  /\ ranOn' = [ranOn EXCEPT ![closure] = life]
  /\ vm' = "test" /\ closure' = Nothing
  /\ UNCHANGED <<mode, maker, platform, runners, scheduler, task_queue_,
                 vm_thread_running_, accepting_tasks_, deactivating, poster,
                 runnerOf, crash>>
-----------------------------------------------------------------------------
(***************************************************************************)
(* V8 posts a task through the runner it got.                              *)
(***************************************************************************)

\* Of the answers to GetForegroundTaskRunner only the registered runner leads
\* to this code; V8 may keep it for as long as it likes before it posts.
Post(t, at) ==
  /\ poster["v8"] = Idle
  /\ GetForegroundTaskRunner = "registered"
  /\ runnerOf[t] = None
  /\ runnerOf' = [runnerOf EXCEPT ![t] = foreground_runners_]
  /\ poster' = [poster EXCEPT !["v8"] = [at |-> at, task |-> t, owner |-> None]]
  /\ UNCHANGED <<mode, maker, platform, runners, scheduler, thread,
                 deactivating, ranOn, crash>>

PostTaskImpl(t) == Post(t, "enqueue")
PostDelayedTaskImpl(t) == Post(t, "schedule")

\* ScheduleDelayedTask: the scheduler has the task before the runner's list.
ScheduleDelayedTask ==
  /\ poster["v8"].at = "schedule"
  /\ scheduled_task_ids_' = scheduled_task_ids_ \cup {poster["v8"].task}
  /\ poster' = [poster EXCEPT !["v8"].at = "record"]
  /\ UNCHANGED <<mode, maker, platform, runners, canceled_task_ids_, thread,
                 deactivating, history, crash>>

RecordDelayedTask ==
  LET t == poster["v8"].task IN
  /\ poster["v8"].at = "record"
  /\ delayed_tasks_' = [delayed_tasks_ EXCEPT ![runnerOf[t]] = @ \cup {t}]
  /\ poster' = [poster EXCEPT !["v8"] = Idle]
  /\ UNCHANGED <<mode, maker, platform, owner_, active_, scheduler, thread,
                 deactivating, history, crash>>

(***************************************************************************)
(* The thread of the delayed scheduler: a task that is due is dropped if    *)
(* it was cancelled, else its callback runs without the lock.              *)
(***************************************************************************)
Drop_Late(t) == UNCHANGED scheduled_task_ids_

Drop(t) == scheduled_task_ids_' = scheduled_task_ids_ \ {t}

Due(t) ==
  /\ poster["timer"] = Idle /\ t \in scheduled_task_ids_
  /\ Drop(t)
  /\ canceled_task_ids_' = canceled_task_ids_ \ {t}
  /\ IF t \in canceled_task_ids_ THEN UNCHANGED poster
     ELSE poster' = [poster EXCEPT !["timer"] =
                       [at |-> "forget", task |-> t, owner |-> None]]
  /\ UNCHANGED <<mode, maker, platform, runners, thread, deactivating, history,
                 crash>>

ForgetDelayedTask ==
  LET t == poster["timer"].task IN
  /\ poster["timer"].at = "forget"
  /\ delayed_tasks_' = [delayed_tasks_ EXCEPT ![runnerOf[t]] = @ \ {t}]
  /\ poster' = [poster EXCEPT !["timer"].at = "enqueue"]
  /\ UNCHANGED <<mode, maker, platform, owner_, active_, scheduler, thread,
                 deactivating, history, crash>>

(***************************************************************************)
(* LeapForegroundTaskRunner::EnqueueTask: the owner is read under the lock  *)
(* and used after it.                                                      *)
(***************************************************************************)
ReadOwner(p) ==
  /\ poster[p].at = "enqueue"
  /\ LET owner == owner_[runnerOf[poster[p].task]]
     IN  poster' = [poster EXCEPT ![p] = IF owner = None THEN Idle
                      ELSE [@ EXCEPT !.at = "post", !.owner = owner]]
  /\ UNCHANGED <<mode, maker, platform, runners, scheduler, thread,
                 deactivating, history, crash>>

\* The call on a freed VmInstance is a use after free; when PostTask refuses,
\* Cancel is called on the pointer that was moved into the closure.
PostToOwner(p) ==
  LET freed == poster[p].owner # life \/ creator = "none" IN
  /\ poster[p].at = "post"
  /\ poster' = [poster EXCEPT ![p] = Idle]
  /\ \/ freed /\ crash' = "freed_owner" /\ UNCHANGED <<vm, task_queue_>>
     \/ ~freed /\ Accepts /\ PostTask(poster[p].task) /\ UNCHANGED crash
     \/ /\ ~freed /\ ~Accepts
        /\ crash' = "moved_task" /\ UNCHANGED <<vm, task_queue_>>
  /\ UNCHANGED <<mode, maker, platform, runners, scheduler, vm_thread_running_,
                 accepting_tasks_, closure, deactivating, history>>
-----------------------------------------------------------------------------
CreatorStep ==
  \/ NewIsolate \/ RegisterIsolate \/ StartVmThread \/ AwaitReady
  \/ RunScriptReturns \/ Prepared \/ RefuseTasks \/ StopVmThread
  \/ JoinVmThread \/ UnregisterIsolate \/ Dispose

DeactivateStep ==
  DeactivateFlag \/ DeactivateOwner \/ DeactivateSwap \/ DeactivateCancel

VmStep ==
  \/ VmReady \/ VmTest \/ VmRunScript \/ VmRunPrelude \/ VmPreludeDone
  \/ VmCheckActive \/ VmRunTask

V8Step == ScheduleDelayedTask \/ RecordDelayedTask \/ ReadOwner("v8") \/ PostToOwner("v8")

TimerStep == ForgetDelayedTask \/ ReadOwner("timer") \/ PostToOwner("timer")

\* The process has died, or the last life is over.
Terminated ==
  /\ \/ crash # "no"
     \/ creator = "none" /\ life = MaxLives
  /\ UNCHANGED vars

Next ==
  \/ /\ crash = "no"
     /\ \/ CreatorStep \/ RunScript \/ BeginDestroy \/ DeactivateStep \/ VmStep
        \/ SpuriousWake \/ V8Step \/ TimerStep
        \/ \E t \in Tasks : PostTaskImpl(t) \/ PostDelayedTaskImpl(t) \/ Due(t)
  \/ Terminated

\* Every thread that can go on goes on; nobody is made to start a call.
Fairness ==
  /\ WF_vars(crash = "no" /\ CreatorStep)
  /\ WF_vars(crash = "no" /\ DeactivateStep)
  /\ WF_vars(crash = "no" /\ VmStep)
  /\ WF_vars(crash = "no" /\ V8Step)

Spec == Init /\ [][Next]_vars
FairSpec == Spec /\ Fairness
-----------------------------------------------------------------------------
(***************************************************************************)
(* Properties.                                                             *)
(***************************************************************************)

Closures == Tasks \cup {Script, Prelude}

\* Every variable has its type, and a closure is queued at most once: a task
\* the scheduler hands over twice would run twice.
TypeOK ==
  /\ mode \in Modes /\ life \in 0 .. MaxLives /\ answered \in BOOLEAN
  /\ creator \in {"none", "made", "registered", "starting", "live", "calling",
                  "served", "prelude", "preparing", "prepared", "refusing",
                  "joining", "joined", "unregistering"}
  /\ foreground_runners_ \in 0 .. MaxLives /\ shutdown_isolates_ \in BOOLEAN
  /\ owner_ \in [Lives -> 0 .. MaxLives] /\ active_ \in [Lives -> BOOLEAN]
  /\ delayed_tasks_ \in [Lives -> SUBSET Tasks]
  /\ scheduled_task_ids_ \subseteq Tasks /\ canceled_task_ids_ \subseteq Tasks
  /\ vm \in {"off", "starting", "test", "asleep", "run", "payload",
             "preparing", "exited"}
  /\ task_queue_ \in Seq(Closures) /\ IsInjective(task_queue_)
  /\ vm_thread_running_ \in BOOLEAN /\ accepting_tasks_ \in BOOLEAN
  /\ closure \in Closures \cup {Nothing}
  /\ deactivating.at \in {"done", "active", "owner", "swap", "cancel"}
  /\ deactivating.runner \in 0 .. MaxLives
  /\ deactivating.cancelling \subseteq Tasks
  /\ \A p \in Posting :
       /\ poster[p].at \in {"idle", "enqueue", "post", "schedule", "record", "forget"}
       /\ poster[p].task \in Tasks \cup {None}
       /\ poster[p].owner \in 0 .. MaxLives
  /\ runnerOf \in [Tasks -> 0 .. MaxLives] /\ ranOn \in [Tasks -> 0 .. MaxLives]
  /\ crash \in {"no", "null_runner", "freed_owner", "moved_task"}

\* A foreground task runs on the VmInstance its isolate had when it was
\* posted, never on a later one that got the same isolate address.
RunsWhereItBelongs ==
  \A t \in Tasks : ranOn[t] \in {None, runnerOf[t]}

\* An isolate that is being made is never refused a task runner because an
\* earlier one at its address was marked for shutdown.
NewIsolateGetsRunner ==
  creator = "none" => GetForegroundTaskRunner = "backend"

\* The VM thread leaves nothing behind: whatever PostTask accepted has been
\* run when the thread exits, so no caller waits for a promise in a dead queue.
AcceptedTasksRun == vm = "exited" => task_queue_ = <<>>

\* A cancellation that races the dispatch of its task leaves no mark behind:
\* only tasks that are still scheduled are marked as cancelled.
NoStaleMarks == canceled_task_ids_ \subseteq scheduled_task_ids_

\* A life leaves nothing behind that the next could meet: no mark on its
\* address, no closure in its queue, no cancellation.
NothingLeftBehind == NewIsolateGetsRunner /\ AcceptedTasksRun /\ NoStaleMarks

\* The creator is never stuck: a script it runs is answered, and a destructor
\* it begins ends, unless the process dies.
CreatorNeverStuck == []<>(crash # "no" \/ creator \in {"none", "live", "served"})
=============================================================================
