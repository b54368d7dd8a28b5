--------------------------- MODULE VmPlatformProofs ---------------------------
(***************************************************************************)
(* Proofs about VmPlatform, for any set of foreground tasks, any number of *)
(* successive VmInstances and any order of shutdown.                       *)
(***************************************************************************)
EXTENDS VmPlatform, SequenceTheorems, TLAPS

(* The record of a thread that posts. *)
Call == [at : {"idle", "enqueue", "post", "schedule", "record", "forget"},
         task : Tasks \cup {None}, owner : 0 .. MaxLives]

(* The types the argument needs. *)
Types ==
  /\ mode \in Modes /\ life \in 0 .. MaxLives
  /\ foreground_runners_ \in 0 .. MaxLives /\ shutdown_isolates_ \in BOOLEAN
  /\ owner_ \in [Lives -> 0 .. MaxLives]
  /\ scheduled_task_ids_ \subseteq Tasks
  /\ task_queue_ \in Seq(Closures) /\ closure \in Closures \cup {Nothing}
  /\ vm_thread_running_ \in BOOLEAN
  /\ poster \in [Posting -> Call]
  /\ runnerOf \in [Tasks -> 0 .. MaxLives] /\ ranOn \in [Tasks -> 0 .. MaxLives]

(* Where the creator is tells whether the VM thread is there, and a thread *)
(* that is not there has no queue and accepts none.                        *)
Phases ==
  /\ creator \in {"none", "made", "registered"} => vm = "off"
  /\ creator \in {"joined", "unregistering"} => vm = "exited"
  /\ vm \in {"off", "exited"} => ~vm_thread_running_ /\ task_queue_ = <<>>
  /\ creator # "none" => life # 0

(* Between two lives the platform has forgotten the address, and a runner  *)
(* that is registered is the one of the life in progress.                  *)
Registration ==
  /\ creator \in {"none", "made", "unregistering"} =>
       foreground_runners_ = None /\ ~shutdown_isolates_
  /\ foreground_runners_ # None => foreground_runners_ = life
  /\ \A r \in Lives : owner_[r] \in {None, r}

(* A task in flight knows its runner, and only tasks of the life in        *)
(* progress are in its queue or in the hands of its thread.                *)
InFlight ==
  /\ \A i \in 1 .. Len(task_queue_) :
       task_queue_[i] \in Tasks => runnerOf[task_queue_[i]] = life
  /\ vm \in {"run", "payload"} /\ closure \in Tasks => runnerOf[closure] = life
  /\ vm = "payload" => closure \in Tasks
  /\ \A t \in scheduled_task_ids_ : runnerOf[t] # None
  /\ \A p \in Posting : poster[p].at # "idle" =>
       poster[p].task \in Tasks /\ runnerOf[poster[p].task] # None
  /\ \A p \in Posting : poster[p].at = "post" =>
       poster[p].owner = runnerOf[poster[p].task]

PlatformInv ==
  Types /\ Phases /\ Registration /\ InFlight /\ RunsWhereItBelongs /\ NoStaleMarks
-----------------------------------------------------------------------------
(* What a queue holds after a closure was added at its end. *)
LEMMA Appended ==
  ASSUME NEW S, NEW q \in Seq(S), NEW c \in S
  PROVE  /\ Append(q, c) \in Seq(S)
         /\ \A i \in 1 .. Len(Append(q, c)) :
              \/ Append(q, c)[i] = c
              \/ i \in 1 .. Len(q) /\ Append(q, c)[i] = q[i]
<1>1. Len(Append(q, c)) = Len(q) + 1 /\ Len(q) \in Nat
  BY AppendProperties, LenProperties
<1>2. Append(q, c)[Len(q) + 1] = c
  BY AppendProperties
<1>3. \A i \in 1 .. Len(q) : Append(q, c)[i] = q[i]
  BY AppendProperties
<1>4. ASSUME NEW i \in 1 .. Len(q) + 1
      PROVE  i = Len(q) + 1 \/ i \in 1 .. Len(q)
  BY <1>1
<1> QED
  BY <1>1, <1>2, <1>3, <1>4, AppendProperties

(* What a queue holds after its oldest closure was taken. *)
LEMMA Taken ==
  ASSUME NEW S, NEW q \in Seq(S), q # <<>>
  PROVE  /\ Tail(q) \in Seq(S) /\ Head(q) \in S
         /\ 1 \in 1 .. Len(q) /\ Head(q) = q[1]
         /\ \A i \in 1 .. Len(Tail(q)) : i + 1 \in 1 .. Len(q) /\ Tail(q)[i] = q[i + 1]
<1>1. Len(q) \in Nat \ {0}
  BY EmptySeq, LenProperties
<1>2. Len(Tail(q)) = Len(q) - 1 /\ Tail(q) \in Seq(S) /\ Head(q) \in S
  BY HeadTailProperties
<1>3. Head(q) = q[1] /\ \A i \in 1 .. Len(Tail(q)) : Tail(q)[i] = q[i + 1]
  BY HeadTailProperties
<1> QED
  BY <1>1, <1>2, <1>3

(* The initial state satisfies the invariant. *)
LEMMA InitInv == Init => PlatformInv
<1> SUFFICES ASSUME Init PROVE PlatformInv
  OBVIOUS
<1>1. <<>> \in Seq(Closures) /\ Len(<<>>) = 0
  BY EmptySeq
<1>2. poster \in [Posting -> Call]
  BY LivesAssumption DEF Init, Idle, None, Call
<1>3. Types
  <2>1. 0 \in 0 .. MaxLives
    BY LivesAssumption
  <2>2. owner_ \in [Lives -> 0 .. MaxLives] /\ runnerOf \in [Tasks -> 0 .. MaxLives]
        /\ ranOn \in [Tasks -> 0 .. MaxLives]
    BY <2>1 DEF Init, None
  <2> QED
    BY <1>1, <1>2, <2>1, <2>2 DEF Init, Types, None
<1>4. Phases /\ Registration /\ RunsWhereItBelongs /\ NoStaleMarks
  BY DEF Init, Phases, Registration, RunsWhereItBelongs, NoStaleMarks, None
<1>5. InFlight
  BY <1>1 DEF Init, InFlight, Idle, None
<1> QED
  BY <1>3, <1>4, <1>5 DEF PlatformInv

(* PostTask adds a closure of the life in progress to the queue of a VM    *)
(* thread that is there.                                                   *)
LEMMA PostTaskFacts ==
  ASSUME PlatformInv, NEW c \in Closures, Accepts, PostTask(c),
         c \in Tasks => runnerOf[c] = life,
         UNCHANGED <<life, runnerOf>>
  PROVE  /\ task_queue_' \in Seq(Closures)
         /\ \A i \in 1 .. Len(task_queue_') :
              task_queue_'[i] \in Tasks => runnerOf'[task_queue_'[i]] = life'
         /\ vm' \notin {"off", "exited"} /\ vm \notin {"off", "exited"}
         /\ vm' = vm \/ (vm = "asleep" /\ vm' = "test")
<1>1. task_queue_ \in Seq(Closures) /\ task_queue_' = Append(task_queue_, c)
  BY DEF PlatformInv, Types, PostTask
<1>2. /\ task_queue_' \in Seq(Closures)
      /\ \A i \in 1 .. Len(task_queue_') :
           \/ task_queue_'[i] = c
           \/ i \in 1 .. Len(task_queue_) /\ task_queue_'[i] = task_queue_[i]
  BY <1>1, Appended
<1>3. vm \notin {"off", "exited"}
  BY DEF Accepts, PlatformInv, Phases
<1>4. vm' = vm \/ (vm = "asleep" /\ vm' = "test")
  BY DEF PostTask, Notify
<1> QED
  BY <1>2, <1>3, <1>4 DEF PlatformInv, InFlight

(* The steps of the creator. *)
LEMMA CreatorKeepsInv ==
  ASSUME PlatformInv, CreatorStep \/ RunScript \/ BeginDestroy PROVE PlatformInv'
<1> USE LivesAssumption DEF Lives, None, platform, runners, scheduler, thread,
        history, maker, PlatformInv, Types, Phases, Registration, InFlight,
        RunsWhereItBelongs, NoStaleMarks
<1>1. CASE NewIsolate
  BY <1>1 DEF NewIsolate
<1>2. CASE RegisterIsolate
  BY <1>2 DEF RegisterIsolate
<1>3. CASE StartVmThread
  BY <1>3 DEF StartVmThread
<1>4. CASE AwaitReady \/ RunScriptReturns \/ Prepared
  <2>1. CASE AwaitReady
    BY <2>1 DEF AwaitReady
  <2>2. CASE RunScriptReturns
    BY <2>2 DEF RunScriptReturns
  <2>3. CASE Prepared
    BY <2>3 DEF Prepared
  <2> QED
    BY <1>4, <2>1, <2>2, <2>3
<1>5. CASE RunScript
  <2>1. Script \in Closures /\ Script \notin Tasks
    BY ClosuresAssumption DEF Closures
  <2>2. UNCHANGED <<life, runnerOf>> /\ Accepts /\ PostTask(Script)
    BY <1>5 DEF RunScript
  <2> QED
    BY <1>5, <2>1, <2>2, PostTaskFacts DEF RunScript
<1>6. CASE BeginDestroy
  <2>1. CASE mode = "on"
    <3>1. Prelude \in Closures /\ Prelude \notin Tasks
      BY ClosuresAssumption DEF Closures
    <3>2. UNCHANGED <<life, runnerOf>> /\ Accepts /\ PostTask(Prelude)
      BY <1>6, <2>1 DEF BeginDestroy
    <3>3. UNCHANGED <<platform, mode, life, runners, scheduler,
                     vm_thread_running_, closure, poster, history>>
          /\ creator' = "prelude" /\ creator # "none"
      BY <1>6, <2>1 DEF BeginDestroy
    <3> QED
      BY <3>1, <3>2, <3>3, PostTaskFacts
  <2>2. CASE mode # "on"
    <3>1. UNCHANGED <<foreground_runners_, vm, task_queue_, mode, life, runners,
                     scheduler, vm_thread_running_, closure, poster, history>>
          /\ shutdown_isolates_' \in BOOLEAN
          /\ creator' \in {"preparing", "prepared"} /\ creator # "none"
      BY <1>6, <2>2 DEF BeginDestroy, PrepareIsolateForShutdown
    <3> QED
      BY <3>1
  <2> QED
    BY <2>1, <2>2
<1>7. CASE RefuseTasks
  BY <1>7 DEF RefuseTasks, Notify
<1>8. CASE StopVmThread
  BY <1>8 DEF StopVmThread, Notify
<1>9. CASE JoinVmThread
  BY <1>9 DEF JoinVmThread, PrepareIsolateForShutdown
<1>10. CASE UnregisterIsolate
  <2>1. UNCHANGED <<mode, life, runners, scheduler, thread, poster, history>>
        /\ creator = "joined" /\ creator' = "unregistering"
        /\ foreground_runners_' = None /\ shutdown_isolates_' = FALSE
    BY <1>10 DEF UnregisterIsolate, Forget
  <2>2. Types'
    <3>1. foreground_runners_' \in 0 .. MaxLives
      BY <2>1
    <3>2. shutdown_isolates_' \in BOOLEAN
      BY <2>1
    <3> QED
      BY <2>1, <3>1, <3>2
  <2>3. Registration'
    BY <2>1
  <2>4. Phases' /\ InFlight'
    BY <2>1
  <2> QED
    BY <2>1, <2>2, <2>3, <2>4
<1>11. CASE Dispose
  BY <1>11 DEF Dispose
<1> QED
  BY <1>1, <1>2, <1>3, <1>4, <1>5, <1>6, <1>7, <1>8, <1>9, <1>10, <1>11
  DEF CreatorStep

(* The steps of Deactivate, in whichever thread. *)
LEMMA DeactivateKeepsInv ==
  ASSUME PlatformInv, DeactivateStep PROVE PlatformInv'
<1> USE LivesAssumption DEF Lives, None, platform, scheduler, thread, history,
        maker, PlatformInv, Types, Phases, Registration, InFlight,
        RunsWhereItBelongs, NoStaleMarks
<1>1. CASE DeactivateFlag
  BY <1>1 DEF DeactivateFlag
<1>2. CASE DeactivateOwner
  <2>1. owner_' \in [Lives -> 0 .. MaxLives]
        /\ \A r \in Lives : owner_'[r] \in {None, owner_[r]}
    <3>1. owner_' = [owner_ EXCEPT ![deactivating.runner] = 0] /\ 0 \in 0 .. MaxLives
      BY <1>2 DEF DeactivateOwner
    <3> QED
      BY <3>1
  <2>2. UNCHANGED <<mode, maker, platform, scheduler, thread, poster, history>>
    BY <1>2 DEF DeactivateOwner
  <2> QED
    BY <2>1, <2>2
<1>3. CASE DeactivateSwap
  BY <1>3 DEF DeactivateSwap
<1>4. CASE DeactivateCancel
  BY <1>4 DEF DeactivateCancel, Cancel, runners
<1> QED
  BY <1>1, <1>2, <1>3, <1>4 DEF DeactivateStep

(* The steps of the VM thread. *)
LEMMA VmKeepsInv ==
  ASSUME PlatformInv, VmStep \/ SpuriousWake PROVE PlatformInv'
<1> USE LivesAssumption DEF Lives, None, platform, runners, scheduler, history,
        maker, PlatformInv, Types, Phases, Registration, InFlight,
        RunsWhereItBelongs, NoStaleMarks
<1>1. CASE VmReady \/ SpuriousWake
  BY <1>1 DEF VmReady, SpuriousWake
<1>2. CASE VmTest
  <2>1. CASE VmMayExit
    BY <1>2, <2>1 DEF VmTest, VmMayExit
  <2>2. CASE ~VmMayExit /\ task_queue_ = <<>>
    BY <1>2, <2>2 DEF VmTest
  <2>3. CASE ~VmMayExit /\ task_queue_ # <<>>
    <3>1. /\ Tail(task_queue_) \in Seq(Closures) /\ Head(task_queue_) \in Closures
          /\ 1 \in 1 .. Len(task_queue_) /\ Head(task_queue_) = task_queue_[1]
          /\ \A i \in 1 .. Len(Tail(task_queue_)) :
               /\ i + 1 \in 1 .. Len(task_queue_)
               /\ Tail(task_queue_)[i] = task_queue_[i + 1]
      BY <2>3, Taken
    <3>2. closure' = Head(task_queue_) /\ task_queue_' = Tail(task_queue_)
          /\ vm = "test" /\ vm' = "run"
          /\ UNCHANGED <<mode, maker, platform, runners, scheduler,
                         vm_thread_running_, poster, history>>
      BY <1>2, <2>3 DEF VmTest
    <3>3. InFlight'
      BY <3>1, <3>2
    <3> QED
      BY <3>1, <3>2, <3>3
  <2> QED
    BY <2>1, <2>2, <2>3
<1>3. CASE VmRunScript \/ VmPreludeDone
  BY <1>3 DEF VmRunScript, VmPreludeDone
<1>4. CASE VmRunPrelude
  BY <1>4 DEF VmRunPrelude, PrepareIsolateForShutdown
<1>5. CASE VmCheckActive
  BY <1>5 DEF VmCheckActive
<1>6. CASE VmRunTask
  BY <1>6 DEF VmRunTask
<1> QED
  BY <1>1, <1>2, <1>3, <1>4, <1>5, <1>6 DEF VmStep

(* A step of a posting thread changes its own record alone; if the record  *)
(* stays sound, so does every part that speaks of the posting threads.     *)
LEMMA PosterFacts ==
  ASSUME PlatformInv, NEW p \in Posting, NEW r \in Call,
         poster' = [poster EXCEPT ![p] = r],
         r.at # "idle" => r.task \in Tasks /\ runnerOf'[r.task] # None,
         r.at = "post" => r.owner = runnerOf'[r.task],
         \A t \in Tasks : runnerOf[t] # None => runnerOf'[t] = runnerOf[t]
  PROVE  /\ poster' \in [Posting -> Call]
         /\ \A q \in Posting : poster'[q].at # "idle" =>
              poster'[q].task \in Tasks /\ runnerOf'[poster'[q].task] # None
         /\ \A q \in Posting : poster'[q].at = "post" =>
              poster'[q].owner = runnerOf'[poster'[q].task]
<1>1. poster \in [Posting -> Call]
  BY DEF PlatformInv, Types
<1>2. poster'[p] = r /\ \A q \in Posting \ {p} : poster'[q] = poster[q]
  BY <1>1
<1>3. poster' \in [Posting -> Call]
  BY <1>1
<1>4. \A q \in Posting \ {p} : poster[q].at # "idle" =>
        poster[q].task \in Tasks /\ runnerOf[poster[q].task] # None
  BY DEF PlatformInv, InFlight
<1>5. \A q \in Posting : poster[q].at = "post" =>
        poster[q].owner = runnerOf[poster[q].task]
  BY DEF PlatformInv, InFlight
<1> QED
  BY <1>2, <1>3, <1>4, <1>5

(* The steps of the posting threads, none of which concerns the creator.    *)
LEMMA PosterKeepsInv ==
  ASSUME PlatformInv,
         \/ V8Step \/ TimerStep
         \/ \E t \in Tasks : PostTaskImpl(t) \/ PostDelayedTaskImpl(t) \/ Due(t)
  PROVE  PlatformInv'
<1> DEFINE Sound ==
      /\ poster \in [Posting -> Call]
      /\ \A p \in Posting : poster[p].at # "idle" =>
           poster[p].task \in Tasks /\ runnerOf[poster[p].task] # None
      /\ \A p \in Posting : poster[p].at = "post" =>
           poster[p].owner = runnerOf[poster[p].task]
<1>1. Sound /\ "v8" \in Posting /\ "timer" \in Posting
  BY DEF PlatformInv, Types, InFlight, Posting
<1>2. None \in 0 .. MaxLives /\ Idle \in Call /\ Idle.at = "idle"
  BY LivesAssumption DEF None, Idle, Call
<1>3. CASE ScheduleDelayedTask
  <2> DEFINE r == [poster["v8"] EXCEPT !.at = "record"]
  <2>1. poster' = [poster EXCEPT !["v8"] = r] /\ poster["v8"].at = "schedule"
        /\ scheduled_task_ids_' = scheduled_task_ids_ \cup {poster["v8"].task}
        /\ UNCHANGED <<mode, maker, platform, runners, canceled_task_ids_,
                       thread, history>>
    BY <1>1, <1>3 DEF ScheduleDelayedTask
  <2>2. r \in Call /\ r.at = "record" /\ r.task = poster["v8"].task
    BY <1>1 DEF Call
  <2>3. r.task \in Tasks /\ runnerOf[r.task] # None
    BY <1>1, <2>1, <2>2
  <2> HIDE DEF r
  <2>4. Sound'
    BY <1>1, <2>1, <2>2, <2>3, PosterFacts DEF history
  <2> QED
    BY <2>1, <2>2, <2>3, <2>4
    DEF PlatformInv, Types, Phases, Registration, InFlight, RunsWhereItBelongs,
        NoStaleMarks, platform, runners, thread, history, maker
<1>4. CASE RecordDelayedTask
  <2>1. poster' = [poster EXCEPT !["v8"] = Idle]
        /\ UNCHANGED <<mode, maker, platform, owner_, scheduler, thread, history>>
    BY <1>4 DEF RecordDelayedTask
  <2>2. Sound'
    BY <1>1, <1>2, <2>1, PosterFacts DEF history
  <2> QED
    BY <2>1, <2>2
    DEF PlatformInv, Types, Phases, Registration, InFlight, RunsWhereItBelongs,
        NoStaleMarks, platform, scheduler, thread, history, maker
<1>5. CASE ForgetDelayedTask
  <2> DEFINE r == [poster["timer"] EXCEPT !.at = "enqueue"]
  <2>1. poster' = [poster EXCEPT !["timer"] = r] /\ poster["timer"].at = "forget"
        /\ UNCHANGED <<mode, maker, platform, owner_, scheduler, thread, history>>
    BY <1>1, <1>5 DEF ForgetDelayedTask
  <2>2. r \in Call /\ r.at = "enqueue" /\ r.task = poster["timer"].task
    BY <1>1 DEF Call
  <2>3. r.task \in Tasks /\ runnerOf[r.task] # None
    BY <1>1, <2>1, <2>2
  <2> HIDE DEF r
  <2>4. Sound'
    BY <1>1, <2>1, <2>2, <2>3, PosterFacts DEF history
  <2> QED
    BY <2>1, <2>4
    DEF PlatformInv, Types, Phases, Registration, InFlight, RunsWhereItBelongs,
        NoStaleMarks, platform, scheduler, thread, history, maker
<1>6. ASSUME NEW p \in Posting, ReadOwner(p) PROVE PlatformInv'
  <2> DEFINE own == owner_[runnerOf[poster[p].task]]
             r == IF own = None THEN Idle
                  ELSE [poster[p] EXCEPT !.at = "post", !.owner = own]
  <2>1. poster' = [poster EXCEPT ![p] = r] /\ poster[p].at = "enqueue"
        /\ UNCHANGED <<mode, maker, platform, runners, scheduler, thread, history>>
    BY <1>1, <1>6 DEF ReadOwner
  <2>2. poster[p] \in Call /\ poster[p].task \in Tasks
        /\ runnerOf[poster[p].task] \in Lives
    BY <1>1, <2>1, LivesAssumption DEF PlatformInv, Types, Lives, None
  <2>3. own \in {None, runnerOf[poster[p].task]} /\ own \in 0 .. MaxLives
    BY <2>2, LivesAssumption DEF PlatformInv, Types, Registration, Lives, None
  <2>4. CASE own = None
    <3>1. poster' = [poster EXCEPT ![p] = Idle]
      BY <2>1, <2>4
    <3>2. Sound'
      BY <1>1, <1>2, <2>1, <3>1, PosterFacts DEF history
    <3> QED
      BY <2>1, <3>2
      DEF PlatformInv, Types, Phases, Registration, InFlight, RunsWhereItBelongs,
          NoStaleMarks, platform, runners, scheduler, thread, history, maker
  <2>5. CASE own # None
    <3>1. r \in Call /\ r.at = "post" /\ r.task = poster[p].task /\ r.owner = own
      BY <2>2, <2>3, <2>5 DEF Call
    <3>2. r.owner = runnerOf[r.task] /\ runnerOf[r.task] # None /\ r.task \in Tasks
      BY <2>2, <2>3, <2>5, <3>1
    <3> HIDE DEF r
    <3>3. Sound'
      BY <1>1, <2>1, <3>1, <3>2, PosterFacts DEF history
    <3> QED
      BY <2>1, <3>3
      DEF PlatformInv, Types, Phases, Registration, InFlight, RunsWhereItBelongs,
          NoStaleMarks, platform, runners, scheduler, thread, history, maker
  <2> QED
    BY <2>4, <2>5
<1>7. ASSUME NEW p \in Posting, PostToOwner(p) PROVE PlatformInv'
  <2>1. poster' = [poster EXCEPT ![p] = Idle] /\ poster[p].at = "post"
        /\ UNCHANGED <<mode, maker, platform, runners, scheduler,
                       vm_thread_running_, closure, history>>
    BY <1>7 DEF PostToOwner
  <2>2. Sound'
    BY <1>1, <1>2, <2>1, PosterFacts DEF history
  <2>3. CASE UNCHANGED <<vm, task_queue_>>
    BY <2>1, <2>2, <2>3
    DEF PlatformInv, Types, Phases, Registration, InFlight, RunsWhereItBelongs,
        NoStaleMarks, platform, runners, scheduler, history, maker
  <2>4. CASE ~UNCHANGED <<vm, task_queue_>>
    <3>1. Accepts /\ PostTask(poster[p].task) /\ poster[p].owner = life
      BY <1>7, <2>4 DEF PostToOwner
    <3>2. poster[p].task \in Closures /\ runnerOf[poster[p].task] = life
      BY <1>1, <2>1, <3>1 DEF Closures
    <3>3. UNCHANGED <<life, runnerOf>>
      BY <2>1 DEF maker, history
    <3>4. /\ task_queue_' \in Seq(Closures)
          /\ \A i \in 1 .. Len(task_queue_') :
               task_queue_'[i] \in Tasks => runnerOf'[task_queue_'[i]] = life'
          /\ vm' \notin {"off", "exited"} /\ vm \notin {"off", "exited"}
          /\ vm' = vm \/ (vm = "asleep" /\ vm' = "test")
      BY <3>1, <3>2, <3>3, PostTaskFacts
    <3> QED
      BY <2>1, <2>2, <3>4
      DEF PlatformInv, Types, Phases, Registration, InFlight, RunsWhereItBelongs,
          NoStaleMarks, platform, runners, scheduler, history, maker
  <2> QED
    BY <2>3, <2>4
<1>8. ASSUME NEW t \in Tasks, NEW at \in {"enqueue", "schedule"}, Post(t, at)
      PROVE PlatformInv'
  <2> DEFINE r == [at |-> at, task |-> t, owner |-> None]
  <2>1. /\ poster' = [poster EXCEPT !["v8"] = r]
        /\ runnerOf[t] = None /\ foreground_runners_ # None
        /\ runnerOf' = [runnerOf EXCEPT ![t] = foreground_runners_]
        /\ UNCHANGED <<mode, maker, platform, runners, scheduler, thread, ranOn>>
    BY <1>8 DEF Post, GetForegroundTaskRunner
  <2>2. /\ runnerOf' \in [Tasks -> 0 .. MaxLives]
        /\ runnerOf'[t] # None
        /\ \A x \in Tasks : runnerOf[x] # None => runnerOf'[x] = runnerOf[x]
    BY <2>1 DEF PlatformInv, Types
  <2>3. r \in Call /\ r.at = at /\ r.task = t
    BY <1>2 DEF Call
  <2> HIDE DEF r
  <2>4. Sound'
    BY <1>1, <2>1, <2>2, <2>3, PosterFacts
  <2>5. Types' /\ Phases' /\ Registration' /\ NoStaleMarks'
    BY <2>1, <2>2, <2>4
    DEF PlatformInv, Types, Phases, Registration, NoStaleMarks,
        platform, runners, scheduler, thread, maker
  <2>6. RunsWhereItBelongs'
    BY <2>1, <2>2 DEF PlatformInv, Types, RunsWhereItBelongs
  <2>7. vm # "off" => life # None
    BY DEF PlatformInv, Phases, None
  <2>8. \A i \in 1 .. Len(task_queue_) :
          task_queue_[i] \in Tasks => runnerOf'[task_queue_[i]] = life
    <3>1. ASSUME NEW i \in 1 .. Len(task_queue_), task_queue_[i] \in Tasks
          PROVE  runnerOf'[task_queue_[i]] = life
      <4>1. task_queue_ # <<>>
        BY <3>1, EmptySeq
      <4>2. life # None
        BY <2>7, <4>1 DEF PlatformInv, Phases
      <4>3. runnerOf[task_queue_[i]] = life
        BY <3>1 DEF PlatformInv, InFlight
      <4> QED
        BY <2>2, <3>1, <4>2, <4>3
    <3> QED
      BY <3>1
  <2>9. InFlight'
    BY <2>1, <2>2, <2>4, <2>7, <2>8 DEF PlatformInv, InFlight, scheduler, thread, maker
  <2> QED
    BY <2>5, <2>6, <2>9 DEF PlatformInv
<1>9. ASSUME NEW t \in Tasks, Due(t) PROVE PlatformInv'
  <2>1. /\ t \in scheduled_task_ids_
        /\ scheduled_task_ids_' = scheduled_task_ids_ \ {t}
        /\ canceled_task_ids_' = canceled_task_ids_ \ {t}
        /\ UNCHANGED <<mode, maker, platform, runners, thread, history>>
    BY <1>9 DEF Due, Drop
  <2>2. Sound'
    <3>1. CASE UNCHANGED poster
      BY <1>1, <2>1, <3>1 DEF history
    <3>2. CASE ~UNCHANGED poster
      <4> DEFINE r == [at |-> "forget", task |-> t, owner |-> None]
      <4>1. poster' = [poster EXCEPT !["timer"] = r]
        BY <1>9, <3>2 DEF Due
      <4>2. r \in Call /\ r.at = "forget" /\ r.task = t
        BY <1>2 DEF Call
      <4>3. runnerOf[t] # None
        BY <2>1 DEF PlatformInv, InFlight
      <4> HIDE DEF r
      <4> QED
        BY <1>1, <2>1, <4>1, <4>2, <4>3, PosterFacts DEF history
    <3> QED
      BY <3>1, <3>2
  <2> QED
    BY <2>1, <2>2
    DEF PlatformInv, Types, Phases, Registration, InFlight, RunsWhereItBelongs,
        NoStaleMarks, platform, runners, thread, history, maker
<1> QED
  BY <1>3, <1>4, <1>5, <1>6, <1>7, <1>8, <1>9
  DEF V8Step, TimerStep, PostTaskImpl, PostDelayedTaskImpl, Posting

(* Every step keeps the invariant. *)
LEMMA StepInv == PlatformInv /\ [Next]_vars => PlatformInv'
<1> SUFFICES ASSUME PlatformInv, [Next]_vars PROVE PlatformInv'
  OBVIOUS
<1>1. CASE CreatorStep \/ RunScript \/ BeginDestroy
  BY <1>1, CreatorKeepsInv
<1>2. CASE DeactivateStep
  BY <1>2, DeactivateKeepsInv
<1>3. CASE VmStep \/ SpuriousWake
  BY <1>3, VmKeepsInv
<1>4. CASE \/ V8Step \/ TimerStep
           \/ \E t \in Tasks : PostTaskImpl(t) \/ PostDelayedTaskImpl(t) \/ Due(t)
  BY <1>4, PosterKeepsInv
<1>5. CASE UNCHANGED vars
  BY <1>5 DEF vars, platform, runners, scheduler, thread, history, maker,
     PlatformInv, Types, Phases, Registration, InFlight, RunsWhereItBelongs,
     NoStaleMarks
<1> QED
  BY <1>1, <1>2, <1>3, <1>4, <1>5 DEF Next, Terminated
-----------------------------------------------------------------------------
(* The invariant holds in every reachable state. *)
LEMMA InvHolds == Spec => []PlatformInv
<1> QED
  BY InitInv, StepInv, PTL DEF Spec

-----------------------------------------------------------------------------
(* The types of every variable.  That no closure is queued twice needs to   *)
(* know where each closure is: RunScript and the destructor wait for the    *)
(* answer before they post another, and a foreground task is with one       *)
(* posting thread, or scheduled, or queued.                                 *)
Shapes ==
  /\ answered \in BOOLEAN
  /\ creator \in {"none", "made", "registered", "starting", "live", "calling",
                  "served", "prelude", "preparing", "prepared", "refusing",
                  "joining", "joined", "unregistering"}
  /\ active_ \in [Lives -> BOOLEAN] /\ delayed_tasks_ \in [Lives -> SUBSET Tasks]
  /\ canceled_task_ids_ \subseteq Tasks
  /\ vm \in {"off", "starting", "test", "asleep", "run", "payload",
             "preparing", "exited"}
  /\ accepting_tasks_ \in BOOLEAN
  /\ deactivating \in [at : {"done", "active", "owner", "swap", "cancel"},
                       runner : 0 .. MaxLives, cancelling : SUBSET Tasks]
  /\ deactivating.at # "done" => deactivating.runner \in Lives
  /\ crash \in {"no", "null_runner", "freed_owner", "moved_task"}

Queued(c) == \E i \in 1 .. Len(task_queue_) : task_queue_[i] = c
Handed(c) == vm \in {"run", "preparing"} /\ closure = c
Holds(p, t) ==
  poster[p].at \in {"enqueue", "post", "schedule", "forget"} /\ poster[p].task = t

Awaited ==
  /\ Queued(Script) \/ Handed(Script) => creator = "calling" /\ ~answered
  /\ Queued(Prelude) \/ Handed(Prelude) => creator = "prelude" /\ ~answered
  /\ \A c \in {Script, Prelude} : ~(Queued(c) /\ Handed(c))
  /\ vm = "preparing" => closure = Prelude
PostedOnce ==
  \A t \in Tasks :
    /\ \A p \in Posting : Holds(p, t) => ~Queued(t) /\ t \notin scheduled_task_ids_
    /\ ~(Holds("v8", t) /\ Holds("timer", t))
    /\ t \in scheduled_task_ids_ => ~Queued(t)
QueuedOnce == IsInjective(task_queue_) /\ Awaited /\ PostedOnce

(* How a queue changes what it holds. *)
LEMMA QueueAppend ==
  ASSUME NEW S, NEW q \in Seq(S), NEW c \in S
  PROVE  LET u == Append(q, c) IN
         /\ \A x : (\E i \in 1 .. Len(u) : u[i] = x)
                     <=> (\E i \in 1 .. Len(q) : q[i] = x) \/ x = c
         /\ IsInjective(q) /\ ~(\E i \in 1 .. Len(q) : q[i] = c) => IsInjective(u)
<1> DEFINE u == Append(q, c)
           n == Len(q) + 1
<1>1. /\ Len(u) = n /\ Len(q) \in Nat /\ u[n] = c
      /\ \A i \in 1 .. Len(q) : u[i] = q[i]
      /\ DOMAIN u = 1 .. Len(u) /\ DOMAIN q = 1 .. Len(q)
  BY AppendProperties, LenProperties
<1> HIDE DEF u, n
<1>2. 1 .. Len(u) = 1 .. Len(q) \cup {n} /\ n \notin 1 .. Len(q)
  BY <1>1 DEF n
<1> QED
  BY <1>1, <1>2 DEF IsInjective, u

LEMMA QueueTail ==
  ASSUME NEW S, NEW q \in Seq(S), q # <<>>
  PROVE  LET u == Tail(q) IN
         /\ \A x : (\E i \in 1 .. Len(q) : q[i] = x)
                     <=> (\E i \in 1 .. Len(u) : u[i] = x) \/ x = Head(q)
         /\ IsInjective(q) =>
              IsInjective(u) /\ ~(\E i \in 1 .. Len(u) : u[i] = Head(q))
<1> DEFINE u == Tail(q)
           h == Head(q)
<1>1. /\ 1 \in 1 .. Len(q) /\ h = q[1] /\ Len(q) \in Nat \ {0}
      /\ \A i \in 1 .. Len(u) : i + 1 \in 1 .. Len(q) /\ u[i] = q[i + 1]
      /\ DOMAIN u = 1 .. Len(u) /\ DOMAIN q = 1 .. Len(q) /\ Len(u) = Len(q) - 1
  BY Taken, HeadTailProperties, EmptySeq, LenProperties
<1> HIDE DEF u, h
<1>2. /\ \A i \in 1 .. Len(u) : i \in Int /\ i + 1 # 1
      /\ \A i \in 1 .. Len(q) : i = 1 \/ (i - 1 \in 1 .. Len(u) /\ (i - 1) + 1 = i)
  BY <1>1
<1>3. \A x : (\E i \in 1 .. Len(q) : q[i] = x) <=> (\E i \in 1 .. Len(u) : u[i] = x) \/ x = h
  <2>1. ASSUME NEW i \in 1 .. Len(q), i # 1 PROVE \E j \in 1 .. Len(u) : u[j] = q[i]
    <3>1. i - 1 \in 1 .. Len(u) /\ u[i - 1] = q[(i - 1) + 1] /\ (i - 1) + 1 = i
      BY <1>1, <1>2, <2>1
    <3> QED
      BY <3>1
  <2> QED
    BY <1>1, <2>1
<1>4. ASSUME IsInjective(q) PROVE IsInjective(u) /\ ~(\E i \in 1 .. Len(u) : u[i] = h)
  <2>1. ASSUME NEW i \in 1 .. Len(u), NEW j \in 1 .. Len(u), u[i] = u[j] PROVE i = j
    <3>1. i + 1 = j + 1
      BY <1>1, <1>4, <2>1 DEF IsInjective
    <3> QED
      BY <1>2, <3>1
  <2>2. ASSUME NEW i \in 1 .. Len(u), u[i] = h PROVE FALSE
    <3>1. i + 1 = 1
      BY <1>1, <1>4, <2>2 DEF IsInjective
    <3> QED
      BY <1>2, <3>1
  <2> QED
    BY <1>1, <2>1, <2>2 DEF IsInjective
<1> QED
  BY <1>3, <1>4 DEF u, h

(* Every step keeps the remaining types. *)
LEMMA ShapesStep == PlatformInv /\ Shapes /\ [Next]_vars => Shapes'
<1> SUFFICES ASSUME PlatformInv, Shapes, [Next]_vars PROVE Shapes'
  OBVIOUS
<1>1. /\ foreground_runners_ \in Lives \cup {None} /\ owner_ \in [Lives -> 0 .. MaxLives]
      /\ creator # "none" => life \in Lives
      /\ scheduled_task_ids_ \subseteq Tasks /\ poster \in [Posting -> Call]
  BY LivesAssumption DEF PlatformInv, Types, Phases, Lives, None
<1>2. Done \in [at : {"done", "active", "owner", "swap", "cancel"},
                runner : 0 .. MaxLives, cancelling : SUBSET Tasks] /\ Done.at = "done"
  BY LivesAssumption DEF Done, None
<1>3. ASSUME Deactivate(foreground_runners_)
      PROVE  /\ deactivating' \in [at : {"done", "active", "owner", "swap", "cancel"},
                                   runner : 0 .. MaxLives, cancelling : SUBSET Tasks]
             /\ deactivating'.at # "done" => deactivating'.runner \in Lives
  BY <1>1, <1>2, <1>3, LivesAssumption DEF Deactivate, Lives, None
<1>4. CASE CreatorStep \/ RunScript \/ BeginDestroy
  <2> USE DEF platform, runners, scheduler, thread, history, maker, Shapes
  <2>1. CASE RegisterIsolate
    <3> DEFINE r == IF foreground_runners_ = None THEN life ELSE foreground_runners_
    <3>1. active_' = [active_ EXCEPT ![r] = TRUE] /\ creator' = "registered"
          /\ UNCHANGED <<answered, delayed_tasks_, scheduler, thread, deactivating, crash>>
      BY <2>1 DEF RegisterIsolate
    <3> HIDE DEF r
    <3> QED
      BY <3>1
  <2>2. CASE NewIsolate \/ StartVmThread \/ AwaitReady \/ RunScriptReturns \/ Prepared
    <3>1. CASE NewIsolate
      BY <3>1 DEF NewIsolate
    <3>2. CASE StartVmThread
      BY <3>2 DEF StartVmThread
    <3>3. CASE AwaitReady
      BY <3>3 DEF AwaitReady
    <3>4. CASE RunScriptReturns
      BY <3>4 DEF RunScriptReturns
    <3>5. CASE Prepared
      BY <3>5 DEF Prepared
    <3> QED
      BY <2>2, <3>1, <3>2, <3>3, <3>4, <3>5
  <2>3. CASE RunScript
    BY <2>3 DEF RunScript, PostTask, Notify
  <2>4. CASE BeginDestroy
    <3>1. /\ creator' \in {"prelude", "preparing", "prepared"} /\ answered' \in BOOLEAN
          /\ vm' \in {vm, "test"}
          /\ UNCHANGED deactivating \/ Deactivate(foreground_runners_)
          /\ UNCHANGED <<runners, scheduler, accepting_tasks_, crash>>
      BY <2>4 DEF BeginDestroy, PostTask, Notify, PrepareIsolateForShutdown
    <3> QED
      BY <1>3, <3>1
  <2>5. CASE RefuseTasks \/ StopVmThread
    BY <2>5 DEF RefuseTasks, StopVmThread, Notify
  <2>6. CASE JoinVmThread
    <3>1. UNCHANGED deactivating \/ Deactivate(foreground_runners_)
      BY <2>6 DEF JoinVmThread, PrepareIsolateForShutdown
    <3>2. creator' = "joined"
          /\ UNCHANGED <<answered, runners, scheduler, vm, accepting_tasks_, crash>>
      BY <2>6 DEF JoinVmThread
    <3> QED
      BY <1>3, <3>1, <3>2
  <2>7. CASE UnregisterIsolate
    <3>1. creator' = "unregistering" /\ Deactivate(foreground_runners_)
          /\ UNCHANGED <<answered, runners, scheduler, vm, accepting_tasks_, crash>>
      BY <2>7 DEF UnregisterIsolate
    <3> QED
      BY <1>3, <3>1
  <2>8. CASE Dispose
    BY <2>8 DEF Dispose
  <2> QED
    BY <1>4, <2>1, <2>2, <2>3, <2>4, <2>5, <2>6, <2>7, <2>8 DEF CreatorStep
<1>5. CASE DeactivateStep
  <2> USE DEF platform, runners, scheduler, thread, history, maker, Shapes
  <2>1. CASE DeactivateFlag
    BY <2>1 DEF DeactivateFlag
  <2>2. CASE DeactivateOwner
    BY <2>2 DEF DeactivateOwner
  <2>3. CASE DeactivateSwap
    <3>1. deactivating.runner \in Lives /\ delayed_tasks_[deactivating.runner] \subseteq Tasks
      BY <2>3 DEF DeactivateSwap
    <3>2. delayed_tasks_' \in [Lives -> SUBSET Tasks]
      BY <2>3 DEF DeactivateSwap
    <3>3. /\ deactivating' \in [at : {"done", "active", "owner", "swap", "cancel"},
                                runner : 0 .. MaxLives, cancelling : SUBSET Tasks]
          /\ deactivating'.runner = deactivating.runner
      BY <2>3, <3>1 DEF DeactivateSwap
    <3> QED
      BY <2>3, <3>1, <3>2, <3>3 DEF DeactivateSwap
  <2>4. CASE DeactivateCancel
    BY <1>1, <1>2, <2>4 DEF DeactivateCancel, Cancel
  <2> QED
    BY <1>5, <2>1, <2>2, <2>3, <2>4 DEF DeactivateStep
<1>6. CASE VmStep \/ SpuriousWake
  <2> USE DEF platform, runners, scheduler, history, maker, Shapes
  <2>1. CASE VmRunPrelude
    BY <1>3, <2>1 DEF VmRunPrelude, PrepareIsolateForShutdown
  <2>2. CASE VmStep /\ ~VmRunPrelude
    <3>1. CASE VmReady \/ VmTest
      BY <3>1 DEF VmReady, VmTest
    <3>2. CASE VmRunScript
      BY <3>2 DEF VmRunScript
    <3>3. CASE VmPreludeDone
      BY <3>3 DEF VmPreludeDone
    <3>4. CASE VmCheckActive
      BY <3>4 DEF VmCheckActive
    <3>5. CASE VmRunTask
      BY <3>5 DEF VmRunTask
    <3> QED
      BY <2>2, <3>1, <3>2, <3>3, <3>4, <3>5 DEF VmStep
  <2>3. CASE SpuriousWake
    BY <2>3 DEF SpuriousWake
  <2> QED
    BY <1>6, <2>1, <2>2, <2>3
<1>7. CASE V8Step \/ TimerStep
  <2>1. delayed_tasks_' \in [Lives -> SUBSET Tasks]
    <3>1. CASE RecordDelayedTask
      <4>1. poster["v8"].task \in Tasks
        BY <3>1 DEF RecordDelayedTask, PlatformInv, InFlight, Posting
      <4> QED
        BY <3>1, <4>1 DEF RecordDelayedTask, Shapes
    <3>2. CASE ForgetDelayedTask
      BY <3>2 DEF ForgetDelayedTask, Shapes
    <3>3. CASE ~RecordDelayedTask /\ ~ForgetDelayedTask
      BY <1>7, <3>3 DEF V8Step, TimerStep, ScheduleDelayedTask, ReadOwner, PostToOwner,
         runners, Shapes
    <3> QED
      BY <3>1, <3>2, <3>3
  <2>2. /\ UNCHANGED <<active_, canceled_task_ids_, creator, answered, accepting_tasks_,
                       deactivating>>
        /\ vm' \in {vm, "test"}
        /\ crash' \in {crash, "freed_owner", "moved_task"}
    BY <1>7 DEF V8Step, TimerStep, ScheduleDelayedTask, RecordDelayedTask,
       ForgetDelayedTask, ReadOwner, PostToOwner, PostTask, Notify, runners, scheduler,
       thread, maker
  <2> QED
    BY <2>1, <2>2 DEF Shapes
<1>8. CASE \E t \in Tasks : PostTaskImpl(t) \/ PostDelayedTaskImpl(t) \/ Due(t)
  BY <1>8 DEF PostTaskImpl, PostDelayedTaskImpl, Post, Due, runners, scheduler, thread,
     maker, Shapes
<1>9. CASE UNCHANGED vars
  BY <1>9 DEF vars, runners, scheduler, thread, maker, Shapes
<1> QED
  BY <1>4, <1>5, <1>6, <1>7, <1>8, <1>9 DEF Next, Terminated

(* A step that gives nobody a closure keeps what is said of the closures   *)
(* the creator waits for.                                                  *)
LEMMA StillAwaited ==
  ASSUME Awaited,
         \A c \in {Script, Prelude} : (Queued(c)' => Queued(c)) /\ (Handed(c)' => Handed(c)),
         vm' = "preparing" => closure' = Prelude,
         creator = "calling" /\ ~answered => creator' = "calling" /\ ~answered',
         creator = "prelude" /\ ~answered => creator' = "prelude" /\ ~answered'
  PROVE  Awaited'
<1>1. Script \in {Script, Prelude} /\ Prelude \in {Script, Prelude}
  OBVIOUS
<1>2. Queued(Script)' \/ Handed(Script)' => creator' = "calling" /\ ~answered'
  BY <1>1 DEF Awaited
<1>3. Queued(Prelude)' \/ Handed(Prelude)' => creator' = "prelude" /\ ~answered'
  BY <1>1 DEF Awaited
<1>4. \A c \in {Script, Prelude} : ~(Queued(c)' /\ Handed(c)')
  BY DEF Awaited
<1> QED
  BY <1>2, <1>3, <1>4 DEF Awaited

(* A step that posts no task and queues none. *)
LEMMA StillPostedOnce ==
  ASSUME PostedOnce, UNCHANGED <<poster, scheduled_task_ids_>>,
         \A t \in Tasks : Queued(t)' => Queued(t)
  PROVE  PostedOnce'
<1>1. \A p \in Posting, t \in Tasks : Holds(p, t)' <=> Holds(p, t)
  BY DEF Holds
<1>3. "v8" \in Posting /\ "timer" \in Posting
  BY DEF Posting
<1> QED
  BY <1>1, <1>3 DEF PostedOnce

LEMMA QueueSame ==
  ASSUME UNCHANGED task_queue_
  PROVE  /\ \A c : Queued(c)' <=> Queued(c)
         /\ IsInjective(task_queue_) => IsInjective(task_queue_')
BY DEF Queued

(* PostTask queues a closure that was not queued. *)
LEMMA QueueOnceMore ==
  ASSUME PlatformInv, NEW c \in Closures, PostTask(c), ~Queued(c), IsInjective(task_queue_)
  PROVE  /\ IsInjective(task_queue_')
         /\ \A x : Queued(x)' <=> Queued(x) \/ x = c
<1> DEFINE q == task_queue_
           u == Append(q, c)
<1>1. q \in Seq(Closures) /\ task_queue_' = u
  BY DEF PlatformInv, Types, PostTask
<1>2. ~(\E i \in 1 .. Len(q) : q[i] = c)
  BY DEF Queued
<1> HIDE DEF q
<1>3. /\ \A x : (\E i \in 1 .. Len(u) : u[i] = x)
                  <=> (\E i \in 1 .. Len(q) : q[i] = x) \/ x = c
      /\ IsInjective(q) /\ ~(\E i \in 1 .. Len(q) : q[i] = c) => IsInjective(u)
  BY <1>1, QueueAppend
<1> HIDE DEF u
<1>4. IsInjective(u)
  BY <1>2, <1>3 DEF q
<1>5. \A x : Queued(x) <=> \E i \in 1 .. Len(q) : q[i] = x
  BY DEF Queued, q
<1>6. \A x : Queued(x)' <=> \E i \in 1 .. Len(u) : u[i] = x
  BY <1>1 DEF Queued
<1> QED
  BY <1>1, <1>3, <1>4, <1>5, <1>6

(* The steps of the creator keep the queue free of repetitions. *)
LEMMA CreatorQueuesOnce ==
  ASSUME PlatformInv, QueuedOnce, CreatorStep \/ RunScript \/ BeginDestroy
  PROVE  QueuedOnce'
<1>1. IsInjective(task_queue_) /\ Awaited /\ PostedOnce
  BY DEF QueuedOnce
<1>2. Script \in Closures \ Tasks /\ Prelude \in Closures \ Tasks /\ Script # Prelude
  BY ClosuresAssumption DEF Closures, Script, Prelude
<1>3. UNCHANGED <<poster, scheduled_task_ids_>>
  BY DEF CreatorStep, NewIsolate, RegisterIsolate, StartVmThread, AwaitReady,
     RunScriptReturns, Prepared, RefuseTasks, StopVmThread, JoinVmThread,
     UnregisterIsolate, Dispose, RunScript, BeginDestroy, scheduler
<1>4. ASSUME NEW c \in {Script, Prelude}, NEW to \in {"calling", "prelude"},
             PostTask(c), creator \notin {"calling", "prelude"}, UNCHANGED closure,
             creator' = to, to = "calling" <=> c = Script, ~answered'
      PROVE  QueuedOnce'
  <2>1. \A x \in {Script, Prelude} : ~Queued(x) /\ ~Handed(x)
    BY <1>1, <1>4 DEF Awaited
  <2>2. IsInjective(task_queue_') /\ \A x : Queued(x)' <=> Queued(x) \/ x = c
    BY <1>1, <1>2, <1>4, <2>1, QueueOnceMore
  <2>3. \A x : Handed(x)' => Handed(x)
    BY <1>4 DEF Handed, PostTask, Notify
  <2>4. vm' = "preparing" => closure' = Prelude
    BY <1>1, <1>4 DEF Awaited, PostTask, Notify
  <2>5. Awaited'
    <3>1. Queued(Script)' \/ Handed(Script)' => creator' = "calling" /\ ~answered'
      BY <1>2, <1>4, <2>1, <2>2, <2>3
    <3>2. Queued(Prelude)' \/ Handed(Prelude)' => creator' = "prelude" /\ ~answered'
      BY <1>2, <1>4, <2>1, <2>2, <2>3
    <3>3. \A x \in {Script, Prelude} : ~(Queued(x)' /\ Handed(x)')
      BY <2>1, <2>3
    <3> QED
      BY <2>4, <3>1, <3>2, <3>3 DEF Awaited
  <2>6. PostedOnce'
    BY <1>1, <1>2, <1>3, <1>4, <2>2, StillPostedOnce
  <2> QED
    BY <2>2, <2>5, <2>6 DEF QueuedOnce
<1>5. CASE RunScript
  BY <1>4, <1>5 DEF RunScript
<1>6. CASE BeginDestroy /\ mode = "on"
  <2>1. PostTask(Prelude) /\ creator' = "prelude" /\ ~answered' /\ UNCHANGED closure
        /\ creator \notin {"calling", "prelude"}
    BY <1>6 DEF BeginDestroy
  <2> QED
    BY <1>2, <1>4, <2>1
<1>7. CASE CreatorStep \/ (BeginDestroy /\ mode # "on")
  <2>1. UNCHANGED <<task_queue_, closure>>
    BY <1>7 DEF CreatorStep, NewIsolate, RegisterIsolate, StartVmThread, AwaitReady,
       RunScriptReturns, Prepared, RefuseTasks, StopVmThread, JoinVmThread,
       UnregisterIsolate, Dispose, BeginDestroy, thread
  <2>2. vm' = vm \/ vm' \notin {"run", "preparing"}
    BY <1>7 DEF CreatorStep, NewIsolate, RegisterIsolate, StartVmThread, AwaitReady,
       RunScriptReturns, Prepared, RefuseTasks, StopVmThread, JoinVmThread,
       UnregisterIsolate, Dispose, BeginDestroy, thread, Notify
  <2>3. \/ creator \notin {"calling", "prelude"}
        \/ answered
    BY <1>7 DEF CreatorStep, NewIsolate, RegisterIsolate, StartVmThread, AwaitReady,
       RunScriptReturns, Prepared, RefuseTasks, StopVmThread, JoinVmThread,
       UnregisterIsolate, Dispose, BeginDestroy
  <2>4. \A x : Handed(x)' => Handed(x)
    BY <2>1, <2>2 DEF Handed
  <2>5. vm' = "preparing" => closure' = Prelude
    BY <1>1, <2>1, <2>2 DEF Awaited
  <2>6. IsInjective(task_queue_') /\ \A x : Queued(x)' <=> Queued(x)
    BY <1>1, <2>1, QueueSame
  <2>7. Awaited'
    BY <1>1, <2>3, <2>4, <2>5, <2>6, StillAwaited
  <2>8. PostedOnce'
    BY <1>1, <1>3, <2>6, StillPostedOnce
  <2> QED
    BY <2>6, <2>7, <2>8 DEF QueuedOnce
<1> QED
  BY <1>5, <1>6, <1>7

(* The steps of the VM thread keep the queue free of repetitions. *)
LEMMA VmQueuesOnce ==
  ASSUME PlatformInv, QueuedOnce, VmStep \/ SpuriousWake PROVE QueuedOnce'
<1>1. IsInjective(task_queue_) /\ Awaited /\ PostedOnce
  BY DEF QueuedOnce
<1>2. UNCHANGED <<poster, scheduled_task_ids_, creator>>
  BY DEF VmStep, VmReady, VmTest, VmRunScript, VmRunPrelude, VmPreludeDone,
     VmCheckActive, VmRunTask, SpuriousWake, scheduler, maker
<1>3. Script \notin Tasks /\ Prelude \notin Tasks /\ Nothing \notin {Script, Prelude}
      /\ Script # Prelude
  BY ClosuresAssumption DEF Script, Prelude, Nothing
<1>4. CASE task_queue_' # task_queue_
  <2> DEFINE q == task_queue_
             u == Tail(q)
             h == Head(q)
  <2>1. /\ q # <<>> /\ task_queue_' = u /\ closure' = h /\ vm = "test" /\ vm' = "run"
        /\ UNCHANGED answered
    BY <1>4 DEF VmStep, VmReady, VmTest, VmRunScript, VmRunPrelude, VmPreludeDone,
       VmCheckActive, VmRunTask, SpuriousWake, maker
  <2>2. q \in Seq(Closures)
    BY DEF PlatformInv, Types
  <2>3. \A x : Queued(x) <=> \E i \in 1 .. Len(q) : q[i] = x
    BY DEF Queued
  <2>4. IsInjective(q)
    BY <1>1
  <2> HIDE DEF q
  <2>5. /\ \A x : (\E i \in 1 .. Len(q) : q[i] = x)
                    <=> (\E i \in 1 .. Len(u) : u[i] = x) \/ x = h
        /\ IsInjective(q) =>
             IsInjective(u) /\ ~(\E i \in 1 .. Len(u) : u[i] = h)
    BY <2>1, <2>2, QueueTail
  <2> HIDE DEF u, h
  <2>6. \A x : Queued(x)' <=> \E i \in 1 .. Len(u) : u[i] = x
    BY <2>1 DEF Queued
  <2>7. \A x : Queued(x) <=> Queued(x)' \/ x = h
    BY <2>3, <2>5, <2>6
  <2>8. IsInjective(u) /\ \A x : x = h => ~Queued(x)'
    BY <2>4, <2>5, <2>6
  <2>9. \A x : Handed(x)' <=> x = h
    BY <2>1 DEF Handed
  <2>10. Awaited'
    <3>1. Queued(Script)' \/ Handed(Script)' => creator' = "calling" /\ ~answered'
      BY <1>1, <1>2, <2>1, <2>7, <2>9 DEF Awaited
    <3>2. Queued(Prelude)' \/ Handed(Prelude)' => creator' = "prelude" /\ ~answered'
      BY <1>1, <1>2, <2>1, <2>7, <2>9 DEF Awaited
    <3>3. \A x \in {Script, Prelude} : ~(Queued(x)' /\ Handed(x)')
      BY <2>8, <2>9
    <3> QED
      BY <2>1, <3>1, <3>2, <3>3 DEF Awaited
  <2>11. PostedOnce'
    BY <1>1, <1>2, <2>7, StillPostedOnce
  <2> QED
    BY <2>1, <2>8, <2>10, <2>11 DEF QueuedOnce
<1>5. CASE task_queue_' = task_queue_
  <2>1. IsInjective(task_queue_') /\ \A x : Queued(x)' <=> Queued(x)
    BY <1>1, <1>5, QueueSame
  <2>0. task_queue_ # <<>> => Tail(task_queue_) # task_queue_
    <3>1. task_queue_ \in Seq(Closures)
      BY DEF PlatformInv, Types
    <3> QED
      BY <3>1, HeadTailProperties, EmptySeq, LenProperties
  <2>2. \A x \in {Script, Prelude} : Handed(x)' => Handed(x)
    <3>1. \/ VmTest /\ vm' # "run" /\ vm' # "preparing"
          \/ vm = "run" /\ vm' = "preparing" /\ UNCHANGED closure
          \/ vm' \in {"test", "payload"}
      BY <1>5, <2>0 DEF VmStep, VmReady, VmTest, VmRunScript, VmRunPrelude, VmPreludeDone,
         VmCheckActive, VmRunTask, SpuriousWake
    <3> QED
      BY <3>1 DEF Handed
  <2>3. vm' = "preparing" => closure' = Prelude
    BY DEF VmStep, VmReady, VmTest, VmRunScript, VmRunPrelude, VmPreludeDone,
       VmCheckActive, VmRunTask, SpuriousWake
  <2>4. PostedOnce'
    BY <1>1, <1>2, <2>1, StillPostedOnce
  <2>5. Awaited'
    <3>1. CASE UNCHANGED answered
      BY <1>1, <1>2, <2>1, <2>2, <2>3, <3>1, StillAwaited
    <3>2. CASE VmRunScript \/ VmPreludeDone
      <4>1. vm' = "test" /\ closure \in {Script, Prelude} /\ Handed(closure)
        BY <1>1, <3>2 DEF VmRunScript, VmPreludeDone, Awaited, Handed
      <4>2. \A x \in {Script, Prelude} : ~Queued(x)
        BY <1>1, <4>1 DEF Awaited
      <4>3. \A x \in {Script, Prelude} : ~Queued(x)' /\ ~Handed(x)'
        BY <2>1, <4>1, <4>2 DEF Handed
      <4> QED
        BY <2>3, <4>3 DEF Awaited
    <3> QED
      BY <3>1, <3>2 DEF VmStep, VmReady, VmTest, VmRunPrelude, VmCheckActive, VmRunTask,
         SpuriousWake, maker
  <2> QED
    BY <2>1, <2>4, <2>5 DEF QueuedOnce
<1> QED
  BY <1>4, <1>5

(* The steps of the posting threads keep the queue free of repetitions: a  *)
(* task is with one of them, or scheduled, or queued.                      *)
LEMMA PosterQueuesOnce ==
  ASSUME PlatformInv, QueuedOnce,
         \/ V8Step \/ TimerStep
         \/ \E t \in Tasks : PostTaskImpl(t) \/ PostDelayedTaskImpl(t) \/ Due(t)
  PROVE  QueuedOnce'
<1>1. IsInjective(task_queue_) /\ Awaited /\ PostedOnce
  BY DEF QueuedOnce
<1>2. poster \in [Posting -> Call] /\ "v8" \in Posting /\ "timer" \in Posting
      /\ Posting = {"v8", "timer"}
  BY DEF PlatformInv, Types, Posting
<1>3. UNCHANGED <<creator, answered, closure>> /\ (vm' = vm \/ (vm = "asleep" /\ vm' = "test"))
  BY DEF V8Step, TimerStep, PostTaskImpl, PostDelayedTaskImpl, Post, Due,
     ScheduleDelayedTask, RecordDelayedTask, ForgetDelayedTask, ReadOwner, PostToOwner,
     PostTask, Notify, maker, thread
<1>4. /\ \A x : Handed(x)' => Handed(x)
      /\ vm' = "preparing" => closure' = Prelude
  BY <1>1, <1>3 DEF Handed, Awaited
<1>5. ASSUME \A c \in {Script, Prelude} : Queued(c)' => Queued(c) PROVE Awaited'
  BY <1>1, <1>3, <1>4, <1>5, StillAwaited
<1>6. ASSUME NEW p \in Posting, poster[p].at # "idle"
      PROVE  poster[p].task \in Tasks
  BY <1>6 DEF PlatformInv, InFlight
<1>7. ASSUME UNCHANGED task_queue_, PostedOnce' PROVE QueuedOnce'
  BY <1>1, <1>5, <1>7, QueueSame DEF QueuedOnce
<1>8. ASSUME UNCHANGED task_queue_ PROVE \A x : Queued(x)' <=> Queued(x)
  BY <1>8, QueueSame
<1>9. CASE ScheduleDelayedTask
  <2>1. /\ UNCHANGED task_queue_ /\ poster["v8"].at = "schedule"
        /\ scheduled_task_ids_' = scheduled_task_ids_ \cup {poster["v8"].task}
        /\ poster'["v8"].at = "record" /\ poster'["timer"] = poster["timer"]
    BY <1>2, <1>9 DEF ScheduleDelayedTask, thread
  <2>2. Holds("v8", poster["v8"].task) /\ poster["v8"].task \in Tasks
    BY <1>2, <1>6, <2>1 DEF Holds
  <2>3. ~Queued(poster["v8"].task) /\ ~Holds("timer", poster["v8"].task)
    BY <1>1, <1>2, <2>2 DEF PostedOnce
  <2>4. \A x : ~Holds("v8", x)' /\ (Holds("timer", x)' <=> Holds("timer", x))
    BY <2>1 DEF Holds
  <2>5. \A x : Queued(x)' <=> Queued(x)
    BY <1>8, <2>1
  <2> DEFINE k == poster["v8"].task
  <2>6. \A x : x \in scheduled_task_ids_' <=> x \in scheduled_task_ids_ \/ x = k
    BY <2>1
  <2>7. ~Queued(k) /\ ~Holds("timer", k)
    BY <2>3
  <2> HIDE DEF k
  <2>8. PostedOnce'
    <3>1. ASSUME NEW t \in Tasks, Holds("timer", t)
          PROVE  ~Queued(t)' /\ t \notin scheduled_task_ids_'
      BY <1>1, <1>2, <2>5, <2>6, <2>7, <3>1 DEF PostedOnce
    <3>2. ASSUME NEW t \in Tasks, t \in scheduled_task_ids_' PROVE ~Queued(t)'
      BY <1>1, <2>5, <2>6, <2>7, <3>2 DEF PostedOnce
    <3> QED
      BY <1>2, <2>4, <3>1, <3>2 DEF PostedOnce
  <2> QED
    BY <1>7, <2>1, <2>8
<1>10. ASSUME UNCHANGED <<task_queue_, scheduled_task_ids_>>,
              \A q \in Posting, x \in Tasks : Holds(q, x)' => Holds(q, x)
       PROVE  QueuedOnce'
  <2>1. \A x : Queued(x)' <=> Queued(x)
    BY <1>8, <1>10
  <2>2. PostedOnce'
    BY <1>1, <1>2, <1>10, <2>1 DEF PostedOnce
  <2> QED
    BY <1>7, <1>10, <2>2
<1>11. CASE RecordDelayedTask
  BY <1>2, <1>10, <1>11 DEF RecordDelayedTask, Holds, Idle, thread, scheduler
<1>12. CASE ForgetDelayedTask
  <2>1. /\ poster["timer"].at = "forget" /\ poster'["timer"].at = "enqueue"
        /\ poster'["timer"].task = poster["timer"].task /\ poster'["v8"] = poster["v8"]
        /\ UNCHANGED <<task_queue_, scheduled_task_ids_>>
    BY <1>2, <1>12 DEF ForgetDelayedTask, thread, scheduler, Call
  <2> QED
    BY <1>2, <1>10, <2>1 DEF Holds
<1>13. ASSUME NEW p \in Posting, ReadOwner(p) PROVE QueuedOnce'
  <2>1. /\ poster[p].at = "enqueue" /\ UNCHANGED <<task_queue_, scheduled_task_ids_>>
        /\ \A q \in Posting \ {p} : poster'[q] = poster[q]
        /\ \/ poster'[p].at = "idle"
           \/ poster'[p].task = poster[p].task
    BY <1>2, <1>13 DEF ReadOwner, thread, scheduler, Idle, Call
  <2> QED
    BY <1>10, <2>1 DEF Holds
<1>14. ASSUME NEW p \in Posting, PostToOwner(p) PROVE QueuedOnce'
  <2> DEFINE k == poster[p].task
  <2>1. /\ poster[p].at = "post" /\ UNCHANGED scheduled_task_ids_
        /\ poster'[p].at = "idle" /\ \A q \in Posting \ {p} : poster'[q] = poster[q]
    BY <1>2, <1>14 DEF PostToOwner, scheduler, Idle
  <2>2. \A q \in Posting : \A x : Holds(q, x)' => Holds(q, x) /\ q # p
    BY <2>1 DEF Holds
  <2>3. CASE UNCHANGED task_queue_
    BY <1>10, <2>1, <2>2, <2>3
  <2>4. CASE PostTask(k)
    <3>1. k \in Tasks /\ Holds(p, k)
      BY <1>6, <2>1 DEF Holds
    <3>2. k \in Closures /\ k \notin {Script, Prelude} /\ ~Queued(k)
          /\ k \notin scheduled_task_ids_
      BY <1>1, <3>1, ClosuresAssumption DEF PostedOnce, Closures
    <3>3. \A q \in Posting : q # p => ~Holds(q, k)
      BY <1>1, <1>2, <3>1 DEF PostedOnce
    <3> HIDE DEF k
    <3>4. IsInjective(task_queue_') /\ \A x : Queued(x)' <=> Queued(x) \/ x = k
      BY <1>1, <2>4, <3>2, QueueOnceMore
    <3>5. Awaited'
      BY <1>5, <3>2, <3>4
    <3>6. PostedOnce'
      <4>1. ASSUME NEW t \in Tasks, NEW q \in Posting, Holds(q, t)'
            PROVE  ~Queued(t)' /\ t \notin scheduled_task_ids_'
        <5>1. Holds(q, t) /\ t # k
          BY <2>2, <3>3, <4>1
        <5> QED
          BY <1>1, <2>1, <3>4, <5>1 DEF PostedOnce
      <4>2. ASSUME NEW t \in Tasks PROVE ~(Holds("v8", t)' /\ Holds("timer", t)')
        BY <1>1, <1>2, <2>2 DEF PostedOnce
      <4>3. ASSUME NEW t \in Tasks, t \in scheduled_task_ids_' PROVE ~Queued(t)'
        BY <1>1, <2>1, <3>2, <3>4, <4>3 DEF PostedOnce
      <4> QED
        BY <4>1, <4>2, <4>3 DEF PostedOnce
    <3> QED
      BY <3>4, <3>5, <3>6 DEF QueuedOnce
  <2> QED
    BY <1>14, <2>3, <2>4 DEF PostToOwner
<1>15. ASSUME NEW t \in Tasks, NEW at \in {"enqueue", "schedule"}, Post(t, at)
       PROVE  QueuedOnce'
  <2>1. /\ poster["v8"].at = "idle" /\ runnerOf[t] = None
        /\ UNCHANGED <<task_queue_, scheduled_task_ids_>>
        /\ poster'["v8"].task = t /\ poster'["timer"] = poster["timer"]
    BY <1>2, <1>15 DEF Post, Idle, thread, scheduler
  <2>2. t \notin scheduled_task_ids_ /\ ~Holds("timer", t)
    BY <1>2, <2>1 DEF PlatformInv, InFlight, Holds
  <2>3. ~Queued(t)
    <3>1. ASSUME NEW i \in 1 .. Len(task_queue_), task_queue_[i] = t PROVE FALSE
      <4>1. task_queue_ # <<>>
        BY EmptySeq
      <4>2. life # None
        BY <4>1 DEF PlatformInv, Phases, None
      <4> QED
        BY <2>1, <3>1, <4>2 DEF PlatformInv, InFlight
    <3> QED
      BY <3>1 DEF Queued
  <2>4. \A x : (Holds("v8", x)' => x = t) /\ (Holds("timer", x)' <=> Holds("timer", x))
    BY <2>1 DEF Holds
  <2>5. \A x : Queued(x)' <=> Queued(x)
    BY <1>8, <2>1
  <2>6. PostedOnce'
    BY <1>1, <1>2, <2>1, <2>2, <2>3, <2>4, <2>5 DEF PostedOnce
  <2> QED
    BY <1>7, <2>1, <2>6
<1>16. ASSUME NEW t \in Tasks, Due(t) PROVE QueuedOnce'
  <2>1. /\ t \in scheduled_task_ids_ /\ scheduled_task_ids_' = scheduled_task_ids_ \ {t}
        /\ UNCHANGED task_queue_ /\ poster'["v8"] = poster["v8"]
        /\ poster'["timer"] = poster["timer"] \/ poster'["timer"].task = t
    BY <1>2, <1>16 DEF Due, Drop, thread
  <2>2. ~Queued(t) /\ \A q \in Posting : ~Holds(q, t)
    BY <1>1, <2>1 DEF PostedOnce
  <2>3. \A x : /\ Holds("v8", x)' <=> Holds("v8", x)
               /\ Holds("timer", x)' => x = t \/ Holds("timer", x)
    BY <2>1 DEF Holds
  <2>4. \A x : Queued(x)' <=> Queued(x)
    BY <1>8, <2>1
  <2>5. PostedOnce'
    BY <1>1, <1>2, <2>1, <2>2, <2>3, <2>4 DEF PostedOnce
  <2> QED
    BY <1>7, <2>1, <2>5
<1> QED
  BY <1>2, <1>9, <1>11, <1>12, <1>13, <1>14, <1>15, <1>16
  DEF V8Step, TimerStep, PostTaskImpl, PostDelayedTaskImpl

(* Every step keeps the queue free of repetitions. *)
LEMMA QueuedOnceStep == PlatformInv /\ QueuedOnce /\ [Next]_vars => QueuedOnce'
<1> SUFFICES ASSUME PlatformInv, QueuedOnce, [Next]_vars PROVE QueuedOnce'
  OBVIOUS
<1>1. CASE CreatorStep \/ RunScript \/ BeginDestroy
  BY <1>1, CreatorQueuesOnce
<1>2. CASE VmStep \/ SpuriousWake
  BY <1>2, VmQueuesOnce
<1>3. CASE \/ V8Step \/ TimerStep
           \/ \E t \in Tasks : PostTaskImpl(t) \/ PostDelayedTaskImpl(t) \/ Due(t)
  BY <1>3, PosterQueuesOnce
<1>4. CASE DeactivateStep \/ UNCHANGED vars
  <2>1. UNCHANGED <<task_queue_, vm, closure, creator, answered, poster,
                    scheduled_task_ids_>>
    BY <1>4 DEF DeactivateStep, DeactivateFlag, DeactivateOwner, DeactivateSwap,
       DeactivateCancel, Cancel, vars, thread, maker, scheduler
  <2> QED
    BY <2>1 DEF QueuedOnce, Awaited, PostedOnce, Queued, Handed, Holds
<1> QED
  BY <1>1, <1>2, <1>3, <1>4 DEF Next, Terminated

(* Every variable has its type, for any number of tasks and lives, and a   *)
(* closure is in the queue at most once: PostTask never queues a task a    *)
(* second time, whichever threads race to post it (RunScript, ~VmInstance, *)
(* EnqueueTask, ScheduleDelayedTask, the scheduler's thread).              *)
THEOREM TypeCorrect == Spec => []TypeOK
<1>1. Init => Shapes
  <2> SUFFICES ASSUME Init PROVE Shapes
    OBVIOUS
  <2>1. 0 \in 0 .. MaxLives
    BY LivesAssumption
  <2>2. deactivating \in [at : {"done", "active", "owner", "swap", "cancel"},
                         runner : 0 .. MaxLives, cancelling : SUBSET Tasks]
        /\ deactivating.at = "done"
    BY <2>1 DEF Init, Done, None
  <2>3. active_ \in [Lives -> BOOLEAN] /\ delayed_tasks_ \in [Lives -> SUBSET Tasks]
    BY DEF Init
  <2> QED
    BY <2>2, <2>3 DEF Init, Shapes
<1>2. Init => QueuedOnce
  <2> SUFFICES ASSUME Init PROVE QueuedOnce
    OBVIOUS
  <2>1. Len(task_queue_) = 0 /\ DOMAIN task_queue_ = {}
    BY EmptySeq DEF Init
  <2>2. \A x : ~Queued(x)
    BY <2>1 DEF Queued
  <2>3. IsInjective(task_queue_)
    BY <2>1 DEF IsInjective
  <2>4. (\A x : ~Handed(x)) /\ (\A p \in Posting : \A t : ~Holds(p, t)) /\ vm # "preparing"
        /\ scheduled_task_ids_ = {}
    BY DEF Init, Handed, Holds, Idle
  <2> QED
    BY <2>2, <2>3, <2>4 DEF QueuedOnce, Awaited, PostedOnce, Posting
<1>3. PlatformInv /\ Shapes /\ QueuedOnce => TypeOK
  <2> SUFFICES ASSUME PlatformInv, Shapes, QueuedOnce PROVE TypeOK
    OBVIOUS
  <2>1. /\ deactivating.at \in {"done", "active", "owner", "swap", "cancel"}
        /\ deactivating.runner \in 0 .. MaxLives
        /\ deactivating.cancelling \subseteq Tasks
    BY DEF Shapes
  <2>2. \A p \in Posting :
          /\ poster[p].at \in {"idle", "enqueue", "post", "schedule", "record", "forget"}
          /\ poster[p].task \in Tasks \cup {None}
          /\ poster[p].owner \in 0 .. MaxLives
    BY DEF PlatformInv, Types, Call
  <2> QED
    BY <2>1, <2>2 DEF TypeOK, PlatformInv, Types, Shapes, QueuedOnce
<1> QED
  BY <1>1, <1>2, <1>3, InvHolds, ShapesStep, QueuedOnceStep, PTL DEF Spec
(* A foreground task runs on the VmInstance whose runner took it, however  *)
(* posts, timers and the destructor interleave and whichever lives share   *)
(* the address (LeapPlatform, LeapForegroundTaskRunner).                   *)
THEOREM RunsOnItsOwnVm == Spec => []RunsWhereItBelongs
<1>1. PlatformInv => RunsWhereItBelongs
  BY DEF PlatformInv
<1> QED
  BY <1>1, InvHolds, PTL

(* No isolate is made at an address that is still marked for shutdown or   *)
(* still has a runner (LeapPlatform::UnregisterIsolate).                   *)
THEOREM AddressIsForgotten == Spec => []NewIsolateGetsRunner
<1>1. PlatformInv => NewIsolateGetsRunner
  BY DEF PlatformInv, Registration, NewIsolateGetsRunner, GetForegroundTaskRunner
<1> QED
  BY <1>1, InvHolds, PTL

(* The VM thread leaves no accepted closure behind (ThreadMain, PostTask). *)
THEOREM NothingLeftInQueue == Spec => []AcceptedTasksRun
<1>1. PlatformInv => AcceptedTasksRun
  BY DEF PlatformInv, Phases, AcceptedTasksRun
<1> QED
  BY <1>1, InvHolds, PTL

(* Only scheduled tasks are marked as cancelled                            *)
(* (LeapDelayedTaskScheduler::Cancel and ThreadMain).                      *)
THEOREM MarksAreCurrent == Spec => []NoStaleMarks
<1>1. PlatformInv => NoStaleMarks
  BY DEF PlatformInv
<1> QED
  BY <1>1, InvHolds, PTL

(* What a life leaves to the next on its address: nothing (~VmInstance,    *)
(* UnregisterIsolate, Cancel).                                             *)
THEOREM LivesLeaveNothing == Spec => []NothingLeftBehind
<1>1. NewIsolateGetsRunner /\ AcceptedTasksRun /\ NoStaleMarks => NothingLeftBehind
  BY DEF NothingLeftBehind
<1> QED
  BY <1>1, AddressIsForgotten, NothingLeftInQueue, MarksAreCurrent, PTL
=============================================================================
