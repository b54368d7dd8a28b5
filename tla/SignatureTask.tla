---------------------------- MODULE SignatureTask ----------------------------
(***************************************************************************)
(* One worker runs signature tasks in one JavaScript environment: the      *)
(* scripts of leap-vm/src/service/task_protocol.cc, the order in which     *)
(* worker_pool.cc runs them, and what leap-env resets between them         *)
(* (instance/signature-task.instance.js, core/runtime.js, the task scopes  *)
(* of impl/00-dom-shared.impl.js).                                         *)
(*                                                                         *)
(* A long target takes the split path: setup, before script, target and    *)
(* cleanup are scripts of their own.  Any other target takes the combined  *)
(* path: one script with try and finally, and a fallback cleanup if that   *)
(* script fails.  The microtasks of a script run when it has ended.  Timers *)
(* do not fire: nothing in the server calls RunLoopOnce.                   *)
(*                                                                         *)
(* Requests are numbered; two may have the same id.  An area stands for    *)
(* the fields that are set and reset together, and holds the requests that *)
(* left something in it.  A script can keep what it likes in variables of  *)
(* its own on globalThis, which no one resets: they are left out.          *)
(*                                                                         *)
(* On the combined path the before script is the first part of the target. *)
(* Ids are not empty.                                                      *)
(*                                                                         *)
(* Bound: MaxRequests.  Name_Fault is Name with a mistake a maintainer     *)
(* could make.                                                             *)
(***************************************************************************)
EXTENDS Integers, FiniteSets

CONSTANTS
  Id, DefaultId,       \* task ids; 'task-default'
  NoId,                \* '', the runtime's id of no task
  MaxRequests          \* bound: requests in a run

ASSUME IdAssumption == DefaultId \in Id /\ NoId \notin Id
ASSUME BoundAssumption == MaxRequests \in Nat

Request == 1 .. MaxRequests

(***************************************************************************)
(* fingerprint: navigator, screen, seeds, flags, the performance clock;    *)
(* storage: both storages; location: location and history; window: timers, *)
(* listeners, name, status, opener and the message ports.                  *)
(***************************************************************************)
Area == {"fingerprint", "storage", "location", "window"}
Writable == Area \ {"fingerprint"}     \* by scripts

Stage == {"idle", "setup", "before", "target", "again", "drain", "cleanup", "fallback"}

VARIABLES
  stage,               \* what runs, or runs next
  then,                \* the stage after the drain of the microtasks
  count, id, path,     \* the request: its number, its id, its path
  failed,              \* did a script of the request fail?
  microtasks,          \* are there microtasks of the request to run?
  area,                \* the requests that left something in an area
  docs,                \* <<scope, request>>: a document of the scope has
                       \* something of the request
  runtimeTask,         \* runtime.task.currentTaskId
  domTask,             \* currentTaskId of the DOM
  phase,               \* hookRuntime.phase
  late                 \* history: requests that acted after their cleanup

request == <<count, id, path>>
env == <<area, docs, runtimeTask, domTask, phase>>
vars == <<stage, then, request, failed, microtasks, env, late>>

Init ==
  /\ stage = "idle" /\ then = "idle"
  /\ count = 0 /\ id = DefaultId /\ path = "split"
  /\ failed = FALSE /\ microtasks = FALSE
  /\ area = [a \in Area |-> {}] /\ docs = {}
  /\ runtimeTask = NoId /\ domTask = DefaultId /\ phase = "idle"
  /\ late = {}

-----------------------------------------------------------------------------
\* ExecuteTask picks the path by the length of the target.
ExecuteTask(i, p) ==
  /\ stage = "idle" /\ count < MaxRequests
  /\ count' = count + 1 /\ id' = i /\ path' = p
  /\ stage' = "setup" /\ failed' = FALSE
  /\ UNCHANGED <<then, microtasks, env, late>>

\* What the snapshots of the request set: fp of applyFingerprintSnapshot, and
\* st, mode of applyStorageSnapshot.  A snapshot that is not given sets nothing.
Applied(fp, location, st, mode) ==
  [a \in Area |->
     IF \/ a = "fingerprint" /\ fp
        \/ a = "location" /\ fp /\ location
        \/ a = "storage" /\ st /\ mode = "replace"
     THEN {count}
     ELSE IF a = "storage" /\ st THEN area[a] \cup {count}
     ELSE area[a]]

\* beginTask, beginTaskScope (which releases the documents of other scopes),
\* the snapshots.  A document snapshot or a fingerprint writes the document.
Setup_NoScope ==
  /\ stage = "setup"
  /\ runtimeTask' = id /\ phase' = "task"
  /\ \E fp, location, st, doc \in BOOLEAN, mode \in {"replace", "merge"} :
       /\ area' = Applied(fp, location, st, mode)
       /\ docs' = docs \cup (IF fp \/ doc THEN {<<domTask, count>>} ELSE {})
  /\ \/ stage' = "target"
     \/ path = "split" /\ stage' = "before"
  /\ UNCHANGED <<then, request, failed, microtasks, domTask, late>>

Setup ==
  /\ stage = "setup"
  /\ runtimeTask' = id /\ domTask' = id /\ phase' = "task"
  /\ \E fp, location, st, doc \in BOOLEAN, mode \in {"replace", "merge"} :
       /\ area' = Applied(fp, location, st, mode)
       /\ docs' = {d \in docs : d[1] = id}
                    \cup (IF fp \/ doc THEN {<<id, count>>} ELSE {})
  /\ \/ stage' = "target"
     \/ path = "split" /\ stage' = "before"
  /\ UNCHANGED <<then, request, failed, microtasks, late>>

\* A snapshot or, on the combined path, a script that does not parse: nothing runs.
SetupDoesNotParse ==
  /\ stage = "setup"
  /\ failed' = TRUE
  /\ stage' = IF path = "split" THEN "cleanup" ELSE "fallback"
  /\ UNCHANGED <<then, request, microtasks, env, late>>

-----------------------------------------------------------------------------
(***************************************************************************)
(* The scripts of the request and their microtasks.                        *)
(***************************************************************************)
Script == stage \in {"before", "target", "again"}

Cleaned == stage = "drain" /\ then \in {"idle", "fallback"}

\* A script or a microtask leaves something in an area or in the document of
\* the scope at hand.
Act ==
  /\ Script \/ (stage = "drain" /\ microtasks)
  /\ \/ /\ \E a \in Writable : area' = [area EXCEPT ![a] = @ \cup {count}]
        /\ UNCHANGED docs
     \/ /\ docs' = docs \cup {<<domTask, count>>}
        /\ UNCHANGED area
  /\ late' = IF Cleaned THEN late \cup {count} ELSE late
  /\ UNCHANGED <<stage, then, request, failed, microtasks, runtimeTask, domTask,
                 phase>>

\* A script leaves a promise or calls queueMicrotask.
QueueMicrotask ==
  /\ Script /\ microtasks' = TRUE
  /\ UNCHANGED <<stage, then, request, failed, env, late>>

\* The before script returns or throws: then the target is not run.
BeforeEnds ==
  /\ stage = "before"
  /\ \E ok \in BOOLEAN :
       /\ failed' = ~ok
       /\ then' = IF ok THEN "target" ELSE "cleanup"
  /\ stage' = "drain"
  /\ UNCHANGED <<request, microtasks, env, late>>

\* The target returns or throws.  On the split path it ran from the code cache
\* if there is one; if V8 rejected the cache it was compiled anew and run
\* (RunScriptWithCache), and ExecuteSplitCachedTask runs it once more.  On the
\* combined path the finally block follows at once.
TargetEnds_NoDrain ==
  /\ stage \in {"target", "again"}
  /\ \E ok, rejected \in BOOLEAN :
       /\ failed' = ~ok
       /\ stage' = "cleanup"
  /\ UNCHANGED <<then, request, microtasks, env, late>>

TargetEnds_SkipsCleanup ==
  /\ stage \in {"target", "again"}
  /\ \E ok, rejected \in BOOLEAN :
       /\ failed' = ~ok
       /\ IF path = "combined"
          THEN stage' = "cleanup" /\ UNCHANGED then
          ELSE /\ stage' = "drain"
               /\ then' = IF rejected /\ stage = "target" THEN "again"
                          ELSE IF ok THEN "cleanup" ELSE "idle"
  /\ UNCHANGED <<request, microtasks, env, late>>

TargetEnds ==
  /\ stage \in {"target", "again"}
  /\ \E ok, rejected \in BOOLEAN :
       /\ failed' = ~ok
       /\ IF path = "combined"
          THEN stage' = "cleanup" /\ UNCHANGED then
          ELSE /\ stage' = "drain"
               /\ then' = IF rejected /\ stage = "target" THEN "again" ELSE "cleanup"
  /\ UNCHANGED <<request, microtasks, env, late>>

\* The microtasks have run, the ones they queued too.
DrainEnds ==
  /\ stage = "drain"
  /\ microtasks' = FALSE /\ stage' = then
  /\ UNCHANGED <<then, request, failed, env, late>>

-----------------------------------------------------------------------------
ResetAll_NoDefault ==
  /\ phase' = "idle"
  /\ area' = [a \in Area |-> {}]
  /\ docs' = {d \in docs : d[1] # id}
  /\ domTask' = IF domTask = id THEN NoId ELSE domTask
  /\ runtimeTask' = IF runtimeTask = id THEN NoId ELSE runtimeTask

\* resetSignatureTaskState, endTaskScope, endTask: the cleanup script, the
\* finally block, the fallback.
ResetAll ==
  /\ phase' = "idle"
  /\ area' = [a \in Area |-> {}]
  /\ docs' = {d \in docs : d[1] # id}
  /\ domTask' = IF domTask = id THEN DefaultId ELSE domTask
  /\ runtimeTask' = IF runtimeTask = id THEN NoId ELSE runtimeTask

\* The microtasks of the combined script run after its finally block.
Cleanup ==
  /\ stage = "cleanup"
  /\ ResetAll
  /\ stage' = "drain"
  /\ then' = IF path = "combined" /\ failed THEN "fallback" ELSE "idle"
  /\ UNCHANGED <<request, failed, microtasks, late>>

FallbackCleanup ==
  /\ stage = "fallback"
  /\ ResetAll
  /\ stage' = "idle"
  /\ UNCHANGED <<then, request, failed, microtasks, late>>

-----------------------------------------------------------------------------
Next ==
  \/ \E i \in Id, p \in {"split", "combined"} : ExecuteTask(i, p)
  \/ Setup \/ SetupDoesNotParse
  \/ Act \/ QueueMicrotask \/ BeforeEnds \/ TargetEnds \/ DrainEnds
  \/ Cleanup \/ FallbackCleanup

Spec == Init /\ [][Next]_vars

-----------------------------------------------------------------------------
\* The type invariant.
TypeOK ==
  /\ stage \in Stage /\ then \in Stage
  /\ count \in 0 .. MaxRequests /\ id \in Id /\ path \in {"split", "combined"}
  /\ failed \in BOOLEAN /\ microtasks \in BOOLEAN
  /\ area \in [Area -> SUBSET Request] /\ docs \subseteq Id \X Request
  /\ runtimeTask \in Id \cup {NoId} /\ domTask \in Id
  /\ phase \in {"idle", "task"} /\ late \subseteq Request

\* While the scripts of a request run, the environment has nothing of an
\* earlier request in it, and the runtime, the DOM and the hooks are at its
\* task; but for what a request did in microtasks after its cleanup.
OnlyOwnTraces ==
  Script =>
    /\ \A a \in Area : area[a] \subseteq {count} \cup late
    /\ \A d \in docs : d[1] = id /\ d[2] \in {count} \cup late
    /\ runtimeTask = id /\ domTask = id /\ phase = "task"

\* Between requests the environment is empty, whichever script failed; but
\* for what a request did in microtasks after its cleanup.
CleanBetweenTasks ==
  stage = "idle" =>
    /\ \A a \in Area : area[a] \subseteq late
    /\ \A d \in docs : d[1] = DefaultId /\ d[2] \in late
    /\ runtimeTask = NoId /\ domTask = DefaultId /\ phase = "idle"

\* On the split path nothing of a request acts after its cleanup.
SplitEndsInTime ==
  [][late' # late => path = "combined"]_vars
=============================================================================
