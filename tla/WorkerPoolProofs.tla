-------------------------- MODULE WorkerPoolProofs --------------------------
(***************************************************************************)
(* Proofs about WorkerPool, for any number of workers and of tasks, any    *)
(* recycling period and any failures of InitWorkerVm.                      *)
(***************************************************************************)
EXTENDS WorkerPool, SequenceTheorems, FiniteSetTheorems, TLAPS

(* The slots are numbered from 0; the loops of the main thread and the     *)
(* round-robin stay within them.                                           *)
LEMMA WorkerFacts ==
  /\ 0 \in Worker
  /\ NumWorkers - 1 \in Worker
  /\ \A w \in Worker : w \in Int /\ 0 <= w /\ w <= NumWorkers - 1
  /\ \A c \in Worker : c # NumWorkers - 1 => c + 1 \in Worker
  /\ \A n \in Nat : n % NumWorkers \in Worker
  BY NumWorkersAssumption, SMT DEF Worker

(* Taking the oldest task of a queue into an empty hand keeps the order. *)
LEMMA PopKeepsOrder ==
  ASSUME NEW S, NEW a \in Seq(S), NEW p \in Seq(S), p # <<>>
  PROVE  /\ Tail(p) \in Seq(S)
         /\ <<Head(p)>> \in Seq(S)
         /\ SlotOf(a, <<>>, p) = SlotOf(a, <<Head(p)>>, Tail(p))
<1>1. Head(p) \in S /\ Tail(p) \in Seq(S)
  BY HeadTailProperties
<1>2. <<Head(p)>> \in Seq(S)
  BY <1>1
<1>3. p = <<Head(p)>> \o Tail(p)
  <2> DEFINE q == <<Head(p)>> \o Tail(p)
  <2>1. q \in Seq(S) /\ Len(q) = 1 + Len(Tail(p))
    BY <1>1, <1>2, ConcatProperties
  <2>2. Len(q) = Len(p) /\ Len(p) \in Nat \ {0}
    BY <1>1, <2>1, HeadTailProperties, EmptySeq
  <2>3. ASSUME NEW i \in 1 .. Len(p) PROVE p[i] = q[i]
    <3>1. CASE i = 1
      BY <1>1, <1>2, <2>1, <2>2, <3>1, ConcatProperties
    <3>2. CASE i > 1
      <4>1. q[i] = Tail(p)[i - 1]
        BY <1>1, <1>2, <2>1, <2>2, <3>2, ConcatProperties
      <4>2. Tail(p)[i - 1] = p[i]
        BY <1>1, <2>1, <2>2, <3>2, HeadTailProperties
      <4> QED BY <4>1, <4>2
    <3> QED BY <2>2, <3>1, <3>2
  <2> HIDE DEF q
  <2>4. p = q
    BY <2>1, <2>2, <2>3, SeqEqual
  <2> QED BY <2>4 DEF q
<1>4. a \o <<>> = a
  BY ConcatEmptySeq
<1>5. (a \o <<Head(p)>>) \o Tail(p) = a \o (<<Head(p)>> \o Tail(p))
  BY <1>1, <1>2, ConcatAssociative
<1> QED
  BY <1>1, <1>2, <1>3, <1>4, <1>5 DEF SlotOf

(* Pushing a task at the end of a queue pushes it at the end of the slot. *)
LEMMA PushKeepsOrder ==
  ASSUME NEW a \in Seq(Task), NEW h \in Seq(Task), NEW p \in Seq(Task), NEW t \in Task
  PROVE  Append(SlotOf(a, h, p), t) = SlotOf(a, h, Append(p, t))
<1>1. a \o h \in Seq(Task) /\ (a \o h) \o p \in Seq(Task) /\ <<t>> \in Seq(Task)
  BY ConcatProperties
<1>2. Append((a \o h) \o p, t) = ((a \o h) \o p) \o <<t>>
  BY <1>1, AppendIsConcat
<1>3. Append(p, t) = p \o <<t>>
  BY AppendIsConcat
<1>4. ((a \o h) \o p) \o <<t>> = (a \o h) \o (p \o <<t>>)
  BY <1>1, ConcatAssociative
<1> QED
  BY <1>2, <1>3, <1>4 DEF SlotOf

(* Calling a task back moves it from the hand to the end of the answers. *)
LEMMA AnswerKeepsOrder ==
  ASSUME NEW S, NEW a \in Seq(S), NEW h \in Seq(S), NEW p \in Seq(S)
  PROVE  /\ a \o h \in Seq(S)
         /\ SlotOf(a, h, p) = SlotOf(a \o h, <<>>, p)
<1>1. a \o h \in Seq(S)
  BY ConcatProperties
<1>2. (a \o h) \o <<>> = a \o h
  BY <1>1, ConcatEmptySeq
<1> QED
  BY <1>1, <1>2 DEF SlotOf

-----------------------------------------------------------------------------
(* Every variable keeps its type, and no worker runs more than MaxTasks    *)
(* tasks on one vm.                                                        *)
LEMMA TypeInit == Init => TypeOK
<1> SUFFICES ASSUME Init PROVE TypeOK
  OBVIOUS
<1>1. 0 \in Worker
  BY WorkerFacts
<1>2. <<>> \in Seq(Task)
  BY EmptySeq
<1> QED
  BY <1>1, <1>2, MaxTasksAssumption
  DEF Init, TypeOK, NoReport, MainPc, WorkerPc, WorkerState

LEMMA TypeStep == TypeOK /\ [Next]_vars => TypeOK'
<1> SUFFICES ASSUME TypeOK, [Next]_vars
             PROVE  TypeOK'
  OBVIOUS
<1> USE DEF MainPc, WorkerPc, WorkerState, mainVars, slotVars, totals,
            history
<1>1. CASE StartPool
  BY <1>1, WorkerFacts DEF TypeOK, StartPool
<1>2. CASE AwaitWorker
  BY <1>2, WorkerFacts DEF TypeOK, AwaitWorker
<1>3. CASE SubmitNotify
  BY <1>3, WorkerFacts DEF TypeOK, SubmitNotify, NotifyOne
<1>4. CASE StatsCompleted
  BY <1>4, WorkerFacts DEF TypeOK, StatsCompleted, NoReport
<1>5. CASE StatsFailed
  BY <1>5 DEF TypeOK, StatsFailed
<1>6. CASE StatsState
  <2>1. One(wstate[cur] = "idle") \in {0, 1} /\ One(wstate[cur] = "busy") \in {0, 1}
        /\ One(wstate[cur] = "recycling") \in {0, 1}
    BY DEF One
  <2>2. report' \in [idle : Nat, busy : Nat, recycling : Nat,
                    completed : Nat, failed : Nat, pending : Nat]
    <3>1. /\ report.idle + One(wstate[cur] = "idle") \in Nat
          /\ report.busy + One(wstate[cur] = "busy") \in Nat
          /\ report.recycling + One(wstate[cur] = "recycling") \in Nat
      BY <2>1 DEF TypeOK
    <3> QED
      BY <1>6, <3>1 DEF TypeOK, StatsState
  <2> QED
    BY <1>6, <2>2 DEF TypeOK, StatsState
<1>7. CASE StatsPending
  <2>1. Len(pending[cur]) \in Nat
    BY LenProperties DEF TypeOK
  <2>2. cur # NumWorkers - 1 => cur + 1 \in Worker
    BY WorkerFacts DEF TypeOK
  <2>3. 0 \in Worker
    BY WorkerFacts
  <2>4. report' \in [idle : Nat, busy : Nat, recycling : Nat,
                    completed : Nat, failed : Nat, pending : Nat]
    <3>1. report.pending + Len(pending[cur]) \in Nat
      BY <2>1 DEF TypeOK
    <3> QED
      BY <1>7, <3>1 DEF TypeOK, StatsPending, ReadPending
  <2> QED
    BY <1>7, <2>2, <2>3, <2>4 DEF TypeOK, StatsPending
<1>8. CASE StatsReturn
  BY <1>8 DEF TypeOK, StatsReturn, NoReport
<1>9. CASE StopPool
  BY <1>9, WorkerFacts DEF TypeOK, StopPool
<1>10. CASE SignalStop
  BY <1>10 DEF TypeOK, SignalStop, RaiseStop
<1>11. CASE WakeWorker
  BY <1>11, WorkerFacts DEF TypeOK, WakeWorker, NotifyOne
<1>12. CASE JoinWorker
  <2>1. <<>> \in Seq(Task)
    BY EmptySeq
  <2>2. cur # NumWorkers - 1 => cur + 1 \in Worker
    BY WorkerFacts DEF TypeOK
  <2>3. 0 \in Worker
    BY WorkerFacts
  <2> QED
    BY <1>12, <2>1, <2>2, <2>3 DEF TypeOK, JoinWorker
<1>13. ASSUME NEW t \in Task, SubmitRejected(t) PROVE TypeOK'
  BY <1>13 DEF TypeOK, SubmitRejected
<1>14. ASSUME NEW t \in Task, SubmitPush(t) PROVE TypeOK'
  <2>1. nextWorker % NumWorkers \in Worker
    BY WorkerFacts DEF TypeOK
  <2>2. \A w \in Worker : /\ Append(pending[w], t) \in Seq(Task)
                           /\ Append(routed[w], t) \in Seq(Task)
    BY AppendProperties DEF TypeOK
  <2>3. nextWorker + 1 \in Nat
    BY DEF TypeOK
  <2> QED
    BY <1>14, <2>1, <2>2, <2>3 DEF TypeOK, SubmitPush
<1>15. ASSUME NEW w \in Worker, InitVm(w) PROVE TypeOK'
  BY <1>15 DEF TypeOK, InitVm
<1>16. ASSUME NEW w \in Worker, LoopTest(w) PROVE TypeOK'
  BY <1>16 DEF TypeOK, LoopTest
<1>17. ASSUME NEW w \in Worker, WaitForTask(w) PROVE TypeOK'
  <2>1. CASE pending[w] = <<>>
    BY <1>17, <2>1 DEF TypeOK, WaitForTask
  <2>2. CASE pending[w] # <<>>
    <3>1. Tail(pending[w]) \in Seq(Task) /\ <<Head(pending[w])>> \in Seq(Task)
      BY <2>2, HeadTailProperties DEF TypeOK
    <3>2. /\ hand' \in [Worker -> Seq(Task)]
          /\ pending' \in [Worker -> Seq(Task)]
      <4>1. /\ hand' = [hand EXCEPT ![w] = <<Head(pending[w])>>]
            /\ pending' = [pending EXCEPT ![w] = Tail(pending[w])]
        BY <1>17, <2>2 DEF WaitForTask, PopTask
      <4>2. hand \in [Worker -> Seq(Task)] /\ pending \in [Worker -> Seq(Task)]
        BY DEF TypeOK
      <4>3. hand' \in [Worker -> Seq(Task)]
        BY <3>1, <4>1, <4>2
      <4>4. pending' \in [Worker -> Seq(Task)]
        BY <3>1, <4>1, <4>2
      <4> QED
        BY <4>3, <4>4
    <3> QED
      BY <1>17, <2>2, <3>2 DEF TypeOK, WaitForTask
  <2> QED
    BY <2>1, <2>2
<1>18. ASSUME NEW w \in Worker, SpuriousWake(w) PROVE TypeOK'
  BY <1>18 DEF TypeOK, SpuriousWake
<1>19. ASSUME NEW w \in Worker, MarkBusy(w) PROVE TypeOK'
  BY <1>19 DEF TypeOK, MarkBusy
<1>20. ASSUME NEW w \in Worker, FinishTask(w) PROVE TypeOK'
  <2>1. completed' \in Nat /\ failed' \in Nat
    <3>1. completed \in Nat /\ failed \in Nat
      BY DEF TypeOK
    <3>2. completed' \in {completed, completed + 1} /\ failed' \in {failed, failed + 1}
      BY <1>20 DEF FinishTask, CountOutcome
    <3> QED
      BY <3>1, <3>2
  <2> QED
    BY <1>20, <2>1 DEF TypeOK, FinishTask
<1>21. ASSUME NEW w \in Worker, CallBack(w) PROVE TypeOK'
  <2>1. answered[w] \o hand[w] \in Seq(Task)
    BY ConcatProperties DEF TypeOK
  <2>2. <<>> \in Seq(Task)
    BY EmptySeq
  <2> QED
    BY <1>21, <2>1, <2>2 DEF TypeOK, CallBack
<1>22. ASSUME NEW w \in Worker, AfterTask(w) PROVE TypeOK'
  <2>1. handled[w] + 1 \in Nat
    BY DEF TypeOK
  <2>2. \/ MustRecycle(handled[w] + 1)
        \/ MaxTasks > 0 => handled[w] + 1 < MaxTasks
    BY <2>1, MaxTasksAssumption DEF MustRecycle
  <2>3. /\ handled' \in [Worker -> Nat]
        /\ MaxTasks > 0 => \A v \in Worker : handled'[v] < MaxTasks
    <3>1. CASE MustRecycle(handled[w] + 1)
      <4>1. handled' = [handled EXCEPT ![w] = 0]
        BY <1>22, <3>1 DEF AfterTask
      <4> QED
        BY <4>1, MaxTasksAssumption DEF TypeOK
    <3>2. CASE ~MustRecycle(handled[w] + 1)
      <4>1. handled' = [handled EXCEPT ![w] = handled[w] + 1]
        BY <1>22, <3>2 DEF AfterTask
      <4> QED
        BY <2>1, <2>2, <3>2, <4>1, MaxTasksAssumption DEF TypeOK
    <3> QED
      BY <3>1, <3>2
  <2>4. /\ wstate' \in [Worker -> WorkerState]
        /\ vm' \in [Worker -> {"none", "ready", "broken"}]
        /\ wpc' \in [Worker -> WorkerPc]
    BY <1>22 DEF TypeOK, AfterTask
  <2> QED
    BY <1>22, <2>3, <2>4 DEF TypeOK, AfterTask
<1>23. ASSUME NEW w \in Worker, ReinitVm(w) PROVE TypeOK'
  BY <1>23 DEF TypeOK, ReinitVm
<1>24. ASSUME NEW w \in Worker, CleanupWorker(w) PROVE TypeOK'
  BY <1>24 DEF TypeOK, CleanupWorker
<1>25. CASE UNCHANGED vars
  BY <1>25 DEF TypeOK, vars
<1> QED
  BY <1>1, <1>2, <1>3, <1>4, <1>5, <1>6, <1>7, <1>8, <1>9,
     <1>10, <1>11, <1>12, <1>13, <1>14, <1>15, <1>16, <1>17,
     <1>18, <1>19, <1>20, <1>21, <1>22, <1>23, <1>24, <1>25
  DEF Next, Main, WorkerStep, Terminated

(* The type invariant holds in every state of every pool. *)
THEOREM TypeCorrect == Spec => []TypeOK
  BY TypeInit, TypeStep, PTL DEF Spec

-----------------------------------------------------------------------------
(* No task is lost, and Stop leaves no worker behind.  NothingLost alone   *)
(* is not inductive: popping a task into a hand keeps the order only if    *)
(* the hand is empty, Start finds empty hands only if no thread was born   *)
(* before it, and the answers stop when the pool has stopped only if every *)
(* thread has been joined.                                                 *)
HandsEmpty ==
    /\ mpc = "off" => \A w \in Worker : wpc[w] = "unborn"
    /\ \A w \in Worker : wpc[w] \notin {"popped", "exec", "answer"} => hand[w] = <<>>

JoinedExited ==
    /\ mpc = "join" => \A w \in Worker : w < cur => wpc[w] = "exited"
    /\ mpc = "stopped" => \A w \in Worker : wpc[w] = "exited"

PoolInv == TypeOK /\ HandsEmpty /\ JoinedExited /\ NothingLost

LEMMA HandsEmptyStep == TypeOK /\ HandsEmpty /\ [Next]_vars => HandsEmpty'
<1> SUFFICES ASSUME TypeOK, HandsEmpty, [Next]_vars
             PROVE  HandsEmpty'
  OBVIOUS
<1> wpc \in [Worker -> WorkerPc] /\ hand \in [Worker -> Seq(Task)]
  BY DEF TypeOK
<1> USE DEF HandsEmpty, mainVars, slotVars, totals, history
<1>1. CASE StartPool
  BY <1>1 DEF StartPool
<1>2. CASE AwaitWorker
  BY <1>2 DEF AwaitWorker
<1>3. CASE SubmitNotify
  BY <1>3 DEF SubmitNotify, NotifyOne
<1>4. CASE StatsCompleted
  BY <1>4 DEF StatsCompleted
<1>5. CASE StatsFailed
  BY <1>5 DEF StatsFailed
<1>6. CASE StatsState
  BY <1>6 DEF StatsState
<1>7. CASE StatsPending
  BY <1>7 DEF StatsPending
<1>8. CASE StatsReturn
  BY <1>8 DEF StatsReturn
<1>9. CASE StopPool
  BY <1>9 DEF StopPool
<1>10. CASE SignalStop
  BY <1>10 DEF SignalStop
<1>11. CASE WakeWorker
  BY <1>11 DEF WakeWorker, NotifyOne
<1>12. CASE JoinWorker
  BY <1>12 DEF JoinWorker
<1>13. ASSUME NEW t \in Task, SubmitRejected(t) PROVE HandsEmpty'
  BY <1>13 DEF SubmitRejected
<1>14. ASSUME NEW t \in Task, SubmitPush(t) PROVE HandsEmpty'
  BY <1>14 DEF SubmitPush
<1>15. ASSUME NEW w \in Worker, InitVm(w) PROVE HandsEmpty'
  BY <1>15 DEF InitVm
<1>16. ASSUME NEW w \in Worker, LoopTest(w) PROVE HandsEmpty'
  BY <1>16 DEF LoopTest
<1>17. ASSUME NEW w \in Worker, WaitForTask(w) PROVE HandsEmpty'
  BY <1>17 DEF WaitForTask, PopTask
<1>18. ASSUME NEW w \in Worker, SpuriousWake(w) PROVE HandsEmpty'
  BY <1>18 DEF SpuriousWake
<1>19. ASSUME NEW w \in Worker, MarkBusy(w) PROVE HandsEmpty'
  BY <1>19 DEF MarkBusy
<1>20. ASSUME NEW w \in Worker, FinishTask(w) PROVE HandsEmpty'
  BY <1>20 DEF FinishTask
<1>21. ASSUME NEW w \in Worker, CallBack(w) PROVE HandsEmpty'
  BY <1>21 DEF CallBack
<1>22. ASSUME NEW w \in Worker, AfterTask(w) PROVE HandsEmpty'
  BY <1>22 DEF AfterTask
<1>23. ASSUME NEW w \in Worker, ReinitVm(w) PROVE HandsEmpty'
  BY <1>23 DEF ReinitVm
<1>24. ASSUME NEW w \in Worker, CleanupWorker(w) PROVE HandsEmpty'
  BY <1>24 DEF CleanupWorker
<1>25. CASE UNCHANGED vars
  BY <1>25 DEF vars
<1> QED
  BY <1>1, <1>2, <1>3, <1>4, <1>5, <1>6, <1>7, <1>8, <1>9,
     <1>10, <1>11, <1>12, <1>13, <1>14, <1>15, <1>16, <1>17,
     <1>18, <1>19, <1>20, <1>21, <1>22, <1>23, <1>24, <1>25
  DEF Next, Main, WorkerStep, Terminated

LEMMA JoinedExitedStep == TypeOK /\ JoinedExited /\ [Next]_vars => JoinedExited'
<1> SUFFICES ASSUME TypeOK, JoinedExited, [Next]_vars
             PROVE  JoinedExited'
  OBVIOUS
<1> wpc \in [Worker -> WorkerPc] /\ cur \in Worker
  BY DEF TypeOK
<1> USE DEF JoinedExited, mainVars, slotVars, totals, history
<1>1. CASE StartPool
  BY <1>1 DEF StartPool
<1>2. CASE AwaitWorker
  BY <1>2 DEF AwaitWorker
<1>3. CASE SubmitNotify
  BY <1>3 DEF SubmitNotify, NotifyOne
<1>4. CASE StatsCompleted
  BY <1>4 DEF StatsCompleted
<1>5. CASE StatsFailed
  BY <1>5 DEF StatsFailed
<1>6. CASE StatsState
  BY <1>6 DEF StatsState
<1>7. CASE StatsPending
  BY <1>7 DEF StatsPending
<1>8. CASE StatsReturn
  BY <1>8 DEF StatsReturn
<1>9. CASE StopPool
  BY <1>9 DEF StopPool
<1>10. CASE SignalStop
  BY <1>10 DEF SignalStop
<1>11. CASE WakeWorker
  <2>1. \A v \in Worker : ~(v < 0)
    BY WorkerFacts
  <2> QED
    BY <1>11, <2>1 DEF WakeWorker, NotifyOne
<1>12. CASE JoinWorker
  <2>1. \A v \in Worker : v < cur => wpc[v] = "exited"
    BY <1>12 DEF JoinWorker
  <2>2. wpc' = wpc /\ wpc[cur] = "exited"
    BY <1>12 DEF JoinWorker, Joinable
  <2>3. CASE cur = NumWorkers - 1
    <3>1. \A v \in Worker : v < cur \/ v = cur
      BY <2>3, WorkerFacts, NumWorkersAssumption
    <3>2. mpc' = "stopped"
      BY <1>12, <2>3 DEF JoinWorker
    <3> QED
      BY <2>1, <2>2, <3>1, <3>2
  <2>4. CASE cur # NumWorkers - 1
    <3>1. \A v \in Worker : v < cur + 1 => v < cur \/ v = cur
      BY WorkerFacts
    <3>2. mpc' = "join" /\ cur' = cur + 1
      BY <1>12, <2>4 DEF JoinWorker
    <3> QED
      BY <2>1, <2>2, <3>1, <3>2
  <2> QED
    BY <2>3, <2>4
<1>13. ASSUME NEW t \in Task, SubmitRejected(t) PROVE JoinedExited'
  BY <1>13 DEF SubmitRejected
<1>14. ASSUME NEW t \in Task, SubmitPush(t) PROVE JoinedExited'
  BY <1>14 DEF SubmitPush
<1>15. ASSUME NEW w \in Worker, InitVm(w) PROVE JoinedExited'
  BY <1>15 DEF InitVm
<1>16. ASSUME NEW w \in Worker, LoopTest(w) PROVE JoinedExited'
  BY <1>16 DEF LoopTest
<1>17. ASSUME NEW w \in Worker, WaitForTask(w) PROVE JoinedExited'
  BY <1>17 DEF WaitForTask, PopTask
<1>18. ASSUME NEW w \in Worker, SpuriousWake(w) PROVE JoinedExited'
  BY <1>18 DEF SpuriousWake
<1>19. ASSUME NEW w \in Worker, MarkBusy(w) PROVE JoinedExited'
  BY <1>19 DEF MarkBusy
<1>20. ASSUME NEW w \in Worker, FinishTask(w) PROVE JoinedExited'
  BY <1>20 DEF FinishTask
<1>21. ASSUME NEW w \in Worker, CallBack(w) PROVE JoinedExited'
  BY <1>21 DEF CallBack
<1>22. ASSUME NEW w \in Worker, AfterTask(w) PROVE JoinedExited'
  BY <1>22 DEF AfterTask
<1>23. ASSUME NEW w \in Worker, ReinitVm(w) PROVE JoinedExited'
  BY <1>23 DEF ReinitVm
<1>24. ASSUME NEW w \in Worker, CleanupWorker(w) PROVE JoinedExited'
  BY <1>24 DEF CleanupWorker
<1>25. CASE UNCHANGED vars
  BY <1>25 DEF vars
<1> QED
  BY <1>1, <1>2, <1>3, <1>4, <1>5, <1>6, <1>7, <1>8, <1>9,
     <1>10, <1>11, <1>12, <1>13, <1>14, <1>15, <1>16, <1>17,
     <1>18, <1>19, <1>20, <1>21, <1>22, <1>23, <1>24, <1>25
  DEF Next, Main, WorkerStep, Terminated

LEMMA NothingLostStep ==
  TypeOK /\ HandsEmpty /\ JoinedExited /\ NothingLost /\ [Next]_vars => NothingLost'
<1> SUFFICES ASSUME TypeOK, HandsEmpty, JoinedExited, NothingLost, [Next]_vars
             PROVE  NothingLost'
  OBVIOUS
<1> /\ pending \in [Worker -> Seq(Task)]
    /\ hand \in [Worker -> Seq(Task)]
    /\ routed \in [Worker -> Seq(Task)]
    /\ answered \in [Worker -> Seq(Task)]
  BY DEF TypeOK
<1> USE DEF NothingLost, mainVars, slotVars, totals, history
<1>1. CASE StartPool
  BY <1>1 DEF StartPool
<1>2. CASE AwaitWorker
  BY <1>2 DEF AwaitWorker
<1>3. CASE SubmitNotify
  BY <1>3 DEF SubmitNotify, NotifyOne
<1>4. CASE StatsCompleted
  BY <1>4 DEF StatsCompleted
<1>5. CASE StatsFailed
  BY <1>5 DEF StatsFailed
<1>6. CASE StatsState
  BY <1>6 DEF StatsState
<1>7. CASE StatsPending
  BY <1>7 DEF StatsPending
<1>8. CASE StatsReturn
  BY <1>8 DEF StatsReturn
<1>9. CASE StopPool
  BY <1>9 DEF StopPool
<1>10. CASE SignalStop
  BY <1>10 DEF SignalStop
<1>11. CASE WakeWorker
  BY <1>11 DEF WakeWorker, NotifyOne
<1>12. CASE JoinWorker
  BY <1>12 DEF JoinWorker
<1>13. ASSUME NEW t \in Task, SubmitRejected(t) PROVE NothingLost'
  BY <1>13 DEF SubmitRejected
<1>14. ASSUME NEW t \in Task, SubmitPush(t) PROVE NothingLost'
  <2> DEFINE w == nextWorker % NumWorkers
  <2>1. w \in Worker
    BY WorkerFacts DEF TypeOK
  <2>2. /\ pending' = [pending EXCEPT ![w] = Append(pending[w], t)]
        /\ routed' = [routed EXCEPT ![w] = Append(routed[w], t)]
        /\ hand' = hand /\ answered' = answered
        /\ mpc = "serving"
    BY <1>14 DEF SubmitPush
  <2> HIDE DEF w
  <2>3. ASSUME NEW v \in Worker
        PROVE  routed'[v] = SlotOf(answered'[v], hand'[v], pending'[v])
    <3>1. routed[v] = SlotOf(answered[v], hand[v], pending[v])
      BY <2>2
    <3>2. CASE v = w
      <4>1. Append(SlotOf(answered[w], hand[w], pending[w]), t) =
              SlotOf(answered[w], hand[w], Append(pending[w], t))
        <5> DEFINE a == answered[w]
                   h == hand[w]
                   p == pending[w]
        <5>1. a \in Seq(Task) /\ h \in Seq(Task) /\ p \in Seq(Task)
          BY <2>1
        <5> HIDE DEF a, h, p
        <5>2. Append(SlotOf(a, h, p), t) = SlotOf(a, h, Append(p, t))
          BY <5>1, PushKeepsOrder
        <5> QED
          BY <5>2 DEF a, h, p
      <4> QED
        BY <2>1, <2>2, <3>1, <3>2, <4>1
    <3>3. CASE v # w
      BY <2>1, <2>2, <3>1, <3>3
    <3> QED
      BY <3>2, <3>3
  <2> QED
    BY <2>3
<1>15. ASSUME NEW w \in Worker, InitVm(w) PROVE NothingLost'
  BY <1>15 DEF InitVm
<1>16. ASSUME NEW w \in Worker, LoopTest(w) PROVE NothingLost'
  BY <1>16 DEF LoopTest
<1>17. ASSUME NEW w \in Worker, WaitForTask(w) PROVE NothingLost'
  <2>1. CASE pending[w] = <<>>
    BY <1>17, <2>1 DEF WaitForTask
  <2>2. CASE pending[w] # <<>>
    <3>1. /\ hand' = [hand EXCEPT ![w] = <<Head(pending[w])>>]
          /\ pending' = [pending EXCEPT ![w] = Tail(pending[w])]
          /\ routed' = routed /\ answered' = answered /\ mpc' = mpc
      BY <1>17, <2>2 DEF WaitForTask, PopTask
    <3>2. hand[w] = <<>>
      BY <1>17 DEF WaitForTask, HandsEmpty
    <3>3. SlotOf(answered[w], <<>>, pending[w]) =
            SlotOf(answered[w], <<Head(pending[w])>>, Tail(pending[w]))
      BY <2>2, PopKeepsOrder
    <3>4. ASSUME mpc # "stopped", NEW v \in Worker
          PROVE  routed'[v] = SlotOf(answered'[v], hand'[v], pending'[v])
      <4>1. routed[v] = SlotOf(answered[v], hand[v], pending[v])
        BY <3>4
      <4>2. CASE v = w
        BY <3>1, <3>2, <3>3, <4>1, <4>2
      <4>3. CASE v # w
        BY <3>1, <4>1, <4>3
      <4> QED
        BY <4>2, <4>3
    <3> QED
      BY <3>1, <3>4
  <2> QED
    BY <2>1, <2>2
<1>18. ASSUME NEW w \in Worker, SpuriousWake(w) PROVE NothingLost'
  BY <1>18 DEF SpuriousWake
<1>19. ASSUME NEW w \in Worker, MarkBusy(w) PROVE NothingLost'
  BY <1>19 DEF MarkBusy
<1>20. ASSUME NEW w \in Worker, FinishTask(w) PROVE NothingLost'
  BY <1>20 DEF FinishTask
<1>21. ASSUME NEW w \in Worker, CallBack(w) PROVE NothingLost'
  <2>1. /\ answered' = [answered EXCEPT ![w] = answered[w] \o hand[w]]
        /\ hand' = [hand EXCEPT ![w] = <<>>]
        /\ pending' = pending /\ routed' = routed /\ mpc' = mpc
    BY <1>21 DEF CallBack
  <2>2. SlotOf(answered[w], hand[w], pending[w]) =
          SlotOf(answered[w] \o hand[w], <<>>, pending[w])
    BY AnswerKeepsOrder
  <2>3. ASSUME mpc # "stopped", NEW v \in Worker
        PROVE  routed'[v] = SlotOf(answered'[v], hand'[v], pending'[v])
    <3>1. routed[v] = SlotOf(answered[v], hand[v], pending[v])
      BY <2>3
    <3>2. CASE v = w
      BY <2>1, <2>2, <3>1, <3>2
    <3>3. CASE v # w
      BY <2>1, <3>1, <3>3
    <3> QED
      BY <3>2, <3>3
  <2> QED
    BY <2>1, <2>3
<1>22. ASSUME NEW w \in Worker, AfterTask(w) PROVE NothingLost'
  BY <1>22 DEF AfterTask
<1>23. ASSUME NEW w \in Worker, ReinitVm(w) PROVE NothingLost'
  BY <1>23 DEF ReinitVm
<1>24. ASSUME NEW w \in Worker, CleanupWorker(w) PROVE NothingLost'
  BY <1>24 DEF CleanupWorker
<1>25. CASE UNCHANGED vars
  BY <1>25 DEF vars
<1> QED
  BY <1>1, <1>2, <1>3, <1>4, <1>5, <1>6, <1>7, <1>8, <1>9,
     <1>10, <1>11, <1>12, <1>13, <1>14, <1>15, <1>16, <1>17,
     <1>18, <1>19, <1>20, <1>21, <1>22, <1>23, <1>24, <1>25
  DEF Next, Main, WorkerStep, Terminated

LEMMA PoolInvInit == Init => PoolInv
<1> SUFFICES ASSUME Init PROVE PoolInv
  OBVIOUS
<1>1. TypeOK
  BY TypeInit
<1>2. <<>> \in Seq(Task) /\ <<>> \o <<>> = <<>>
  <2>1. <<>> \in Seq(Task)
    BY EmptySeq
  <2> QED
    BY <2>1, ConcatEmptySeq
<1>3. NothingLost
  BY <1>2 DEF Init, NothingLost, SlotOf
<1> QED
  BY <1>1, <1>3 DEF Init, PoolInv, HandsEmpty, JoinedExited

LEMMA PoolInvStep == PoolInv /\ [Next]_vars => PoolInv'
  BY TypeStep, HandsEmptyStep, JoinedExitedStep, NothingLostStep DEF PoolInv

LEMMA PoolInvariant == Spec => []PoolInv
  BY PoolInvInit, PoolInvStep, PTL DEF Spec

(* Nothing lost: what was routed to a worker is, in order, answered, in    *)
(* its hands or in its queue, as long as the queues exist.                 *)
THEOREM TasksAreNotLost == Spec => []NothingLost
<1>1. PoolInv => NothingLost
  BY DEF PoolInv
<1> QED
  BY PoolInvariant, <1>1, PTL

(* No callback runs once Stop has returned. *)
THEOREM StoppedPoolIsQuiet == Spec => QuietAfterStop
<1>1. PoolInv /\ [Next]_vars => [mpc = "stopped" => answered' = answered]_vars
  <2> SUFFICES ASSUME PoolInv, Next, mpc = "stopped"
               PROVE  answered' = answered
    BY DEF vars
  <2>1. ASSUME NEW w \in Worker PROVE ~CallBack(w)
    BY DEF PoolInv, JoinedExited, CallBack
  <2> QED
    BY <2>1 DEF Next, Main, WorkerStep, Terminated, vars, mainVars, slotVars,
       totals, history, StartPool, AwaitWorker, SubmitRejected, SubmitPush,
       SubmitNotify, StatsCompleted, StatsFailed, StatsState, StatsPending,
       StatsReturn, StopPool, SignalStop, WakeWorker, JoinWorker, InitVm,
       LoopTest, WaitForTask, SpuriousWake, MarkBusy, FinishTask, AfterTask,
       ReinitVm, CleanupWorker
<1> QED
  BY PoolInvariant, <1>1, PTL DEF Spec, QuietAfterStop

-----------------------------------------------------------------------------
(* WorkerPool implements TaskService: a task is answered at most once,     *)
(* never after Stop, and only what Stop finds unanswered is abandoned.     *)

(* s holds no task twice. *)
Once(s) == \A i, j \in DOMAIN s : s[i] = s[j] => i = j

LEMMA TasksOfConcat ==
  ASSUME NEW S, NEW a \in Seq(S), NEW b \in Seq(S)
  PROVE  TasksOf(a \o b) = TasksOf(a) \cup TasksOf(b)
<1>1. Range(a \o b) = Range(a) \cup Range(b)
  BY RangeConcatenation
<1> QED
  BY <1>1 DEF Range, TasksOf

LEMMA OnceSplits ==
  ASSUME NEW S, NEW a \in Seq(S), NEW b \in Seq(S), Once(a \o b)
  PROVE  Once(a) /\ Once(b) /\ TasksOf(a) \cap TasksOf(b) = {}
<1> DEFINE s == a \o b
<1>1. /\ Len(a) \in Nat /\ Len(b) \in Nat /\ Len(s) = Len(a) + Len(b)
      /\ DOMAIN a = 1 .. Len(a) /\ DOMAIN b = 1 .. Len(b) /\ DOMAIN s = 1 .. Len(s)
      /\ \A i \in 1 .. Len(s) : s[i] = IF i <= Len(a) THEN a[i] ELSE b[i - Len(a)]
  BY ConcatProperties, LenProperties
<1> HIDE DEF s
<1>2. \A i \in DOMAIN a : i \in DOMAIN s /\ s[i] = a[i]
  BY <1>1
<1>3. \A i \in DOMAIN b : i + Len(a) \in DOMAIN s /\ s[i + Len(a)] = b[i]
  BY <1>1
<1>4. Once(s)
  BY DEF s
<1>5. Once(a)
  BY <1>2, <1>4 DEF Once
<1>6. Once(b)
  <2> SUFFICES ASSUME NEW i \in DOMAIN b, NEW j \in DOMAIN b, b[i] = b[j]
               PROVE  i = j
    BY DEF Once
  <2>1. i + Len(a) = j + Len(a)
    BY <1>3, <1>4 DEF Once
  <2> QED
    BY <1>1, <2>1
<1>7. ASSUME NEW i \in DOMAIN a, NEW j \in DOMAIN b, a[i] = b[j]
      PROVE  FALSE
  <2>1. i = j + Len(a)
    BY <1>2, <1>3, <1>4, <1>7 DEF Once
  <2> QED
    BY <1>1, <2>1
<1> QED
  BY <1>5, <1>6, <1>7 DEF TasksOf

LEMMA TasksOfAppend ==
  ASSUME NEW S, NEW s \in Seq(S), NEW t \in S
  PROVE  TasksOf(Append(s, t)) = TasksOf(s) \cup {t}
<1> DEFINE r == Append(s, t)
<1>1. /\ Len(s) \in Nat /\ DOMAIN s = 1 .. Len(s) /\ DOMAIN r = 1 .. Len(s) + 1
      /\ \A i \in 1 .. Len(s) : r[i] = s[i]
      /\ r[Len(s) + 1] = t
  BY AppendProperties, LenProperties
<1> HIDE DEF r
<1>2. DOMAIN r = DOMAIN s \cup {Len(s) + 1}
  BY <1>1
<1>3. TasksOf(r) = TasksOf(s) \cup {t}
  BY <1>1, <1>2 DEF TasksOf
<1> QED
  BY <1>3 DEF r

LEMMA OnceAppend ==
  ASSUME NEW S, NEW s \in Seq(S), NEW t \in S, Once(s), t \notin TasksOf(s)
  PROVE  Once(Append(s, t))
<1> DEFINE r == Append(s, t)
<1>1. /\ Len(s) \in Nat /\ DOMAIN s = 1 .. Len(s) /\ DOMAIN r = 1 .. Len(s) + 1
      /\ \A i \in 1 .. Len(s) : r[i] = s[i]
      /\ r[Len(s) + 1] = t
  BY AppendProperties, LenProperties
<1> HIDE DEF r
<1>2. ASSUME NEW i \in DOMAIN r, NEW j \in DOMAIN r, r[i] = r[j]
      PROVE  i = j
  <2>1. CASE i \in DOMAIN s /\ j \in DOMAIN s
    BY <1>1, <1>2, <2>1 DEF Once
  <2>2. \A k \in DOMAIN s : r[k] # t
    BY <1>1 DEF TasksOf
  <2>3. CASE i = Len(s) + 1 \/ j = Len(s) + 1
    BY <1>1, <1>2, <2>2, <2>3
  <2> QED
    BY <1>1, <2>1, <2>3
<1> QED
  BY <1>2 DEF Once, r

(* Pushing a task to one queue adds it to what the queues hold. *)
LEMMA AllTasksPush ==
  ASSUME NEW f \in [Worker -> Seq(Task)], NEW w \in Worker, NEW t \in Task, NEW g,
         g = [f EXCEPT ![w] = Append(f[w], t)]
  PROVE  AllTasks(g) = AllTasks(f) \cup {t}
<1>1. TasksOf(Append(f[w], t)) = TasksOf(f[w]) \cup {t}
  <2> DEFINE s == f[w]
  <2>1. s \in Seq(Task)
    OBVIOUS
  <2> HIDE DEF s
  <2>2. TasksOf(Append(s, t)) = TasksOf(s) \cup {t}
    BY <2>1, TasksOfAppend
  <2> QED
    BY <2>2 DEF s
<1>2. /\ TasksOf(g[w]) = TasksOf(f[w]) \cup {t}
      /\ \A v \in Worker : v # w => TasksOf(g[v]) = TasksOf(f[v])
  BY <1>1
<1>3. ASSUME NEW x PROVE x \in AllTasks(g) <=> x \in AllTasks(f) \/ x = t
  <2>1. x \in AllTasks(g) <=> \E v \in Worker : x \in TasksOf(g[v])
    BY DEF AllTasks
  <2>2. x \in AllTasks(f) <=> \E v \in Worker : x \in TasksOf(f[v])
    BY DEF AllTasks
  <2> QED
    BY <1>2, <2>1, <2>2
<1> QED
  BY <1>3

(* The three parts of a slot hold what was routed to it, each task once.   *)
LEMMA SlotSplits ==
  ASSUME NEW S, NEW a \in Seq(S), NEW h \in Seq(S), NEW p \in Seq(S)
  PROVE  /\ TasksOf(SlotOf(a, h, p)) = TasksOf(a) \cup TasksOf(h) \cup TasksOf(p)
         /\ Once(SlotOf(a, h, p)) =>
              /\ TasksOf(a) \cap TasksOf(h) = {}
              /\ TasksOf(a) \cap TasksOf(p) = {}
              /\ TasksOf(h) \cap TasksOf(p) = {}
<1> DEFINE q == a \o h
<1>1. q \in Seq(S) /\ TasksOf(q) = TasksOf(a) \cup TasksOf(h)
  BY ConcatProperties, TasksOfConcat
<1>2. Once(q) => TasksOf(a) \cap TasksOf(h) = {}
  BY OnceSplits
<1> HIDE DEF q
<1>3. TasksOf(q \o p) = TasksOf(q) \cup TasksOf(p)
  BY <1>1, TasksOfConcat
<1>4. Once(q \o p) => Once(q) /\ TasksOf(q) \cap TasksOf(p) = {}
  BY <1>1, OnceSplits
<1>5. SlotOf(a, h, p) = q \o p
  BY DEF SlotOf, q
<1> QED
  BY <1>1, <1>2, <1>3, <1>4, <1>5

-----------------------------------------------------------------------------
(* Every task has one place: PoolInv says in which order a slot holds its  *)
(* tasks, not that they differ.                                            *)
RoutedOnce ==
    /\ \A w \in Worker : Once(routed[w])
    /\ \A v, w \in Worker : v # w => TasksOf(routed[v]) \cap TasksOf(routed[w]) = {}
    /\ rejected \cap Routed = {}

(* A worker is given one task at a time. *)
HandOfOne == \A w \in Worker : Len(hand[w]) <= 1

(* What a slot holds was routed to it, also after Stop. *)
SlotRouted ==
    \A w \in Worker :
        TasksOf(answered[w]) \cup TasksOf(hand[w]) \cup TasksOf(pending[w])
          \subseteq TasksOf(routed[w])

PlaceInv == PoolInv /\ RoutedOnce /\ HandOfOne /\ SlotRouted

LEMMA EmptyHasNoTasks == TasksOf(<<>>) = {} /\ Once(<<>>)
  BY DEF TasksOf, Once

LEMMA PlaceInvInit == Init => PlaceInv
<1> SUFFICES ASSUME Init PROVE PlaceInv
  OBVIOUS
<1>1. PoolInv
  BY PoolInvInit
<1>2. Len(<<>>) = 0
  BY EmptySeq
<1> QED
  BY <1>1, <1>2, EmptyHasNoTasks
  DEF Init, PlaceInv, RoutedOnce, HandOfOne, SlotRouted, Routed, AllTasks

(* The only step that routes a task. *)
LEMMA RoutedStep ==
  ASSUME TypeOK, [Next]_vars
  PROVE  \/ routed' = routed /\ rejected' = rejected
         \/ /\ routed' = routed
            /\ \E t \in Task : t \notin Submitted /\ rejected' = rejected \cup {t}
         \/ /\ rejected' = rejected
            /\ \E t \in Task, w \in Worker :
                  /\ t \notin Submitted
                  /\ routed' = [routed EXCEPT ![w] = Append(routed[w], t)]
<1>1. CASE UNCHANGED vars
  BY <1>1 DEF vars, history
<1>2. ASSUME NEW t \in Task, SubmitRejected(t)
      PROVE  /\ routed' = routed /\ t \notin Submitted
             /\ rejected' = rejected \cup {t}
  BY <1>2 DEF SubmitRejected, NextCall
<1>3. ASSUME NEW t \in Task, SubmitPush(t)
      PROVE  /\ rejected' = rejected
             /\ t \notin Submitted
             /\ \E w \in Worker : routed' = [routed EXCEPT ![w] = Append(routed[w], t)]
  <2>1. nextWorker % NumWorkers \in Worker
    BY WorkerFacts DEF TypeOK
  <2> QED
    BY <1>3, <2>1 DEF SubmitPush, NextCall
<1>4. ASSUME Main, \A t \in Task : ~SubmitRejected(t) /\ ~SubmitPush(t)
      PROVE  UNCHANGED <<routed, rejected>>
  BY <1>4 DEF Main, history, StartPool, AwaitWorker, SubmitNotify, StatsCompleted,
     StatsFailed, StatsState, StatsPending, StatsReturn, StopPool, SignalStop,
     WakeWorker, JoinWorker
<1>5. ASSUME NEW w \in Worker, WorkerStep(w) \/ SpuriousWake(w)
      PROVE  UNCHANGED <<routed, rejected>>
  BY <1>5 DEF WorkerStep, history, InitVm, LoopTest, WaitForTask, SpuriousWake,
     MarkBusy, FinishTask, CallBack, AfterTask, ReinitVm, CleanupWorker
<1>6. CASE Main
  BY <1>2, <1>3, <1>4, <1>6
<1>7. CASE Terminated
  BY <1>7 DEF Terminated, vars, history
<1> QED
  BY <1>1, <1>5, <1>6, <1>7 DEF Next

LEMMA RoutedOnceStep == TypeOK /\ RoutedOnce /\ [Next]_vars => RoutedOnce'
<1> SUFFICES ASSUME TypeOK, RoutedOnce, [Next]_vars
             PROVE  RoutedOnce'
  OBVIOUS
<1>1. CASE routed' = routed /\ rejected' = rejected
  BY <1>1 DEF RoutedOnce, Routed, AllTasks
<1>2. ASSUME NEW t \in Task, t \notin Submitted,
             routed' = routed, rejected' = rejected \cup {t}
      PROVE  RoutedOnce'
  BY <1>2 DEF RoutedOnce, Routed, AllTasks, Submitted
<1>3. ASSUME NEW t \in Task, NEW w \in Worker, t \notin Submitted,
             rejected' = rejected,
             routed' = [routed EXCEPT ![w] = Append(routed[w], t)]
      PROVE  RoutedOnce'
  <2>1. routed \in [Worker -> Seq(Task)] /\ routed[w] \in Seq(Task)
    BY DEF TypeOK
  <2>2. t \notin rejected /\ \A v \in Worker : t \notin TasksOf(routed[v])
    BY <1>3 DEF Submitted, Routed, AllTasks
  <2>3. /\ Once(Append(routed[w], t))
        /\ TasksOf(Append(routed[w], t)) = TasksOf(routed[w]) \cup {t}
    BY <2>1, <2>2, OnceAppend, TasksOfAppend DEF RoutedOnce
  <2>4. /\ routed'[w] = Append(routed[w], t)
        /\ \A v \in Worker : v # w => routed'[v] = routed[v]
    BY <1>3, <2>1
  <2>5. \A v \in Worker : Once(routed'[v])
    BY <2>3, <2>4 DEF RoutedOnce
  <2>6. \A v \in Worker : TasksOf(routed'[v]) =
                            TasksOf(routed[v]) \cup (IF v = w THEN {t} ELSE {})
    BY <2>3, <2>4
  <2>7. \A u, v \in Worker : u # v => TasksOf(routed'[u]) \cap TasksOf(routed'[v]) = {}
    BY <2>2, <2>6 DEF RoutedOnce
  <2>8. \A v \in Worker : rejected \cap TasksOf(routed[v]) = {}
    BY DEF RoutedOnce, Routed, AllTasks
  <2>9. \A v \in Worker : rejected' \cap TasksOf(routed'[v]) = {}
    BY <1>3, <2>2, <2>6, <2>8
  <2>10. (rejected \cap Routed = {})'
    BY <2>9 DEF Routed, AllTasks
  <2> QED
    BY <2>5, <2>7, <2>10 DEF RoutedOnce
<1> QED
  BY <1>1, <1>2, <1>3, RoutedStep

LEMMA HandOfOneStep == TypeOK /\ HandOfOne /\ [Next]_vars => HandOfOne'
<1> SUFFICES ASSUME TypeOK, HandOfOne, [Next]_vars
             PROVE  HandOfOne'
  OBVIOUS
<1> hand \in [Worker -> Seq(Task)] /\ Len(<<>>) = 0
  BY EmptySeq DEF TypeOK
<1>1. ASSUME NEW w \in Worker, WaitForTask(w) PROVE HandOfOne'
  <2> DEFINE h == <<Head(pending[w])>>
  <2>1. Len(h) <= 1
    OBVIOUS
  <2>2. hand' = hand \/ hand' = [hand EXCEPT ![w] = h]
    BY <1>1 DEF WaitForTask, PopTask
  <2> HIDE DEF h
  <2>3. ASSUME NEW v \in Worker PROVE Len(hand'[v]) <= 1
    <3>1. hand'[v] = hand[v] \/ hand'[v] = h
      BY <2>2
    <3>2. CASE hand'[v] = hand[v]
      BY <3>2 DEF HandOfOne
    <3>3. CASE hand'[v] = h
      BY <2>1, <3>3
    <3> QED
      BY <3>1, <3>2, <3>3
  <2> QED
    BY <2>3 DEF HandOfOne
<1>2. ASSUME NEW w \in Worker, CallBack(w) PROVE HandOfOne'
  BY <1>2 DEF CallBack, HandOfOne
<1>3. ASSUME NEW w \in Worker, WorkerStep(w) \/ SpuriousWake(w),
             ~WaitForTask(w), ~CallBack(w)
      PROVE  hand' = hand
  BY <1>3 DEF WorkerStep, InitVm, LoopTest, SpuriousWake, MarkBusy, FinishTask,
     AfterTask, ReinitVm, CleanupWorker
<1>4. CASE Main
  <2>1. hand' = hand
    BY <1>4 DEF Main, slotVars, StartPool, AwaitWorker, SubmitRejected, SubmitPush,
       SubmitNotify, StatsCompleted, StatsFailed, StatsState, StatsPending,
       StatsReturn, StopPool, SignalStop, WakeWorker, JoinWorker
  <2> QED
    BY <2>1 DEF HandOfOne
<1>5. CASE UNCHANGED vars
  BY <1>5 DEF HandOfOne, vars, slotVars
<1> QED
  BY <1>1, <1>2, <1>3, <1>4, <1>5 DEF Next, Terminated, HandOfOne

(* No worker takes a step once every thread is joined. *)
LEMMA JoinedIsStill ==
  ASSUME JoinedExited, mpc = "stopped", NEW w \in Worker
  PROVE  ~(WorkerStep(w) \/ SpuriousWake(w))
  BY DEF JoinedExited, WorkerStep, InitVm, LoopTest, WaitForTask, SpuriousWake,
     MarkBusy, FinishTask, CallBack, AfterTask, ReinitVm, CleanupWorker

LEMMA SlotRoutedStep ==
  PoolInv /\ SlotRouted /\ [Next]_vars => SlotRouted'
<1> SUFFICES ASSUME PoolInv, SlotRouted, [Next]_vars
             PROVE  SlotRouted'
  OBVIOUS
<1>1. CASE mpc' # "stopped"
  <2> SUFFICES ASSUME NEW w \in Worker
               PROVE  TasksOf(answered'[w]) \cup TasksOf(hand'[w]) \cup TasksOf(pending'[w])
                        \subseteq TasksOf(routed'[w])
    BY DEF SlotRouted
  <2> DEFINE a == answered'[w]
             h == hand'[w]
             p == pending'[w]
             r == routed'[w]
  <2>1. PoolInv'
    BY PoolInvStep
  <2>2. a \in Seq(Task) /\ h \in Seq(Task) /\ p \in Seq(Task) /\ r = SlotOf(a, h, p)
    BY <1>1, <2>1 DEF PoolInv, TypeOK, NothingLost
  <2> HIDE DEF a, h, p, r
  <2>3. TasksOf(SlotOf(a, h, p)) = TasksOf(a) \cup TasksOf(h) \cup TasksOf(p)
    BY <2>2, SlotSplits
  <2>4. TasksOf(a) \cup TasksOf(h) \cup TasksOf(p) \subseteq TasksOf(r)
    BY <2>2, <2>3
  <2> QED
    BY <2>4 DEF a, h, p, r
<1>2. CASE mpc' = "stopped" /\ mpc # "stopped"
  <2>1. /\ answered' = answered /\ hand' = hand /\ routed' = routed
        /\ \A w \in Worker : pending'[w] = <<>>
    <3>1. JoinWorker
      BY <1>2 DEF Next, vars, mainVars, Terminated, Main, WorkerStep,
         StartPool, AwaitWorker, SubmitRejected, SubmitPush, SubmitNotify,
         StatsCompleted, StatsFailed, StatsState, StatsPending, StatsReturn,
         StopPool, SignalStop, WakeWorker, InitVm, LoopTest, WaitForTask,
         SpuriousWake, MarkBusy, FinishTask, CallBack, AfterTask, ReinitVm,
         CleanupWorker
    <3> QED
      BY <1>2, <3>1 DEF JoinWorker, slotVars, history
  <2> QED
    BY <2>1, EmptyHasNoTasks DEF SlotRouted
<1>3. CASE mpc = "stopped"
  <2>1. UNCHANGED <<answered, hand, pending, routed>>
    <3>1. \A w \in Worker : ~(WorkerStep(w) \/ SpuriousWake(w))
      BY <1>3, JoinedIsStill DEF PoolInv
    <3> QED
      BY <1>3, <3>1 DEF Next, vars, slotVars, history, Terminated, Main,
         StartPool, AwaitWorker, SubmitRejected, SubmitPush, SubmitNotify,
         StatsCompleted, StatsFailed, StatsState, StatsPending, StatsReturn,
         StopPool, SignalStop, WakeWorker, JoinWorker
  <2> QED
    BY <2>1 DEF SlotRouted
<1> QED
  BY <1>1, <1>2, <1>3

LEMMA PlaceInvStep == PlaceInv /\ [Next]_vars => PlaceInv'
  BY PoolInvStep, RoutedOnceStep, HandOfOneStep, SlotRoutedStep DEF PlaceInv, PoolInv

LEMMA PlaceInvariant == Spec => []PlaceInv
  BY PlaceInvInit, PlaceInvStep, PTL DEF Spec

-----------------------------------------------------------------------------
(* The refinement.  Status is a function of three sets: what each action   *)
(* does to them is what it does to the service.                            *)
(* The status of a task that is in the same sets as before is the same.    *)
LEMMA StatusKept ==
  ASSUME NEW t \in Task, t \in Owed' <=> t \in Owed,
         t \in Answered' <=> t \in Answered, t \in Routed' <=> t \in Routed
  PROVE  Status'[t] = Status[t]
  BY DEF Status

LEMMA SamePlaces ==
  ASSUME UNCHANGED <<pending, hand, history>>
  PROVE  Status' = Status
  BY DEF Status, Owed, Answered, Routed, AllTasks, history

LEMMA StatusMoves ==
  ASSUME NEW t \in Task, NEW to, Status'[t] = to,
         \A u \in Task : u # t => Status'[u] = Status[u]
  PROVE  Status' = [Status EXCEPT ![t] = to]
<1>1. /\ Status = [u \in Task |-> Status[u]]
      /\ Status' = [u \in Task |-> Status'[u]]
  BY DEF Status
<1> QED
  BY <1>1

LEMMA OnlyOnePlace ==
  ASSUME PlaceInv, mpc # "stopped"
  PROVE  /\ Owed \subseteq Routed /\ AllTasks(answered) \subseteq Routed
         /\ Owed \cap Answered = {}
         /\ \A v, w \in Worker : v # w =>
               TasksOf(hand[w]) \cap (TasksOf(hand[v]) \cup TasksOf(pending[v])) = {}
         /\ \A w \in Worker : TasksOf(hand[w]) \cap TasksOf(pending[w]) = {}
<1>1. ASSUME NEW w \in Worker
      PROVE  /\ TasksOf(answered[w]) \cap TasksOf(hand[w]) = {}
             /\ TasksOf(answered[w]) \cap TasksOf(pending[w]) = {}
             /\ TasksOf(hand[w]) \cap TasksOf(pending[w]) = {}
  <2> DEFINE a == answered[w]
             h == hand[w]
             p == pending[w]
             r == routed[w]
  <2>1. a \in Seq(Task) /\ h \in Seq(Task) /\ p \in Seq(Task) /\ r = SlotOf(a, h, p)
    BY DEF PlaceInv, PoolInv, TypeOK, NothingLost
  <2>2. Once(r)
    BY DEF PlaceInv, RoutedOnce
  <2> HIDE DEF a, h, p, r
  <2>3. Once(SlotOf(a, h, p))
    BY <2>1, <2>2
  <2>4. /\ TasksOf(a) \cap TasksOf(h) = {}
        /\ TasksOf(a) \cap TasksOf(p) = {}
        /\ TasksOf(h) \cap TasksOf(p) = {}
    BY <2>1, <2>3, SlotSplits
  <2> QED
    BY <2>4 DEF a, h, p
<1>2. \A w \in Worker :
        TasksOf(answered[w]) \cup TasksOf(hand[w]) \cup TasksOf(pending[w])
          \subseteq TasksOf(routed[w])
  BY DEF PlaceInv, SlotRouted
<1>3. /\ \A v, w \in Worker : v # w => TasksOf(routed[v]) \cap TasksOf(routed[w]) = {}
      /\ rejected \cap Routed = {}
  BY DEF PlaceInv, RoutedOnce
<1>4. /\ Owed \subseteq Routed
      /\ AllTasks(answered) \subseteq Routed
  BY <1>2 DEF Owed, Routed, AllTasks
<1>5. \A v, w \in Worker : v # w =>
        TasksOf(hand[w]) \cap (TasksOf(hand[v]) \cup TasksOf(pending[v])) = {}
  BY <1>2, <1>3
<1>6. Owed \cap AllTasks(answered) = {}
  <2> SUFFICES ASSUME NEW t, NEW v \in Worker, NEW w \in Worker,
                      t \in TasksOf(hand[v]) \cup TasksOf(pending[v]),
                      t \in TasksOf(answered[w])
               PROVE  FALSE
    BY DEF Owed, AllTasks
  <2>1. t \in TasksOf(routed[v]) /\ t \in TasksOf(routed[w])
    BY <1>2
  <2>2. v = w
    BY <1>3, <2>1
  <2> QED
    BY <1>1, <2>2
<1> QED
  BY <1>1, <1>3, <1>4, <1>5, <1>6 DEF Answered

LEMMA ImplementsInit == Init => Service!SInit
<1> SUFFICES ASSUME Init PROVE Service!SInit
  OBVIOUS
<1>1. Owed = {} /\ Answered = {} /\ Routed = {}
  BY EmptyHasNoTasks DEF Init, Owed, Answered, Routed, AllTasks
<1>2. Phase = "closed"
  BY DEF Init, Phase, StopPc
<1> QED
  BY <1>1, <1>2 DEF Service!SInit, Status

(* The steps that move no task. *)
LEMMA QuietSteps ==
  ASSUME TypeOK, UNCHANGED <<pending, hand, history>>,
         \/ mpc' = mpc
         \/ mpc \in MainPc \ (StopPc \cup {"off", "stopped"})
              /\ mpc' \in MainPc \ (StopPc \cup {"off", "stopped"})
         \/ mpc \in StopPc /\ mpc' \in StopPc
  PROVE  UNCHANGED Service!svars
<1>1. Status' = Status
  BY SamePlaces
<1>2. Phase' = Phase
  BY DEF Phase, StopPc, MainPc
<1> QED
  BY <1>1, <1>2 DEF Service!svars

LEMMA RefuseStep ==
  ASSUME PlaceInv, NEW t \in Task, SubmitRejected(t)
  PROVE  Service!Refuse(t)
<1>1. /\ UNCHANGED <<mpc, pending, hand, routed, answered>>
      /\ rejected' = rejected \cup {t} /\ mpc \in {"off", "stopped"}
      /\ t \notin Submitted
  BY DEF SubmitRejected, mainVars, slotVars, NextCall
<1>2. Owed' = Owed /\ Routed' = Routed /\ Answered' = Answered \cup {t}
  BY <1>1 DEF Owed, Routed, Answered, AllTasks
<1>3. Owed \subseteq Routed /\ AllTasks(answered) \subseteq Routed
  BY DEF PlaceInv, SlotRouted, Owed, Routed, AllTasks
<1>4. t \notin Owed /\ t \notin Answered /\ t \notin Routed
  BY <1>1, <1>3 DEF Submitted, Answered
<1>5. Status[t] = "new" /\ Status'[t] = "answered"
  BY <1>2, <1>4 DEF Status
<1>6. \A u \in Task : u # t => Status'[u] = Status[u]
  BY <1>2, StatusKept
<1>7. Status' = [Status EXCEPT ![t] = "answered"]
  BY <1>5, <1>6, StatusMoves
<1>8. Phase' = Phase /\ Phase \in {"closed", "ended"}
  BY <1>1 DEF Phase, StopPc
<1> QED
  BY <1>5, <1>7, <1>8 DEF Service!Refuse, Service!Move

LEMMA AcceptStep ==
  ASSUME PlaceInv, NEW t \in Task, SubmitPush(t)
  PROVE  Service!Accept(t)
<1> DEFINE w == nextWorker % NumWorkers
<1>1. /\ w \in Worker /\ mpc = "serving" /\ mpc' = "notify"
      /\ pending' = [pending EXCEPT ![w] = Append(pending[w], t)]
      /\ routed' = [routed EXCEPT ![w] = Append(routed[w], t)]
      /\ UNCHANGED <<hand, answered, rejected>>
      /\ t \notin Submitted
  BY WorkerFacts DEF PlaceInv, PoolInv, TypeOK, SubmitPush, slotVars, NextCall
<1> HIDE DEF w
<1>2. Owed \subseteq Routed /\ AllTasks(answered) \subseteq Routed
  BY <1>1, OnlyOnePlace
<1>3. t \notin Owed /\ t \notin Answered /\ t \notin Routed
  BY <1>1, <1>2 DEF Submitted, Answered
<1>4. pending \in [Worker -> Seq(Task)] /\ routed \in [Worker -> Seq(Task)]
  BY DEF PlaceInv, PoolInv, TypeOK
<1>5. AllTasks(pending') = AllTasks(pending) \cup {t}
  BY <1>1, <1>4, AllTasksPush
<1>6. AllTasks(routed') = AllTasks(routed) \cup {t}
  BY <1>1, <1>4, AllTasksPush
<1>7. Owed' = Owed \cup {t}
  BY <1>1, <1>5 DEF Owed
<1>8. Routed' = Routed \cup {t}
  BY <1>6 DEF Routed
<1>9. Answered' = Answered
  BY <1>1 DEF Answered, AllTasks
<1>10. Status[t] = "new" /\ Status'[t] = "accepted"
  BY <1>3, <1>7 DEF Status
<1>11. \A u \in Task : u # t => Status'[u] = Status[u]
  BY <1>7, <1>8, <1>9, StatusKept
<1>12. Status' = [Status EXCEPT ![t] = "accepted"]
  BY <1>10, <1>11, StatusMoves
<1>14. Phase = "open" /\ Phase' = "open"
  BY <1>1 DEF Phase, StopPc
<1> QED
  BY <1>10, <1>12, <1>14 DEF Service!Accept, Service!Move

(* Popping a task into a hand moves it within what is owed. *)
LEMMA PopStep ==
  ASSUME PlaceInv, NEW w \in Worker, WaitForTask(w)
  PROVE  UNCHANGED Service!svars
<1>1. UNCHANGED <<mpc, history>>
  BY DEF WaitForTask, mainVars
<1>2. CASE pending[w] = <<>>
  <2>1. UNCHANGED <<pending, hand>>
    BY <1>2 DEF WaitForTask
  <2> QED
    BY <1>1, <2>1, QuietSteps DEF PlaceInv, PoolInv
<1>3. CASE pending[w] # <<>>
  <2>1. /\ hand' = [hand EXCEPT ![w] = <<Head(pending[w])>>]
        /\ pending' = [pending EXCEPT ![w] = Tail(pending[w])]
        /\ hand[w] = <<>>
    BY <1>3 DEF WaitForTask, PopTask, PlaceInv, PoolInv, HandsEmpty
  <2>2. pending \in [Worker -> Seq(Task)] /\ hand \in [Worker -> Seq(Task)]
    BY DEF PlaceInv, PoolInv, TypeOK
  <2>3. TasksOf(pending[w]) = TasksOf(<<Head(pending[w])>>) \cup TasksOf(Tail(pending[w]))
    <3> DEFINE p == pending[w]
               h == <<Head(p)>>
               q == Tail(p)
               e == <<>>
    <3>1. p \in Seq(Task) /\ p # <<>> /\ e \in Seq(Task) /\ TasksOf(e) = {}
      BY <1>3, <2>2, EmptySeq, EmptyHasNoTasks
    <3> HIDE DEF p
    <3>2. q \in Seq(Task) /\ h \in Seq(Task) /\ SlotOf(e, e, p) = SlotOf(e, h, q)
      BY <3>1, PopKeepsOrder
    <3>3. SlotOf(e, e, p) = p
      <4>1. e \o e = e /\ e \o p = p
        BY <3>1, ConcatEmptySeq
      <4> QED
        BY <4>1 DEF SlotOf
    <3> HIDE DEF h, q, e
    <3>4. TasksOf(SlotOf(e, h, q)) = TasksOf(e) \cup TasksOf(h) \cup TasksOf(q)
      BY <3>1, <3>2, SlotSplits
    <3>5. TasksOf(p) = TasksOf(h) \cup TasksOf(q)
      BY <3>1, <3>2, <3>3, <3>4
    <3> QED
      BY <3>5 DEF p, h, q
  <2>4. \A v \in Worker : TasksOf(hand'[v]) \cup TasksOf(pending'[v])
                            = TasksOf(hand[v]) \cup TasksOf(pending[v])
    BY <2>1, <2>2, <2>3, EmptyHasNoTasks
  <2>5. Owed' = Owed
    <3>1. \A x : x \in Owed <=> \E v \in Worker : x \in TasksOf(hand[v]) \cup TasksOf(pending[v])
      BY DEF Owed, AllTasks
    <3>2. \A x : x \in Owed' <=> \E v \in Worker : x \in TasksOf(hand'[v]) \cup TasksOf(pending'[v])
      BY DEF Owed, AllTasks
    <3>3. \A x : x \in Owed' <=> x \in Owed
      BY <2>4, <3>1, <3>2
    <3> QED
      BY <3>3
  <2>6. Answered' = Answered /\ Routed' = Routed
    BY <1>1 DEF history, Answered, Routed, AllTasks
  <2>7. Status' = Status
    BY <2>5, <2>6 DEF Status
  <2>8. Phase' = Phase
    BY <1>1 DEF Phase
  <2> QED
    BY <2>7, <2>8 DEF Service!svars
<1> QED
  BY <1>2, <1>3

(* Calling a task back answers it, and no other task. *)
LEMMA AnswerStep ==
  ASSUME PlaceInv, NEW w \in Worker, CallBack(w)
  PROVE  UNCHANGED Service!svars \/ \E t \in Task : Service!Answer(t)
<1>1. /\ wpc[w] = "answer" /\ UNCHANGED <<mpc, pending, routed, rejected>>
      /\ answered' = [answered EXCEPT ![w] = answered[w] \o hand[w]]
      /\ hand' = [hand EXCEPT ![w] = <<>>]
  BY DEF CallBack, mainVars
<1>2. /\ hand \in [Worker -> Seq(Task)] /\ answered \in [Worker -> Seq(Task)]
      /\ mpc \in MainPc
  BY DEF PlaceInv, PoolInv, TypeOK
<1>3. mpc # "off" /\ mpc # "stopped"
  BY <1>1 DEF PlaceInv, PoolInv, HandsEmpty, JoinedExited
<1>4. Phase \in {"open", "closing"} /\ Phase' = Phase
  BY <1>1, <1>2, <1>3 DEF Phase, StopPc
<1> DEFINE H == TasksOf(hand[w])
<1>5. TasksOf(answered[w] \o hand[w]) = TasksOf(answered[w]) \cup H
  <2> DEFINE a == answered[w]
             h == hand[w]
  <2>1. a \in Seq(Task) /\ h \in Seq(Task)
    BY <1>2
  <2> HIDE DEF a, h
  <2>2. TasksOf(a \o h) = TasksOf(a) \cup TasksOf(h)
    BY <2>1, TasksOfConcat
  <2> QED
    BY <2>2 DEF a, h
<1>6. /\ \A v \in Worker : v # w => hand'[v] = hand[v] /\ answered'[v] = answered[v]
      /\ TasksOf(hand'[w]) = {} /\ TasksOf(answered'[w]) = TasksOf(answered[w]) \cup H
  BY <1>1, <1>2, <1>5, EmptyHasNoTasks
<1>7. /\ Owed \cap Answered = {}
      /\ \A v \in Worker : v # w => H \cap (TasksOf(hand[v]) \cup TasksOf(pending[v])) = {}
      /\ H \cap TasksOf(pending[w]) = {}
  BY <1>3, OnlyOnePlace
<1> HIDE DEF H
<1>8. Owed' = Owed \ H
  <2>1. \A x : x \in Owed <=> \E v \in Worker : x \in TasksOf(hand[v]) \cup TasksOf(pending[v])
    BY DEF Owed, AllTasks
  <2>2. \A x : x \in Owed' <=> \E v \in Worker : x \in TasksOf(hand'[v]) \cup TasksOf(pending[v])
    BY <1>1 DEF Owed, AllTasks
  <2>3. \A v \in Worker : TasksOf(hand'[v]) \cup TasksOf(pending[v])
                            = (TasksOf(hand[v]) \cup TasksOf(pending[v])) \ H
    BY <1>6, <1>7 DEF H
  <2>4. \A x : x \in Owed' <=> x \in Owed /\ x \notin H
    BY <2>1, <2>2, <2>3
  <2> QED
    BY <2>4
<1>9. Answered' = Answered \cup H
  <2>1. \A x : x \in Answered <=> x \in rejected \/ \E v \in Worker : x \in TasksOf(answered[v])
    BY DEF Answered, AllTasks
  <2>2. \A x : x \in Answered' <=> x \in rejected \/ \E v \in Worker : x \in TasksOf(answered'[v])
    BY <1>1 DEF Answered, AllTasks
  <2>3. \A x : x \in Answered' <=> x \in Answered \/ x \in H
    BY <1>6, <2>1, <2>2
  <2> QED
    BY <2>3
<1>10. Routed' = Routed
  BY <1>1 DEF Routed, AllTasks
<1>11. CASE H = {}
  <2>1. Owed' = Owed /\ Answered' = Answered
    BY <1>8, <1>9, <1>11
  <2>2. Status' = Status
    BY <1>10, <2>1 DEF Status
  <2> QED
    BY <1>4, <2>2 DEF Service!svars
<1>12. CASE H # {}
  <2>1. PICK t \in Task : H = {t}
    <3> DEFINE h == hand[w]
    <3>1. h \in Seq(Task) /\ Len(h) \in Nat /\ DOMAIN h = 1 .. Len(h) /\ Len(h) <= 1
      BY <1>2, LenProperties DEF PlaceInv, HandOfOne
    <3>2. H = {h[i] : i \in DOMAIN h}
      BY DEF H, TasksOf
    <3> HIDE DEF h
    <3>3. Len(h) = 1
      BY <1>12, <3>1, <3>2
    <3>4. DOMAIN h = {1} /\ h[1] \in Task
      BY <3>1, <3>3, ElementOfSeq
    <3> QED
      BY <3>2, <3>4
  <2>2. t \in Owed
    <3>1. t \in TasksOf(hand[w])
      BY <2>1 DEF H
    <3> QED
      BY <3>1 DEF Owed, AllTasks
  <2>3. t \notin Owed' /\ t \in Answered'
    BY <1>8, <1>9, <2>1
  <2>4. Status[t] = "accepted" /\ Status'[t] = "answered"
    BY <2>2, <2>3 DEF Status
  <2>5. ASSUME NEW u \in Task, u # t PROVE Status'[u] = Status[u]
    <3>1. u \notin H
      BY <2>1, <2>5
    <3> QED
      BY <1>8, <1>9, <1>10, <3>1, StatusKept
  <2>6. Status' = [Status EXCEPT ![t] = "answered"]
    BY <2>4, <2>5, StatusMoves
  <2>7. Service!Answer(t)
    BY <1>4, <2>4, <2>6 DEF Service!Answer, Service!Move
  <2> QED
    BY <2>7
<1> QED
  BY <1>11, <1>12

(* The last join destroys the queues: what they held is abandoned. *)
LEMMA EndStep ==
  ASSUME PlaceInv, JoinWorker, cur = NumWorkers - 1
  PROVE  Service!End
<1>1. /\ mpc = "join" /\ mpc' = "stopped" /\ pending' = [w \in Worker |-> <<>>]
      /\ UNCHANGED <<wpc, hand, history>> /\ wpc[cur] = "exited"
  BY DEF JoinWorker, Joinable, slotVars
<1>2. \A w \in Worker : wpc[w] = "exited"
  <2>1. \A w \in Worker : w < cur \/ w = cur
    BY WorkerFacts, NumWorkersAssumption
  <2> QED
    BY <1>1, <2>1 DEF PlaceInv, PoolInv, JoinedExited
<1>3. \A w \in Worker : hand'[w] = <<>> /\ pending'[w] = <<>>
  BY <1>1, <1>2 DEF PlaceInv, PoolInv, HandsEmpty
<1>4. Owed' = {} /\ Answered' = Answered /\ Routed' = Routed
  BY <1>1, <1>3, EmptyHasNoTasks DEF Owed, Answered, Routed, AllTasks, history
<1>5. Owed \subseteq Routed /\ Owed \cap Answered = {}
  BY <1>1, OnlyOnePlace
<1>6. Phase = "closing" /\ Phase' = "ended"
  BY <1>1 DEF Phase, StopPc
<1>7. ASSUME NEW t \in Task
      PROVE  Status'[t] = IF Status[t] = "accepted" THEN "abandoned" ELSE Status[t]
  <2>1. CASE t \in Owed
    BY <1>4, <1>5, <2>1 DEF Status
  <2>2. CASE t \notin Owed
    BY <1>4, <2>2 DEF Status
  <2> QED
    BY <2>1, <2>2
<1>8. Status' = [t \in Task |-> Status'[t]]
  BY DEF Status
<1>9. Status' = [t \in Task |-> IF Status[t] = "accepted" THEN "abandoned" ELSE Status[t]]
  BY <1>7, <1>8
<1> QED
  BY <1>6, <1>9 DEF Service!End

LEMMA ImplementsStep ==
  PlaceInv /\ [Next]_vars => [Service!SNext]_(Service!svars)
<1> SUFFICES ASSUME PlaceInv, [Next]_vars
             PROVE  Service!SNext \/ UNCHANGED Service!svars
  OBVIOUS
<1>1. TypeOK
  BY DEF PlaceInv, PoolInv
<1> USE DEF history, slotVars, mainVars
<1>2. CASE StartPool
  <2>1. UNCHANGED <<pending, hand, history>> /\ mpc = "off" /\ mpc' = "starting"
    BY <1>2 DEF StartPool
  <2>2. Status' = Status /\ Phase = "closed" /\ Phase' = "open"
    BY <2>1, SamePlaces DEF Phase, StopPc
  <2> QED
    BY <2>2 DEF Service!SNext, Service!Open
<1>3. CASE StopPool
  <2>1. UNCHANGED <<pending, hand, history>> /\ mpc = "serving" /\ mpc' = "signal"
    BY <1>3 DEF StopPool
  <2>2. Status' = Status /\ Phase = "open" /\ Phase' = "closing"
    BY <2>1, SamePlaces DEF Phase, StopPc
  <2> QED
    BY <2>2 DEF Service!SNext, Service!Close
<1>4. ASSUME NEW t \in Task, SubmitRejected(t) PROVE Service!SNext
  BY <1>4, RefuseStep DEF Service!SNext
<1>5. ASSUME NEW t \in Task, SubmitPush(t) PROVE Service!SNext
  BY <1>5, AcceptStep DEF Service!SNext
<1>6. CASE JoinWorker
  <2>1. CASE cur = NumWorkers - 1
    BY <1>6, <2>1, EndStep DEF Service!SNext
  <2>2. CASE cur # NumWorkers - 1
    <3>1. UNCHANGED <<mpc, pending, hand, history>>
      BY <1>6, <2>2 DEF JoinWorker
    <3> QED
      BY <1>1, <3>1, QuietSteps
  <2> QED
    BY <2>1, <2>2
<1>7. CASE AwaitWorker \/ SubmitNotify \/ StatsCompleted \/ StatsFailed
           \/ StatsState \/ StatsPending \/ StatsReturn
  <2>1. /\ UNCHANGED <<pending, hand, history>>
        /\ mpc \in MainPc \ (StopPc \cup {"off", "stopped"})
        /\ mpc' \in MainPc \ (StopPc \cup {"off", "stopped"})
    BY <1>7 DEF MainPc, StopPc, AwaitWorker, SubmitNotify, StatsCompleted,
       StatsFailed, StatsState, StatsPending, StatsReturn
  <2> QED
    BY <1>1, <2>1, QuietSteps
<1>8. CASE SignalStop \/ WakeWorker
  <2>1. /\ UNCHANGED <<pending, hand, history>>
        /\ mpc \in StopPc /\ mpc' \in StopPc
    BY <1>8 DEF StopPc, SignalStop, WakeWorker
  <2> QED
    BY <1>1, <2>1, QuietSteps
<1>9. ASSUME NEW w \in Worker, WaitForTask(w) PROVE UNCHANGED Service!svars
  BY <1>9, PopStep
<1>10. ASSUME NEW w \in Worker, CallBack(w)
       PROVE  Service!SNext \/ UNCHANGED Service!svars
  BY <1>10, AnswerStep DEF Service!SNext
<1>11. ASSUME NEW w \in Worker, WorkerStep(w) \/ SpuriousWake(w),
              ~WaitForTask(w), ~CallBack(w)
       PROVE  UNCHANGED Service!svars
  <2>1. UNCHANGED <<mpc, pending, hand, history>>
    BY <1>11 DEF WorkerStep, InitVm, LoopTest, SpuriousWake, MarkBusy, FinishTask,
       AfterTask, ReinitVm, CleanupWorker
  <2> QED
    BY <1>1, <2>1, QuietSteps
<1>12. CASE UNCHANGED vars
  <2>1. UNCHANGED <<mpc, pending, hand, history>>
    BY <1>12 DEF vars
  <2> QED
    BY <1>1, <2>1, QuietSteps
<1> QED
  BY <1>2, <1>3, <1>4, <1>5, <1>6, <1>7, <1>8, <1>9, <1>10, <1>11, <1>12
  DEF Next, Main, Terminated

(* The pool implements TaskService: a task is answered at most once,       *)
(* never refused while the pool is open, never answered after Stop, and    *)
(* abandoned only if Stop finds it unanswered.                             *)
THEOREM PoolImplementsService == Spec => ImplementsTaskService
  BY PlaceInvariant, ImplementsInit, ImplementsStep, PTL
  DEF Spec, ImplementsTaskService, Service!SSpec

-----------------------------------------------------------------------------
(* The statistics.  What CountedBeforeAnswered rests on: the totals, the   *)
(* answers and the workers about to answer move together, and a worker     *)
(* that is past its pop holds one task, which no one has answered.         *)
Answering == {w \in Worker : wpc[w] = "answer"}
HandHolds == \A w \in Worker : wpc[w] \in {"popped", "exec", "answer"} => hand[w] # <<>>

LEMMA FinitePlaces ==
  /\ IsFiniteSet(Worker) /\ IsFiniteSet(Task)
  /\ \A S \in SUBSET Worker : IsFiniteSet(S) /\ Cardinality(S) \in Nat
  /\ \A S \in SUBSET Task : IsFiniteSet(S) /\ Cardinality(S) \in Nat
<1>1. IsFiniteSet(Worker) /\ IsFiniteSet(Task)
  BY FS_Interval, NumWorkersAssumption, NumTasksAssumption DEF Worker, Task
<1>2. \A S \in SUBSET Worker : IsFiniteSet(S)
  BY <1>1, FS_Subset
<1>3. \A S \in SUBSET Task : IsFiniteSet(S)
  BY <1>1, FS_Subset
<1> QED
  BY <1>1, <1>2, <1>3, FS_CardinalityType

LEMMA TasksAreTasks ==
  ASSUME NEW f \in [Worker -> Seq(Task)]
  PROVE  AllTasks(f) \subseteq Task /\ \A w \in Worker : TasksOf(f[w]) \subseteq AllTasks(f)
<1>1. ASSUME NEW w \in Worker PROVE TasksOf(f[w]) \subseteq Task
  BY ElementOfSeq, LenProperties DEF TasksOf
<1> QED
  BY <1>1 DEF AllTasks

(* A sequence without repetition has as many tasks as it is long. *)
LEMMA LenIsCardinality ==
  ASSUME NEW S, NEW s \in Seq(S), Once(s)
  PROVE  IsFiniteSet(TasksOf(s)) /\ Cardinality(TasksOf(s)) = Len(s)
<1> DEFINE D == 1 .. Len(s)
           T == TasksOf(s)
<1>1. Len(s) \in Nat /\ DOMAIN s = D /\ s \in [D -> T]
  BY LenProperties DEF TasksOf
<1>2. IsFiniteSet(D) /\ Cardinality(D) = Len(s)
  BY <1>1, FS_Interval
<1>3. s \in Bijection(D, T)
  BY <1>1 DEF Bijection, Injection, Surjection, IsInjective, Once, TasksOf
<1>4. ExistsBijection(D, T)
  BY <1>3 DEF ExistsBijection
<1> HIDE DEF D, T
<1>5. IsFiniteSet(T) /\ Cardinality(T) = Cardinality(D)
  BY <1>2, <1>4, FS_Bijection
<1> QED
  BY <1>2, <1>5 DEF T

LEMMA HandHoldsStep == TypeOK /\ HandHolds /\ [Next]_vars => HandHolds'
<1> SUFFICES ASSUME TypeOK, HandHolds, [Next]_vars
             PROVE  HandHolds'
  OBVIOUS
<1> wpc \in [Worker -> WorkerPc] /\ hand \in [Worker -> Seq(Task)]
  BY DEF TypeOK
<1>1. ASSUME NEW w \in Worker, WaitForTask(w) PROVE HandHolds'
  <2>1. <<Head(pending[w])>> # <<>>
    OBVIOUS
  <2> QED
    BY <1>1, <2>1 DEF WaitForTask, PopTask, HandHolds
<1>2. ASSUME NEW w \in Worker, CallBack(w) PROVE HandHolds'
  BY <1>2 DEF CallBack, HandHolds
<1>3. ASSUME NEW w \in Worker, WorkerStep(w) \/ SpuriousWake(w),
             ~WaitForTask(w), ~CallBack(w)
      PROVE  HandHolds'
  BY <1>3 DEF WorkerStep, InitVm, LoopTest, SpuriousWake, MarkBusy, FinishTask,
     AfterTask, ReinitVm, CleanupWorker, HandHolds
<1>4. CASE Main
  <2>1. hand' = hand
    BY <1>4 DEF Main, slotVars, StartPool, AwaitWorker, SubmitRejected, SubmitPush,
       SubmitNotify, StatsCompleted, StatsFailed, StatsState, StatsPending,
       StatsReturn, StopPool, SignalStop, WakeWorker, JoinWorker
  <2>2. \A w \in Worker : wpc'[w] \in {"popped", "exec", "answer"} => wpc'[w] = wpc[w]
    BY <1>4 DEF Main, slotVars, StartPool, AwaitWorker, SubmitRejected, SubmitPush,
       SubmitNotify, StatsCompleted, StatsFailed, StatsState, StatsPending,
       StatsReturn, StopPool, SignalStop, WakeWorker, JoinWorker, NotifyOne
  <2> QED
    BY <2>1, <2>2 DEF HandHolds
<1>5. CASE UNCHANGED vars
  BY <1>5 DEF HandHolds, vars, slotVars
<1> QED
  BY <1>1, <1>2, <1>3, <1>4, <1>5 DEF Next, Terminated

(* What a worker holds between its pop and its callback. *)
LEMMA HeldTask ==
  ASSUME TypeOK, HandOfOne, HandHolds, NEW w \in Worker,
         wpc[w] \in {"popped", "exec", "answer"}
  PROVE  hand[w][1] \in Task /\ TasksOf(hand[w]) = {hand[w][1]}
<1> DEFINE h == hand[w]
<1>1. h \in Seq(Task) /\ Len(h) \in Nat /\ DOMAIN h = 1 .. Len(h) /\ Len(h) <= 1 /\ h # <<>>
  BY LenProperties DEF TypeOK, HandOfOne, HandHolds
<1> HIDE DEF h
<1>2. Len(h) = 1
  BY <1>1, EmptySeq
<1>3. DOMAIN h = {1} /\ h[1] \in Task
  BY <1>1, <1>2, ElementOfSeq
<1>4. h[1] \in Task /\ TasksOf(h) = {h[1]}
  BY <1>3 DEF TasksOf
<1> QED
  BY <1>4 DEF h

(* A callback adds the task in the hand to the answers, which did not hold it. *)
LEMMA AnswersGrow ==
  ASSUME PlaceInv, HandHolds, NEW w \in Worker, CallBack(w)
  PROVE  /\ AllTasks(answered)' = AllTasks(answered) \cup {hand[w][1]}
         /\ hand[w][1] \notin AllTasks(answered)
<1> DEFINE t == hand[w][1]
<1>1. /\ wpc[w] = "answer"
      /\ answered' = [answered EXCEPT ![w] = answered[w] \o hand[w]]
      /\ hand \in [Worker -> Seq(Task)] /\ answered \in [Worker -> Seq(Task)]
  BY DEF CallBack, PlaceInv, PoolInv, TypeOK
<1>2. TasksOf(hand[w]) = {t}
  BY <1>1, HeldTask DEF PlaceInv, PoolInv
<1>3. TasksOf(answered[w] \o hand[w]) = TasksOf(answered[w]) \cup TasksOf(hand[w])
  <2> DEFINE a == answered[w]
             h == hand[w]
  <2>1. a \in Seq(Task) /\ h \in Seq(Task)
    BY <1>1
  <2> HIDE DEF a, h
  <2>2. TasksOf(a \o h) = TasksOf(a) \cup TasksOf(h)
    BY <2>1, TasksOfConcat
  <2> QED
    BY <2>2 DEF a, h
<1> HIDE DEF t
<1>4. /\ \A v \in Worker : v # w => answered'[v] = answered[v]
      /\ TasksOf(answered'[w]) = TasksOf(answered[w]) \cup {t}
  BY <1>1, <1>2, <1>3
<1>5. \A x : x \in AllTasks(answered) <=> \E v \in Worker : x \in TasksOf(answered[v])
  BY DEF AllTasks
<1>6. \A x : x \in AllTasks(answered)' <=> \E v \in Worker : x \in TasksOf(answered'[v])
  BY DEF AllTasks
<1>7. AllTasks(answered)' = AllTasks(answered) \cup {t}
  <2>1. \A x : x \in AllTasks(answered)' <=> x \in AllTasks(answered) \/ x = t
    BY <1>4, <1>5, <1>6
  <2> QED
    BY <2>1
<1>8. t \in Owed
  BY <1>2 DEF Owed, AllTasks
<1>9. mpc # "stopped"
  BY <1>1 DEF PlaceInv, PoolInv, JoinedExited
<1>10. t \notin Answered
  BY <1>8, <1>9, OnlyOnePlace
<1> QED
  BY <1>7, <1>10 DEF Answered, t

LEMMA CountedStep ==
  PlaceInv /\ HandHolds /\ CountedBeforeAnswered /\ [Next]_vars => CountedBeforeAnswered'
<1> SUFFICES ASSUME PlaceInv, HandHolds, CountedBeforeAnswered, [Next]_vars
             PROVE  CountedBeforeAnswered'
  OBVIOUS
<1> DEFINE A == AllTasks(answered)
<1>1. TypeOK
  BY DEF PlaceInv, PoolInv
<1>2. completed + failed = Cardinality(A) + Cardinality(Answering)
  BY DEF CountedBeforeAnswered, Answering
<1>3. A \in SUBSET Task /\ Answering \in SUBSET Worker
  BY <1>1, TasksAreTasks DEF TypeOK, Answering
<1>4. /\ IsFiniteSet(A) /\ Cardinality(A) \in Nat
      /\ IsFiniteSet(Answering) /\ Cardinality(Answering) \in Nat
  BY <1>3, FinitePlaces
<1>5. SUFFICES completed' + failed' = Cardinality(A') + Cardinality(Answering')
  BY DEF CountedBeforeAnswered, Answering
<1>6. completed \in Nat /\ failed \in Nat /\ wpc \in [Worker -> WorkerPc]
  BY <1>1 DEF TypeOK
<1>7. ASSUME NEW w \in Worker, FinishTask(w)
      PROVE  completed' + failed' = Cardinality(A') + Cardinality(Answering')
  <2>1. A' = A
    BY <1>7 DEF FinishTask, history
  <2>2. Answering' = Answering \cup {w} /\ w \notin Answering
    BY <1>6, <1>7 DEF FinishTask, Answering
  <2>3. completed' + failed' = completed + failed + 1
    BY <1>6, <1>7 DEF FinishTask, CountOutcome
  <2> HIDE DEF A
  <2>4. Cardinality(Answering') = Cardinality(Answering) + 1
    BY <1>4, <2>2, FS_AddElement
  <2> QED
    BY <1>2, <1>4, <2>1, <2>3, <2>4
<1>8. ASSUME NEW w \in Worker, CallBack(w)
      PROVE  completed' + failed' = Cardinality(A') + Cardinality(Answering')
  <2>1. A' = A \cup {hand[w][1]} /\ hand[w][1] \notin A
    BY <1>8, AnswersGrow
  <2>2. Answering' = Answering \ {w} /\ w \in Answering
    BY <1>6, <1>8 DEF CallBack, Answering
  <2>3. completed' + failed' = completed + failed
    BY <1>8 DEF CallBack, totals
  <2> HIDE DEF A
  <2>4. Cardinality(Answering') = Cardinality(Answering) - 1
    BY <1>4, <2>2, FS_RemoveElement
  <2>5. Cardinality(A') = Cardinality(A) + 1
    BY <1>4, <2>1, FS_AddElement
  <2> QED
    BY <1>2, <1>4, <2>3, <2>4, <2>5
<1>9. ASSUME UNCHANGED <<completed, failed, answered>>, Answering' = Answering
      PROVE  completed' + failed' = Cardinality(A') + Cardinality(Answering')
  BY <1>2, <1>9
<1>10. ASSUME NEW w \in Worker, WorkerStep(w) \/ SpuriousWake(w),
              ~FinishTask(w), ~CallBack(w)
       PROVE  UNCHANGED <<completed, failed, answered>> /\ Answering' = Answering
  BY <1>6, <1>10 DEF WorkerStep, InitVm, LoopTest, WaitForTask, SpuriousWake, MarkBusy,
     AfterTask, ReinitVm, CleanupWorker, totals, history, Answering
<1>11. CASE Main
  <2>1. UNCHANGED <<completed, failed, answered>>
    BY <1>11 DEF Main, totals, history, StartPool, AwaitWorker, SubmitRejected,
       SubmitPush, SubmitNotify, StatsCompleted, StatsFailed, StatsState,
       StatsPending, StatsReturn, StopPool, SignalStop, WakeWorker, JoinWorker
  <2>2. Answering' = Answering
    <3>1. CASE StartPool
      BY <3>1 DEF StartPool, Answering, PlaceInv, PoolInv, HandsEmpty
    <3>2. ASSUME ~StartPool
          PROVE  \A w \in Worker : wpc'[w] = "answer" <=> wpc[w] = "answer"
      BY <1>6, <1>11, <3>2 DEF Main, slotVars, AwaitWorker, SubmitRejected, SubmitPush,
         SubmitNotify, StatsCompleted, StatsFailed, StatsState, StatsPending,
         StatsReturn, StopPool, SignalStop, WakeWorker, JoinWorker, NotifyOne
    <3> QED
      BY <3>1, <3>2 DEF Answering
  <2> QED
    BY <1>9, <2>1, <2>2
<1>12. CASE UNCHANGED vars
  BY <1>9, <1>12 DEF vars, totals, history, slotVars, Answering
<1> QED
  BY <1>7, <1>8, <1>9, <1>10, <1>11, <1>12 DEF Next, Terminated

-----------------------------------------------------------------------------
(* While the pool serves no worker is stopped: Start has seen every worker *)
(* leave kStopped, and only Stop makes a worker go back there.             *)
Serving == mpc \in {"serving", "notify"} \cup StatsPc

ServingInv ==
    /\ mpc = "off" => \A w \in Worker : ~shouldStop[w]
    /\ mpc = "starting" \/ Serving =>
          running /\ \A w \in Worker : ~shouldStop[w] /\ wpc[w] # "cleanup"
    /\ \A w \in Worker : wpc[w] \in {"unborn", "init"} => wstate[w] = "stopped"
    /\ mpc = "starting" => \A w \in Worker : w < cur => wstate[w] # "stopped"
    /\ Serving => \A w \in Worker : wstate[w] # "stopped"

(* How many workers the report of GetStats has counted so far. *)
Seen == report.idle + report.busy + report.recycling

SeenSoFar ==
    /\ mpc = "statsFailed" => cur = 0 /\ Seen = 0
    /\ mpc = "statsState" => Seen = cur
    /\ mpc = "statsPending" => Seen = cur + 1
    /\ mpc = "statsDone" => Seen = NumWorkers

(* The tasks in the queues of the slots from c on, which GetStats has yet  *)
(* to read: none of them is in the numbers it has read already.            *)
QueuedFrom(c) == UNION {TasksOf(pending[w]) : w \in {v \in Worker : v >= c}}

Counted == report.completed + report.failed + report.pending

NoneCountedTwice ==
    /\ mpc = "statsFailed" =>
          report.completed <= completed /\ report.failed = 0 /\ report.pending = 0
    /\ mpc \in {"statsState", "statsPending"} =>
          Counted <= Cardinality(Routed \ QueuedFrom(cur))
    /\ mpc = "statsDone" => Counted <= Cardinality(Routed)

StatsInv ==
    PlaceInv /\ HandHolds /\ CountedBeforeAnswered
    /\ ServingInv /\ SeenSoFar /\ NoneCountedTwice

LEMMA ServingInvStep == TypeOK /\ HandsEmpty /\ ServingInv /\ [Next]_vars => ServingInv'
<1> SUFFICES ASSUME TypeOK, HandsEmpty, ServingInv, [Next]_vars
             PROVE  ServingInv'
  OBVIOUS
<1> /\ wpc \in [Worker -> WorkerPc] /\ wstate \in [Worker -> WorkerState]
    /\ shouldStop \in [Worker -> BOOLEAN] /\ cur \in Worker
  BY DEF TypeOK
<1> USE DEF ServingInv, Serving, StatsPc, mainVars, slotVars, totals, history
<1>1. CASE StartPool
  BY <1>1, WorkerFacts DEF StartPool, HandsEmpty
<1>2. CASE AwaitWorker
  <2>1. CASE cur = NumWorkers - 1
    <3>1. \A w \in Worker : wstate[w] # "stopped"
      BY <1>2, <2>1, WorkerFacts DEF AwaitWorker
    <3> QED
      BY <1>2, <2>1, <3>1 DEF AwaitWorker
  <2>2. CASE cur # NumWorkers - 1
    <3>1. \A w \in Worker : w < cur + 1 => wstate[w] # "stopped"
      BY <1>2, WorkerFacts DEF AwaitWorker
    <3> QED
      BY <1>2, <2>2, <3>1 DEF AwaitWorker
  <2> QED
    BY <2>1, <2>2
<1>3. ASSUME NEW t \in Task, SubmitRejected(t) \/ SubmitPush(t) PROVE ServingInv'
  BY <1>3 DEF SubmitRejected, SubmitPush
<1>4. CASE SubmitNotify
  BY <1>4 DEF SubmitNotify, NotifyOne
<1>5. CASE StatsCompleted \/ StatsFailed \/ StatsState \/ StatsPending \/ StatsReturn
  BY <1>5 DEF StatsCompleted, StatsFailed, StatsState, StatsPending, StatsReturn
<1>6. CASE StopPool \/ SignalStop \/ JoinWorker
  BY <1>6 DEF StopPool, SignalStop, JoinWorker
<1>7. CASE WakeWorker
  BY <1>7 DEF WakeWorker, NotifyOne
<1>8. ASSUME NEW w \in Worker, InitVm(w) PROVE ServingInv'
  BY <1>8 DEF InitVm
<1>9. ASSUME NEW w \in Worker, LoopTest(w) PROVE ServingInv'
  BY <1>9 DEF LoopTest
<1>10. ASSUME NEW w \in Worker, WaitForTask(w) PROVE ServingInv'
  BY <1>10 DEF WaitForTask
<1>11. ASSUME NEW w \in Worker, SpuriousWake(w) \/ FinishTask(w) \/ CallBack(w)
       PROVE  ServingInv'
  BY <1>11 DEF SpuriousWake, FinishTask, CallBack
<1>12. ASSUME NEW w \in Worker, MarkBusy(w) PROVE ServingInv'
  BY <1>12 DEF MarkBusy
<1>13. ASSUME NEW w \in Worker, AfterTask(w) PROVE ServingInv'
  BY <1>13 DEF AfterTask
<1>14. ASSUME NEW w \in Worker, ReinitVm(w) PROVE ServingInv'
  BY <1>14 DEF ReinitVm
<1>15. ASSUME NEW w \in Worker, CleanupWorker(w) PROVE ServingInv'
  BY <1>15 DEF CleanupWorker
<1>16. CASE UNCHANGED vars
  BY <1>16 DEF vars
<1> QED
  BY <1>1, <1>2, <1>3, <1>4, <1>5, <1>6, <1>7, <1>8, <1>9, <1>10, <1>11, <1>12,
     <1>13, <1>14, <1>15, <1>16 DEF Next, Main, WorkerStep, Terminated

LEMMA SeenSoFarStep == TypeOK /\ ServingInv /\ SeenSoFar /\ [Next]_vars => SeenSoFar'
<1> SUFFICES ASSUME TypeOK, ServingInv, SeenSoFar, [Next]_vars
             PROVE  SeenSoFar'
  OBVIOUS
<1>1. /\ cur \in Worker /\ wstate \in [Worker -> WorkerState]
      /\ report \in [idle : Nat, busy : Nat, recycling : Nat,
                     completed : Nat, failed : Nat, pending : Nat]
  BY DEF TypeOK
<1> NumWorkers \in Int /\ \A w \in Worker : w \in Int
  BY WorkerFacts, NumWorkersAssumption
<1>2. CASE StatsCompleted
  BY <1>2 DEF StatsCompleted, SeenSoFar, Seen, NoReport
<1>3. CASE StatsFailed
  <2>1. Seen' = Seen
    BY <1>1, <1>3 DEF StatsFailed, Seen
  <2> QED
    BY <1>3, <2>1 DEF StatsFailed, SeenSoFar
<1>4. CASE StatsState
  <2> DEFINE s == wstate[cur]
             r == report
  <2>1. s \in {"idle", "busy", "recycling"}
    BY <1>1, <1>4 DEF StatsState, ServingInv, Serving, StatsPc, WorkerState
  <2>2. One(s = "idle") + One(s = "busy") + One(s = "recycling") = 1
    BY <2>1 DEF One
  <2>3. /\ report'.idle = report.idle + One(s = "idle")
        /\ report'.busy = report.busy + One(s = "busy")
        /\ report'.recycling = report.recycling + One(s = "recycling")
    BY <1>1, <1>4 DEF StatsState
  <2>4. \A b \in BOOLEAN : One(b) \in Int
    BY DEF One
  <2>5. /\ One(s = "idle") \in Int /\ One(s = "busy") \in Int
        /\ One(s = "recycling") \in Int
    BY <2>4
  <2> HIDE DEF s
  <2>6. Seen' = Seen + 1
    BY <1>1, <2>2, <2>3, <2>5 DEF Seen
  <2> QED
    BY <1>4, <2>6 DEF StatsState, SeenSoFar
<1>5. CASE StatsPending
  <2>1. Seen' = Seen
    BY <1>1, <1>5 DEF StatsPending, ReadPending, Seen
  <2> QED
    BY <1>1, <1>5, <2>1 DEF StatsPending, SeenSoFar
<1>6. CASE StatsReturn
  BY <1>6 DEF StatsReturn, SeenSoFar
<1>7. ASSUME UNCHANGED <<mpc, cur, report>> PROVE SeenSoFar'
  BY <1>7 DEF SeenSoFar, Seen
<1>8. ASSUME mpc' \notin StatsPc PROVE SeenSoFar'
  BY <1>8 DEF SeenSoFar, StatsPc
<1>9. CASE Main
  BY <1>2, <1>3, <1>4, <1>5, <1>6, <1>7, <1>8, <1>9 DEF Main, StatsPc, mainVars, StartPool,
     AwaitWorker, SubmitRejected, SubmitPush, SubmitNotify, StopPool, SignalStop,
     WakeWorker, JoinWorker
<1>10. ASSUME NEW w \in Worker, WorkerStep(w) \/ SpuriousWake(w) PROVE SeenSoFar'
  BY <1>7, <1>10 DEF WorkerStep, mainVars, InitVm, LoopTest, WaitForTask, SpuriousWake,
     MarkBusy, FinishTask, CallBack, AfterTask, ReinitVm, CleanupWorker
<1>11. CASE UNCHANGED vars
  BY <1>7, <1>11 DEF vars, mainVars
<1> QED
  BY <1>9, <1>10, <1>11 DEF Next, Terminated

(* A worker only takes tasks out of its queue. *)
LEMMA QueuesShrink ==
  ASSUME TypeOK, NEW w \in Worker, WorkerStep(w) \/ SpuriousWake(w)
  PROVE  /\ UNCHANGED <<mainVars, routed>>
         /\ \A v \in Worker : TasksOf(pending'[v]) \subseteq TasksOf(pending[v])
<1>1. UNCHANGED <<mainVars, routed>>
  BY DEF WorkerStep, history, InitVm, LoopTest, WaitForTask, SpuriousWake,
     MarkBusy, FinishTask, CallBack, AfterTask, ReinitVm, CleanupWorker
<1>2. pending' = pending
      \/ (pending[w] # <<>> /\ pending' = [pending EXCEPT ![w] = Tail(pending[w])])
  BY DEF WorkerStep, InitVm, LoopTest, WaitForTask, PopTask, SpuriousWake,
     MarkBusy, FinishTask, CallBack, AfterTask, ReinitVm, CleanupWorker
<1>3. CASE pending' = pending
  BY <1>1, <1>3
<1>4. CASE pending[w] # <<>> /\ pending' = [pending EXCEPT ![w] = Tail(pending[w])]
  <2>1. TasksOf(Tail(pending[w])) \subseteq TasksOf(pending[w])
    <3> DEFINE p == pending[w]
               q == Tail(p)
    <3>1. p \in Seq(Task) /\ p # <<>>
      BY <1>4 DEF TypeOK
    <3> HIDE DEF p
    <3>2. /\ Len(p) \in Nat /\ DOMAIN p = 1 .. Len(p) /\ DOMAIN q = 1 .. Len(q)
          /\ Len(q) = Len(p) - 1 /\ \A i \in 1 .. Len(q) : q[i] = p[i + 1]
      BY <3>1, HeadTailProperties, LenProperties
    <3> HIDE DEF q
    <3>3. \A i \in DOMAIN q : i + 1 \in DOMAIN p /\ q[i] = p[i + 1]
      BY <3>2
    <3>4. TasksOf(q) \subseteq TasksOf(p)
      BY <3>3 DEF TasksOf
    <3> QED
      BY <3>4 DEF p, q
  <2>2. pending \in [Worker -> Seq(Task)]
    BY DEF TypeOK
  <2> QED
    BY <1>1, <1>4, <2>1, <2>2
<1> QED
  BY <1>2, <1>3, <1>4

(* The totals that GetStats reads first are never more than the tasks that *)
(* were submitted and are in no queue: each is answered, or in the hands of *)
(* a worker that is about to answer it.                                    *)
LEMMA TotalsExcludeQueues ==
  ASSUME PlaceInv, HandHolds, CountedBeforeAnswered, mpc # "stopped"
  PROVE  completed + failed <= Cardinality(Routed \ AllTasks(pending))
<1> DEFINE A == AllTasks(answered)
           held == [w \in Answering |-> hand[w][1]]
           H == {hand[w][1] : w \in Answering}
           P == AllTasks(pending)
<1>1. TypeOK /\ HandOfOne
  BY DEF PlaceInv, PoolInv
<1>2. /\ completed + failed = Cardinality(A) + Cardinality(Answering)
      /\ Answering \in SUBSET Worker
  BY DEF CountedBeforeAnswered, Answering
<1>3. /\ Owed \subseteq Routed /\ A \subseteq Routed /\ Owed \cap Answered = {}
      /\ \A v, w \in Worker : v # w =>
            TasksOf(hand[w]) \cap (TasksOf(hand[v]) \cup TasksOf(pending[v])) = {}
      /\ \A w \in Worker : TasksOf(hand[w]) \cap TasksOf(pending[w]) = {}
  BY OnlyOnePlace
<1>4. \A w \in Answering : hand[w][1] \in Task /\ TasksOf(hand[w]) = {hand[w][1]}
  BY <1>1, HeldTask DEF Answering
<1>5. Cardinality(H) = Cardinality(Answering) /\ IsFiniteSet(H)
  <2>1. \A v, w \in Answering : held[v] = held[w] => v = w
    BY <1>2, <1>3, <1>4
  <2>2. held \in Bijection(Answering, H)
    BY <2>1 DEF Bijection, Injection, Surjection, IsInjective
  <2>3. ExistsBijection(Answering, H)
    BY <2>2 DEF ExistsBijection
  <2>4. IsFiniteSet(Answering)
    BY <1>2, FinitePlaces
  <2> HIDE DEF H
  <2> QED
    BY <2>3, <2>4, FS_Bijection
<1>6. H \subseteq Owed
  BY <1>2, <1>4 DEF Owed, AllTasks
<1>7. A \cap H = {} /\ A \cap P = {} /\ P \subseteq Owed
  BY <1>3, <1>6 DEF Answered, Owed
<1>8. H \cap P = {}
  <2> SUFFICES ASSUME NEW w \in Answering, NEW v \in Worker,
                      hand[w][1] \in TasksOf(pending[v])
               PROVE  FALSE
    BY DEF AllTasks
  <2> QED
    BY <1>2, <1>3, <1>4
<1>9. A \cup H \subseteq Routed \ P
  BY <1>3, <1>6, <1>7, <1>8
<1>10. /\ IsFiniteSet(Routed \ P) /\ IsFiniteSet(A)
       /\ Cardinality(A) \in Nat /\ Cardinality(H) \in Nat
  <2>1. Routed \ P \in SUBSET Task /\ A \in SUBSET Task
    BY <1>1, <1>3, TasksAreTasks DEF TypeOK, Routed
  <2> HIDE DEF H
  <2> QED
    BY <1>5, <2>1, FinitePlaces, FS_CardinalityType
<1> HIDE DEF A, H, P
<1>11. Cardinality(A \cup H) = Cardinality(A) + Cardinality(H) - Cardinality(A \cap H)
  BY <1>5, <1>10, FS_Union
<1>12. Cardinality(A \cap H) = 0
  BY <1>7, FS_EmptySet
<1>13. Cardinality(A \cup H) <= Cardinality(Routed \ P)
  BY <1>9, <1>10, FS_Subset
<1> QED
  BY <1>2, <1>5, <1>10, <1>11, <1>12, <1>13 DEF P

(* Reading the queue of slot c adds as many tasks as it holds, and they    *)
(* are no longer among those to be read.                                   *)
LEMMA ReadOneQueue ==
  ASSUME PlaceInv, mpc # "stopped", NEW c \in Worker
  PROVE  Cardinality(Routed \ QueuedFrom(c + 1))
           = Cardinality(Routed \ QueuedFrom(c)) + Len(pending[c])
<1> DEFINE Q == TasksOf(pending[c])
           R == Routed \ QueuedFrom(c)
<1>1. TypeOK
  BY DEF PlaceInv, PoolInv
<1>2. IsFiniteSet(Q) /\ Cardinality(Q) = Len(pending[c])
  <2> DEFINE p == pending[c]
             a == answered[c]
             h == hand[c]
             r == routed[c]
  <2>1. p \in Seq(Task)
    BY <1>1 DEF TypeOK
  <2>2. Once(p)
    <3>1. a \in Seq(Task) /\ h \in Seq(Task) /\ r = SlotOf(a, h, p) /\ Once(r)
      BY <1>1 DEF TypeOK, PlaceInv, PoolInv, NothingLost, RoutedOnce
    <3> HIDE DEF a, h, p, r
    <3>2. a \o h \in Seq(Task) /\ Once((a \o h) \o p)
      BY <3>1, ConcatProperties DEF SlotOf
    <3> QED
      BY <2>1, <3>2, OnceSplits
  <2> HIDE DEF p
  <2>3. IsFiniteSet(TasksOf(p)) /\ Cardinality(TasksOf(p)) = Len(p)
    BY <2>1, <2>2, LenIsCardinality
  <2> QED
    BY <2>3 DEF p
<1>3. /\ \A w \in Worker : TasksOf(pending[w]) \subseteq TasksOf(routed[w])
      /\ \A v, w \in Worker : v # w => TasksOf(routed[v]) \cap TasksOf(routed[w]) = {}
  BY DEF PlaceInv, SlotRouted, RoutedOnce
<1>4. Routed \ QueuedFrom(c + 1) = R \cup Q /\ R \cap Q = {}
  <2>1. QueuedFrom(c) = Q \cup QueuedFrom(c + 1)
    <3>1. \A v \in Worker : v >= c <=> v = c \/ v >= c + 1
      BY WorkerFacts
    <3> QED
      BY <3>1 DEF QueuedFrom
  <2>2. Q \cap QueuedFrom(c + 1) = {}
    <3>1. \A v \in Worker : v >= c + 1 => v # c
      BY WorkerFacts
    <3> QED
      BY <1>3, <3>1 DEF QueuedFrom
  <2>3. Q \subseteq Routed
    BY <1>3 DEF Routed, AllTasks
  <2> QED
    BY <2>1, <2>2, <2>3
<1>5. IsFiniteSet(R) /\ Cardinality(R) \in Nat
  <2>1. R \in SUBSET Task
    BY <1>1, TasksAreTasks DEF TypeOK, Routed
  <2> QED
    BY <2>1, FinitePlaces
<1>6. Len(pending[c]) \in Nat
  BY <1>1, LenProperties DEF TypeOK
<1> DEFINE n == Len(pending[c])
<1> HIDE DEF Q, R, n
<1>7. Cardinality(R \cup Q) = Cardinality(R) + Cardinality(Q) - Cardinality(R \cap Q)
  BY <1>2, <1>5, FS_Union
<1>8. Cardinality(R \cap Q) = 0
  BY <1>4, FS_EmptySet
<1>9. n \in Nat /\ Cardinality(Q) = n
  BY <1>2, <1>6 DEF n
<1>10. Cardinality(R \cup Q) = Cardinality(R) + n
  BY <1>5, <1>7, <1>8, <1>9
<1> QED
  BY <1>4, <1>10 DEF R, n

LEMMA NoneCountedTwiceStep ==
  StatsInv /\ [Next]_vars => NoneCountedTwice'
<1> SUFFICES ASSUME StatsInv, [Next]_vars
             PROVE  NoneCountedTwice'
  OBVIOUS
<1>1. /\ TypeOK /\ PlaceInv /\ HandHolds /\ CountedBeforeAnswered
      /\ SeenSoFar /\ NoneCountedTwice
  BY DEF StatsInv, PlaceInv, PoolInv
<1>2. /\ cur \in Worker /\ completed \in Nat /\ failed \in Nat
      /\ pending \in [Worker -> Seq(Task)]
      /\ report \in [idle : Nat, busy : Nat, recycling : Nat,
                     completed : Nat, failed : Nat, pending : Nat]
  BY <1>1 DEF TypeOK
<1>3. /\ IsFiniteSet(Routed)
      /\ \A c : IsFiniteSet(Routed \ QueuedFrom(c)) /\ Cardinality(Routed \ QueuedFrom(c)) \in Nat
  <2>1. Routed \in SUBSET Task
    BY <1>1, TasksAreTasks DEF TypeOK, Routed
  <2> QED
    BY <2>1, FinitePlaces
<1>4. CASE StatsCompleted
  <2>1. /\ report'.completed = completed /\ report'.failed = 0 /\ report'.pending = 0
        /\ completed' = completed /\ mpc' = "statsFailed"
    BY <1>4 DEF StatsCompleted, totals, NoReport
  <2> QED
    BY <1>2, <2>1 DEF NoneCountedTwice
<1>5. CASE StatsFailed
  <2>1. /\ report'.completed <= completed /\ report'.failed = failed /\ report'.pending = 0
        /\ report'.completed \in Nat
    BY <1>1, <1>2, <1>5 DEF StatsFailed, NoneCountedTwice
  <2>2. completed + failed <= Cardinality(Routed \ AllTasks(pending))
    BY <1>1, <1>5, TotalsExcludeQueues DEF StatsFailed
  <2>3. AllTasks(pending) = QueuedFrom(cur)
    <3>1. cur = 0 /\ \A w \in Worker : w >= 0
      BY <1>1, <1>5, WorkerFacts DEF StatsFailed, SeenSoFar
    <3> QED
      BY <3>1 DEF AllTasks, QueuedFrom
  <2>4. (Routed \ QueuedFrom(cur))' = Routed \ QueuedFrom(cur) /\ mpc' = "statsState"
    BY <1>5 DEF StatsFailed, history, Routed, AllTasks, QueuedFrom
  <2>5. Counted' <= Cardinality(Routed \ QueuedFrom(cur))
    <3> DEFINE n == Cardinality(Routed \ QueuedFrom(cur))
    <3>1. n \in Nat /\ completed + failed <= n
      BY <1>3, <2>2, <2>3
    <3> HIDE DEF n
    <3>2. Counted' = report'.completed + failed
      BY <1>2, <2>1 DEF Counted
    <3>3. Counted' <= n
      BY <1>2, <2>1, <3>1, <3>2
    <3> QED
      BY <3>3 DEF n
  <2> QED
    BY <2>4, <2>5 DEF NoneCountedTwice
<1>6. CASE StatsState
  <2>1. Counted' = Counted
    BY <1>2, <1>6 DEF StatsState, Counted
  <2>2. /\ (Routed \ QueuedFrom(cur))' = Routed \ QueuedFrom(cur)
        /\ mpc = "statsState" /\ mpc' = "statsPending"
    BY <1>6 DEF StatsState, history, Routed, AllTasks, QueuedFrom
  <2> QED
    BY <1>1, <2>1, <2>2 DEF NoneCountedTwice
<1>7. CASE StatsPending
  <2>1. Len(pending[cur]) \in Nat
    BY <1>2, LenProperties
  <2>2. Counted' = Counted + Len(pending[cur]) /\ Counted \in Nat
    BY <1>2, <1>7, <2>1 DEF StatsPending, ReadPending, Counted
  <2>3. Counted' <= Cardinality(Routed \ QueuedFrom(cur + 1))
    <3>1. Counted <= Cardinality(Routed \ QueuedFrom(cur))
      BY <1>1, <1>7 DEF StatsPending, NoneCountedTwice
    <3> QED
      <4> DEFINE n == Len(pending[cur])
                 m == Cardinality(Routed \ QueuedFrom(cur))
      <4>1. Cardinality(Routed \ QueuedFrom(cur + 1)) = m + n
        BY <1>1, <1>2, <1>7, ReadOneQueue DEF StatsPending
      <4>2. n \in Nat /\ m \in Nat
        BY <1>3, <2>1
      <4>3. Counted' = Counted + n /\ Counted <= m
        BY <2>2, <3>1
      <4> HIDE DEF n, m
      <4> QED
        BY <2>2, <4>1, <4>2, <4>3
  <2>4. Routed' = Routed /\ \A c : QueuedFrom(c)' = QueuedFrom(c)
    BY <1>7 DEF StatsPending, history, Routed, AllTasks, QueuedFrom
  <2>5. CASE cur = NumWorkers - 1
    <3>1. QueuedFrom(cur + 1) = {}
      BY <2>5, WorkerFacts DEF QueuedFrom
    <3>2. mpc' = "statsDone"
      BY <1>7, <2>5 DEF StatsPending
    <3> QED
      BY <2>3, <2>4, <3>1, <3>2 DEF NoneCountedTwice
  <2>6. CASE cur # NumWorkers - 1
    <3>1. mpc' = "statsState" /\ cur' = cur + 1
      BY <1>7, <2>6 DEF StatsPending
    <3>2. QueuedFrom(cur)' = QueuedFrom(cur + 1)
      BY <1>7, <3>1 DEF StatsPending, QueuedFrom
    <3> QED
      BY <2>3, <2>4, <3>1, <3>2 DEF NoneCountedTwice
  <2> QED
    BY <2>5, <2>6
<1>8. ASSUME mpc' \notin StatsPc PROVE NoneCountedTwice'
  BY <1>8 DEF NoneCountedTwice, StatsPc
<1>9. CASE StatsReturn
  BY <1>8, <1>9 DEF StatsReturn, StatsPc
<1>10. CASE UNCHANGED vars
  BY <1>1, <1>10 DEF NoneCountedTwice, Counted, Routed, AllTasks, QueuedFrom, vars,
     mainVars, totals, history
<1>11. CASE Main
  BY <1>4, <1>5, <1>6, <1>7, <1>8, <1>9, <1>11 DEF Main, StatsPc, StartPool, AwaitWorker,
     SubmitRejected, SubmitPush, SubmitNotify, StopPool, SignalStop, WakeWorker,
     JoinWorker, mainVars
<1>12. ASSUME NEW w \in Worker, WorkerStep(w) \/ SpuriousWake(w) PROVE NoneCountedTwice'
  <2>1. /\ mpc' = mpc /\ cur' = cur /\ report' = report /\ Routed' = Routed
        /\ \A v \in Worker : TasksOf(pending'[v]) \subseteq TasksOf(pending[v])
    BY <1>1, <1>12, QueuesShrink DEF mainVars, Routed, AllTasks
  <2>2. completed' = completed \/ completed' = completed + 1
    <3>1. CASE FinishTask(w)
      BY <3>1 DEF FinishTask, CountOutcome
    <3>2. CASE ~FinishTask(w)
      BY <1>12, <3>2 DEF WorkerStep, totals, InitVm, LoopTest, WaitForTask, SpuriousWake,
         MarkBusy, CallBack, AfterTask, ReinitVm, CleanupWorker
    <3> QED
      BY <3>1, <3>2
  <2>3. Routed \ QueuedFrom(cur) \subseteq (Routed \ QueuedFrom(cur))'
    BY <2>1 DEF QueuedFrom
  <2>4. IsFiniteSet((Routed \ QueuedFrom(cur))')
    BY <1>3, <2>1, FS_Subset
  <2>5. Cardinality(Routed \ QueuedFrom(cur)) <= Cardinality((Routed \ QueuedFrom(cur))')
    BY <2>3, <2>4, FS_Subset
  <2>6. Cardinality((Routed \ QueuedFrom(cur))') \in Nat /\ Counted \in Nat
    BY <1>2, <2>4, FS_CardinalityType DEF Counted
  <2>7. Counted' = Counted
    BY <2>1 DEF Counted
  <2>8. mpc = "statsFailed" =>
           report'.completed <= completed' /\ report'.failed = 0 /\ report'.pending = 0
    BY <1>1, <1>2, <2>1, <2>2 DEF NoneCountedTwice
  <2>9. mpc \in {"statsState", "statsPending"} =>
           Counted' <= Cardinality((Routed \ QueuedFrom(cur))')
    BY <1>1, <1>3, <2>5, <2>6, <2>7 DEF NoneCountedTwice
  <2> QED
    BY <1>1, <2>1, <2>7, <2>8, <2>9 DEF NoneCountedTwice
<1> QED
  BY <1>10, <1>11, <1>12 DEF Next, Terminated

LEMMA StatsInvInit == Init => StatsInv
<1> SUFFICES ASSUME Init PROVE StatsInv
  OBVIOUS
<1>1. PlaceInv
  BY PlaceInvInit
<1>2. HandHolds /\ ServingInv /\ SeenSoFar /\ NoneCountedTwice
  BY DEF Init, HandHolds, ServingInv, Serving, StatsPc, SeenSoFar, NoneCountedTwice
<1>3. CountedBeforeAnswered
  <2>1. AllTasks(answered) = {} /\ {w \in Worker : wpc[w] = "answer"} = {}
    BY EmptyHasNoTasks DEF Init, AllTasks
  <2>2. completed = 0 /\ failed = 0 /\ Cardinality({}) = 0
    BY FS_EmptySet DEF Init
  <2> QED
    BY <2>1, <2>2 DEF CountedBeforeAnswered
<1> QED
  BY <1>1, <1>2, <1>3 DEF StatsInv

LEMMA StatsInvStep == StatsInv /\ [Next]_vars => StatsInv'
  BY PlaceInvStep, HandHoldsStep, CountedStep, ServingInvStep, SeenSoFarStep,
     NoneCountedTwiceStep DEF StatsInv, PlaceInv, PoolInv

(* What GetStats returns is true of the pool, though it reads each number  *)
(* at another moment: the totals are the answers and the tasks about to be *)
(* answered, nothing is counted twice, and no worker is overlooked.        *)
THEOREM StatisticsAreHonest == Spec => []StatsHonest
<1>1. StatsInv => StatsHonest
  BY DEF StatsInv, StatsHonest, SeenSoFar, Seen, NoneCountedTwice, Counted,
     StatsNoDoubleCount, StatsSeesAllWorkers
<1> QED
  BY <1>1, StatsInvInit, StatsInvStep, PTL DEF Spec
=============================================================================
