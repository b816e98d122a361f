--------------------- MODULE SequencedWorkerPool_proofs ---------------------
(***************************************************************************)
(* Proofs about SequencedWorkerPool, for any number of workers, posters    *)
(* and tasks: types and counters, sequences that neither overlap nor       *)
(* overtake, work that has a worker, and what Shutdown and FlushForTesting *)
(* promise.                                                                *)
(*                                                                         *)
(* The inductive invariant:                                                *)
(*   Jobs      each running task has one worker, each worker one task;     *)
(*   Tokens    current_sequences_ holds the tokens of the running tasks;   *)
(*   Sequence  no task starts before an earlier one of its token;          *)
(*   Closures  what was taken off the queue to be deleted has one worker   *)
(*             that deletes it;                                            *)
(*   Origin    tasks are of the kinds that are posted, and those that      *)
(*             block shutdown are never deleted;                           *)
(*   Places    where a thread may sleep, hold the lock or have chores;     *)
(*   Creation  at most one thread is being created;                        *)
(*   Counts    the counters count;                                         *)
(*   Phases    the rendezvous of the cleanup;                              *)
(*   Flushed   what was posted before a flush is done when it ends;        *)
(*   Covered   a task that may run has a thread on its way.                *)
(***************************************************************************)
EXTENDS SequencedWorkerPool, TLAPS, FiniteSetTheorems, WellFoundedInduction

InState(s) == {t \in TaskIds : tasks[t].state = s}
Running    == InState("running")

Jobs ==
  /\ \A w \in Worker : pc[w] = "running" => job[w] \in Running
  /\ \A v, w \in Worker : pc[v] = "running" /\ pc[w] = "running" /\ job[v] = job[w] => v = w
  /\ \A t \in Running : \E w \in Worker : pc[w] = "running" /\ job[w] = t

Tokens ==
  /\ current = {tasks[t].token : t \in Running} \ {0}
  /\ \A t, u \in Running : tasks[t].token = tasks[u].token => t = u \/ tasks[t].token = 0

Sequence ==
  \A t, u \in TaskIds :
    /\ tasks[t].token # 0 /\ tasks[t].token = tasks[u].token
    /\ t < u /\ tasks[t].time <= tasks[u].time
    /\ tasks[u].state \in {"running", "done"}
    => tasks[t].state \notin {"pending", "running"}

HasChore(x, c) == \E k \in DOMAIN chores[x] : chores[x][k] = c

Closures ==
  /\ \A w \in Worker : doomed[w] \subseteq InState("doomed")
  /\ \A t \in InState("doomed") : \E w \in Worker : t \in doomed[w]
  /\ \A v, w \in Worker : v # w => doomed[v] \cap doomed[w] = {}
  /\ \A w \in Worker : doomed[w] # {} => pc[w] = "waiting" \/ HasChore(w, "delete")

Origin ==
  /\ Len(tasks) <= MaxTasks
  /\ \A t \in TaskIds :
       /\ tasks[t].token \in {k.token : k \in AnyKind}
       /\ tasks[t].state \in {"doomed", "deleted"} => tasks[t].shutdown # "block"
       /\ tasks[t].time > clock => tasks[t].shutdown = "skip"

Deleting == {<<"signal", "delete">>, <<"delete">>,
             <<"signal", "delete", "create">>, <<"delete", "create">>}

ChoresOf(x) ==
  \/ chores[x] = <<>>
  \/ /\ x \in Worker => pc[x] = "running"
     /\ chores[x] \in {<<"signal">>, <<"create">>}
  \/ x \in Worker /\ pc[x] = "running" /\ chores[x] \in Deleting
  \/ x \in Worker /\ pc[x] = "cleaned" /\ chores[x] = <<"delete">>
  \/ x \in Worker /\ pc[x] = "leaving" /\ chores[x] \in {<<"signal", "can_shutdown">>, <<"can_shutdown">>}

PlaceOf(w) ==
  /\ holder = w => asleep[w] = Awake /\ pc[w] \in {"top", "get", "cleaner", "idler", "finisher"}
  /\ pc[w] \in {"top", "get"} => holder = w
  /\ pc[w] \in {"cleaner", "idler", "finisher"} => asleep[w] \in {Awake, "cleanup"}
  /\ pc[w] = "waiting" => asleep[w] \in {Awake, "work", "timed"}
  /\ pc[w] \notin {"cleaner", "idler", "finisher", "waiting"} => asleep[w] = Awake

Places ==
  /\ \A x \in Thread : ChoresOf(x)
  /\ \A w \in Worker : PlaceOf(w)
  /\ \A x \in Thread \ Worker : asleep[x] \in {Awake, "cleanup", "can_shutdown"}

Starting == {w \in Worker : pc[w] = "starting"}
Creators == {x \in Thread : HasChore(x, "create")}

Creation ==
  /\ beingCreated <=> Starting # {} \/ Creators # {}
  /\ Starting = {} \/ Creators = {}
  /\ \A v, w \in Starting : v = w
  /\ \A x, y \in Creators : x = y

PendingBlock == {t \in Pending : tasks[t].shutdown = "block"}
RunningBlock == {t \in TaskIds : tasks[t].state = "running" /\ tasks[t].shutdown # "continue"}
Waiting      == {w \in Worker : pc[w] = "waiting"}
Idlers       == {w \in Worker : pc[w] = "idler"}

Counts ==
  /\ blockPending = Cardinality(PendingBlock)
  /\ blockThreads = Cardinality(RunningBlock)
  /\ waiting = Cardinality(Waiting)
  /\ idlers = Cardinality(Idlers)

Phases ==
  /\ shutdown <=> call \in {"shutting_down", "shut_down"}
  /\ cleanup # "done" => call = "flushing"
  /\ cleanup \in {"done", "requested"} => Idlers = {}
  /\ cleanup # "starting" => \A w \in Worker : pc[w] # "cleaner"
  /\ \A v, w \in Worker : pc[v] = "cleaner" /\ pc[w] = "cleaner" => v = w
  /\ cleanup = "running" =>
       /\ ~beingCreated
       /\ \E w \in Worker : /\ pc[w] \in {"top", "get", "running", "cleaned"}
                            /\ \A v \in Worker \ {w} : pc[v] \in {"none", "idler"}

Flushed ==
  /\ mark <= Len(tasks)
  /\ cleanup = "finishing" \/ (call = "flushing" /\ cleanup = "done") =>
       \A t \in 1..mark : tasks[t].state \in {"done", "deleted"}

\* A worker that will look at the queue.
Coming(w) ==
  \/ pc[w] \in {"starting", "top", "get", "cleaner", "idler", "finisher", "cleaned"}
  \/ pc[w] = "waiting" /\ asleep[w] = Awake

Creatable == ~shutdown /\ cleanup = "done" /\ Threads # Worker

Covered ==
  \A t \in Stop :
    \/ \E x \in Thread : HasChore(x, "create")
    \/ \E w \in Worker : Coming(w)
    \/ IF Waiting = {} THEN ~Creatable
       ELSE \/ \E x \in Thread : HasChore(x, "signal")
            \/ \E w \in Waiting : asleep[w] = "timed" /\ wakeAt[w] <= tasks[t].time

PoolInv ==
  /\ Typed /\ Jobs /\ Tokens /\ Sequence /\ Closures /\ Origin /\ Places /\ Creation /\ Counts
  /\ Phases /\ Flushed /\ Covered /\ ShutdownKeepsPromise

(***************************************************************************)
(* Numbers, sequences and the queue.                                       *)
(***************************************************************************)
States == {"pending", "running", "done", "doomed", "deleted"}

\* A set of numbers that is not empty has a least one.
LEMMA LeastNumber ==
  ASSUME NEW S, S \subseteq Nat, S # {}
  PROVE  \E s \in S : \A r \in S : s <= r
<1>1. PICK s \in S : \A r \in S : ~ (<<r, s>> \in OpToRel(<, Nat))
  BY NatLessThanWellFounded, WFMin
<1>2. ASSUME NEW r \in S PROVE s <= r
  <2>1. <<r, s>> \in Nat \X Nat
    OBVIOUS
  <2>2. r < s => <<r, s>> \in OpToRel(<, Nat)
    BY <2>1 DEF OpToRel
  <2>3. ~(r < s)
    BY <1>1, <2>2, Zenon
  <2>4. r \in Nat /\ s \in Nat
    BY <2>1
  <2>5. QED
    BY <2>3, <2>4
<1>3. QED
  BY <1>2

LEMMA TaskType ==
  ASSUME Typed
  PROVE  /\ TaskIds = 1..Len(tasks) /\ Len(tasks) \in Nat
         /\ \A t \in TaskIds : /\ t \in Nat /\ t # 0 /\ tasks[t] \in TaskRecord
                               /\ tasks[t].time \in Nat /\ tasks[t].token \in Nat
                               /\ tasks[t].state \in States /\ tasks[t].shutdown \in Behaviors
<1>1. TaskIds = 1..Len(tasks) /\ Len(tasks) \in Nat /\ \A t \in TaskIds : tasks[t] \in TaskRecord
  BY DEF Typed, TaskIds
<1>2. \A r \in TaskRecord : /\ r.time \in Nat /\ r.token \in Nat
                            /\ r.state \in States /\ r.shutdown \in Behaviors
  BY DEF TaskRecord, States
<1>3. QED
  BY <1>1, <1>2

\* SequencedTaskLessThan orders the tasks, so a queue that is not empty has a first one.
LEMMA FirstIsFirst ==
  ASSUME Typed, NEW S, S \subseteq TaskIds, S # {}
  PROVE  /\ FirstOf(S) \in S
         /\ \A u \in S : u # FirstOf(S) => Before(FirstOf(S), u)
<1> DEFINE times == {tasks[t].time : t \in S}
<1>1. times \subseteq Nat /\ times # {}
  BY TaskType
<1>2. PICK a \in times : \A b \in times : a <= b
  BY <1>1, LeastNumber
<1> DEFINE early == {t \in S : tasks[t].time = a}
<1>3. early \subseteq Nat /\ early # {}
  BY <1>2, TaskType
<1>4. PICK t \in early : \A u \in early : t <= u
  BY <1>3, LeastNumber
<1>5. t \in S /\ \A u \in S \ {t} : Before(t, u)
  <2> SUFFICES ASSUME NEW u \in S, u # t PROVE Before(t, u)
    BY <1>4
  <2>1. /\ t \in Nat /\ u \in Nat /\ tasks[t].time = a
        /\ tasks[u].time \in Nat /\ a \in Nat /\ a <= tasks[u].time
    BY <1>1, <1>2, <1>4, TaskType
  <2>2. CASE tasks[u].time = a
    BY <1>4, <2>1, <2>2 DEF Before
  <2>3. CASE tasks[u].time # a
    BY <2>1, <2>3 DEF Before
  <2>4. QED
    BY <2>2, <2>3
<1>6. \E f \in S : \A u \in S \ {f} : Before(f, u)
  BY <1>5
<1>7. /\ FirstOf(S) \in S /\ \A u \in S \ {FirstOf(S)} : Before(FirstOf(S), u)
  BY <1>6 DEF FirstOf
<1>8. QED
  BY <1>7

\* The tasks that GetWork goes through.
LEMMA Queue ==
  ASSUME Typed
  PROVE  /\ Stop \subseteq Pending /\ Pending \subseteq TaskIds
         /\ Stop # {} => /\ FirstOf(Stop) \in Stop
                         /\ \A u \in Stop : u # FirstOf(Stop) => Before(FirstOf(Stop), u)
         /\ OnTheWay \subseteq Skipped /\ Skipped \subseteq Pending
         /\ \A t \in OnTheWay : t \notin Stop /\ shutdown /\ tasks[t].shutdown # "block"
         /\ shutdown => \A t \in Stop : tasks[t].shutdown = "block"
  <1>1. Stop \subseteq Pending /\ Pending \subseteq TaskIds /\ Skipped \subseteq Pending
    BY DEF Stop, Runnable, Pending, Skipped
  <1>2. OnTheWay \subseteq Skipped
    BY DEF OnTheWay
  <1>3. \A t \in OnTheWay : t \notin Stop /\ shutdown /\ tasks[t].shutdown # "block"
    BY <1>2 DEF Stop, Skipped
  <1>4. shutdown => \A t \in Stop : tasks[t].shutdown = "block"
    BY DEF Stop, Skipped
  <1>5. Stop # {} => /\ FirstOf(Stop) \in Stop
                     /\ \A u \in Stop : u # FirstOf(Stop) => Before(FirstOf(Stop), u)
    BY <1>1, FirstIsFirst
  <1>6. QED
    BY <1>1, <1>2, <1>3, <1>4, <1>5

\* A list of tasks in which only states differ.
OnlyStates(n) ==
  /\ n \in Seq(TaskRecord) /\ Len(n) = Len(tasks) /\ DOMAIN n = TaskIds
  /\ \A t \in TaskIds : /\ n[t].token = tasks[t].token /\ n[t].time = tasks[t].time
                        /\ n[t].shutdown = tasks[t].shutdown

LEMMA StatesSet ==
  ASSUME Typed, NEW T, NEW s \in States
  PROVE  /\ OnlyStates(SetState(T, s))
         /\ \A t \in TaskIds : SetState(T, s)[t].state = IF t \in T THEN s ELSE tasks[t].state
<1> DEFINE n == SetState(T, s)
<1>1. n = [t \in TaskIds |-> IF t \in T THEN [tasks[t] EXCEPT !.state = s] ELSE tasks[t]]
  BY DEF SetState
<1>2. \A t \in TaskIds : n[t] = IF t \in T THEN [tasks[t] EXCEPT !.state = s] ELSE tasks[t]
  BY <1>1
<1>3. \A t \in TaskIds : [tasks[t] EXCEPT !.state = s] \in TaskRecord
  BY TaskType DEF TaskRecord, States
<1>4. n \in [1..Len(tasks) -> TaskRecord] /\ DOMAIN n = TaskIds
  BY <1>1, <1>3, TaskType
<1>5. n \in Seq(TaskRecord) /\ Len(n) = Len(tasks)
  BY <1>4, TaskType
<1>6. ASSUME NEW t \in TaskIds
      PROVE  /\ n[t].token = tasks[t].token /\ n[t].time = tasks[t].time
             /\ n[t].shutdown = tasks[t].shutdown
             /\ n[t].state = IF t \in T THEN s ELSE tasks[t].state
  BY <1>2, <1>6, TaskType DEF TaskRecord
<1>7. QED
  BY <1>4, <1>5, <1>6 DEF OnlyStates

(***************************************************************************)
(* Which steps change what.                                                *)
(***************************************************************************)
LEMMA TasksChanges ==
  ASSUME [Next]_vars
  PROVE  \/ tasks' = tasks
         \/ \E x \in Thread, k \in AnyKind : PostTask(x, k)
         \/ \E w \in Worker : DeleteOutsideLock(w) \/ FinishTask(w) \/ WakeUp(w) \/
              RunTask(w) \/ DeleteDelayed(w) \/ LeaveLoop(w) \/ WaitForWork(w)
  BY ZenonT(60)
  DEF Next, DoesChore, TakesLock, HolderSteps, HandleCleanup, OwnerTakesLock, vars,
     queueVars, threadVars, cleanupVars, workerVars, ownerVars, SignalHasWork, CreateThread,
     SignalCanShutdown, StartThread, Relock, NoCleanup, BecomeCleaner, CleanerWaits,
     CleanerStarts, BecomeIdler, IdlerChecks, BecomeFinisher, FinisherWaits, FinisherGoesOn,
     CleanupDone, TimedWaitEnds, Shutdown, Flush, ShutdownWaits, ShutdownReturns,
     FlushWaits, FlushReturns, Tick

LEMMA CurrentChanges ==
  ASSUME [Next]_vars
  PROVE  \/ current' = current
         \/ \E w \in Worker : FinishTask(w) \/ RunTask(w)
  BY ZenonT(60)
  DEF Next, DoesChore, TakesLock, HolderSteps, HandleCleanup, OwnerTakesLock, vars,
     queueVars, threadVars, cleanupVars, workerVars, ownerVars, PostTask, SignalHasWork,
     CreateThread, DeleteOutsideLock, SignalCanShutdown, StartThread, WakeUp, Relock,
     NoCleanup, BecomeCleaner, CleanerWaits, CleanerStarts, BecomeIdler, IdlerChecks,
     BecomeFinisher, FinisherWaits, FinisherGoesOn, DeleteDelayed, CleanupDone, LeaveLoop,
     WaitForWork, TimedWaitEnds, Shutdown, Flush, ShutdownWaits, ShutdownReturns,
     FlushWaits, FlushReturns, Tick

LEMMA BlockPendingChanges ==
  ASSUME [Next]_vars
  PROVE  \/ blockPending' = blockPending
         \/ \E x \in Thread, k \in AnyKind : PostTask(x, k)
         \/ \E w \in Worker : RunTask(w)
  BY ZenonT(60)
  DEF Next, DoesChore, TakesLock, HolderSteps, HandleCleanup, OwnerTakesLock, vars,
     queueVars, threadVars, cleanupVars, workerVars, ownerVars, SignalHasWork, CreateThread,
     DeleteOutsideLock, SignalCanShutdown, StartThread, FinishTask, WakeUp, Relock,
     NoCleanup, BecomeCleaner, CleanerWaits, CleanerStarts, BecomeIdler, IdlerChecks,
     BecomeFinisher, FinisherWaits, FinisherGoesOn, DeleteDelayed, CleanupDone, LeaveLoop,
     WaitForWork, TimedWaitEnds, Shutdown, Flush, ShutdownWaits, ShutdownReturns,
     FlushWaits, FlushReturns, Tick

LEMMA BeingCreatedChanges ==
  ASSUME [Next]_vars
  PROVE  \/ beingCreated' = beingCreated
         \/ \E x \in Thread, k \in AnyKind : PostTask(x, k)
         \/ \E w \in Worker : StartThread(w) \/ RunTask(w)
  BY ZenonT(60)
  DEF Next, DoesChore, TakesLock, HolderSteps, HandleCleanup, OwnerTakesLock, vars,
     queueVars, threadVars, cleanupVars, workerVars, ownerVars, SignalHasWork, CreateThread,
     DeleteOutsideLock, SignalCanShutdown, FinishTask, WakeUp, Relock, NoCleanup,
     BecomeCleaner, CleanerWaits, CleanerStarts, BecomeIdler, IdlerChecks, BecomeFinisher,
     FinisherWaits, FinisherGoesOn, DeleteDelayed, CleanupDone, LeaveLoop, WaitForWork,
     TimedWaitEnds, Shutdown, Flush, ShutdownWaits, ShutdownReturns, FlushWaits,
     FlushReturns, Tick

LEMMA WaitingChanges ==
  ASSUME [Next]_vars
  PROVE  \/ waiting' = waiting
         \/ \E w \in Worker : WakeUp(w) \/ WaitForWork(w)
  BY ZenonT(60)
  DEF Next, DoesChore, TakesLock, HolderSteps, HandleCleanup, OwnerTakesLock, vars,
     queueVars, threadVars, cleanupVars, workerVars, ownerVars, PostTask, SignalHasWork,
     CreateThread, DeleteOutsideLock, SignalCanShutdown, StartThread, FinishTask, Relock,
     NoCleanup, BecomeCleaner, CleanerWaits, CleanerStarts, BecomeIdler, IdlerChecks,
     BecomeFinisher, FinisherWaits, FinisherGoesOn, RunTask, DeleteDelayed, CleanupDone,
     LeaveLoop, TimedWaitEnds, Shutdown, Flush, ShutdownWaits, ShutdownReturns, FlushWaits,
     FlushReturns, Tick

LEMMA BlockThreadsChanges ==
  ASSUME [Next]_vars
  PROVE  \/ blockThreads' = blockThreads
         \/ \E w \in Worker : FinishTask(w) \/ RunTask(w)
  BY ZenonT(60)
  DEF Next, DoesChore, TakesLock, HolderSteps, HandleCleanup, OwnerTakesLock, vars,
     queueVars, threadVars, cleanupVars, workerVars, ownerVars, PostTask, SignalHasWork,
     CreateThread, DeleteOutsideLock, SignalCanShutdown, StartThread, WakeUp, Relock,
     NoCleanup, BecomeCleaner, CleanerWaits, CleanerStarts, BecomeIdler, IdlerChecks,
     BecomeFinisher, FinisherWaits, FinisherGoesOn, DeleteDelayed, CleanupDone, LeaveLoop,
     WaitForWork, TimedWaitEnds, Shutdown, Flush, ShutdownWaits, ShutdownReturns,
     FlushWaits, FlushReturns, Tick

LEMMA ShutdownChanges ==
  ASSUME [Next]_vars
  PROVE  \/ shutdown' = shutdown
         \/ Shutdown
  BY ZenonT(60)
  DEF Next, DoesChore, TakesLock, HolderSteps, HandleCleanup, OwnerTakesLock, vars,
     queueVars, threadVars, cleanupVars, workerVars, ownerVars, PostTask, SignalHasWork,
     CreateThread, DeleteOutsideLock, SignalCanShutdown, StartThread, FinishTask, WakeUp,
     Relock, NoCleanup, BecomeCleaner, CleanerWaits, CleanerStarts, BecomeIdler,
     IdlerChecks, BecomeFinisher, FinisherWaits, FinisherGoesOn, RunTask, DeleteDelayed,
     CleanupDone, LeaveLoop, WaitForWork, TimedWaitEnds, Flush, ShutdownWaits,
     ShutdownReturns, FlushWaits, FlushReturns, Tick

LEMMA NewBlockingChanges ==
  ASSUME [Next]_vars
  PROVE  \/ newBlocking' = newBlocking
         \/ \E x \in Thread, k \in AnyKind : PostTask(x, k)
         \/ Shutdown
  BY ZenonT(60)
  DEF Next, DoesChore, TakesLock, HolderSteps, HandleCleanup, OwnerTakesLock, vars,
     queueVars, threadVars, cleanupVars, workerVars, ownerVars, SignalHasWork, CreateThread,
     DeleteOutsideLock, SignalCanShutdown, StartThread, FinishTask, WakeUp, Relock,
     NoCleanup, BecomeCleaner, CleanerWaits, CleanerStarts, BecomeIdler, IdlerChecks,
     BecomeFinisher, FinisherWaits, FinisherGoesOn, RunTask, DeleteDelayed, CleanupDone,
     LeaveLoop, WaitForWork, TimedWaitEnds, Flush, ShutdownWaits, ShutdownReturns,
     FlushWaits, FlushReturns, Tick

LEMMA CleanupChanges ==
  ASSUME [Next]_vars
  PROVE  \/ cleanup' = cleanup
         \/ \E w \in Worker : BecomeCleaner(w) \/ CleanerStarts(w) \/ FinisherGoesOn(w) \/
              CleanupDone(w)
         \/ Flush
  BY ZenonT(60)
  DEF Next, DoesChore, TakesLock, HolderSteps, HandleCleanup, OwnerTakesLock, vars,
     queueVars, threadVars, cleanupVars, workerVars, ownerVars, PostTask, SignalHasWork,
     CreateThread, DeleteOutsideLock, SignalCanShutdown, StartThread, FinishTask, WakeUp,
     Relock, NoCleanup, CleanerWaits, BecomeIdler, IdlerChecks, BecomeFinisher,
     FinisherWaits, RunTask, DeleteDelayed, LeaveLoop, WaitForWork, TimedWaitEnds, Shutdown,
     ShutdownWaits, ShutdownReturns, FlushWaits, FlushReturns, Tick

LEMMA IdlersChanges ==
  ASSUME [Next]_vars
  PROVE  \/ idlers' = idlers
         \/ \E w \in Worker : BecomeIdler(w) \/ IdlerChecks(w)
         \/ Flush
  BY ZenonT(60)
  DEF Next, DoesChore, TakesLock, HolderSteps, HandleCleanup, OwnerTakesLock, vars,
     queueVars, threadVars, cleanupVars, workerVars, ownerVars, PostTask, SignalHasWork,
     CreateThread, DeleteOutsideLock, SignalCanShutdown, StartThread, FinishTask, WakeUp,
     Relock, NoCleanup, BecomeCleaner, CleanerWaits, CleanerStarts, BecomeFinisher,
     FinisherWaits, FinisherGoesOn, RunTask, DeleteDelayed, CleanupDone, LeaveLoop,
     WaitForWork, TimedWaitEnds, Shutdown, ShutdownWaits, ShutdownReturns, FlushWaits,
     FlushReturns, Tick

LEMMA ClockChanges ==
  ASSUME [Next]_vars
  PROVE  \/ clock' = clock
         \/ Tick
  BY ZenonT(60)
  DEF Next, DoesChore, TakesLock, HolderSteps, HandleCleanup, OwnerTakesLock, vars,
     queueVars, threadVars, cleanupVars, workerVars, ownerVars, PostTask, SignalHasWork,
     CreateThread, DeleteOutsideLock, SignalCanShutdown, StartThread, FinishTask, WakeUp,
     Relock, NoCleanup, BecomeCleaner, CleanerWaits, CleanerStarts, BecomeIdler,
     IdlerChecks, BecomeFinisher, FinisherWaits, FinisherGoesOn, RunTask, DeleteDelayed,
     CleanupDone, LeaveLoop, WaitForWork, TimedWaitEnds, Shutdown, Flush, ShutdownWaits,
     ShutdownReturns, FlushWaits, FlushReturns

LEMMA JobChanges ==
  ASSUME [Next]_vars
  PROVE  \/ job' = job
         \/ \E w \in Worker : FinishTask(w) \/ RunTask(w)
  BY ZenonT(60)
  DEF Next, DoesChore, TakesLock, HolderSteps, HandleCleanup, OwnerTakesLock, vars,
     queueVars, threadVars, cleanupVars, workerVars, ownerVars, PostTask, SignalHasWork,
     CreateThread, DeleteOutsideLock, SignalCanShutdown, StartThread, WakeUp, Relock,
     NoCleanup, BecomeCleaner, CleanerWaits, CleanerStarts, BecomeIdler, IdlerChecks,
     BecomeFinisher, FinisherWaits, FinisherGoesOn, DeleteDelayed, CleanupDone, LeaveLoop,
     WaitForWork, TimedWaitEnds, Shutdown, Flush, ShutdownWaits, ShutdownReturns,
     FlushWaits, FlushReturns, Tick

LEMMA DoomedChanges ==
  ASSUME [Next]_vars
  PROVE  \/ doomed' = doomed
         \/ \E w \in Worker : DeleteOutsideLock(w) \/ WakeUp(w) \/ RunTask(w) \/
              DeleteDelayed(w) \/ WaitForWork(w)
  BY ZenonT(60)
  DEF Next, DoesChore, TakesLock, HolderSteps, HandleCleanup, OwnerTakesLock, vars,
     queueVars, threadVars, cleanupVars, workerVars, ownerVars, PostTask, SignalHasWork,
     CreateThread, SignalCanShutdown, StartThread, FinishTask, Relock, NoCleanup,
     BecomeCleaner, CleanerWaits, CleanerStarts, BecomeIdler, IdlerChecks, BecomeFinisher,
     FinisherWaits, FinisherGoesOn, CleanupDone, LeaveLoop, TimedWaitEnds, Shutdown, Flush,
     ShutdownWaits, ShutdownReturns, FlushWaits, FlushReturns, Tick

LEMMA WakeAtChanges ==
  ASSUME [Next]_vars
  PROVE  \/ wakeAt' = wakeAt
         \/ \E w \in Worker : WaitForWork(w)
  BY ZenonT(60)
  DEF Next, DoesChore, TakesLock, HolderSteps, HandleCleanup, OwnerTakesLock, vars,
     queueVars, threadVars, cleanupVars, workerVars, ownerVars, PostTask, SignalHasWork,
     CreateThread, DeleteOutsideLock, SignalCanShutdown, StartThread, FinishTask, WakeUp,
     Relock, NoCleanup, BecomeCleaner, CleanerWaits, CleanerStarts, BecomeIdler,
     IdlerChecks, BecomeFinisher, FinisherWaits, FinisherGoesOn, RunTask, DeleteDelayed,
     CleanupDone, LeaveLoop, TimedWaitEnds, Shutdown, Flush, ShutdownWaits, ShutdownReturns,
     FlushWaits, FlushReturns, Tick

LEMMA PcChanges ==
  ASSUME [Next]_vars
  PROVE  \/ pc' = pc
         \/ \E x \in Thread, w \in Worker : CreateThread(x, w)
         \/ \E w \in Worker : SignalCanShutdown(w) \/ StartThread(w) \/ FinishTask(w) \/
              WakeUp(w) \/ Relock(w) \/ NoCleanup(w) \/ BecomeCleaner(w) \/ CleanerStarts(w)
              \/ BecomeIdler(w) \/ BecomeFinisher(w) \/ FinisherGoesOn(w) \/ CleanupDone(w) \/
              IdlerChecks(w) \/ RunTask(w) \/ DeleteDelayed(w) \/ LeaveLoop(w) \/
              WaitForWork(w)
  BY ZenonT(60)
  DEF Next, DoesChore, TakesLock, HolderSteps, HandleCleanup, OwnerTakesLock, vars,
     queueVars, threadVars, cleanupVars, workerVars, ownerVars, PostTask, SignalHasWork,
     DeleteOutsideLock, CleanerWaits, FinisherWaits, TimedWaitEnds, Shutdown, Flush,
     ShutdownWaits, ShutdownReturns, FlushWaits, FlushReturns, Tick

LEMMA ChoresChanges ==
  ASSUME [Next]_vars
  PROVE  \/ chores' = chores
         \/ \E x \in Thread, k \in AnyKind : PostTask(x, k)
         \/ \E x \in Thread : SignalHasWork(x)
         \/ \E x \in Thread, w \in Worker : CreateThread(x, w)
         \/ \E w \in Worker : DeleteOutsideLock(w) \/ SignalCanShutdown(w) \/ RunTask(w) \/
              DeleteDelayed(w) \/ LeaveLoop(w)
  BY ZenonT(60)
  DEF Next, DoesChore, TakesLock, HolderSteps, HandleCleanup, OwnerTakesLock, vars,
     queueVars, threadVars, cleanupVars, workerVars, ownerVars, StartThread, FinishTask,
     WakeUp, Relock, NoCleanup, BecomeCleaner, CleanerWaits, CleanerStarts, BecomeIdler,
     IdlerChecks, BecomeFinisher, FinisherWaits, FinisherGoesOn, CleanupDone, WaitForWork,
     TimedWaitEnds, Shutdown, Flush, ShutdownWaits, ShutdownReturns, FlushWaits,
     FlushReturns, Tick

LEMMA CallChanges ==
  ASSUME [Next]_vars
  PROVE  \/ call' = call
         \/ Shutdown \/ Flush \/ ShutdownReturns \/ FlushReturns
  BY ZenonT(60)
  DEF Next, DoesChore, TakesLock, HolderSteps, HandleCleanup, OwnerTakesLock, vars,
     queueVars, threadVars, cleanupVars, workerVars, ownerVars, PostTask, SignalHasWork,
     CreateThread, DeleteOutsideLock, SignalCanShutdown, StartThread, FinishTask, WakeUp,
     Relock, NoCleanup, BecomeCleaner, CleanerWaits, CleanerStarts, BecomeIdler,
     IdlerChecks, BecomeFinisher, FinisherWaits, FinisherGoesOn, RunTask, DeleteDelayed,
     CleanupDone, LeaveLoop, WaitForWork, TimedWaitEnds, ShutdownWaits, FlushWaits, Tick

LEMMA FlushesChanges ==
  ASSUME [Next]_vars
  PROVE  \/ flushes' = flushes
         \/ Flush
  BY ZenonT(60)
  DEF Next, DoesChore, TakesLock, HolderSteps, HandleCleanup, OwnerTakesLock, vars,
     queueVars, threadVars, cleanupVars, workerVars, ownerVars, PostTask, SignalHasWork,
     CreateThread, DeleteOutsideLock, SignalCanShutdown, StartThread, FinishTask, WakeUp,
     Relock, NoCleanup, BecomeCleaner, CleanerWaits, CleanerStarts, BecomeIdler,
     IdlerChecks, BecomeFinisher, FinisherWaits, FinisherGoesOn, RunTask, DeleteDelayed,
     CleanupDone, LeaveLoop, WaitForWork, TimedWaitEnds, Shutdown, ShutdownWaits,
     ShutdownReturns, FlushWaits, FlushReturns, Tick

LEMMA MarkChanges ==
  ASSUME [Next]_vars
  PROVE  \/ mark' = mark
         \/ Flush
  BY ZenonT(60)
  DEF Next, DoesChore, TakesLock, HolderSteps, HandleCleanup, OwnerTakesLock, vars,
     queueVars, threadVars, cleanupVars, workerVars, ownerVars, PostTask, SignalHasWork,
     CreateThread, DeleteOutsideLock, SignalCanShutdown, StartThread, FinishTask, WakeUp,
     Relock, NoCleanup, BecomeCleaner, CleanerWaits, CleanerStarts, BecomeIdler,
     IdlerChecks, BecomeFinisher, FinisherWaits, FinisherGoesOn, RunTask, DeleteDelayed,
     CleanupDone, LeaveLoop, WaitForWork, TimedWaitEnds, Shutdown, ShutdownWaits,
     ShutdownReturns, FlushWaits, FlushReturns, Tick

(***************************************************************************)
(* Types.                                                                  *)
(***************************************************************************)
LEMMA ThreadSets ==
  /\ Worker \subseteq Thread /\ Owner \in Thread /\ Owner \notin Worker
  /\ Nobody \notin Worker
  BY ConstantsAssumption DEF Thread

LEMMA KindType == \A k \in AnyKind : k \in TaskKind /\ (k.delay > 0 => k.shutdown = "skip")
<1>1. \A n \in DOMAIN Kinds : Kinds[n] \subseteq TaskKind
  BY ConstantsAssumption
<1>2. \A k \in AnyKind : \E n \in DOMAIN Kinds : k \in Kinds[n]
  BY DEF AnyKind, ToSet
<1>3. QED
  BY <1>1, <1>2, ConstantsAssumption

LEMMA Posted ==
  ASSUME Typed, NEW x \in Thread, NEW k \in AnyKind, PostTask(x, k)
  PROVE  /\ tasks' \in Seq(TaskRecord) /\ Len(tasks') = Len(tasks) + 1 /\ Len(tasks') <= MaxTasks
         /\ TaskIds' = TaskIds \cup {Len(tasks) + 1} /\ Len(tasks) + 1 \notin TaskIds
         /\ \A t \in TaskIds : tasks'[t] = tasks[t]
         /\ tasks'[Len(tasks) + 1] = [token |-> k.token, shutdown |-> k.shutdown,
                                      time |-> clock + k.delay, state |-> "pending"]
<1> DEFINE r == [token |-> k.token, shutdown |-> k.shutdown, time |-> clock + k.delay,
                 state |-> "pending"]
<1>1. clock \in Nat
  BY ConstantsAssumption DEF Typed
<1>2. r \in TaskRecord
  BY <1>1, KindType DEF TaskRecord, TaskKind
<1>3. tasks \in Seq(TaskRecord) /\ tasks' = Append(tasks, r) /\ Len(tasks) < MaxTasks
  BY DEF PostTask, Typed
<1>4. MaxTasks \in Nat
  BY ConstantsAssumption DEF MaxTasks
<1> HIDE DEF r
<1>5. QED
  BY <1>2, <1>3, <1>4 DEF TaskIds, r

\* The task that a worker starts, and those that it takes off the queue with it.
LEMMA Started ==
  ASSUME Typed, NEW w \in Worker, RunTask(w)
  PROVE  /\ OnlyStates(tasks') /\ FirstOf(Stop) \in Stop
         /\ \A t \in TaskIds : tasks'[t].state = IF t = FirstOf(Stop) THEN "running"
                                                 ELSE IF t \in OnTheWay THEN "doomed"
                                                 ELSE tasks[t].state
<1> DEFINE f == FirstOf(Stop)
           n == SetState(OnTheWay, "doomed")
<1>1. f \in Stop /\ f \in TaskIds
  BY Queue DEF RunTask
<1>2. tasks' = [n EXCEPT ![f].state = "running"]
  BY DEF RunTask
<1>3. OnlyStates(n) /\ \A t \in TaskIds : n[t].state = IF t \in OnTheWay THEN "doomed" ELSE tasks[t].state
  BY StatesSet DEF States
<1> HIDE DEF f, n
<1>4. n \in Seq(TaskRecord) /\ DOMAIN n = TaskIds /\ Len(n) = Len(tasks)
  BY <1>3 DEF OnlyStates
<1>5. n[f] \in TaskRecord
  BY <1>1, <1>4
<1> DEFINE r == [n[f] EXCEPT !.state = "running"]
<1>6. /\ r \in TaskRecord /\ r.state = "running"
      /\ r.token = n[f].token /\ r.time = n[f].time /\ r.shutdown = n[f].shutdown
  BY <1>5 DEF TaskRecord
<1>7. tasks' = [n EXCEPT ![f] = r]
  BY <1>2
<1> HIDE DEF r
<1>8. /\ tasks' \in Seq(TaskRecord) /\ Len(tasks') = Len(tasks) /\ DOMAIN tasks' = TaskIds
      /\ tasks'[f] = r /\ \A t \in TaskIds : t # f => tasks'[t] = n[t]
  BY <1>1, <1>4, <1>6, <1>7
<1>9. QED
  BY <1>1, <1>3, <1>6, <1>8 DEF f, OnlyStates

LEMMA StatesMove ==
  ASSUME Typed, [Next]_vars, ~\E x \in Thread, k \in AnyKind : PostTask(x, k)
  PROVE  OnlyStates(tasks')
<1>1. CASE tasks' = tasks
  BY <1>1 DEF OnlyStates, Typed, TaskIds
<1>2. ASSUME NEW w \in Worker, RunTask(w) PROVE OnlyStates(tasks')
  BY <1>2, Started
<1>3. \A T : OnlyStates(SetState(T, "done")) /\ OnlyStates(SetState(T, "deleted"))
             /\ OnlyStates(SetState(T, "doomed"))
  BY StatesSet DEF States
<1>4. ASSUME NEW w \in Worker,
             DeleteOutsideLock(w) \/ FinishTask(w) \/ WakeUp(w) \/ DeleteDelayed(w)
               \/ LeaveLoop(w) \/ WaitForWork(w)
      PROVE  \E T : \E s \in {"done", "deleted", "doomed"} : tasks' = SetState(T, s)
  BY <1>4 DEF DeleteOutsideLock, FinishTask, WakeUp, DeleteDelayed, LeaveLoop, WaitForWork
<1>5. ASSUME NEW w \in Worker,
             DeleteOutsideLock(w) \/ FinishTask(w) \/ WakeUp(w) \/ DeleteDelayed(w)
               \/ LeaveLoop(w) \/ WaitForWork(w)
      PROVE  OnlyStates(tasks')
  BY <1>3, <1>4, <1>5
<1>6. QED
  BY <1>1, <1>2, <1>5, TasksChanges

\* No step but PostTask adds a task, and none changes anything of a task but its state.
LEMMA TasksKeep ==
  ASSUME Typed, [Next]_vars
  PROVE  /\ tasks' \in Seq(TaskRecord) /\ Len(tasks) <= Len(tasks') /\ TaskIds \subseteq TaskIds'
         /\ \A t \in TaskIds : /\ tasks'[t].token = tasks[t].token
                               /\ tasks'[t].time = tasks[t].time
                               /\ tasks'[t].shutdown = tasks[t].shutdown
<1>1. ASSUME NEW x \in Thread, NEW k \in AnyKind, PostTask(x, k)
      PROVE  /\ tasks' \in Seq(TaskRecord) /\ Len(tasks) <= Len(tasks') /\ TaskIds \subseteq TaskIds'
             /\ \A t \in TaskIds : tasks'[t] = tasks[t]
  <2>1. /\ tasks' \in Seq(TaskRecord) /\ Len(tasks') = Len(tasks) + 1
        /\ TaskIds' = TaskIds \cup {Len(tasks) + 1} /\ \A t \in TaskIds : tasks'[t] = tasks[t]
    BY <1>1, Posted
  <2>2. Len(tasks) \in Nat
    BY TaskType
  <2>3. QED
    BY <2>1, <2>2
<1>2. QED
  BY <1>1, StatesMove, TaskType DEF OnlyStates, TaskIds

CondVar == {Awake, "work", "timed", "cleanup", "can_shutdown"}

LEMMA Woken ==
  ASSUME NEW S, S \subseteq Thread, NEW a \in [Thread -> CondVar], NEW b \in OneWoken(S, a)
  PROVE  /\ b \in [Thread -> CondVar]
         /\ \/ S = {} /\ b = a
            \/ \E x \in S : b[x] = Awake /\ \A y \in Thread : y # x => b[y] = a[y]
  BY DEF OneWoken, CondVar

LEMMA Sleeping == WorkSleepers \subseteq Thread /\ \A cv : Sleepers(cv) \subseteq Thread
  BY DEF WorkSleepers, Sleepers

\* Who goes to sleep, and on what.
FallsAsleep(x, cv) ==
  \/ x \in Worker /\ WaitForWork(x) /\ cv \in {"work", "timed"}
  \/ x \in Worker /\ cv = "cleanup" /\ (CleanerWaits(x) \/ BecomeIdler(x) \/ IdlerChecks(x) \/ FinisherWaits(x))
  \/ x = Owner /\ cv = "cleanup" /\ (Flush \/ FlushWaits)
  \/ x = Owner /\ cv = "can_shutdown" /\ ShutdownWaits

LEMMA AsleepMoves ==
  ASSUME Typed, [Next]_vars
  PROVE  /\ asleep' \in [Thread -> CondVar]
         /\ \A x \in Thread : \/ asleep'[x] = asleep[x] \/ asleep'[x] = Awake
                              \/ FallsAsleep(x, asleep'[x])
<1> DEFINE Goal == /\ asleep' \in [Thread -> CondVar]
                   /\ \A x \in Thread : \/ asleep'[x] = asleep[x] \/ asleep'[x] = Awake
                                        \/ FallsAsleep(x, asleep'[x])
<1>1. asleep \in [Thread -> CondVar]
  BY DEF Typed, CondVar
<1>2. CASE asleep' = asleep
  BY <1>1, <1>2
<1>3. ASSUME NEW S, S \subseteq Thread, asleep' \in OneWoken(S, asleep) PROVE Goal
  <2>1. /\ asleep' \in [Thread -> CondVar]
        /\ \/ asleep' = asleep
           \/ \E y \in S : asleep'[y] = Awake /\ \A z \in Thread : z # y => asleep'[z] = asleep[z]
    BY <1>1, <1>3, Woken
  <2>2. QED
    BY <2>1
<1>4. ASSUME NEW x \in Thread, SignalHasWork(x) PROVE Goal
  BY <1>3, <1>4, Sleeping DEF SignalHasWork, Signal
<1>5. ASSUME NEW w \in Worker, SignalCanShutdown(w) \/ FinisherGoesOn(w) PROVE Goal
  <2>1. asleep' = asleep \/ \E cv : asleep' \in OneWoken(Sleepers(cv), asleep)
    BY <1>5 DEF SignalCanShutdown, FinisherGoesOn, Signal
  <2>2. QED
    BY <1>2, <1>3, <2>1, Sleeping
<1>6. CASE Shutdown
  BY <1>3, <1>6, Sleeping DEF Shutdown, Signal
<1>7. ASSUME NEW w \in Worker, TimedWaitEnds(w) PROVE Goal
  BY <1>1, <1>7 DEF TimedWaitEnds, CondVar
<1>8. CASE ShutdownWaits \/ FlushWaits
  BY <1>1, <1>8 DEF ShutdownWaits, FlushWaits, FallsAsleep, CondVar
<1>9. ASSUME NEW w \in Worker, WaitForWork(w) PROVE Goal
  <2>1. asleep' = [asleep EXCEPT ![w] = "work"] \/ asleep' = [asleep EXCEPT ![w] = "timed"]
    BY <1>9 DEF WaitForWork, Sleep
  <2>2. QED
    BY <1>1, <1>9, <2>1, ThreadSets DEF FallsAsleep, CondVar
<1>10. AllWoken \in [Thread -> CondVar] /\ \A x \in Thread : AllWoken[x] = asleep[x] \/ AllWoken[x] = Awake
  BY <1>1 DEF AllWoken, CondVar
<1>11. ASSUME NEW w \in Worker,
              BecomeIdler(w) \/ FinisherWaits(w) \/ IdlerChecks(w) \/ CleanupDone(w)
       PROVE  Goal
  <2>1. \/ asleep' = AllWoken
        \/ /\ BecomeIdler(w) \/ FinisherWaits(w) \/ IdlerChecks(w)
           /\ \/ asleep' = [AllWoken EXCEPT ![w] = "cleanup"]
              \/ asleep' = [asleep EXCEPT ![w] = "cleanup"]
    BY <1>11 DEF BecomeIdler, FinisherWaits, IdlerChecks, CleanupDone, Sleep
  <2>2. QED
    BY <1>1, <1>10, <1>11, <2>1, ThreadSets DEF FallsAsleep, CondVar
<1>12. ASSUME NEW x \in Thread, asleep' \in OneWoken(WorkSleepers, [asleep EXCEPT ![x] = "cleanup"]),
              FallsAsleep(x, "cleanup")
       PROVE  Goal
  <2> DEFINE a == [asleep EXCEPT ![x] = "cleanup"]
  <2>1. a \in [Thread -> CondVar] /\ a[x] = "cleanup" /\ \A y \in Thread : y # x => a[y] = asleep[y]
    BY <1>1 DEF CondVar
  <2>4. asleep' \in OneWoken(WorkSleepers, a) /\ WorkSleepers \subseteq Thread
    BY <1>12, Sleeping
  <2> HIDE DEF a
  <2>5. ASSUME NEW b \in OneWoken(WorkSleepers, a)
        PROVE  /\ b \in [Thread -> CondVar]
               /\ \/ b = a
                  \/ \E y \in WorkSleepers : b[y] = Awake /\ \A z \in Thread : z # y => b[z] = a[z]
    BY <2>1, Woken, Sleeping
  <2>2. /\ asleep' \in [Thread -> CondVar]
        /\ \/ asleep' = a
           \/ \E y \in WorkSleepers : asleep'[y] = Awake /\ \A z \in Thread : z # y => asleep'[z] = a[z]
    BY <2>4, <2>5
  <2>3. QED
    BY <1>12, <2>1, <2>2
<1>13. CASE Flush
  BY <1>12, <1>13, ThreadSets DEF Flush, FallsAsleep
<1>14. ASSUME NEW w \in Worker, CleanerWaits(w) PROVE Goal
  BY <1>12, <1>14, ThreadSets DEF CleanerWaits, FallsAsleep
<1>15. \/ asleep' = asleep
       \/ \E x \in Thread : SignalHasWork(x)
       \/ \E w \in Worker : SignalCanShutdown(w) \/ FinisherGoesOn(w)
       \/ Shutdown \/ ShutdownWaits \/ FlushWaits \/ Flush
       \/ \E w \in Worker : TimedWaitEnds(w) \/ WaitForWork(w) \/ BecomeIdler(w) \/ FinisherWaits(w)
                              \/ IdlerChecks(w) \/ CleanupDone(w) \/ CleanerWaits(w)
  BY ZenonT(60)
  DEF Next, DoesChore, TakesLock, HolderSteps, HandleCleanup, OwnerTakesLock, vars,
     queueVars, threadVars, cleanupVars, workerVars, ownerVars, PostTask, CreateThread,
     DeleteOutsideLock, StartThread, FinishTask, WakeUp, Relock, NoCleanup, BecomeCleaner,
     CleanerStarts, BecomeFinisher, RunTask, DeleteDelayed, LeaveLoop, ShutdownReturns,
     FlushReturns, Tick
<1>16. QED
  BY <1>2, <1>4, <1>5, <1>6, <1>7, <1>8, <1>9, <1>11, <1>13, <1>14, <1>15

\* Where a worker goes.
Step(a, b) ==
  \/ a = "none" /\ b = "starting"
  \/ a \in {"starting", "running", "waiting", "cleaned"} /\ b = "top"
  \/ a = "top" /\ b \in {"get", "cleaner", "idler", "finisher"}
  \/ a \in {"cleaner", "idler", "finisher"} /\ b = "get"
  \/ a = "get" /\ b \in {"running", "cleaned", "top", "leaving", "waiting"}
  \/ a = "leaving" /\ b = "exited"

Pc == {"none", "starting", "top", "cleaner", "idler", "finisher", "get", "running",
       "cleaned", "waiting", "leaving", "exited"}

LEMMA PcMoves ==
  ASSUME Typed, Places, [Next]_vars
  PROVE  /\ pc' \in [Worker -> Pc]
         /\ \/ pc' = pc
            \/ \E w \in Worker : Step(pc[w], pc'[w]) /\ \A v \in Worker : v # w => pc'[v] = pc[v]
<1> DEFINE Goal ==
             /\ pc' \in [Worker -> Pc]
             /\ \/ pc' = pc
                \/ \E w \in Worker : Step(pc[w], pc'[w]) /\ \A v \in Worker : v # w => pc'[v] = pc[v]
<1>1. pc \in [Worker -> Pc]
  BY DEF Typed, Pc
<1>2. ASSUME NEW w \in Worker, NEW b \in Pc, Step(pc[w], b), pc' = [pc EXCEPT ![w] = b] PROVE Goal
  BY <1>1, <1>2
<1> HIDE DEF Goal
<1>3. ASSUME pc' = pc PROVE Goal
  BY <1>1, <1>3 DEF Goal
<1>4. ASSUME NEW x \in Thread, NEW w \in Worker, CreateThread(x, w) PROVE Goal
  <2>1. pc[w] = "none" /\ pc' = [pc EXCEPT ![w] = "starting"]
    BY <1>4 DEF CreateThread, Goto
  <2>2. Step("none", "starting") /\ "starting" \in Pc
    BY DEF Step, Pc
  <2>3. QED
    BY <1>2, <2>1, <2>2
<1>5. ASSUME NEW w \in Worker, SignalCanShutdown(w) PROVE Goal
  <2>1. pc[w] = "leaving"
    BY <1>5, ThreadSets DEF SignalCanShutdown, Does, Places, ChoresOf, Deleting
  <2>2. QED
    BY <1>2, <1>5, <2>1 DEF SignalCanShutdown, Goto, Step, Pc
<1>6. ASSUME NEW w \in Worker, StartThread(w) \/ FinishTask(w) \/ WakeUp(w) PROVE Goal
  BY <1>2, <1>6 DEF StartThread, FinishTask, WakeUp, Goto, Step, Pc
<1>7. ASSUME NEW w \in Worker, Relock(w) PROVE Goal
  <2>1. pc' = IF pc[w] = "cleaned" THEN [pc EXCEPT ![w] = "top"] ELSE pc
    BY <1>1, <1>7 DEF Relock
  <2>2. QED
    <3>1. ASSUME pc[w] = "cleaned" PROVE Goal
      <4>1. Step(pc[w], "top") /\ "top" \in Pc /\ pc' = [pc EXCEPT ![w] = "top"]
        BY <2>1, <3>1 DEF Step, Pc
      <4>2. QED
        BY <1>2, <4>1
    <3>2. QED
      BY <1>3, <2>1, <3>1
<1>8. ASSUME NEW w \in Worker,
             NoCleanup(w) \/ BecomeCleaner(w) \/ CleanerStarts(w) \/ BecomeIdler(w)
               \/ BecomeFinisher(w) \/ FinisherGoesOn(w) \/ CleanupDone(w)
      PROVE  Goal
  BY <1>2, <1>8 DEF NoCleanup, BecomeCleaner, CleanerStarts, BecomeIdler, BecomeFinisher,
                    FinisherGoesOn, CleanupDone, Waits, Holds, Goto, Step, Pc
<1>9. ASSUME NEW w \in Worker, IdlerChecks(w) PROVE Goal
  <2>1. pc' = pc \/ (pc[w] = "idler" /\ pc' = [pc EXCEPT ![w] = "get"])
    BY <1>9 DEF IdlerChecks, Holds, Goto
  <2>2. ASSUME pc[w] = "idler", pc' = [pc EXCEPT ![w] = "get"] PROVE Goal
    <3>1. Step(pc[w], "get") /\ "get" \in Pc
      BY <2>2 DEF Step, Pc
    <3>2. QED
      BY <1>2, <2>2, <3>1
  <2>3. QED
    BY <1>3, <2>1, <2>2
<1>10. ASSUME NEW w \in Worker, RunTask(w) \/ DeleteDelayed(w) \/ LeaveLoop(w) \/ WaitForWork(w)
       PROVE  Goal
  BY <1>2, <1>10 DEF RunTask, DeleteDelayed, LeaveLoop, WaitForWork, Waits, Holds, Goto, Step, Pc
<1>11. Goal
  BY <1>3, <1>4, <1>5, <1>6, <1>7, <1>8, <1>9, <1>10, PcChanges
<1>12. QED
  BY <1>11 DEF Goal

(***************************************************************************)
(* The states of tasks.                                                    *)
(***************************************************************************)
\* What may happen to task t in a step.
Moves(t) ==
  \/ tasks'[t].state = tasks[t].state
  \/ tasks[t].state = "doomed" /\ tasks'[t].state = "deleted"
  \/ /\ tasks[t].state = "pending" /\ tasks[t].shutdown # "block"
     /\ tasks'[t].state \in {"doomed", "deleted"}
  \/ /\ tasks[t].state = "pending" /\ tasks'[t].state = "running" /\ t = FirstOf(Stop)
     /\ \E w \in Worker : RunTask(w)
  \/ /\ tasks[t].state = "running" /\ tasks'[t].state = "done"
     /\ \E w \in Worker : FinishTask(w) /\ t = job[w]

LEMMA StateMoves ==
  ASSUME Typed, Jobs, Closures, Origin, [Next]_vars, NEW t \in TaskIds
  PROVE  Moves(t)
<1>1. CASE tasks' = tasks
  BY <1>1 DEF Moves
<1>2. ASSUME NEW x \in Thread, NEW k \in AnyKind, PostTask(x, k) PROVE Moves(t)
  BY <1>2, Posted DEF Moves
<1>3. \A u \in Pending : tasks[u].state = "pending"
  BY DEF Pending
<1>4. OnTheWay \subseteq Pending /\ Stop \subseteq Pending
      /\ \A u \in OnTheWay : tasks[u].shutdown # "block"
  BY Queue
<1>5. ASSUME NEW w \in Worker, RunTask(w) PROVE Moves(t)
  <2>1. /\ FirstOf(Stop) \in Stop
        /\ tasks'[t].state = IF t = FirstOf(Stop) THEN "running"
                             ELSE IF t \in OnTheWay THEN "doomed" ELSE tasks[t].state
    BY <1>5, Started
  <2>2. QED
    BY <1>3, <1>4, <1>5, <2>1 DEF Moves
<1>6. \A T : \A s \in {"done", "doomed", "deleted"} :
        SetState(T, s)[t].state = IF t \in T THEN s ELSE tasks[t].state
  BY StatesSet DEF States
<1>7. ASSUME NEW w \in Worker, FinishTask(w) PROVE Moves(t)
  <2>1. tasks' = SetState({job[w]}, "done") /\ tasks[job[w]].state = "running"
    BY <1>7 DEF FinishTask, Jobs, Running, InState
  <2>2. tasks'[t].state = IF t = job[w] THEN "done" ELSE tasks[t].state
    BY <1>6, <2>1
  <2>3. QED
    BY <1>7, <2>1, <2>2 DEF Moves
<1>8. ASSUME NEW w \in Worker, DeleteOutsideLock(w) \/ WakeUp(w) PROVE Moves(t)
  <2>1. tasks' = SetState(doomed[w], "deleted") /\ \A u \in doomed[w] : tasks[u].state = "doomed"
    BY <1>8 DEF DeleteOutsideLock, WakeUp, Closures, InState
  <2>2. tasks'[t].state = IF t \in doomed[w] THEN "deleted" ELSE tasks[t].state
    BY <1>6, <2>1
  <2>3. QED
    BY <2>1, <2>2 DEF Moves
<1>9. ASSUME NEW w \in Worker, LeaveLoop(w) \/ WaitForWork(w) PROVE Moves(t)
  <2>1. tasks' = SetState(OnTheWay, "deleted") \/ tasks' = SetState(OnTheWay, "doomed")
    BY <1>9 DEF LeaveLoop, WaitForWork
  <2>2. \/ tasks'[t].state \in {"deleted", "doomed"} /\ t \in OnTheWay
        \/ tasks'[t].state = tasks[t].state
    BY <1>6, <2>1
  <2>3. QED
    BY <1>3, <1>4, <2>2 DEF Moves
<1>10. ASSUME NEW w \in Worker, DeleteDelayed(w) PROVE Moves(t)
  <2> DEFINE f == FirstOf(Stop)
  <2>1. tasks' = SetState(OnTheWay \cup {f}, "doomed") /\ Stop # {} /\ ~Due(f)
    BY <1>10 DEF DeleteDelayed, Waits
  <2>2. f \in Stop /\ f \in TaskIds
    BY <2>1, Queue
  <2>3. tasks[f].shutdown # "block"
    <3>1. clock \in Nat /\ tasks[f].time \in Nat
      BY <2>2, TaskType, ConstantsAssumption DEF Typed
    <3>2. tasks[f].shutdown = "skip"
      BY <2>1, <2>2, <3>1 DEF Due, Origin
    <3>3. QED
      BY <3>2
  <2>4. tasks'[t].state = IF t \in OnTheWay \cup {f} THEN "doomed" ELSE tasks[t].state
    BY <1>6, <2>1
  <2> HIDE DEF f
  <2>5. QED
    BY <1>3, <1>4, <2>2, <2>3, <2>4 DEF Moves
<1>11. QED
  BY <1>1, <1>2, <1>5, <1>7, <1>8, <1>9, <1>10, TasksChanges

\* A new task is pending.
LEMMA NewTasks ==
  ASSUME Typed, [Next]_vars, NEW t \in TaskIds', t \notin TaskIds
  PROVE  /\ tasks'[t].state = "pending" /\ t = Len(tasks) + 1
         /\ \E x \in Thread, k \in AnyKind : PostTask(x, k)
<1>1. PICK x \in Thread, k \in AnyKind : PostTask(x, k)
  BY StatesMove DEF OnlyStates, TaskIds
<1>2. t = Len(tasks) + 1 /\ tasks'[t].state = "pending"
  <2> DEFINE n == Len(tasks) + 1
  <2>1. /\ TaskIds' = TaskIds \cup {n}
        /\ tasks'[n] = [token |-> k.token, shutdown |-> k.shutdown,
                        time |-> clock + k.delay, state |-> "pending"]
    BY <1>1, Posted
  <2> HIDE DEF n
  <2>2. t = n /\ tasks'[n].state = "pending"
    BY <2>1
  <2>3. QED
    BY <2>2 DEF n
<1>3. QED
  BY <1>1, <1>2

LEMMA NextOrigin ==
  ASSUME Typed, Jobs, Closures, Origin, [Next]_vars
  PROVE  Origin'
<1>1. /\ Len(tasks') <= MaxTasks
      /\ \A t \in TaskIds' \ TaskIds :
           /\ tasks'[t].token \in {k.token : k \in AnyKind}
           /\ tasks'[t].state = "pending"
           /\ tasks'[t].time > clock' => tasks'[t].shutdown = "skip"
  <2>1. ASSUME NEW x \in Thread, NEW k \in AnyKind, PostTask(x, k)
        PROVE  /\ Len(tasks') <= MaxTasks
               /\ \A t \in TaskIds' \ TaskIds :
                    /\ tasks'[t].token \in {j.token : j \in AnyKind}
                    /\ tasks'[t].state = "pending"
                    /\ tasks'[t].time > clock' => tasks'[t].shutdown = "skip"
    <3> DEFINE n == Len(tasks) + 1
    <3>1. /\ Len(tasks') <= MaxTasks /\ TaskIds' = TaskIds \cup {n}
          /\ tasks'[n] = [token |-> k.token, shutdown |-> k.shutdown,
                          time |-> clock + k.delay, state |-> "pending"]
      BY <2>1, Posted
    <3> HIDE DEF n
    <3>2. clock' = clock /\ clock \in Nat
      BY <2>1, ConstantsAssumption DEF PostTask, Typed
    <3>3. k.delay \in Nat /\ (k.delay > 0 => k.shutdown = "skip")
      BY KindType DEF TaskKind
    <3>4. tasks'[n].time > clock' => tasks'[n].shutdown = "skip"
      BY <3>1, <3>2, <3>3
    <3>5. QED
      BY <3>1, <3>4
  <2>2. CASE ~\E x \in Thread, k \in AnyKind : PostTask(x, k)
    BY <2>2, StatesMove DEF OnlyStates, TaskIds, Origin
  <2>3. QED
    BY <2>1, <2>2
<1>2. clock \in Nat /\ clock' \in Nat /\ clock <= clock'
  BY ClockChanges, ConstantsAssumption DEF Tick, Typed
<1>3. ASSUME NEW t \in TaskIds
      PROVE  /\ tasks'[t].token \in {k.token : k \in AnyKind}
             /\ tasks'[t].state \in {"doomed", "deleted"} => tasks'[t].shutdown # "block"
             /\ tasks'[t].time > clock' => tasks'[t].shutdown = "skip"
  <2>1. /\ tasks'[t].token = tasks[t].token /\ tasks'[t].time = tasks[t].time
        /\ tasks'[t].shutdown = tasks[t].shutdown /\ tasks[t].time \in Nat
    BY TasksKeep, TaskType
  <2>2. Moves(t)
    BY StateMoves
  <2>3. QED
    BY <1>2, <2>1, <2>2 DEF Moves, Origin
<1>4. QED
  BY <1>1, <1>3 DEF Origin

(***************************************************************************)
(* Tasks that run.                                                         *)
(***************************************************************************)
LEMMA RunningSteps ==
  ASSUME Typed, Places, [Next]_vars, ~\E w \in Worker : RunTask(w) \/ FinishTask(w)
  PROVE  job' = job /\ current' = current /\ \A w \in Worker : pc'[w] = "running" <=> pc[w] = "running"
<1>1. job' = job /\ current' = current
  BY JobChanges, CurrentChanges
<1>2. pc \in [Worker -> Pc]
  BY DEF Typed, Pc
<1>3. ASSUME NEW w \in Worker, pc'[w] # pc[w] PROVE pc'[w] # "running" /\ pc[w] # "running"
  <2>1. ASSUME NEW x \in Thread, NEW v \in Worker, CreateThread(x, v)
        PROVE  pc'[w] # "running" /\ pc[w] # "running"
    BY <1>2, <1>3, <2>1 DEF CreateThread, Goto
  <2>2. ASSUME NEW v \in Worker, SignalCanShutdown(v) PROVE pc'[w] # "running" /\ pc[w] # "running"
    <3>1. pc[v] = "leaving"
      BY <2>2, ThreadSets DEF SignalCanShutdown, Does, Places, ChoresOf, Deleting
    <3>2. QED
      BY <1>2, <1>3, <2>2, <3>1 DEF SignalCanShutdown, Goto
  <2>3. ASSUME NEW v \in Worker,
               \/ StartThread(v) \/ WakeUp(v) \/ Relock(v)
               \/ NoCleanup(v) \/ BecomeCleaner(v) \/ CleanerStarts(v) \/ BecomeIdler(v)
               \/ BecomeFinisher(v) \/ FinisherGoesOn(v) \/ CleanupDone(v) \/ IdlerChecks(v)
               \/ DeleteDelayed(v) \/ LeaveLoop(v) \/ WaitForWork(v)
        PROVE  pc'[w] # "running" /\ pc[w] # "running"
    BY <1>2, <1>3, <2>3
       DEF StartThread, WakeUp, Relock, NoCleanup, BecomeCleaner, CleanerStarts, BecomeIdler,
           BecomeFinisher, FinisherGoesOn, CleanupDone, IdlerChecks, DeleteDelayed, LeaveLoop,
           WaitForWork, Waits, Holds, Goto
  <2>4. QED
    BY <1>3, <2>1, <2>2, <2>3, PcChanges
<1>4. QED
  BY <1>1, <1>3

LEMMA RunningStays ==
  ASSUME Typed, Jobs, Closures, Origin, [Next]_vars, ~\E w \in Worker : RunTask(w) \/ FinishTask(w)
  PROVE  Running' = Running
<1>1. \A t \in TaskIds : tasks'[t].state = "running" <=> tasks[t].state = "running"
  <2> SUFFICES ASSUME NEW t \in TaskIds PROVE tasks'[t].state = "running" <=> tasks[t].state = "running"
    OBVIOUS
  <2>1. Moves(t)
    BY StateMoves
  <2>2. QED
    BY <2>1 DEF Moves
<1>2. TaskIds \subseteq TaskIds' /\ \A t \in TaskIds' : t \notin TaskIds => tasks'[t].state # "running"
  BY TasksKeep, NewTasks
<1>3. QED
  BY <1>1, <1>2 DEF Running, InState

LEMMA RunTaskRuns ==
  ASSUME Typed, Places, NEW w \in Worker, RunTask(w)
  PROVE  LET f == FirstOf(Stop) IN
           /\ f \in TaskIds /\ f \notin Running /\ tasks[f].state = "pending"
           /\ TaskIds' = TaskIds /\ Running' = Running \cup {f}
           /\ pc[w] = "get" /\ pc' = [pc EXCEPT ![w] = "running"] /\ job' = [job EXCEPT ![w] = f]
           /\ tasks[f].token = 0 \/ tasks[f].token \notin current
           /\ current' = IF tasks[f].token = 0 THEN current ELSE current \cup {tasks[f].token}
           /\ \A t \in TaskIds : tasks'[t].token = tasks[t].token
<1> DEFINE f == FirstOf(Stop)
<1>1. /\ OnlyStates(tasks') /\ f \in Stop
      /\ \A t \in TaskIds : tasks'[t].state = IF t = f THEN "running"
                                              ELSE IF t \in OnTheWay THEN "doomed"
                                              ELSE tasks[t].state
  BY Started
<1>2. /\ pc[w] = "get" /\ pc' = [pc EXCEPT ![w] = "running"] /\ job' = [job EXCEPT ![w] = f]
      /\ current' = IF tasks[f].token = 0 THEN current ELSE current \cup {tasks[f].token}
  BY DEF RunTask, Holds, Goto
<1>3. f \in Runnable /\ OnTheWay \subseteq Pending
  BY <1>1, Queue DEF Stop
<1>4. f \in TaskIds /\ tasks[f].state = "pending"
      /\ (tasks[f].token = 0 \/ tasks[f].token \notin current)
  BY <1>3 DEF Runnable, Pending, TokenRunnable
<1> HIDE DEF f
<1>5. TaskIds' = TaskIds /\ \A t \in TaskIds : tasks'[t].token = tasks[t].token
  BY <1>1 DEF OnlyStates, TaskIds
<1>6. f \notin Running /\ Running' = Running \cup {f}
  BY <1>1, <1>3, <1>4, <1>5 DEF Running, InState, Pending
<1>7. QED
  BY <1>2, <1>4, <1>5, <1>6 DEF f

LEMMA FinishTaskFinishes ==
  ASSUME Typed, Jobs, NEW w \in Worker, FinishTask(w)
  PROVE  /\ job[w] \in Running /\ TaskIds' = TaskIds /\ Running' = Running \ {job[w]}
         /\ pc[w] = "running" /\ pc' = [pc EXCEPT ![w] = "top"] /\ job' = [job EXCEPT ![w] = 0]
         /\ current' = current \ {tasks[job[w]].token}
         /\ \A t \in TaskIds : tasks'[t].token = tasks[t].token
<1>1. /\ pc[w] = "running" /\ pc' = [pc EXCEPT ![w] = "top"] /\ job' = [job EXCEPT ![w] = 0]
      /\ current' = current \ {tasks[job[w]].token} /\ tasks' = SetState({job[w]}, "done")
  BY DEF FinishTask, Goto
<1>2. job[w] \in Running
  BY <1>1 DEF Jobs
<1>3. /\ OnlyStates(tasks')
      /\ \A t \in TaskIds : tasks'[t].state = IF t = job[w] THEN "done" ELSE tasks[t].state
  BY <1>1, StatesSet DEF States
<1>4. TaskIds' = TaskIds /\ \A t \in TaskIds : tasks'[t].token = tasks[t].token
  BY <1>3 DEF OnlyStates, TaskIds
<1>5. Running' = Running \ {job[w]}
  BY <1>3, <1>4 DEF Running, InState
<1>6. QED
  BY <1>1, <1>2, <1>4, <1>5

LEMMA NextJobs ==
  ASSUME Typed, Jobs, Closures, Origin, Places, [Next]_vars
  PROVE  Jobs'
<1>1. pc \in [Worker -> Pc] /\ job \in [Worker -> Nat]
  BY DEF Typed, Pc
<1>2. ASSUME NEW w \in Worker, RunTask(w) PROVE Jobs'
  <2> DEFINE f == FirstOf(Stop)
  <2>1. /\ f \notin Running /\ Running' = Running \cup {f}
        /\ pc[w] = "get" /\ pc' = [pc EXCEPT ![w] = "running"] /\ job' = [job EXCEPT ![w] = f]
    BY <1>2, RunTaskRuns
  <2> HIDE DEF f
  <2>2. \A v \in Worker : /\ v # w => pc'[v] = pc[v] /\ job'[v] = job[v]
                          /\ v = w => pc'[v] = "running" /\ job'[v] = f
    BY <1>1, <2>1
  <2>3. QED
    BY <2>1, <2>2 DEF Jobs
<1>3. ASSUME NEW w \in Worker, FinishTask(w) PROVE Jobs'
  <2>1. /\ Running' = Running \ {job[w]} /\ pc[w] = "running"
        /\ pc' = [pc EXCEPT ![w] = "top"] /\ job' = [job EXCEPT ![w] = 0]
    BY <1>3, FinishTaskFinishes
  <2>2. \A v \in Worker : /\ v # w => pc'[v] = pc[v] /\ job'[v] = job[v]
                          /\ v = w => pc'[v] = "top"
    BY <1>1, <2>1
  <2>3. QED
    BY <2>1, <2>2 DEF Jobs
<1>4. CASE ~\E w \in Worker : RunTask(w) \/ FinishTask(w)
  BY <1>4, RunningSteps, RunningStays DEF Jobs
<1>5. QED
  BY <1>2, <1>3, <1>4

LEMMA NextTokens ==
  ASSUME Typed, Jobs, Tokens, Closures, Origin, Places, [Next]_vars
  PROVE  Tokens'
<1>1. Running \subseteq TaskIds
  BY DEF Running, InState
<1>2. ASSUME NEW w \in Worker, RunTask(w) PROVE Tokens'
  <2> DEFINE f == FirstOf(Stop)
  <2>1. /\ f \in TaskIds /\ Running' = Running \cup {f}
        /\ tasks[f].token = 0 \/ tasks[f].token \notin current
        /\ current' = IF tasks[f].token = 0 THEN current ELSE current \cup {tasks[f].token}
        /\ \A t \in TaskIds : tasks'[t].token = tasks[t].token
    BY <1>2, RunTaskRuns
  <2> HIDE DEF f
  <2>2. {tasks'[t].token : t \in Running'} = {tasks[t].token : t \in Running} \cup {tasks[f].token}
    BY <1>1, <2>1
  <2>3. current' = {tasks'[t].token : t \in Running'} \ {0}
    BY <2>1, <2>2 DEF Tokens
  <2>4. \A t \in Running : tasks[t].token = tasks[f].token => tasks[f].token = 0
    BY <1>1, <2>1 DEF Tokens
  <2>5. \A t, u \in Running' : tasks'[t].token = tasks'[u].token => t = u \/ tasks'[t].token = 0
    BY <1>1, <2>1, <2>4 DEF Tokens
  <2>6. QED
    BY <2>3, <2>5 DEF Tokens
<1>3. ASSUME NEW w \in Worker, FinishTask(w) PROVE Tokens'
  <2>1. /\ job[w] \in Running /\ Running' = Running \ {job[w]}
        /\ current' = current \ {tasks[job[w]].token}
        /\ \A t \in TaskIds : tasks'[t].token = tasks[t].token
    BY <1>3, FinishTaskFinishes
  <2>2. \A t \in Running' : tasks'[t].token = tasks[t].token
                              /\ (tasks[t].token = tasks[job[w]].token => tasks[t].token = 0)
    BY <1>1, <2>1 DEF Tokens
  <2>3. current' = {tasks'[t].token : t \in Running'} \ {0}
    BY <2>1, <2>2 DEF Tokens
  <2>4. \A t, u \in Running' : tasks'[t].token = tasks'[u].token => t = u \/ tasks'[t].token = 0
    BY <2>1, <2>2 DEF Tokens
  <2>5. QED
    BY <2>3, <2>4 DEF Tokens
<1>4. CASE ~\E w \in Worker : RunTask(w) \/ FinishTask(w)
  <2>1. Running' = Running /\ current' = current /\ \A t \in Running : tasks'[t].token = tasks[t].token
    BY <1>1, <1>4, RunningSteps, RunningStays, TasksKeep
  <2>2. {tasks'[t].token : t \in Running'} = {tasks[t].token : t \in Running}
    BY <2>1
  <2>3. QED
    BY <2>1, <2>2 DEF Tokens
<1>5. QED
  BY <1>2, <1>3, <1>4

\* The task that is started comes first among those of its token.
LEMMA NextSequence ==
  ASSUME Typed, Jobs, Tokens, Sequence, Closures, Origin, Places, [Next]_vars
  PROVE  Sequence'
<1> SUFFICES ASSUME NEW t \in TaskIds', NEW u \in TaskIds',
                    tasks'[t].token # 0, tasks'[t].token = tasks'[u].token,
                    t < u, tasks'[t].time <= tasks'[u].time,
                    tasks'[u].state \in {"running", "done"}
             PROVE  tasks'[t].state \notin {"pending", "running"}
  BY DEF Sequence
<1>1. u \in TaskIds
  BY NewTasks
<1>2. t \in TaskIds
  <2>1. t \notin TaskIds => t = Len(tasks) + 1
    BY NewTasks
  <2>2. QED
    BY <1>1, <2>1, TaskType
<1>3. /\ tasks[t].token # 0 /\ tasks[t].token = tasks[u].token /\ tasks[t].time <= tasks[u].time
  BY <1>1, <1>2, TasksKeep
<1>4. Moves(t) /\ Moves(u)
  BY <1>1, <1>2, StateMoves
<1>5. CASE tasks[u].state \in {"running", "done"}
  <2>1. tasks[t].state \notin {"pending", "running"}
    BY <1>1, <1>2, <1>3, <1>5 DEF Sequence
  <2>2. QED
    BY <1>4, <2>1 DEF Moves
<1>6. CASE tasks[u].state \notin {"running", "done"}
  <2>1. u = FirstOf(Stop) /\ \E w \in Worker : RunTask(w)
    BY <1>4, <1>6 DEF Moves
  <2>2. PICK w \in Worker : RunTask(w)
    BY <2>1
  <2>3. u \in Stop /\ Stop # {} /\ tasks[u].token \notin current
    BY <1>3, <2>1, <2>2, Started, RunTaskRuns
  <2>4. tasks[t].state # "running"
    BY <1>2, <1>3, <2>3 DEF Tokens, Running, InState
  <2>5. CASE tasks[t].state = "pending"
    <3>1. t \in Runnable
      BY <1>2, <1>3, <2>3, <2>5 DEF Runnable, Pending, TokenRunnable
    <3>2. Before(t, u) /\ ~Before(u, t)
      BY <1>1, <1>2, <1>3, TaskType DEF Before
    <3>3. t \notin Stop
      BY <1>1, <1>2, <2>1, <2>3, <3>2, Queue, TaskType
    <3>4. t \in OnTheWay
      BY <2>1, <2>3, <3>1, <3>2, <3>3 DEF OnTheWay, Stop
    <3>5. tasks'[t].state = IF t = FirstOf(Stop) THEN "running" ELSE "doomed"
      BY <1>2, <2>2, <3>4, Started
    <3>6. QED
      BY <2>1, <2>3, <3>3, <3>5
  <2>6. QED
    BY <1>4, <2>4, <2>5, <1>1, <1>2, <2>1, TaskType DEF Moves
<1>7. QED
  BY <1>5, <1>6

(***************************************************************************)
(* Chores.                                                                 *)
(***************************************************************************)
In(c, s) == \E k \in DOMAIN s : s[k] = c

Shapes == {<<>>, <<"signal">>, <<"create">>, <<"signal", "can_shutdown">>, <<"can_shutdown">>} \cup Deleting

\* A chore is on the list once, and is gone when it is done.
LEMMA Tails ==
  ASSUME NEW s \in Shapes, s # <<>>
  PROVE  Tail(s) \in Shapes /\ \A d : In(d, Tail(s)) <=> In(d, s) /\ d # Head(s)
<1>0. \A d : /\ ~In(d, <<>>)
             /\ \A a : In(d, <<a>>) <=> d = a
             /\ \A a, b : In(d, <<a, b>>) <=> d \in {a, b}
             /\ \A a, b, c : In(d, <<a, b, c>>) <=> d \in {a, b, c}
  <2>1. ASSUME NEW d, NEW a PROVE ~In(d, <<>>) /\ (In(d, <<a>>) <=> d = a)
    BY DEF In
  <2>2. ASSUME NEW d, NEW a, NEW b PROVE In(d, <<a, b>>) <=> d \in {a, b}
    <3>1. DOMAIN <<a, b>> = {1, 2}
      OBVIOUS
    <3>2. QED
      BY <3>1 DEF In
  <2>3. ASSUME NEW d, NEW a, NEW b, NEW c PROVE In(d, <<a, b, c>>) <=> d \in {a, b, c}
    <3>1. DOMAIN <<a, b, c>> = {1, 2, 3}
      OBVIOUS
    <3>2. QED
      BY <3>1 DEF In
  <2>4. QED
    BY <2>1, <2>2, <2>3
<1>1. CASE s \in {<<"signal">>, <<"create">>, <<"can_shutdown">>}
  <2>1. PICK a : s = <<a>>
    BY <1>1
  <2>2. Head(s) = a /\ Tail(s) = <<>>
    BY <2>1
  <2>3. QED
    BY <1>0, <2>1, <2>2 DEF Shapes
<1>2. CASE s = <<"delete">>
  <2>1. Head(s) = "delete" /\ Tail(s) = <<>>
    BY <1>2
  <2>3. QED
    BY <1>0, <1>2, <2>1 DEF Shapes
<1>3. CASE s = <<"signal", "can_shutdown">>
  <2>1. Head(s) = "signal" /\ Tail(s) = <<"can_shutdown">>
    BY <1>3
  <2>3. QED
    BY <1>0, <1>3, <2>1 DEF Shapes
<1>4. CASE s = <<"signal", "delete">>
  <2>1. Head(s) = "signal" /\ Tail(s) = <<"delete">>
    BY <1>4
  <2>3. QED
    BY <1>0, <1>4, <2>1 DEF Shapes, Deleting
<1>5. CASE s = <<"delete", "create">>
  <2>1. Head(s) = "delete" /\ Tail(s) = <<"create">>
    BY <1>5
  <2>3. QED
    BY <1>0, <1>5, <2>1 DEF Shapes, Deleting
<1>6. CASE s = <<"signal", "delete", "create">>
  <2>1. Head(s) = "signal" /\ Tail(s) = <<"delete", "create">>
    BY <1>6
  <2>3. QED
    BY <1>0, <1>6, <2>1 DEF Shapes, Deleting
<1>7. QED
  BY <1>1, <1>2, <1>3, <1>4, <1>5, <1>6 DEF Shapes, Deleting

\* Which chores each list has.
LEMMA Lists ==
  \A d : /\ ~In(d, <<>>)
         /\ In(d, <<"signal">>) <=> d = "signal"
         /\ In(d, <<"create">>) <=> d = "create"
         /\ In(d, <<"delete">>) <=> d = "delete"
         /\ In(d, <<"can_shutdown">>) <=> d = "can_shutdown"
         /\ In(d, <<"signal", "can_shutdown">>) <=> d \in {"signal", "can_shutdown"}
         /\ In(d, <<"signal", "delete">>) <=> d \in {"signal", "delete"}
         /\ In(d, <<"delete", "create">>) <=> d \in {"delete", "create"}
         /\ In(d, <<"signal", "delete", "create">>) <=> d \in {"signal", "delete", "create"}
<1>1. /\ \A a, b : DOMAIN <<a, b>> = {1, 2}
      /\ \A a, b, c : DOMAIN <<a, b, c>> = {1, 2, 3}
  OBVIOUS
<1>2. ASSUME NEW d
      PROVE  /\ ~In(d, <<>>)
             /\ In(d, <<"signal">>) <=> d = "signal"
             /\ In(d, <<"create">>) <=> d = "create"
             /\ In(d, <<"delete">>) <=> d = "delete"
             /\ In(d, <<"can_shutdown">>) <=> d = "can_shutdown"
  BY DEF In
<1>3. ASSUME NEW d
      PROVE  /\ In(d, <<"signal", "can_shutdown">>) <=> d \in {"signal", "can_shutdown"}
             /\ In(d, <<"signal", "delete">>) <=> d \in {"signal", "delete"}
             /\ In(d, <<"delete", "create">>) <=> d \in {"delete", "create"}
             /\ In(d, <<"signal", "delete", "create">>) <=> d \in {"signal", "delete", "create"}
  BY <1>1 DEF In
<1>4. QED
  BY <1>2, <1>3

LEMMA Busy ==
  ASSUME Typed, Places, NEW x \in Thread
  PROVE  /\ chores[x] \in Shapes
         /\ x \in Worker /\ chores[x] # <<>> => pc[x] \in {"running", "cleaned", "leaving"}
         /\ HasChore(x, "can_shutdown") => pc[x] = "leaving" /\ x \in Worker
         /\ HasChore(x, "delete") => x \in Worker /\ pc[x] \in {"running", "cleaned"}
         /\ HasChore(x, "create") /\ x \in Worker => pc[x] = "running"
<1>1. ChoresOf(x)
  BY DEF Places
<1>2. \A c : HasChore(x, c) <=> In(c, chores[x])
  BY DEF HasChore, In
<1>3. QED
  BY <1>1, <1>2, Lists DEF ChoresOf, Shapes, Deleting

LEMMA DoesIt ==
  ASSUME Typed, Places, NEW x \in Thread, NEW c, Does(x, c)
  PROVE  /\ HasChore(x, c) /\ chores[x] # <<>> /\ chores'[x] = Tail(chores[x]) /\ chores'[x] \in Shapes
         /\ \A y \in Thread : y # x => chores'[y] = chores[y]
         /\ \A y \in Thread : \A d : HasChore(y, d)' <=> HasChore(y, d) /\ ~(y = x /\ d = c)
<1>1. chores \in [Thread -> Seq(Chore)] /\ chores[x] # <<>> /\ Head(chores[x]) = c
      /\ chores' = [chores EXCEPT ![x] = Tail(chores[x])]
  BY DEF Typed, Does
<1>2. chores[x] \in Shapes
  BY Busy
<1>3. chores'[x] = Tail(chores[x]) /\ \A y \in Thread : y # x => chores'[y] = chores[y]
  BY <1>1
<1>4. Tail(chores[x]) \in Shapes /\ \A d : In(d, Tail(chores[x])) <=> In(d, chores[x]) /\ d # c
  BY <1>1, <1>2, Tails
<1>5. \A y \in Thread : \A d : /\ HasChore(y, d)' <=> In(d, chores'[y])
                               /\ HasChore(y, d) <=> In(d, chores[y])
  BY DEF HasChore, In
<1>6. In(c, chores[x])
  <2>1. chores[x] \in Seq(Chore) /\ 1 \in DOMAIN chores[x] /\ chores[x][1] = c
    BY <1>1
  <2>2. QED
    BY <2>1 DEF In
<1>7. QED
  BY <1>1, <1>3, <1>4, <1>5, <1>6

\* A thread with chores does not move, until it ends.
LEMMA BusyStays ==
  ASSUME Typed, Places, [Next]_vars, NEW x \in Worker, chores[x] # <<>>
  PROVE  pc'[x] = pc[x] \/ (SignalCanShutdown(x) /\ pc[x] = "leaving" /\ chores[x] = <<"can_shutdown">>)
<1>1. pc[x] \in {"running", "cleaned", "leaving"} /\ x \in Thread
  BY Busy, ThreadSets
<1>2. pc \in [Worker -> Pc]
  BY DEF Typed, Pc
<1>3. ASSUME NEW y \in Thread, NEW w \in Worker, CreateThread(y, w) PROVE pc'[x] = pc[x]
  BY <1>1, <1>2, <1>3 DEF CreateThread, Goto
<1>4. ASSUME NEW w \in Worker, SignalCanShutdown(w)
      PROVE  pc'[x] = pc[x] \/ (w = x /\ pc[x] = "leaving" /\ chores[x] = <<"can_shutdown">>)
  <2>1. Does(w, "can_shutdown") /\ pc' = [pc EXCEPT ![w] = "exited"]
    BY <1>4 DEF SignalCanShutdown, Goto
  <2>2. ChoresOf(w) /\ HasChore(w, "can_shutdown") /\ Head(chores[w]) = "can_shutdown"
    BY <2>1, DoesIt, ThreadSets DEF Places, Does
  <2>3. pc[w] = "leaving"
    BY <2>2, Busy, ThreadSets
  <2>4. chores[w] = <<"can_shutdown">>
    <3>1. Head(<<"signal", "can_shutdown">>) = "signal"
      OBVIOUS
    <3>2. chores[w] # <<>> /\ chores[w] \in {<<"signal", "can_shutdown">>, <<"can_shutdown">>}
      BY <2>1, <2>2, <2>3 DEF ChoresOf, Does
    <3>3. QED
      BY <2>2, <3>1, <3>2
  <2>5. QED
    BY <1>2, <2>1, <2>3, <2>4
<1>5. ASSUME NEW w \in Worker,
             \/ StartThread(w) \/ FinishTask(w) \/ WakeUp(w) \/ Relock(w)
             \/ NoCleanup(w) \/ BecomeCleaner(w) \/ CleanerStarts(w) \/ BecomeIdler(w)
             \/ BecomeFinisher(w) \/ FinisherGoesOn(w) \/ CleanupDone(w) \/ IdlerChecks(w)
             \/ RunTask(w) \/ DeleteDelayed(w) \/ LeaveLoop(w) \/ WaitForWork(w)
      PROVE  pc'[x] = pc[x]
  BY <1>1, <1>2, <1>5
     DEF StartThread, FinishTask, WakeUp, Relock, NoCleanup, BecomeCleaner, CleanerStarts, BecomeIdler,
         BecomeFinisher, FinisherGoesOn, CleanupDone, IdlerChecks, RunTask, DeleteDelayed, LeaveLoop,
         WaitForWork, Waits, Holds, Goto
<1>6. QED
  BY <1>3, <1>4, <1>5, PcChanges

\* What a step does to the lists.
ChoresMove(x) ==
  \/ chores'[x] = chores[x]
  \/ chores[x] # <<>> /\ chores'[x] = Tail(chores[x])
  \/ chores[x] = <<>> /\ chores'[x] \in {<<"signal">>, <<"create">>} /\ pc' = pc
     /\ \E k \in AnyKind : PostTask(x, k)
  \/ chores[x] = <<>> /\ x \in Worker /\ pc'[x] = "running" /\ RunTask(x)
     /\ chores'[x] \in {<<"signal", "delete">>, <<"signal", "delete", "create">>}
  \/ chores[x] = <<>> /\ x \in Worker /\ pc'[x] = "cleaned" /\ DeleteDelayed(x) /\ chores'[x] = <<"delete">>
  \/ chores[x] = <<>> /\ x \in Worker /\ pc'[x] = "leaving" /\ LeaveLoop(x)
     /\ chores'[x] = <<"signal", "can_shutdown">>

LEMMA ChoresMoves ==
  ASSUME Typed, Places, [Next]_vars, NEW x \in Thread
  PROVE  ChoresMove(x) /\ chores' \in [Thread -> Seq(Chore)]
<1>1. chores \in [Thread -> Seq(Chore)] /\ pc \in [Worker -> Pc]
  BY DEF Typed, Pc
<1>2. ASSUME chores' = chores PROVE ChoresMove(x) /\ chores' \in [Thread -> Seq(Chore)]
  BY <1>1, <1>2 DEF ChoresMove
<1>3. ASSUME NEW y \in Thread, NEW c, Does(y, c) PROVE ChoresMove(x) /\ chores' \in [Thread -> Seq(Chore)]
  <2>1. chores[y] # <<>> /\ chores[y] \in Seq(Chore) /\ chores' = [chores EXCEPT ![y] = Tail(chores[y])]
    BY <1>1, <1>3 DEF Does
  <2>2. Tail(chores[y]) \in Seq(Chore)
    BY <2>1
  <2>3. QED
    BY <1>1, <2>1, <2>2 DEF ChoresMove
<1>4. /\ <<"signal">> \in Seq(Chore) /\ <<"create">> \in Seq(Chore) /\ <<"delete">> \in Seq(Chore)
      /\ <<"signal", "delete">> \in Seq(Chore) /\ <<"signal", "delete", "create">> \in Seq(Chore)
      /\ <<"signal", "can_shutdown">> \in Seq(Chore)
  BY DEF Chore
<1>5. ASSUME NEW y \in Thread, NEW k \in AnyKind, PostTask(y, k)
      PROVE  ChoresMove(x) /\ chores' \in [Thread -> Seq(Chore)]
  <2>1. PICK s \in {<<"signal">>, <<"create">>} : chores' = [chores EXCEPT ![y] = s]
    BY <1>5 DEF PostTask
  <2>2. chores[y] = <<>> /\ pc' = pc
    BY <1>5 DEF PostTask, Posts, workerVars
  <2>3. s \in Seq(Chore)
    BY <1>4
  <2>4. chores' \in [Thread -> Seq(Chore)] /\ chores'[y] = s /\ \A z \in Thread : z # y => chores'[z] = chores[z]
    BY <1>1, <2>1, <2>3
  <2>5. QED
    BY <1>5, <2>2, <2>4 DEF ChoresMove
<1>6. ASSUME NEW w \in Worker, RunTask(w) PROVE ChoresMove(x) /\ chores' \in [Thread -> Seq(Chore)]
  <2>2. PICK s \in {<<"signal", "delete">>, <<"signal", "delete", "create">>} :
          chores' = [chores EXCEPT ![w] = s]
    BY <1>6 DEF RunTask
  <2>3. pc[w] = "get" /\ pc' = [pc EXCEPT ![w] = "running"]
    BY <1>6 DEF RunTask, Holds, Goto
  <2>4. chores[w] = <<>>
    BY <2>3, Busy, ThreadSets
  <2>5. s \in Seq(Chore)
    BY <1>4
  <2>6. /\ chores' \in [Thread -> Seq(Chore)] /\ chores'[w] = s /\ pc'[w] = "running"
        /\ \A z \in Thread : z # w => chores'[z] = chores[z]
    BY <1>1, <2>2, <2>3, <2>5, ThreadSets
  <2>7. QED
    BY <1>6, <2>4, <2>6 DEF ChoresMove
<1>7. ASSUME NEW w \in Worker, DeleteDelayed(w) PROVE ChoresMove(x) /\ chores' \in [Thread -> Seq(Chore)]
  <2>1. pc[w] = "get" /\ pc' = [pc EXCEPT ![w] = "cleaned"] /\ chores' = [chores EXCEPT ![w] = <<"delete">>]
    BY <1>7 DEF DeleteDelayed, Waits, Holds, Goto
  <2>2. chores[w] = <<>>
    BY <2>1, Busy, ThreadSets
  <2>3. /\ chores' \in [Thread -> Seq(Chore)] /\ chores'[w] = <<"delete">> /\ pc'[w] = "cleaned"
        /\ \A z \in Thread : z # w => chores'[z] = chores[z]
    BY <1>1, <1>4, <2>1, ThreadSets
  <2>4. QED
    BY <1>7, <2>2, <2>3 DEF ChoresMove
<1>8. ASSUME NEW w \in Worker, LeaveLoop(w) PROVE ChoresMove(x) /\ chores' \in [Thread -> Seq(Chore)]
  <2>1. /\ pc[w] = "get" /\ pc' = [pc EXCEPT ![w] = "leaving"]
        /\ chores' = [chores EXCEPT ![w] = <<"signal", "can_shutdown">>]
    BY <1>8 DEF LeaveLoop, Waits, Holds, Goto
  <2>2. chores[w] = <<>>
    BY <2>1, Busy, ThreadSets
  <2>3. /\ chores' \in [Thread -> Seq(Chore)] /\ chores'[w] = <<"signal", "can_shutdown">>
        /\ pc'[w] = "leaving" /\ \A z \in Thread : z # w => chores'[z] = chores[z]
    BY <1>1, <1>4, <2>1, ThreadSets
  <2>4. QED
    BY <1>8, <2>2, <2>3 DEF ChoresMove
<1>9. QED
  BY <1>2, <1>3, <1>5, <1>6, <1>7, <1>8, ChoresChanges, ThreadSets
     DEF SignalHasWork, CreateThread, DeleteOutsideLock, SignalCanShutdown

LEMMA NextChores ==
  ASSUME Typed, Places, [Next]_vars, NEW x \in Thread
  PROVE  ChoresOf(x)'
<1>1. ChoresOf(x) /\ ChoresMove(x)
  BY ChoresMoves DEF Places
<1>2. ASSUME chores[x] # <<>> PROVE x \in Worker => pc'[x] = pc[x] \/ (pc[x] = "leaving" /\ chores[x] = <<"can_shutdown">>)
  BY <1>2, BusyStays
<1>3. CASE chores'[x] = <<>>
  BY <1>3 DEF ChoresOf
<1>4. CASE chores[x] # <<>> /\ chores'[x] # <<>> /\ chores'[x] = chores[x]
  <2>1. ASSUME x \in Worker, SignalCanShutdown(x) PROVE FALSE
    <3>1. chores[x] = <<"can_shutdown">> \/ pc'[x] = pc[x]
      BY <1>2, <1>4, <2>1
    <3>2. chores'[x] = Tail(chores[x]) /\ In("can_shutdown", chores[x]) /\ ~In("can_shutdown", chores'[x])
      BY <2>1, DoesIt DEF SignalCanShutdown, HasChore, In
    <3>3. QED
      BY <1>4, <3>2
  <2>2. x \in Worker => pc'[x] = pc[x]
    BY <1>4, <2>1, BusyStays
  <2>3. QED
    BY <1>1, <1>4, <2>2 DEF ChoresOf
<1>5. CASE chores[x] # <<>> /\ chores'[x] # <<>> /\ chores'[x] = Tail(chores[x])
  <2>1. chores[x] # <<"can_shutdown">>
    <3>1. Tail(<<"can_shutdown">>) = <<>>
      OBVIOUS
    <3>2. QED
      BY <1>5, <3>1
  <2>2. x \in Worker => pc'[x] = pc[x]
    BY <1>2, <1>5, <2>1
  <2>3. /\ Tail(<<"signal">>) = <<>> /\ Tail(<<"create">>) = <<>> /\ Tail(<<"delete">>) = <<>>
        /\ Tail(<<"signal", "delete">>) = <<"delete">> /\ Tail(<<"delete", "create">>) = <<"create">>
        /\ Tail(<<"signal", "delete", "create">>) = <<"delete", "create">>
        /\ Tail(<<"signal", "can_shutdown">>) = <<"can_shutdown">>
    OBVIOUS
  <2>4. QED
    BY <1>1, <1>5, <2>1, <2>2, <2>3 DEF ChoresOf, Deleting
<1>6. CASE chores[x] = <<>> /\ chores'[x] # <<>>
  <2>1. ASSUME chores'[x] = Tail(chores[x]), chores[x] # <<>> PROVE FALSE
    BY <1>6, <2>1
  <2>2. ASSUME NEW k \in AnyKind, PostTask(x, k) PROVE x \in Worker => pc'[x] = "running"
    BY <2>2, ConstantsAssumption DEF PostTask, Posts, workerVars
  <2>3. QED
    BY <1>1, <1>6, <2>1, <2>2 DEF ChoresMove, ChoresOf, Deleting
<1>7. QED
  BY <1>1, <1>3, <1>4, <1>5, <1>6 DEF ChoresMove

(***************************************************************************)
(* Where threads are, and the lock.                                        *)
(***************************************************************************)
\* The steps of w itself.
Own(w) == (\E x \in Thread : CreateThread(x, w)) \/ SignalCanShutdown(w) \/ TakesLock(w) \/ HolderSteps(w)

LEMMA PcOwn ==
  ASSUME Typed, [Next]_vars, NEW w \in Worker, ~Own(w)
  PROVE  pc'[w] = pc[w]
<1>1. pc \in [Worker -> Pc]
  BY DEF Typed, Pc
<1>2. ASSUME NEW x \in Thread, NEW v \in Worker, v # w, CreateThread(x, v) PROVE pc'[w] = pc[w]
  BY <1>1, <1>2 DEF CreateThread, Goto
<1>3. ASSUME NEW v \in Worker, v # w,
             \/ SignalCanShutdown(v) \/ StartThread(v) \/ FinishTask(v) \/ WakeUp(v) \/ Relock(v)
             \/ NoCleanup(v) \/ BecomeCleaner(v) \/ CleanerStarts(v) \/ BecomeIdler(v)
             \/ BecomeFinisher(v) \/ FinisherGoesOn(v) \/ CleanupDone(v) \/ IdlerChecks(v)
             \/ RunTask(v) \/ DeleteDelayed(v) \/ LeaveLoop(v) \/ WaitForWork(v)
      PROVE  pc'[w] = pc[w]
  BY <1>1, <1>3
     DEF SignalCanShutdown, StartThread, FinishTask, WakeUp, Relock, NoCleanup, BecomeCleaner,
         CleanerStarts, BecomeIdler, BecomeFinisher, FinisherGoesOn, CleanupDone, IdlerChecks, RunTask,
         DeleteDelayed, LeaveLoop, WaitForWork, Goto
<1>4. QED
  BY <1>2, <1>3, PcChanges DEF Own, TakesLock, HolderSteps, HandleCleanup

Releases(w) ==
  WaitForWork(w) \/ CleanerWaits(w) \/ BecomeIdler(w) \/ IdlerChecks(w) \/ FinisherWaits(w)
    \/ RunTask(w) \/ DeleteDelayed(w) \/ LeaveLoop(w)

LEMMA HolderMoves ==
  ASSUME [Next]_vars
  PROVE  \/ holder' = holder
         \/ holder' = Nobody /\ \E w \in Worker : holder = w /\ Releases(w)
         \/ holder = Nobody /\ \E w \in Worker : holder' = w /\ TakesLock(w)
<1>1. \/ holder' = holder
      \/ \E w \in Worker : Releases(w) \/ TakesLock(w)
  BY DEF Next, DoesChore, HolderSteps, HandleCleanup, OwnerTakesLock, vars, Releases,
     queueVars, threadVars, cleanupVars, workerVars, ownerVars, PostTask, SignalHasWork, CreateThread,
     DeleteOutsideLock, SignalCanShutdown, NoCleanup, BecomeCleaner, CleanerStarts,
     BecomeFinisher, FinisherGoesOn, CleanupDone, TimedWaitEnds, Shutdown, Flush, ShutdownWaits,
     ShutdownReturns, FlushWaits, FlushReturns, Tick
<1>2. ASSUME NEW w \in Worker, TakesLock(w) PROVE holder = Nobody /\ holder' = w
  BY <1>2 DEF TakesLock, StartThread, FinishTask, WakeUp, Relock, LockFree
<1>3. ASSUME NEW w \in Worker, Releases(w) PROVE holder = w /\ (holder' = Nobody \/ holder' = holder)
  BY <1>3 DEF Releases, WaitForWork, CleanerWaits, BecomeIdler, IdlerChecks, FinisherWaits, RunTask,
              DeleteDelayed, LeaveLoop, Waits, Holds, Sleep
<1>4. QED
  BY <1>1, <1>2, <1>3

LEMMA HolderOwn ==
  ASSUME Typed, [Next]_vars, NEW w \in Worker, ~Own(w)
  PROVE  holder' = w <=> holder = w
<1>1. Nobody \notin Worker
  BY ConstantsAssumption
<1>2. QED
  BY <1>1, HolderMoves DEF Own, HolderSteps, HandleCleanup, Releases

LEMMA Falls ==
  ASSUME Typed, NEW w \in Worker, FallsAsleep(w, asleep'[w])
  PROVE  /\ holder = w /\ holder' = Nobody
         /\ \/ asleep'[w] \in {"work", "timed"} /\ pc'[w] = "waiting"
            \/ asleep'[w] = "cleanup" /\ pc'[w] \in {"cleaner", "idler", "finisher"}
<1>1. w # Owner /\ w \in Thread /\ pc \in [Worker -> Pc] /\ asleep \in [Thread -> CondVar]
  BY ConstantsAssumption, ThreadSets DEF Typed, Pc, CondVar
<1>2. CASE WaitForWork(w) /\ asleep'[w] \in {"work", "timed"}
  BY <1>1, <1>2 DEF WaitForWork, Waits, Holds, Goto, Sleep
<1>3. CASE CleanerWaits(w) /\ asleep'[w] = "cleanup"
  BY <1>1, <1>3 DEF CleanerWaits, Holds, workerVars
<1>4. CASE BecomeIdler(w) /\ asleep'[w] = "cleanup"
  BY <1>1, <1>4 DEF BecomeIdler, Holds, Goto, Sleep
<1>5. CASE IdlerChecks(w) /\ asleep'[w] = "cleanup"
  <2>1. AllWoken[w] # "cleanup"
    BY <1>1 DEF AllWoken, Awake
  <2>2. QED
    BY <1>1, <1>5, <2>1 DEF IdlerChecks, Holds, Sleep
<1>6. CASE FinisherWaits(w) /\ asleep'[w] = "cleanup"
  BY <1>1, <1>6 DEF FinisherWaits, Holds, workerVars
<1>7. QED
  BY <1>1, <1>2, <1>3, <1>4, <1>5, <1>6 DEF FallsAsleep

LEMMA NextPlaceOf ==
  ASSUME Typed, Places, [Next]_vars, NEW w \in Worker
  PROVE  PlaceOf(w)'
<1>1. PlaceOf(w) /\ pc \in [Worker -> Pc] /\ w \in Thread /\ w # Nobody /\ w # Owner
  BY ThreadSets, ConstantsAssumption DEF Places, Typed, Pc
<1>2. CASE FallsAsleep(w, asleep'[w])
  <2>1. /\ holder' # w
        /\ \/ asleep'[w] \in {"work", "timed"} /\ pc'[w] = "waiting"
           \/ asleep'[w] = "cleanup" /\ pc'[w] \in {"cleaner", "idler", "finisher"}
    BY <1>1, <1>2, Falls
  <2>2. QED
    BY <2>1 DEF PlaceOf
<1>3. CASE ~FallsAsleep(w, asleep'[w])
  <2>1. asleep'[w] = asleep[w] \/ asleep'[w] = Awake
    BY <1>1, <1>3, AsleepMoves
  <2>2. CASE ~Own(w)
    BY <1>1, <2>1, <2>2, PcOwn, HolderOwn DEF PlaceOf
  <2>3. ASSUME NEW x \in Thread, CreateThread(x, w) PROVE PlaceOf(w)'
    <3>1. pc[w] = "none" /\ pc'[w] = "starting" /\ holder' = holder
      BY <1>1, <2>3 DEF CreateThread, Goto
    <3>2. QED
      BY <1>1, <2>1, <3>1 DEF PlaceOf
  <2>4. CASE SignalCanShutdown(w)
    <3>1. pc[w] = "leaving"
      BY <1>1, <2>4, DoesIt, Busy DEF SignalCanShutdown
    <3>2. pc'[w] = "exited" /\ holder' = holder
      BY <1>1, <2>4 DEF SignalCanShutdown, Goto
    <3>3. QED
      BY <1>1, <2>1, <3>1, <3>2 DEF PlaceOf
  <2>5. CASE StartThread(w) \/ FinishTask(w) \/ WakeUp(w)
    <3>1. /\ pc[w] \in {"starting", "running"} \/ (pc[w] = "waiting" /\ asleep[w] = Awake)
          /\ pc'[w] = "top" /\ holder' = w
      BY <1>1, <2>5 DEF StartThread, FinishTask, WakeUp, Goto
    <3>2. QED
      BY <1>1, <2>1, <3>1 DEF PlaceOf
  <2>6. CASE Relock(w)
    <3>1. /\ asleep[w] = Awake /\ holder' = w
          /\ \/ pc[w] = "cleaned" /\ pc'[w] = "top"
             \/ pc[w] \in {"cleaner", "idler", "finisher"} /\ pc'[w] = pc[w]
      BY <1>1, <2>6 DEF Relock
    <3>2. QED
      BY <1>1, <2>1, <3>1 DEF PlaceOf
  <2>7. CASE NoCleanup(w) \/ BecomeCleaner(w) \/ CleanerStarts(w) \/ BecomeFinisher(w)
               \/ FinisherGoesOn(w) \/ CleanupDone(w)
    <3>1. /\ holder = w /\ holder' = w
          /\ pc'[w] \in {"get", "cleaner", "finisher", "top"}
      BY <1>1, <2>7 DEF NoCleanup, BecomeCleaner, CleanerStarts, BecomeFinisher, FinisherGoesOn,
                        CleanupDone, Waits, Holds, Goto
    <3>2. QED
      BY <1>1, <2>1, <3>1 DEF PlaceOf
  <2>8. CASE CleanerWaits(w) \/ FinisherWaits(w) \/ RunTask(w) \/ DeleteDelayed(w)
               \/ LeaveLoop(w) \/ WaitForWork(w) \/ BecomeIdler(w)
    <3>1. /\ holder = w /\ holder' = Nobody
          /\ pc'[w] \in {"cleaner", "finisher", "running", "cleaned", "leaving", "waiting", "idler"}
      BY <1>1, <2>8 DEF CleanerWaits, FinisherWaits, RunTask, DeleteDelayed, LeaveLoop, WaitForWork,
                        BecomeIdler, Waits, Holds, Goto, Sleep, workerVars
    <3>2. QED
      BY <1>1, <2>1, <3>1 DEF PlaceOf
  <2>9. CASE IdlerChecks(w)
    <3>1. holder = w /\ \/ holder' = w /\ pc'[w] = "get"
                        \/ holder' = Nobody /\ pc'[w] = "idler"
      BY <1>1, <2>9 DEF IdlerChecks, Holds, Goto, Sleep
    <3>2. QED
      BY <1>1, <2>1, <3>1 DEF PlaceOf
  <2>10. QED
    BY <2>2, <2>3, <2>4, <2>5, <2>6, <2>7, <2>8, <2>9 DEF Own, TakesLock, HolderSteps, HandleCleanup
<1>4. QED
  BY <1>2, <1>3

LEMMA NextPlaces ==
  ASSUME Typed, Places, [Next]_vars
  PROVE  Places'
<1>1. ASSUME NEW x \in Thread \ Worker PROVE asleep'[x] \in {Awake, "cleanup", "can_shutdown"}
  BY AsleepMoves DEF Places, FallsAsleep
<1>2. QED
  BY <1>1, NextChores, NextPlaceOf DEF Places, Thread

(***************************************************************************)
(* Where a worker goes, and by which step.                                 *)
(***************************************************************************)
LEMMA PcTable ==
  ASSUME Typed, Places, [Next]_vars, NEW w \in Worker
  PROVE  \/ pc'[w] = pc[w]
         \/ pc[w] = "none" /\ pc'[w] = "starting" /\ \E x \in Thread : CreateThread(x, w)
         \/ pc[w] = "leaving" /\ pc'[w] = "exited" /\ SignalCanShutdown(w)
         \/ pc[w] = "starting" /\ pc'[w] = "top" /\ StartThread(w)
         \/ pc[w] = "running" /\ pc'[w] = "top" /\ FinishTask(w)
         \/ pc[w] = "waiting" /\ pc'[w] = "top" /\ WakeUp(w)
         \/ pc[w] = "cleaned" /\ pc'[w] = "top" /\ Relock(w)
         \/ pc[w] = "top" /\ pc'[w] = "get" /\ NoCleanup(w)
         \/ pc[w] = "top" /\ pc'[w] = "cleaner" /\ BecomeCleaner(w)
         \/ pc[w] = "cleaner" /\ pc'[w] = "get" /\ CleanerStarts(w)
         \/ pc[w] = "top" /\ pc'[w] = "idler" /\ BecomeIdler(w)
         \/ pc[w] = "idler" /\ pc'[w] = "get" /\ IdlerChecks(w) /\ cleanup = "finishing"
         \/ pc[w] = "top" /\ pc'[w] = "finisher" /\ BecomeFinisher(w)
         \/ pc[w] = "finisher" /\ pc'[w] = "get" /\ FinisherGoesOn(w)
         \/ pc[w] = "get" /\ pc'[w] = "running" /\ RunTask(w)
         \/ pc[w] = "get" /\ pc'[w] = "cleaned" /\ DeleteDelayed(w)
         \/ pc[w] = "get" /\ pc'[w] = "top" /\ CleanupDone(w)
         \/ pc[w] = "get" /\ pc'[w] = "leaving" /\ LeaveLoop(w)
         \/ pc[w] = "get" /\ pc'[w] = "waiting" /\ WaitForWork(w)
<1>1. pc \in [Worker -> Pc] /\ w \in Thread
  BY ThreadSets DEF Typed, Pc
<1>2. CASE pc'[w] = pc[w]
  BY <1>2
<1>3. CASE pc'[w] # pc[w]
  <2>1. Own(w)
    BY <1>3, PcOwn
  <2>2. CASE \E x \in Thread : CreateThread(x, w)
    BY <1>1, <2>2 DEF CreateThread, Goto
  <2>3. CASE SignalCanShutdown(w)
    <3>1. pc[w] = "leaving"
      BY <1>1, <2>3, DoesIt, Busy DEF SignalCanShutdown
    <3>2. QED
      BY <1>1, <2>3, <3>1 DEF SignalCanShutdown, Goto
  <2>4. CASE TakesLock(w)
    BY <1>1, <1>3, <2>4 DEF TakesLock, StartThread, FinishTask, WakeUp, Relock, Goto
  <2>5. CASE RunTask(w) \/ DeleteDelayed(w) \/ CleanupDone(w) \/ LeaveLoop(w) \/ WaitForWork(w)
    <3>1. RunTask(w) => pc[w] = "get" /\ pc'[w] = "running"
      BY <1>1 DEF RunTask, Holds, Goto
    <3>2. DeleteDelayed(w) => pc[w] = "get" /\ pc'[w] = "cleaned"
      BY <1>1 DEF DeleteDelayed, Waits, Holds, Goto
    <3>3. CleanupDone(w) => pc[w] = "get" /\ pc'[w] = "top"
      BY <1>1 DEF CleanupDone, Waits, Holds, Goto
    <3>4. LeaveLoop(w) => pc[w] = "get" /\ pc'[w] = "leaving"
      BY <1>1 DEF LeaveLoop, Waits, Holds, Goto
    <3>5. WaitForWork(w) => pc[w] = "get" /\ pc'[w] = "waiting"
      BY <1>1 DEF WaitForWork, Waits, Holds, Goto
    <3>6. QED
      BY <2>5, <3>1, <3>2, <3>3, <3>4, <3>5
  <2>6. CASE CleanerWaits(w) \/ FinisherWaits(w)
    BY <1>3, <2>6 DEF CleanerWaits, FinisherWaits, workerVars
  <2>7. CASE NoCleanup(w) \/ BecomeCleaner(w) \/ CleanerStarts(w)
    BY <1>1, <2>7 DEF NoCleanup, BecomeCleaner, CleanerStarts, Holds, Goto
  <2>8. CASE BecomeIdler(w) \/ BecomeFinisher(w) \/ FinisherGoesOn(w)
    BY <1>1, <2>8 DEF BecomeIdler, BecomeFinisher, FinisherGoesOn, Holds, Goto
  <2>9. CASE IdlerChecks(w)
    BY <1>1, <1>3, <2>9 DEF IdlerChecks, Holds, Goto
  <2>10. QED
    BY <2>1, <2>2, <2>3, <2>4, <2>5, <2>6, <2>7, <2>8, <2>9 DEF Own, HolderSteps, HandleCleanup
<1>4. QED
  BY <1>2, <1>3

LEMMA PcAlone ==
  ASSUME Typed, Places, [Next]_vars, NEW v \in Worker, NEW w \in Worker, pc'[v] # pc[v], v # w
  PROVE  pc'[w] = pc[w]
  BY PcMoves

(***************************************************************************)
(* Closures that are deleted outside the lock.                             *)
(***************************************************************************)
Doomed == InState("doomed")

\* A worker that has closures to delete.
MayDoom(w) == pc[w] = "waiting" \/ HasChore(w, "delete")

\* A chore stays on the list until it is done.
LEMMA ChoreStays ==
  ASSUME Typed, Places, [Next]_vars, NEW x \in Thread, NEW d, HasChore(x, d)
  PROVE  \/ HasChore(x, d)'
         \/ d = "signal" /\ SignalHasWork(x)
         \/ d = "create" /\ \E w \in Worker : CreateThread(x, w)
         \/ d = "delete" /\ x \in Worker /\ DeleteOutsideLock(x)
         \/ d = "can_shutdown" /\ x \in Worker /\ SignalCanShutdown(x)
<1>1. chores \in [Thread -> Seq(Chore)] /\ Worker \subseteq Thread
  BY ThreadSets DEF Typed
<1>2. chores[x] # <<>>
  BY Lists DEF HasChore, In
<1>3. ASSUME NEW y \in Thread, NEW c, Does(y, c) PROVE HasChore(x, d)' \/ (y = x /\ c = d)
  BY <1>3, DoesIt
<1>4. ASSUME NEW y \in Thread, SignalHasWork(y)
      PROVE  HasChore(x, d)' \/ (y = x /\ d = "signal")
  BY <1>3, <1>4 DEF SignalHasWork
<1>5. ASSUME NEW y \in Thread, NEW w \in Worker, CreateThread(y, w)
      PROVE  HasChore(x, d)' \/ (y = x /\ d = "create")
  BY <1>3, <1>5 DEF CreateThread
<1>6. ASSUME NEW w \in Worker, DeleteOutsideLock(w) PROVE HasChore(x, d)' \/ (w = x /\ d = "delete")
  BY <1>1, <1>3, <1>6 DEF DeleteOutsideLock
<1>7. ASSUME NEW w \in Worker, SignalCanShutdown(w) PROVE HasChore(x, d)' \/ (w = x /\ d = "can_shutdown")
  BY <1>1, <1>3, <1>7 DEF SignalCanShutdown
<1>8. ASSUME \/ chores' = chores
             \/ \E y \in Thread, k \in AnyKind : PostTask(y, k)
             \/ \E v \in Worker : RunTask(v) \/ DeleteDelayed(v) \/ LeaveLoop(v)
      PROVE  HasChore(x, d)'
  <2>1. ASSUME NEW y \in Thread, NEW k \in AnyKind, PostTask(y, k) PROVE chores'[x] = chores[x]
    BY <1>1, <1>2, <2>1 DEF PostTask, Posts
  <2>2. ASSUME NEW v \in Worker, RunTask(v) \/ DeleteDelayed(v) \/ LeaveLoop(v)
        PROVE  chores'[x] = chores[x]
    <3>1. pc[v] = "get"
      BY <2>2 DEF RunTask, DeleteDelayed, LeaveLoop, Waits, Holds
    <3>2. v # x
      BY <1>1, <1>2, <3>1, Busy
    <3>3. QED
      BY <1>1, <2>2, <3>2 DEF RunTask, DeleteDelayed, LeaveLoop
  <2>3. chores'[x] = chores[x]
    BY <1>8, <2>1, <2>2
  <2>4. QED
    BY <2>3 DEF HasChore
<1>9. QED
  BY <1>4, <1>5, <1>6, <1>7, <1>8, ChoresChanges

LEMMA DoomStays ==
  ASSUME Typed, Places, [Next]_vars, NEW w \in Worker, MayDoom(w), ~WakeUp(w), ~DeleteOutsideLock(w)
  PROVE  MayDoom(w)'
<1>1. w \in Thread /\ pc \in [Worker -> Pc]
  BY ThreadSets DEF Typed, Pc
<1>2. CASE pc[w] = "waiting"
  <2>1. pc'[w] = pc[w]
    BY <1>2, PcTable
  <2>2. QED
    BY <1>2, <2>1 DEF MayDoom
<1>3. CASE HasChore(w, "delete")
  BY <1>1, <1>3, ChoreStays DEF MayDoom
<1>4. QED
  BY <1>2, <1>3 DEF MayDoom

LEMMA GetsNothing ==
  ASSUME Typed, Places, Closures, NEW w \in Worker, pc[w] = "get"
  PROVE  doomed[w] = {}
  BY Busy, ThreadSets DEF Closures

\* How the closures change hands.
LEMMA DoomedMoves ==
  ASSUME Typed, Jobs, Closures, Origin, Places, [Next]_vars
  PROVE  \/ doomed' = doomed /\ Doomed' = Doomed /\ \A w \in Worker : ~WakeUp(w) /\ ~DeleteOutsideLock(w)
         \/ \E w \in Worker : doomed' = [doomed EXCEPT ![w] = {}] /\ Doomed' = Doomed \ doomed[w]
                              /\ \A v \in Worker : v # w => ~WakeUp(v) /\ ~DeleteOutsideLock(v)
         \/ \E w \in Worker : \E T :
              /\ doomed[w] = {} /\ doomed' = [doomed EXCEPT ![w] = T] /\ MayDoom(w)'
              /\ Doomed' = Doomed \cup T /\ T \cap Doomed = {} /\ T \subseteq Nat
              /\ \A v \in Worker : ~WakeUp(v) /\ ~DeleteOutsideLock(v)
<1> DEFINE Goal ==
         \/ doomed' = doomed /\ Doomed' = Doomed /\ \A w \in Worker : ~WakeUp(w) /\ ~DeleteOutsideLock(w)
         \/ \E w \in Worker : doomed' = [doomed EXCEPT ![w] = {}] /\ Doomed' = Doomed \ doomed[w]
                              /\ \A v \in Worker : v # w => ~WakeUp(v) /\ ~DeleteOutsideLock(v)
         \/ \E w \in Worker : \E T :
              /\ doomed[w] = {} /\ doomed' = [doomed EXCEPT ![w] = T] /\ MayDoom(w)'
              /\ Doomed' = Doomed \cup T /\ T \cap Doomed = {} /\ T \subseteq Nat
              /\ \A v \in Worker : ~WakeUp(v) /\ ~DeleteOutsideLock(v)
<1>1. /\ pc \in [Worker -> Pc] /\ doomed \in [Worker -> SUBSET Nat] /\ chores \in [Thread -> Seq(Chore)]
      /\ Nobody \notin Worker /\ Worker \subseteq Thread
  BY ThreadSets DEF Typed, Pc
<1>2. ASSUME NEW w \in Worker, DeleteOutsideLock(w) \/ WakeUp(w) PROVE Goal
  <2>1. /\ tasks' = SetState(doomed[w], "deleted") /\ doomed' = [doomed EXCEPT ![w] = {}]
    BY <1>2 DEF DeleteOutsideLock, WakeUp
  <2>2. /\ OnlyStates(tasks')
        /\ \A t \in TaskIds : tasks'[t].state = IF t \in doomed[w] THEN "deleted" ELSE tasks[t].state
    BY <2>1, StatesSet DEF States
  <2>3. Doomed' = Doomed \ doomed[w]
    BY <2>2 DEF Doomed, InState, OnlyStates, TaskIds
  <2>4. ASSUME NEW v \in Worker, v # w, WakeUp(v) \/ DeleteOutsideLock(v) PROVE FALSE
    <3>1. CASE pc' = pc
      <4>1. DeleteOutsideLock(w) /\ DeleteOutsideLock(v)
        BY <1>1, <1>2, <2>4, <3>1 DEF WakeUp, Goto
      <4>2. chores[w] # <<>> /\ chores' = [chores EXCEPT ![w] = Tail(@)] /\ chores' = [chores EXCEPT ![v] = Tail(@)]
        BY <4>1 DEF DeleteOutsideLock, Does
      <4>3. chores[w] \in Seq(Chore) /\ Len(Tail(chores[w])) = Len(chores[w]) - 1 /\ Len(chores[w]) \in Nat
        BY <1>1, <4>2
      <4>4. chores'[w] = Tail(chores[w]) /\ chores'[w] = chores[w]
        BY <1>1, <2>4, <4>2
      <4>5. Len(chores[w]) = Len(chores[w]) - 1
        BY <4>3, <4>4
      <4>6. QED
        BY <4>3, <4>5
    <3>2. CASE pc' # pc
      <4>1. WakeUp(w) /\ WakeUp(v)
        BY <1>2, <2>4, <3>2 DEF DeleteOutsideLock
      <4>2. holder' = w /\ holder' = v
        BY <4>1 DEF WakeUp
      <4>3. QED
        BY <2>4, <4>2
    <3>3. QED
      BY <3>1, <3>2
  <2>5. QED
    BY <2>1, <2>3, <2>4
<1>3. ASSUME NEW w \in Worker, NEW T, doomed' = [doomed EXCEPT ![w] = T], pc[w] = "get",
             MayDoom(w)', Doomed' = Doomed \cup T, T \subseteq Pending, holder = w, holder' = Nobody
      PROVE  Goal
  <2>1. doomed[w] = {}
    BY <1>3, GetsNothing
  <2>2. T \cap Doomed = {} /\ T \subseteq Nat
    BY <1>3, Queue, TaskType DEF Pending, Doomed, InState
  <2>3. ASSUME NEW v \in Worker, WakeUp(v) \/ DeleteOutsideLock(v) PROVE FALSE
    BY <1>1, <1>3, <2>3 DEF WakeUp, DeleteOutsideLock, LockFree
  <2>4. QED
    BY <1>3, <2>1, <2>2, <2>3
<1>4. ASSUME NEW w \in Worker, RunTask(w) PROVE Goal
  <2>1. /\ doomed' = [doomed EXCEPT ![w] = OnTheWay] /\ pc[w] = "get" /\ holder = w /\ holder' = Nobody
    BY <1>4 DEF RunTask, Holds
  <2>2. MayDoom(w)'
    <3>1. chores'[w] \in {<<"signal", "delete">>, <<"signal", "delete", "create">>}
      BY <1>1, <1>4 DEF RunTask
    <3>2. In("delete", chores'[w])
      BY <3>1, Lists
    <3>3. QED
      BY <3>2 DEF MayDoom, HasChore, In
  <2>3. /\ OnlyStates(tasks') /\ FirstOf(Stop) \in Stop
        /\ \A t \in TaskIds : tasks'[t].state = IF t = FirstOf(Stop) THEN "running"
                                                ELSE IF t \in OnTheWay THEN "doomed"
                                                ELSE tasks[t].state
    BY <1>4, Started
  <2>4. OnTheWay \subseteq Pending /\ Pending \subseteq TaskIds /\ FirstOf(Stop) \notin OnTheWay
        /\ tasks[FirstOf(Stop)].state = "pending"
    BY <2>3, Queue DEF Pending
  <2>5. Doomed' = Doomed \cup OnTheWay
    BY <2>3, <2>4 DEF Doomed, InState, OnlyStates, TaskIds
  <2>6. QED
    BY <1>3, <2>1, <2>2, <2>4, <2>5
<1>5. ASSUME NEW w \in Worker, NEW T, T \subseteq Pending, tasks' = SetState(T, "doomed")
      PROVE  Doomed' = Doomed \cup T
  <2>1. /\ OnlyStates(tasks')
        /\ \A t \in TaskIds : tasks'[t].state = IF t \in T THEN "doomed" ELSE tasks[t].state
    BY <1>5, StatesSet DEF States
  <2>2. QED
    BY <1>5, <2>1 DEF Doomed, InState, OnlyStates, TaskIds, Pending
<1>6. ASSUME NEW w \in Worker, DeleteDelayed(w) PROVE Goal
  <2> DEFINE T == OnTheWay \cup {FirstOf(Stop)}
  <2>1. /\ doomed' = [doomed EXCEPT ![w] = T] /\ pc[w] = "get" /\ tasks' = SetState(T, "doomed")
        /\ chores' = [chores EXCEPT ![w] = <<"delete">>] /\ Stop # {} /\ holder = w /\ holder' = Nobody
    BY <1>6 DEF DeleteDelayed, Waits, Holds
  <2>2. T \subseteq Pending
    BY <2>1, Queue
  <2>3. chores'[w] = <<"delete">>
    BY <1>1, <2>1
  <2>4. MayDoom(w)'
    BY <2>3, Lists DEF MayDoom, HasChore, In
  <2> HIDE DEF T
  <2>5. QED
    BY <1>3, <1>5, <2>1, <2>2, <2>4
<1>7. ASSUME NEW w \in Worker, WaitForWork(w) PROVE Goal
  <2>1. /\ doomed' = [doomed EXCEPT ![w] = OnTheWay] /\ pc[w] = "get"
        /\ tasks' = SetState(OnTheWay, "doomed") /\ pc' = [pc EXCEPT ![w] = "waiting"]
        /\ holder = w /\ holder' = Nobody
    BY <1>7 DEF WaitForWork, Waits, Holds, Goto, Sleep
  <2>2. OnTheWay \subseteq Pending
    BY Queue
  <2>3. MayDoom(w)'
    BY <1>1, <2>1 DEF MayDoom
  <2>4. QED
    BY <1>3, <1>5, <2>1, <2>2, <2>3
<1>8. CASE ~\E w \in Worker : DeleteOutsideLock(w) \/ WakeUp(w) \/ RunTask(w) \/ DeleteDelayed(w) \/ WaitForWork(w)
  <2>1. doomed' = doomed
    BY <1>8, DoomedChanges
  <2>2. ASSUME NEW x \in Thread, NEW k \in AnyKind, PostTask(x, k) PROVE Doomed' = Doomed
    <3>1. TaskIds \subseteq TaskIds' /\ \A t \in TaskIds : tasks'[t] = tasks[t]
      BY <2>2, Posted
    <3>2. \A t \in TaskIds' : t \notin TaskIds => tasks'[t].state = "pending"
      BY NewTasks
    <3>3. QED
      BY <3>1, <3>2 DEF Doomed, InState
  <2>3. ASSUME NEW w \in Worker, FinishTask(w) PROVE Doomed' = Doomed
    <3>1. tasks[job[w]].state = "running" /\ tasks' = SetState({job[w]}, "done")
      BY <2>3 DEF FinishTask, Jobs, Running, InState
    <3>2. /\ OnlyStates(tasks')
          /\ \A t \in TaskIds : tasks'[t].state = IF t \in {job[w]} THEN "done" ELSE tasks[t].state
      BY <3>1, StatesSet DEF States
    <3>3. \A t \in TaskIds : tasks'[t].state = "doomed" <=> tasks[t].state = "doomed"
      BY <3>1, <3>2
    <3>4. TaskIds' = TaskIds
      BY <3>2 DEF OnlyStates, TaskIds
    <3>5. QED
      BY <3>3, <3>4 DEF Doomed, InState
  <2>4. ASSUME NEW w \in Worker, LeaveLoop(w) PROVE Doomed' = Doomed
    <3>1. tasks' = SetState(OnTheWay, "deleted") /\ OnTheWay \subseteq Pending
      BY <2>4, Queue DEF LeaveLoop
    <3>2. /\ OnlyStates(tasks')
          /\ \A t \in TaskIds : tasks'[t].state = IF t \in OnTheWay THEN "deleted" ELSE tasks[t].state
      BY <3>1, StatesSet DEF States
    <3>3. QED
      BY <3>1, <3>2 DEF Doomed, InState, OnlyStates, TaskIds, Pending
  <2>5. tasks' = tasks => Doomed' = Doomed
    BY DEF Doomed, InState, TaskIds
  <2>6. Doomed' = Doomed
    BY <1>8, <2>2, <2>3, <2>4, <2>5, TasksChanges
  <2>7. QED
    BY <1>8, <2>1, <2>6
<1>9. QED
  BY <1>2, <1>4, <1>6, <1>7, <1>8

LEMMA NextClosures ==
  ASSUME Typed, Jobs, Closures, Origin, Places, [Next]_vars
  PROVE  Closures'
<1>1. doomed \in [Worker -> SUBSET Nat]
  BY DEF Typed
<1>2. /\ \A w \in Worker : doomed[w] \subseteq Doomed
      /\ \A t \in Doomed : \E w \in Worker : t \in doomed[w]
      /\ \A v, w \in Worker : v # w => doomed[v] \cap doomed[w] = {}
      /\ \A w \in Worker : doomed[w] # {} => MayDoom(w)
  BY DEF Closures, Doomed, MayDoom
<1>3. \A w \in Worker : MayDoom(w) /\ ~WakeUp(w) /\ ~DeleteOutsideLock(w) => MayDoom(w)'
  BY DoomStays
<1>4. /\ \A w \in Worker : doomed'[w] \subseteq Doomed'
      /\ \A t \in Doomed' : \E w \in Worker : t \in doomed'[w]
      /\ \A v, w \in Worker : v # w => doomed'[v] \cap doomed'[w] = {}
      /\ \A w \in Worker : doomed'[w] # {} => MayDoom(w)'
  <2> HIDE DEF MayDoom, Doomed
  <2>1. CASE doomed' = doomed /\ Doomed' = Doomed /\ \A w \in Worker : ~WakeUp(w) /\ ~DeleteOutsideLock(w)
    BY <1>2, <1>3, <2>1
  <2>2. ASSUME NEW w \in Worker, doomed' = [doomed EXCEPT ![w] = {}], Doomed' = Doomed \ doomed[w],
               \A v \in Worker : v # w => ~WakeUp(v) /\ ~DeleteOutsideLock(v)
        PROVE  /\ \A v \in Worker : doomed'[v] \subseteq Doomed'
               /\ \A t \in Doomed' : \E v \in Worker : t \in doomed'[v]
               /\ \A u, v \in Worker : u # v => doomed'[u] \cap doomed'[v] = {}
               /\ \A v \in Worker : doomed'[v] # {} => MayDoom(v)'
    <3>1. doomed'[w] = {} /\ \A v \in Worker : v # w => doomed'[v] = doomed[v]
      BY <1>1, <2>2
    <3>2. QED
      BY <1>2, <1>3, <2>2, <3>1
  <2>3. ASSUME NEW w \in Worker, NEW T, doomed[w] = {}, doomed' = [doomed EXCEPT ![w] = T], MayDoom(w)',
               Doomed' = Doomed \cup T, T \cap Doomed = {},
               \A v \in Worker : ~WakeUp(v) /\ ~DeleteOutsideLock(v)
        PROVE  /\ \A v \in Worker : doomed'[v] \subseteq Doomed'
               /\ \A t \in Doomed' : \E v \in Worker : t \in doomed'[v]
               /\ \A u, v \in Worker : u # v => doomed'[u] \cap doomed'[v] = {}
               /\ \A v \in Worker : doomed'[v] # {} => MayDoom(v)'
    <3>1. doomed'[w] = T /\ \A v \in Worker : v # w => doomed'[v] = doomed[v]
      BY <1>1, <2>3
    <3>2. QED
      BY <1>2, <1>3, <2>3, <3>1
  <2>4. QED
    BY <2>1, <2>2, <2>3, DoomedMoves
<1>5. QED
  BY <1>4 DEF Closures, Doomed, MayDoom

(***************************************************************************)
(* Threads that are being created.                                         *)
(***************************************************************************)
LEMMA CreatorsMoves ==
  ASSUME Typed, Places, [Next]_vars
  PROVE  \/ beingCreated' = beingCreated /\ Creators' = Creators
            /\ \A w \in Worker : ~StartThread(w) /\ \A x \in Thread : ~CreateThread(x, w)
         \/ ~beingCreated /\ beingCreated' /\ (\E x \in Thread : Creators' = Creators \cup {x})
            /\ \A w \in Worker : ~StartThread(w) /\ \A x \in Thread : ~CreateThread(x, w)
         \/ beingCreated' = beingCreated
            /\ \E x \in Creators, w \in Worker : CreateThread(x, w) /\ Creators' = Creators \ {x}
         \/ ~beingCreated' /\ Creators' = Creators /\ \E w \in Worker : StartThread(w)
<1> DEFINE Kept == \A w \in Worker : ~StartThread(w) /\ \A x \in Thread : ~CreateThread(x, w)
           Goal == \/ beingCreated' = beingCreated /\ Creators' = Creators /\ Kept
                   \/ ~beingCreated /\ beingCreated' /\ (\E x \in Thread : Creators' = Creators \cup {x}) /\ Kept
                   \/ beingCreated' = beingCreated
                      /\ \E x \in Creators, w \in Worker : CreateThread(x, w) /\ Creators' = Creators \ {x}
                   \/ ~beingCreated' /\ Creators' = Creators /\ \E w \in Worker : StartThread(w)
<1>1. /\ chores \in [Thread -> Seq(Chore)] /\ pc \in [Worker -> Pc] /\ beingCreated \in BOOLEAN
      /\ Worker \subseteq Thread
  BY ThreadSets DEF Typed, Pc
<1>2. \A x \in Thread : chores'[x] = chores[x] => (HasChore(x, "create")' <=> HasChore(x, "create"))
  BY DEF HasChore
<1>3. \A x \in Thread : chores[x] = <<>> => ~HasChore(x, "create")
  BY Lists DEF HasChore, In
<1>4. chores' = chores => Creators' = Creators
  BY <1>2 DEF Creators
<1>5. ASSUME NEW x \in Thread, NEW w \in Worker, CreateThread(x, w) PROVE Goal
  <2>1. /\ HasChore(x, "create") /\ beingCreated' = beingCreated
        /\ \A y \in Thread : \A d : HasChore(y, d)' <=> HasChore(y, d) /\ ~(y = x /\ d = "create")
    BY <1>5, DoesIt DEF CreateThread, threadVars
  <2>2. x \in Creators /\ Creators' = Creators \ {x}
    BY <2>1 DEF Creators
  <2>3. QED
    BY <1>5, <2>1, <2>2
<1>6. ASSUME NEW w \in Worker, StartThread(w) PROVE Goal
  BY <1>4, <1>6 DEF StartThread
<1>7. ASSUME NEW x \in Thread, NEW c, c # "create", Does(x, c) PROVE Creators' = Creators
  BY <1>7, DoesIt DEF Creators
<1>8. ASSUME NEW x \in Thread, NEW s, chores[x] = <<>>, chores' = [chores EXCEPT ![x] = s]
      PROVE  Creators' = IF In("create", s) THEN Creators \cup {x} ELSE Creators
  <2>1. chores'[x] = s /\ \A y \in Thread : y # x => chores'[y] = chores[y]
    BY <1>1, <1>8
  <2>2. HasChore(x, "create")' <=> In("create", s)
    BY <2>1 DEF HasChore, In
  <2>3. QED
    BY <1>2, <1>3, <1>8, <2>1, <2>2 DEF Creators
<1>9. ASSUME NEW x \in Thread, NEW k \in AnyKind, PostTask(x, k)
      PROVE  \/ beingCreated' = beingCreated /\ Creators' = Creators
             \/ ~beingCreated /\ beingCreated' /\ (\E y \in Thread : Creators' = Creators \cup {y})
  <2>1. PICK create \in BOOLEAN :
          /\ create => ~beingCreated
          /\ beingCreated' = (beingCreated \/ create)
          /\ chores' = [chores EXCEPT ![x] = IF create THEN <<"create">> ELSE <<"signal">>]
          /\ chores[x] = <<>>
    <3>1. \A r : Helpful(r) => ~beingCreated
      BY DEF Helpful
    <3>2. \A r \in BOOLEAN : Helpful(r) \in BOOLEAN
      BY DEF Helpful
    <3>3. (Runnable # {} \/ TokenRunnable(k.token)) \in BOOLEAN
      OBVIOUS
    <3>4. QED
      BY <1>9, <3>1, <3>2, <3>3 DEF PostTask, Posts
  <2>2. CASE create
    BY <1>8, <2>1, <2>2, Lists
  <2>3. CASE ~create
    BY <1>1, <1>8, <2>1, <2>3, Lists
  <2>4. QED
    BY <2>2, <2>3
<1>10. ASSUME NEW w \in Worker, RunTask(w)
       PROVE  \/ beingCreated' = beingCreated /\ Creators' = Creators
              \/ ~beingCreated /\ beingCreated' /\ (\E y \in Thread : Creators' = Creators \cup {y})
  <2>1. PICK more \in BOOLEAN :
          /\ more => ~beingCreated
          /\ beingCreated' = (beingCreated \/ more)
          /\ chores' = [chores EXCEPT ![w] = IF more THEN <<"signal", "delete", "create">>
                                                     ELSE <<"signal", "delete">>]
    BY <1>10 DEF RunTask, Helpful
  <2>2. chores[w] = <<>>
    BY <1>1, <1>10, Busy DEF RunTask, Holds
  <2>3. CASE more
    BY <1>1, <1>8, <2>1, <2>2, <2>3, Lists
  <2>4. CASE ~more
    BY <1>1, <1>8, <2>1, <2>2, <2>4, Lists
  <2>5. QED
    BY <2>3, <2>4
<1>11. ASSUME NEW w \in Worker, DeleteDelayed(w) \/ LeaveLoop(w) PROVE Creators' = Creators
  <2>1. chores[w] = <<>>
    BY <1>1, <1>11, Busy DEF DeleteDelayed, LeaveLoop, Waits, Holds
  <2>2. \/ chores' = [chores EXCEPT ![w] = <<"delete">>]
        \/ chores' = [chores EXCEPT ![w] = <<"signal", "can_shutdown">>]
    BY <1>11 DEF DeleteDelayed, LeaveLoop
  <2>3. QED
    BY <1>1, <1>8, <2>1, <2>2, Lists
<1>12. CASE ~Kept
  BY <1>5, <1>6, <1>12
<1>13. CASE Kept /\ \A x \in Thread : /\ \A k \in AnyKind : ~PostTask(x, k)
                                      /\ x \in Worker => ~RunTask(x)
  <2>1. beingCreated' = beingCreated
    BY <1>1, <1>13, BeingCreatedChanges
  <2>2. ASSUME NEW x \in Thread, SignalHasWork(x) PROVE Creators' = Creators
    BY <1>7, <2>2 DEF SignalHasWork
  <2>3. ASSUME NEW w \in Worker, DeleteOutsideLock(w) \/ SignalCanShutdown(w) PROVE Creators' = Creators
    <3>1. \E c : c # "create" /\ Does(w, c)
      BY <2>3 DEF DeleteOutsideLock, SignalCanShutdown
    <3>2. QED
      BY <1>1, <1>7, <3>1
  <2>4. Creators' = Creators
    BY <1>1, <1>4, <1>11, <1>13, <2>2, <2>3, ChoresChanges
  <2>5. QED
    BY <1>13, <2>1, <2>4
<1>14. CASE Kept /\ \E x \in Thread : (\E k \in AnyKind : PostTask(x, k)) \/ (x \in Worker /\ RunTask(x))
  BY <1>9, <1>10, <1>14
<1>15. QED
  BY <1>12, <1>13, <1>14

LEMMA NextCreation ==
  ASSUME Typed, Places, Creation, [Next]_vars
  PROVE  Creation'
<1>1. pc \in [Worker -> Pc]
  BY DEF Typed, Pc
<1>2. ASSUME \A w \in Worker : ~StartThread(w) /\ \A x \in Thread : ~CreateThread(x, w)
      PROVE  Starting' = Starting
  <2>1. \A w \in Worker : pc'[w] = "starting" <=> pc[w] = "starting"
    BY <1>2, PcTable
  <2>2. QED
    BY <2>1 DEF Starting
<1>3. ASSUME NEW x \in Thread, NEW w \in Worker, CreateThread(x, w) PROVE Starting' = Starting \cup {w}
  BY <1>1, <1>3 DEF CreateThread, Goto, Starting
<1>4. ASSUME NEW w \in Worker, StartThread(w) PROVE w \in Starting /\ Starting' = Starting \ {w}
  BY <1>1, <1>4 DEF StartThread, Goto, Starting
<1>5. Creators \subseteq Thread
  BY DEF Creators
<1>6. QED
  BY <1>2, <1>3, <1>4, <1>5, CreatorsMoves DEF Creation

(***************************************************************************)
(* The counters.                                                           *)
(***************************************************************************)
LEMMA Finite ==
  ASSUME Typed
  PROVE  /\ IsFiniteSet(TaskIds) /\ IsFiniteSet(PendingBlock) /\ IsFiniteSet(RunningBlock)
         /\ IsFiniteSet(Waiting) /\ IsFiniteSet(Idlers)
         /\ PendingBlock \subseteq TaskIds /\ RunningBlock \subseteq TaskIds
<1>1. IsFiniteSet(TaskIds)
  BY TaskType, FS_Interval
<1>2. PendingBlock \subseteq TaskIds /\ RunningBlock \subseteq TaskIds
  BY DEF PendingBlock, RunningBlock, Pending
<1>3. Waiting \subseteq Worker /\ Idlers \subseteq Worker /\ IsFiniteSet(Worker)
  BY ConstantsAssumption DEF Waiting, Idlers
<1>4. QED
  BY <1>1, <1>2, <1>3, FS_Subset

LEMMA Adds ==
  ASSUME NEW S, IsFiniteSet(S), NEW x, x \notin S
  PROVE  Cardinality(S \cup {x}) = Cardinality(S) + 1
  BY FS_AddElement

LEMMA Removes ==
  ASSUME NEW S, IsFiniteSet(S), NEW x \in S
  PROVE  Cardinality(S \ {x}) = Cardinality(S) - 1
  BY FS_RemoveElement

LEMMA NextBlockPending ==
  ASSUME Typed, Jobs, Closures, Origin, Counts, [Next]_vars
  PROVE  blockPending' = Cardinality(PendingBlock')
<1>1. IsFiniteSet(PendingBlock) /\ blockPending = Cardinality(PendingBlock) /\ PendingBlock \subseteq TaskIds
  BY Finite DEF Counts
<1>2. ASSUME NEW x \in Thread, NEW k \in AnyKind, PostTask(x, k)
      PROVE  blockPending' = Cardinality(PendingBlock')
  <2> DEFINE n == Len(tasks) + 1
  <2>1. /\ TaskIds' = TaskIds \cup {n} /\ n \notin TaskIds
        /\ \A t \in TaskIds : tasks'[t] = tasks[t]
        /\ tasks'[n] = [token |-> k.token, shutdown |-> k.shutdown,
                        time |-> clock + k.delay, state |-> "pending"]
    BY <1>2, Posted
  <2> HIDE DEF n
  <2>2. tasks'[n].shutdown = k.shutdown /\ tasks'[n].state = "pending"
    BY <2>1
  <2>3. PendingBlock' = IF k.shutdown = "block" THEN PendingBlock \cup {n} ELSE PendingBlock
    BY <2>1, <2>2 DEF PendingBlock, Pending
  <2>4. blockPending' = IF k.shutdown = "block" THEN blockPending + 1 ELSE blockPending
    BY <1>2 DEF PostTask
  <2>5. QED
    BY <1>1, <2>1, <2>3, <2>4, Adds
<1>3. ASSUME NEW w \in Worker, RunTask(w) PROVE blockPending' = Cardinality(PendingBlock')
  <2> DEFINE f == FirstOf(Stop)
  <2>1. /\ OnlyStates(tasks') /\ f \in Stop
        /\ \A t \in TaskIds : tasks'[t].state = IF t = f THEN "running"
                                                ELSE IF t \in OnTheWay THEN "doomed"
                                                ELSE tasks[t].state
    BY <1>3, Started
  <2>2. /\ \A t \in OnTheWay : tasks[t].shutdown # "block"
        /\ f \in Pending /\ f \in TaskIds
    BY <2>1, Queue
  <2>3. blockPending' = IF tasks[f].shutdown = "block" THEN blockPending - 1 ELSE blockPending
    BY <1>3 DEF RunTask
  <2> HIDE DEF f
  <2>4. PendingBlock' = PendingBlock \ {f}
    BY <2>1, <2>2 DEF PendingBlock, Pending, OnlyStates, TaskIds
  <2>5. f \in PendingBlock <=> tasks[f].shutdown = "block"
    BY <2>2 DEF PendingBlock
  <2>6. f \notin PendingBlock => PendingBlock' = PendingBlock
    BY <2>4
  <2>7. QED
    BY <1>1, <2>3, <2>4, <2>5, <2>6, Removes
<1>4. CASE (~\E x \in Thread, k \in AnyKind : PostTask(x, k)) /\ ~\E w \in Worker : RunTask(w)
  <2>1. blockPending' = blockPending
    BY <1>4, BlockPendingChanges
  <2>2. OnlyStates(tasks')
    BY <1>4, StatesMove
  <2>3. \A t \in TaskIds : /\ tasks'[t].shutdown = tasks[t].shutdown
                           /\ tasks[t].shutdown = "block" =>
                                (tasks'[t].state = "pending" <=> tasks[t].state = "pending")
    <3> SUFFICES ASSUME NEW t \in TaskIds, tasks[t].shutdown = "block"
                 PROVE  tasks'[t].state = "pending" <=> tasks[t].state = "pending"
      BY <2>2 DEF OnlyStates
    <3>1. Moves(t)
      BY StateMoves
    <3>2. QED
      BY <1>4, <3>1 DEF Moves
  <2>4. PendingBlock' = PendingBlock
    BY <2>2, <2>3 DEF PendingBlock, Pending, OnlyStates, TaskIds
  <2>5. QED
    BY <1>1, <2>1, <2>4
<1>5. QED
  BY <1>2, <1>3, <1>4

LEMMA NextBlockThreads ==
  ASSUME Typed, Jobs, Closures, Origin, Places, Counts, [Next]_vars
  PROVE  blockThreads' = Cardinality(RunningBlock')
<1>1. /\ IsFiniteSet(RunningBlock) /\ blockThreads = Cardinality(RunningBlock)
      /\ RunningBlock = {t \in Running : tasks[t].shutdown # "continue"} /\ Running \subseteq TaskIds
  BY Finite DEF Counts, RunningBlock, Running, InState
<1>2. RunningBlock' = {t \in Running' : tasks'[t].shutdown # "continue"}
  BY DEF RunningBlock, Running, InState
<1>3. \A t \in TaskIds : tasks'[t].shutdown = tasks[t].shutdown
  BY TasksKeep
<1>4. ASSUME NEW w \in Worker, RunTask(w) PROVE blockThreads' = Cardinality(RunningBlock')
  <2> DEFINE f == FirstOf(Stop)
  <2>1. f \in TaskIds /\ f \notin Running /\ Running' = Running \cup {f}
    BY <1>4, RunTaskRuns
  <2>2. blockThreads' = IF tasks[f].shutdown # "continue" THEN blockThreads + 1 ELSE blockThreads
    BY <1>4 DEF RunTask
  <2> HIDE DEF f
  <2>3. RunningBlock' = IF tasks[f].shutdown # "continue" THEN RunningBlock \cup {f} ELSE RunningBlock
    BY <1>1, <1>2, <1>3, <2>1
  <2>4. QED
    BY <1>1, <2>1, <2>2, <2>3, Adds
<1>5. ASSUME NEW w \in Worker, FinishTask(w) PROVE blockThreads' = Cardinality(RunningBlock')
  <2>1. job[w] \in Running /\ Running' = Running \ {job[w]}
    BY <1>5, FinishTaskFinishes
  <2>2. blockThreads' = IF tasks[job[w]].shutdown # "continue" THEN blockThreads - 1 ELSE blockThreads
    BY <1>5 DEF FinishTask
  <2>3. RunningBlock' = RunningBlock \ {job[w]}
    BY <1>1, <1>2, <1>3, <2>1
  <2>4. job[w] \in RunningBlock <=> tasks[job[w]].shutdown # "continue"
    BY <1>1, <2>1
  <2>5. job[w] \notin RunningBlock => RunningBlock' = RunningBlock
    BY <2>3
  <2>6. QED
    BY <1>1, <2>2, <2>3, <2>4, <2>5, Removes
<1>6. CASE ~\E w \in Worker : RunTask(w) \/ FinishTask(w)
  <2>1. blockThreads' = blockThreads /\ Running' = Running
    BY <1>6, BlockThreadsChanges, RunningStays
  <2>2. RunningBlock' = RunningBlock
    BY <1>1, <1>2, <1>3, <2>1
  <2>3. QED
    BY <1>1, <2>1, <2>2
<1>7. QED
  BY <1>4, <1>5, <1>6

LEMMA NextWaiting ==
  ASSUME Typed, Places, Counts, [Next]_vars
  PROVE  waiting' = Cardinality(Waiting')
<1>1. IsFiniteSet(Waiting) /\ waiting = Cardinality(Waiting) /\ pc \in [Worker -> Pc]
  BY Finite DEF Counts, Typed, Pc
<1>2. ASSUME NEW w \in Worker, WakeUp(w) PROVE waiting' = Cardinality(Waiting')
  <2>1. waiting' = waiting - 1 /\ w \in Waiting /\ Waiting' = Waiting \ {w}
    BY <1>1, <1>2 DEF WakeUp, Goto, Waiting
  <2>2. QED
    BY <1>1, <2>1, Removes
<1>3. ASSUME NEW w \in Worker, WaitForWork(w) PROVE waiting' = Cardinality(Waiting')
  <2>1. waiting' = waiting + 1 /\ w \notin Waiting /\ Waiting' = Waiting \cup {w}
    BY <1>1, <1>3 DEF WaitForWork, Waits, Holds, Goto, Waiting
  <2>2. QED
    BY <1>1, <2>1, Adds
<1>4. CASE ~\E w \in Worker : WakeUp(w) \/ WaitForWork(w)
  <2>1. \A w \in Worker : pc'[w] = "waiting" <=> pc[w] = "waiting"
    BY <1>4, PcTable
  <2>2. Waiting' = Waiting /\ waiting' = waiting
    BY <1>4, <2>1, WaitingChanges DEF Waiting
  <2>3. QED
    BY <1>1, <2>2
<1>5. QED
  BY <1>2, <1>3, <1>4

LEMMA NextIdlers ==
  ASSUME Typed, Places, Counts, Phases, [Next]_vars
  PROVE  idlers' = Cardinality(Idlers')
<1>1. IsFiniteSet(Idlers) /\ idlers = Cardinality(Idlers) /\ pc \in [Worker -> Pc]
  BY Finite DEF Counts, Typed, Pc
<1>2. ASSUME NEW w \in Worker, BecomeIdler(w) PROVE idlers' = Cardinality(Idlers')
  <2>1. idlers' = idlers + 1 /\ w \notin Idlers /\ Idlers' = Idlers \cup {w}
    BY <1>1, <1>2 DEF BecomeIdler, Holds, Goto, Idlers
  <2>2. QED
    BY <1>1, <2>1, Adds
<1>3. ASSUME NEW w \in Worker, IdlerChecks(w), cleanup = "finishing" PROVE idlers' = Cardinality(Idlers')
  <2>1. idlers' = idlers - 1 /\ w \in Idlers /\ Idlers' = Idlers \ {w}
    BY <1>1, <1>3 DEF IdlerChecks, Holds, Goto, Idlers
  <2>2. QED
    BY <1>1, <2>1, Removes
<1>4. CASE Flush
  <2>1. idlers' = 0 /\ pc' = pc /\ call = "none"
    BY <1>4 DEF Flush, workerVars
  <2>2. Idlers' = {}
    BY <2>1 DEF Phases, Idlers
  <2>3. QED
    BY <2>1, <2>2, FS_EmptySet
<1>5. CASE /\ ~Flush
           /\ ~\E w \in Worker : BecomeIdler(w) \/ (IdlerChecks(w) /\ cleanup = "finishing")
  <2>1. \A w \in Worker : pc'[w] = "idler" <=> pc[w] = "idler"
    BY <1>5, PcTable
  <2>2. ASSUME NEW w \in Worker, IdlerChecks(w) PROVE idlers' = idlers
    BY <1>5, <2>2 DEF IdlerChecks
  <2>3. Idlers' = Idlers /\ idlers' = idlers
    BY <1>5, <2>1, <2>2, IdlersChanges DEF Idlers
  <2>4. QED
    BY <1>1, <2>3
<1>6. QED
  BY <1>2, <1>3, <1>4, <1>5

LEMMA NextCounts ==
  ASSUME Typed, Jobs, Closures, Origin, Places, Counts, Phases, [Next]_vars
  PROVE  Counts'
  BY NextBlockPending, NextBlockThreads, NextWaiting, NextIdlers DEF Counts

(***************************************************************************)
(* Types.                                                                  *)
(***************************************************************************)
LEMMA NextTyped ==
  ASSUME Typed, Jobs, Tokens, Closures, Origin, Places, Counts, Phases, [Next]_vars
  PROVE  Typed'
<1>1. tasks' \in Seq(TaskRecord)
  BY TasksKeep
<1>2. clock' \in 0..MaxClock
  BY ClockChanges, ConstantsAssumption DEF Typed, Tick
<1>3. current' \subseteq {k.token : k \in AnyKind}
  BY NextTokens, NextOrigin DEF Tokens, Origin, Running, InState
<1>4. blockPending' \in Nat /\ waiting' \in Nat /\ blockThreads' \in Nat /\ idlers' \in Nat
  <2>1. IsFiniteSet(TaskIds')
    <3>1. TaskIds' = 1..Len(tasks') /\ Len(tasks') \in Nat
      BY <1>1 DEF TaskIds
    <3>2. QED
      BY <3>1, FS_Interval
  <2>2. PendingBlock' \subseteq TaskIds' /\ RunningBlock' \subseteq TaskIds'
    BY DEF PendingBlock, RunningBlock, Pending
  <2>3. Waiting' \subseteq Worker /\ Idlers' \subseteq Worker /\ IsFiniteSet(Worker)
    BY ConstantsAssumption DEF Waiting, Idlers
  <2>4. /\ IsFiniteSet(PendingBlock') /\ IsFiniteSet(RunningBlock')
        /\ IsFiniteSet(Waiting') /\ IsFiniteSet(Idlers')
    BY <2>1, <2>2, <2>3, FS_Subset
  <2>5. QED
    BY <2>4, NextCounts, FS_CardinalityType DEF Counts
<1>5. beingCreated' \in BOOLEAN
  <2>1. ASSUME NEW x \in Thread, NEW k \in AnyKind, PostTask(x, k) PROVE beingCreated' \in BOOLEAN
    BY <2>1 DEF PostTask
  <2>2. ASSUME NEW w \in Worker, StartThread(w) \/ RunTask(w) PROVE beingCreated' \in BOOLEAN
    BY <2>2 DEF StartThread, RunTask
  <2>3. QED
    BY <2>1, <2>2, BeingCreatedChanges DEF Typed
<1>6. shutdown' \in BOOLEAN
  BY ShutdownChanges DEF Typed, Shutdown
<1>7. newBlocking' \in 0..MaxNew
  <2>1. ASSUME NEW x \in Thread, NEW k \in AnyKind, PostTask(x, k) PROVE newBlocking' \in 0..MaxNew
    BY <2>1, ConstantsAssumption DEF PostTask, Accepts, Typed
  <2>2. Shutdown => newBlocking' \in 0..MaxNew
    BY ConstantsAssumption DEF Shutdown
  <2>3. QED
    BY <2>1, <2>2, NewBlockingChanges DEF Typed
<1>8. cleanup' \in {"done", "requested", "starting", "running", "finishing"}
  <2>1. ASSUME NEW w \in Worker,
               BecomeCleaner(w) \/ CleanerStarts(w) \/ FinisherGoesOn(w) \/ CleanupDone(w)
        PROVE  cleanup' \in {"done", "requested", "starting", "running", "finishing"}
    BY <2>1 DEF BecomeCleaner, CleanerStarts, FinisherGoesOn, CleanupDone, Typed
  <2>2. QED
    BY <2>1, CleanupChanges DEF Typed, Flush
<1>9. holder' \in Worker \cup {Nobody}
  BY HolderMoves DEF Typed
<1>10. pc' \in [Worker -> Pc]
  BY PcMoves
<1>11. job' \in [Worker -> Nat]
  <2>1. ASSUME NEW w \in Worker, RunTask(w) PROVE job' \in [Worker -> Nat]
    <3>1. job' = [job EXCEPT ![w] = FirstOf(Stop)] /\ FirstOf(Stop) \in TaskIds
      BY <2>1, RunTaskRuns
    <3>2. FirstOf(Stop) \in Nat
      BY <3>1, TaskType
    <3>3. QED
      BY <3>1, <3>2 DEF Typed
  <2>2. ASSUME NEW w \in Worker, FinishTask(w) PROVE job' \in [Worker -> Nat]
    BY <2>2 DEF FinishTask, Typed
  <2>3. QED
    BY <2>1, <2>2, JobChanges DEF Typed
<1>12. doomed' \in [Worker -> SUBSET Nat]
  BY DoomedMoves DEF Typed
<1>13. wakeAt' \in [Worker -> Nat]
  <2>1. ASSUME NEW w \in Worker, WaitForWork(w), Stop # {} PROVE tasks[FirstOf(Stop)].time \in Nat
    BY <2>1, Queue, TaskType
  <2>2. ASSUME NEW w \in Worker, WaitForWork(w) PROVE wakeAt' \in [Worker -> Nat]
    BY <2>1, <2>2 DEF WaitForWork, Typed
  <2>3. QED
    BY <2>2, WakeAtChanges DEF Typed
<1>14. chores' \in [Thread -> Seq(Chore)]
  BY ChoresMoves, ThreadSets
<1>15. asleep' \in [Thread -> CondVar]
  BY AsleepMoves
<1>16. call' \in {"none", "flushing", "shutting_down", "shut_down"}
  BY CallChanges DEF Typed, Shutdown, Flush, ShutdownReturns, FlushReturns
<1>17. flushes' \in 0..MaxFlush
  BY FlushesChanges, ConstantsAssumption DEF Typed, Flush
<1>18. mark' \in 0..MaxTasks
  <2>1. Len(tasks) \in Nat /\ Len(tasks) <= MaxTasks /\ MaxTasks \in Nat
    BY TaskType, ConstantsAssumption DEF Origin, MaxTasks
  <2>2. QED
    BY <2>1, MarkChanges DEF Typed, Flush
<1>19. QED
  BY <1>1, <1>2, <1>3, <1>4, <1>5, <1>6, <1>7, <1>8, <1>9, <1>10, <1>11, <1>12, <1>13, <1>14, <1>15,
     <1>16, <1>17, <1>18 DEF Typed, Pc, CondVar

(***************************************************************************)
(* The rendezvous of the cleanup.                                          *)
(***************************************************************************)
\* When a thread is to be created.
LEMMA Creates ==
  ASSUME Typed, [Next]_vars, ~beingCreated, beingCreated'
  PROVE  cleanup = "done" /\ ~shutdown /\ waiting = 0 /\ Threads # Worker
<1>1. ASSUME NEW x \in Thread, NEW k \in AnyKind, PostTask(x, k)
      PROVE  cleanup = "done" /\ ~shutdown /\ waiting = 0 /\ Threads # Worker
  BY <1>1 DEF PostTask, Helpful
<1>2. ASSUME NEW w \in Worker, RunTask(w)
      PROVE  cleanup = "done" /\ ~shutdown /\ waiting = 0 /\ Threads # Worker
  BY <1>2 DEF RunTask, Helpful
<1>3. QED
  BY <1>1, <1>2, BeingCreatedChanges DEF StartThread

\* When the cleaner starts the others are idle, and there are no more.
LEMMA OthersIdle ==
  ASSUME Typed, Creation, Counts, NEW w \in Worker, pc[w] = "cleaner", AllIdle
  PROVE  \A v \in Worker \ {w} : pc[v] \in {"none", "idler"}
<1>1. Threads \subseteq Worker /\ w \in Threads /\ Idlers \subseteq Threads \ {w}
  BY DEF Threads, Idlers
<1>2. IsFiniteSet(Threads) /\ IsFiniteSet(Threads \ {w})
  BY <1>1, ConstantsAssumption, FS_Subset
<1>3. Cardinality(Threads \ {w}) = Cardinality(Threads) - 1
  BY <1>1, <1>2, Removes
<1>4. Cardinality(Idlers) = Cardinality(Threads \ {w})
  BY <1>3 DEF AllIdle, Counts
<1>5. Idlers = Threads \ {w}
  BY <1>1, <1>2, <1>4, FS_Subset
<1>6. ASSUME NEW v \in Worker \ {w} PROVE pc[v] \in {"none", "idler"}
  <2>1. pc[v] # "starting"
    BY DEF AllIdle, Creation, Starting
  <2>2. v \in Threads => pc[v] = "idler"
    BY <1>5 DEF Idlers
  <2>3. QED
    BY <2>1, <2>2 DEF Threads
<1>7. QED
  BY <1>6

\* Steps of the cleanup.
LEMMA CleanupMoves ==
  ASSUME [Next]_vars
  PROVE  \/ cleanup' = cleanup
         \/ cleanup = "requested" /\ cleanup' = "starting" /\ \E w \in Worker : BecomeCleaner(w)
         \/ cleanup' = "running" /\ \E w \in Worker : CleanerStarts(w)
         \/ cleanup = "running" /\ cleanup' = "finishing" /\ \E w \in Worker : CleanupDone(w)
         \/ cleanup = "finishing" /\ cleanup' = "done" /\ \E w \in Worker : FinisherGoesOn(w)
         \/ cleanup' = "requested" /\ Flush
<1>1. ASSUME NEW w \in Worker, BecomeCleaner(w) PROVE cleanup = "requested" /\ cleanup' = "starting"
  BY <1>1 DEF BecomeCleaner
<1>2. ASSUME NEW w \in Worker, CleanerStarts(w) PROVE cleanup' = "running"
  BY <1>2 DEF CleanerStarts
<1>3. ASSUME NEW w \in Worker, CleanupDone(w) PROVE cleanup = "running" /\ cleanup' = "finishing"
  BY <1>3 DEF CleanupDone
<1>4. ASSUME NEW w \in Worker, FinisherGoesOn(w)
      PROVE  cleanup' = cleanup \/ (cleanup = "finishing" /\ cleanup' = "done")
  BY <1>4 DEF FinisherGoesOn
<1>5. Flush => cleanup' = "requested"
  BY DEF Flush
<1>6. QED
  BY <1>1, <1>2, <1>3, <1>4, <1>5, CleanupChanges

LEMMA NextPhases ==
  ASSUME Typed, Places, Creation, Counts, Phases, [Next]_vars
  PROVE  Phases'
<1>0. pc \in [Worker -> Pc] /\ cleanup \in {"done", "requested", "starting", "running", "finishing"}
  BY DEF Typed, Pc
<1>1. shutdown' <=> call' \in {"shutting_down", "shut_down"}
  <2>1. CASE Shutdown
    BY <2>1 DEF Shutdown
  <2>2. CASE ~Shutdown
    <3>1. shutdown' = shutdown
      BY <2>2, ShutdownChanges
    <3>2. QED
      BY <2>2, <3>1, CallChanges DEF Phases, Flush, ShutdownReturns, FlushReturns
  <2>3. QED
    BY <2>1, <2>2
<1>2. ASSUME NEW w \in Worker, CleanerStarts(w) PROVE cleanup = "starting" /\ pc[w] = "cleaner"
  BY <1>2 DEF CleanerStarts, Holds, Phases
<1>3. cleanup' # "done" => call' = "flushing"
  <2>1. cleanup' # "done" /\ ~Flush => cleanup # "done" /\ call = "flushing"
    BY <1>2, CleanupMoves DEF Phases
  <2>2. FlushReturns => cleanup' = "done"
    BY DEF FlushReturns, cleanupVars
  <2>3. call = "flushing" => ~Shutdown /\ ~ShutdownReturns
    BY DEF Shutdown, ShutdownReturns
  <2>4. Flush => call' = "flushing"
    BY DEF Flush
  <2>5. QED
    BY <2>1, <2>2, <2>3, <2>4, CallChanges
<1>4. cleanup' \in {"done", "requested"} => Idlers' = {}
  <2> SUFFICES ASSUME cleanup' \in {"done", "requested"} PROVE Idlers' = {}
    OBVIOUS
  <2>1. Idlers = {}
    <3>1. Flush => cleanup = "done"
      BY DEF Flush, Phases
    <3>2. ASSUME NEW w \in Worker, FinisherGoesOn(w) PROVE Idlers = {}
      <4>1. Cardinality(Idlers) = 0 /\ IsFiniteSet(Idlers)
        BY <3>2, Finite DEF FinisherGoesOn, Counts
      <4>2. QED
        BY <4>1, FS_EmptySet
    <3>3. QED
      BY <3>1, <3>2, CleanupMoves DEF Phases
  <2>2. ASSUME NEW w \in Worker, BecomeIdler(w) PROVE FALSE
    BY <2>2 DEF BecomeIdler
  <2>3. \A w \in Worker : pc'[w] = "idler" => pc[w] = "idler"
    BY <2>2, PcTable
  <2>4. QED
    BY <2>1, <2>3 DEF Idlers
<1>5. cleanup' # "starting" => \A w \in Worker : pc'[w] # "cleaner"
  <2> SUFFICES ASSUME cleanup' # "starting", NEW w \in Worker, pc'[w] = "cleaner" PROVE FALSE
    OBVIOUS
  <2>1. ~BecomeCleaner(w)
    BY DEF BecomeCleaner
  <2>2. pc[w] = "cleaner" /\ pc'[w] = pc[w]
    BY <2>1, PcTable
  <2>3. cleanup = "starting"
    BY <2>2 DEF Phases
  <2>4. ~Flush
    BY <2>3 DEF Flush, Phases
  <2>5. PICK v \in Worker : CleanerStarts(v)
    BY <2>3, <2>4, CleanupMoves
  <2>6. v = w /\ pc'[v] = "get"
    BY <1>0, <2>2, <2>5 DEF CleanerStarts, Holds, Goto, Phases
  <2>7. QED
    BY <2>2, <2>6
<1>6. \A v, w \in Worker : pc'[v] = "cleaner" /\ pc'[w] = "cleaner" => v = w
  <2> SUFFICES ASSUME NEW v \in Worker, NEW w \in Worker, pc'[v] = "cleaner", pc'[w] = "cleaner", v # w
               PROVE  FALSE
    OBVIOUS
  <2>1. \A u \in Worker : BecomeCleaner(u) => \A x \in Worker : pc[x] # "cleaner"
    BY DEF BecomeCleaner, Phases
  <2>2. (pc[v] = "cleaner" \/ BecomeCleaner(v)) /\ (pc[w] = "cleaner" \/ BecomeCleaner(w))
    BY PcTable
  <2>3. pc[v] # "cleaner" => pc[w] = pc'[w]
    BY PcAlone
  <2>4. QED
    BY <2>1, <2>2, <2>3 DEF Phases
<1>7. ASSUME cleanup' = "running"
      PROVE  /\ ~beingCreated'
             /\ \E w \in Worker : /\ pc'[w] \in {"top", "get", "running", "cleaned"}
                                  /\ \A v \in Worker \ {w} : pc'[v] \in {"none", "idler"}
  <2>1. CASE cleanup = "running"
    <3>1. ~beingCreated /\ ~beingCreated'
      BY <2>1, Creates DEF Phases
    <3>2. PICK w \in Worker : /\ pc[w] \in {"top", "get", "running", "cleaned"}
                              /\ \A v \in Worker \ {w} : pc[v] \in {"none", "idler"}
      BY <2>1 DEF Phases
    <3>3. ASSUME NEW x \in Thread, NEW v \in Worker, CreateThread(x, v) PROVE FALSE
      BY <3>1, <3>3, DoesIt DEF CreateThread, Creation, Creators
    <3>4. \A v \in Worker : /\ ~BecomeCleaner(v) /\ ~BecomeIdler(v) /\ ~BecomeFinisher(v)
                            /\ ~LeaveLoop(v) /\ ~WaitForWork(v)
      BY <2>1 DEF BecomeCleaner, BecomeIdler, BecomeFinisher, LeaveLoop, WaitForWork
    <3>5. \A v \in Worker \ {w} : pc'[v] \in {"none", "idler"}
      BY <2>1, <3>2, <3>3, PcTable
    <3>6. pc'[w] \in {"top", "get", "running", "cleaned"}
      BY <3>2, <3>4, PcTable
    <3>7. QED
      BY <3>1, <3>5, <3>6
  <2>2. ASSUME NEW w \in Worker, CleanerStarts(w)
        PROVE  /\ ~beingCreated'
               /\ \E u \in Worker : /\ pc'[u] \in {"top", "get", "running", "cleaned"}
                                    /\ \A v \in Worker \ {u} : pc'[v] \in {"none", "idler"}
    <3>1. AllIdle /\ pc[w] = "cleaner" /\ pc' = [pc EXCEPT ![w] = "get"] /\ beingCreated' = beingCreated
      BY <2>2 DEF CleanerStarts, Holds, Goto, threadVars
    <3>2. \A v \in Worker \ {w} : pc[v] \in {"none", "idler"}
      BY <3>1, OthersIdle
    <3>3. pc'[w] = "get" /\ \A v \in Worker \ {w} : pc'[v] = pc[v]
      BY <1>0, <3>1
    <3>4. ~beingCreated'
      BY <3>1 DEF AllIdle
    <3>5. QED
      BY <3>2, <3>3, <3>4
  <2>3. QED
    BY <1>7, <2>1, <2>2, CleanupMoves
<1>8. QED
  BY <1>1, <1>3, <1>4, <1>5, <1>6, <1>7 DEF Phases

(***************************************************************************)
(* FlushForTesting.                                                        *)
(***************************************************************************)
Ended == {"done", "deleted"}

\* A worker that finds nothing to clean up is alone, and so nothing is left.
LEMMA NothingLeft ==
  ASSUME Typed, Jobs, Tokens, Closures, Places, Phases, NEW w \in Worker, CleanupDone(w)
  PROVE  \A t \in TaskIds : tasks[t].state \in Ended
<1>1. pc[w] = "get" /\ cleanup = "running" /\ Stop = {}
  BY DEF CleanupDone, Waits, Holds
<1>2. \A v \in Worker : pc[v] \in {"none", "idler", "get"}
  BY <1>1 DEF Phases
<1>3. Running = {}
  BY <1>2 DEF Jobs
<1>4. Pending = {}
  <2>1. ~shutdown
    BY <1>1 DEF Phases
  <2>2. current = {}
    BY <1>3 DEF Tokens
  <2>3. QED
    BY <1>1, <2>1, <2>2 DEF Stop, Skipped, Runnable, TokenRunnable
<1>5. Doomed = {}
  <2> SUFFICES ASSUME NEW t \in Doomed PROVE FALSE
    OBVIOUS
  <2>1. PICK v \in Worker : t \in doomed[v]
    BY DEF Closures, Doomed
  <2>2. pc[v] = "waiting" \/ HasChore(v, "delete")
    BY <2>1 DEF Closures
  <2>3. QED
    BY <1>2, <2>2, Busy, ThreadSets
<1>6. QED
  BY <1>3, <1>4, <1>5, TaskType DEF Running, Doomed, InState, Pending, States, Ended

LEMMA NextFlushed ==
  ASSUME Typed, Jobs, Tokens, Closures, Origin, Places, Phases, Flushed, [Next]_vars
  PROVE  Flushed'
<1>1. TaskIds = 1..Len(tasks) /\ Len(tasks) \in Nat /\ mark \in Nat /\ Len(tasks) <= Len(tasks') /\ Len(tasks') \in Nat
  <2>1. mark \in Nat
    BY ConstantsAssumption DEF Typed, MaxTasks
  <2>2. tasks' \in Seq(TaskRecord) /\ Len(tasks) <= Len(tasks')
    BY TasksKeep
  <2>3. Len(tasks') \in Nat
    BY <2>2
  <2>4. QED
    BY <2>1, <2>2, <2>3, TaskType
<1>2. CASE Flush
  BY <1>1, <1>2 DEF Flush, queueVars, Flushed
<1>3. CASE ~Flush
  <2>1. mark' = mark
    BY <1>3, MarkChanges
  <2>2. mark' <= Len(tasks')
    BY <1>1, <2>1 DEF Flushed
  <2>3. \A t \in 1..mark : t \in TaskIds
    BY <1>1 DEF Flushed
  <2>4. ASSUME cleanup' = "finishing" \/ (call' = "flushing" /\ cleanup' = "done"), NEW t \in 1..mark
        PROVE  tasks'[t].state \in Ended
    <3>1. CASE cleanup = "finishing" \/ (call = "flushing" /\ cleanup = "done")
      <4>1. tasks[t].state \in Ended /\ Moves(t)
        BY <2>3, <3>1, StateMoves DEF Flushed, Ended
      <4>2. QED
        BY <4>1 DEF Moves, Ended
    <3>2. CASE ~(cleanup = "finishing" \/ (call = "flushing" /\ cleanup = "done"))
      <4>1. call' = "flushing" => call = "flushing"
        BY <1>3, CallChanges DEF Shutdown, ShutdownReturns, FlushReturns
      <4>2. PICK w \in Worker : CleanupDone(w)
        BY <1>3, <2>4, <3>2, <4>1, CleanupMoves DEF Phases
      <4>3. tasks' = tasks
        BY <4>2 DEF CleanupDone, queueVars
      <4>4. QED
        BY <2>3, <4>2, <4>3, NothingLeft
    <3>3. QED
      BY <3>1, <3>2
  <2>5. QED
    BY <2>1, <2>2, <2>4 DEF Flushed, Ended
<1>4. QED
  BY <1>2, <1>3

(***************************************************************************)
(* Work has a worker.                                                      *)
(***************************************************************************)
\* What there is for a task that may run.
Cover(t) ==
  \/ Creators # {}
  \/ \E w \in Worker : Coming(w)
  \/ Waiting = {} /\ ~Creatable
  \/ Waiting # {} /\ \E x \in Thread : HasChore(x, "signal")
  \/ \E w \in Waiting : asleep[w] = "timed" /\ wakeAt[w] <= tasks[t].time

LEMMA CoveredIs == Covered <=> \A t \in Stop : Cover(t)
  BY DEF Covered, Cover, Creators

\* No step makes a task runnable but posting it or finishing one.
LEMMA StopShrinks ==
  ASSUME Typed, Jobs, Closures, Origin, [Next]_vars, NEW t \in Stop',
         ~\E x \in Thread, k \in AnyKind : PostTask(x, k),
         ~\E w \in Worker : FinishTask(w)
  PROVE  t \in Stop /\ t \in Pending'
<1>1. OnlyStates(tasks') /\ TaskIds' = TaskIds
  BY StatesMove DEF OnlyStates, TaskIds
<1>2. t \in Pending' /\ t \in TaskIds /\ tasks'[t].token = tasks[t].token /\ tasks'[t].shutdown = tasks[t].shutdown
  BY <1>1 DEF Stop, Runnable, Pending, OnlyStates
<1>3. tasks[t].state = "pending"
  <2>1. Moves(t)
    BY <1>2, StateMoves
  <2>2. QED
    BY <1>2, <2>1 DEF Moves, Pending
<1>4. current \subseteq current'
  <2>1. ASSUME NEW w \in Worker, RunTask(w) PROVE current \subseteq current'
    BY <2>1 DEF RunTask
  <2>2. QED
    BY <2>1, CurrentChanges
<1>5. t \in Runnable
  BY <1>2, <1>3, <1>4 DEF Stop, Runnable, Pending, TokenRunnable
<1>6. shutdown => shutdown'
  BY ShutdownChanges DEF Shutdown
<1>7. ~(shutdown' /\ tasks'[t].shutdown # "block")
  BY <1>2 DEF Stop, Skipped
<1>8. QED
  BY <1>2, <1>5, <1>6, <1>7 DEF Stop, Skipped

\* A worker that sleeps until there is work is waiting.
LEMMA WorkSleepersWait ==
  ASSUME Typed, Places
  PROVE  /\ WorkSleepers \subseteq Waiting
         /\ \A w \in Waiting : w \notin WorkSleepers => asleep[w] = Awake
<1>1. ASSUME NEW x \in WorkSleepers PROVE x \in Waiting
  BY <1>1 DEF WorkSleepers, Sleepers, Places, PlaceOf, Waiting, Awake
<1>2. ASSUME NEW w \in Waiting, w \notin WorkSleepers PROVE asleep[w] = Awake
  BY <1>2, ThreadSets DEF WorkSleepers, Sleepers, Places, PlaceOf, Waiting
<1>3. QED
  BY <1>1, <1>2

\* A signal for work wakes a waiting worker, if there is one.
LEMMA SignalCovers ==
  ASSUME Typed, Places, NEW x \in Thread, SignalHasWork(x), Waiting # {}
  PROVE  \E w \in Worker : Coming(w)'
<1>1. pc' = pc /\ asleep' \in OneWoken(WorkSleepers, asleep) /\ Waiting \subseteq Worker
  BY DEF SignalHasWork, Signal, workerVars, Waiting
<1>2. asleep \in [Thread -> CondVar]
  BY DEF Typed, CondVar
<1>3. \/ WorkSleepers = {} /\ asleep' = asleep
      \/ \E w \in WorkSleepers : asleep'[w] = Awake
  BY <1>1, <1>2, Woken, Sleeping
<1>4. \E w \in Waiting : asleep'[w] = Awake
  BY <1>3, WorkSleepersWait
<1>5. PICK w \in Waiting : asleep'[w] = Awake
  BY <1>4
<1>6. pc'[w] = "waiting" /\ w \in Worker
  BY <1>1, <1>5 DEF Waiting
<1>7. Coming(w)'
  BY <1>5, <1>6 DEF Coming
<1>8. QED
  BY <1>6, <1>7

LEMMA ComingStays ==
  ASSUME Typed, Places, [Next]_vars, NEW w \in Worker, Coming(w),
         ~RunTask(w), ~LeaveLoop(w), ~WaitForWork(w)
  PROVE  Coming(w)'
<1>1. PlaceOf(w) /\ w \in Thread /\ w \notin {Owner, Nobody}
  BY ThreadSets, ConstantsAssumption DEF Places
<1>2. CASE pc[w] = "waiting" /\ asleep[w] = Awake
  <2>1. holder # w
    BY <1>1, <1>2 DEF PlaceOf
  <2>2. ~FallsAsleep(w, asleep'[w])
    BY <2>1, Falls
  <2>3. asleep'[w] = Awake
    BY <1>1, <1>2, <2>2, AsleepMoves
  <2>4. pc'[w] \in {"waiting", "top"}
    BY <1>2, PcTable
  <2>5. QED
    BY <2>3, <2>4 DEF Coming
<1>3. CASE pc[w] \in {"starting", "top", "get", "cleaner", "idler", "finisher", "cleaned"}
  <2>1. pc'[w] \in {"starting", "top", "get", "cleaner", "idler", "finisher", "cleaned"}
    BY <1>3, PcTable
  <2>2. QED
    BY <2>1 DEF Coming
<1>4. QED
  BY <1>2, <1>3 DEF Coming

\* Threads are not removed, and a shutdown is for good.
LEMMA CreatableGrows ==
  ASSUME Typed, Places, [Next]_vars, ~Creatable, Creatable'
  PROVE  \E w \in Worker : Coming(w)'
<1>1. pc \in [Worker -> Pc]
  BY DEF Typed, Pc
<1>2. Threads \subseteq Threads'
  <2>1. \A w \in Worker : pc[w] \notin {"none", "starting"} => pc'[w] \notin {"none", "starting"}
    BY PcTable
  <2>2. QED
    BY <2>1 DEF Threads
<1>3. Threads' \subseteq Worker
  BY DEF Threads
<1>4. shutdown => shutdown'
  BY ShutdownChanges DEF Shutdown
<1>5. cleanup # "done" /\ cleanup' = "done"
  BY <1>2, <1>3, <1>4 DEF Creatable
<1>6. PICK w \in Worker : FinisherGoesOn(w)
  BY <1>5, CleanupMoves
<1>7. pc'[w] = "get"
  BY <1>1, <1>6 DEF FinisherGoesOn, Goto
<1>8. QED
  BY <1>7 DEF Coming

LEMMA CoverStays ==
  ASSUME Typed, Places, [Next]_vars, NEW t, tasks'[t].time = tasks[t].time, Cover(t),
         ~\E w \in Worker : RunTask(w) \/ LeaveLoop(w) \/ WaitForWork(w)
  PROVE  Cover(t)'
<1>0. pc \in [Worker -> Pc] /\ Waiting \subseteq Worker /\ Worker \subseteq Thread
  BY ThreadSets DEF Typed, Pc, Waiting
<1>1. ASSUME \E w \in Worker : Coming(w)' PROVE Cover(t)'
  BY <1>1 DEF Cover
<1>2. CASE Creators # {}
  <2>1. PICK x \in Thread : HasChore(x, "create")
    BY <1>2 DEF Creators
  <2>2. CASE HasChore(x, "create")'
    BY <2>2 DEF Cover, Creators
  <2>3. ASSUME NEW w \in Worker, CreateThread(x, w) PROVE Cover(t)'
    <3>1. pc'[w] = "starting"
      BY <1>0, <2>3 DEF CreateThread, Goto
    <3>2. QED
      BY <1>1, <3>1 DEF Coming
  <2>4. QED
    BY <2>1, <2>2, <2>3, ChoreStays
<1>3. CASE \E w \in Worker : Coming(w)
  BY <1>1, <1>3, ComingStays
<1>4. \A w \in Worker : pc'[w] = "waiting" => pc[w] = "waiting"
  BY PcTable
<1>5. CASE Waiting = {} /\ ~Creatable
  <2>1. Waiting' = {}
    BY <1>4, <1>5 DEF Waiting
  <2>2. QED
    BY <1>1, <1>5, <2>1, CreatableGrows DEF Cover
<1>6. CASE Waiting # {} /\ \E x \in Thread : HasChore(x, "signal")
  <2>1. PICK x \in Thread : HasChore(x, "signal")
    BY <1>6
  <2>2. CASE SignalHasWork(x)
    BY <1>1, <1>6, <2>2, SignalCovers
  <2>3. CASE ~SignalHasWork(x)
    <3>1. HasChore(x, "signal")'
      BY <2>1, <2>3, ChoreStays
    <3>2. PICK w \in Waiting : TRUE
      BY <1>6
    <3>3. CASE pc'[w] = "waiting"
      <4>1. Waiting' # {}
        BY <1>0, <3>2, <3>3 DEF Waiting
      <4>2. QED
        BY <3>1, <4>1 DEF Cover
    <3>4. CASE pc'[w] # "waiting"
      <4>1. w \in Worker /\ pc'[w] = "top"
        BY <1>0, <3>2, <3>4, PcTable DEF Waiting
      <4>2. QED
        BY <1>1, <4>1 DEF Coming
    <3>5. QED
      BY <3>3, <3>4
  <2>4. QED
    BY <2>2, <2>3
<1>7. ASSUME NEW w \in Waiting, asleep[w] = "timed", wakeAt[w] <= tasks[t].time PROVE Cover(t)'
  <2>1. w \in Worker /\ w \in Thread /\ pc[w] = "waiting" /\ PlaceOf(w)
    BY <1>0, <1>7 DEF Waiting, Places
  <2>2. CASE pc'[w] # "waiting"
    <3>1. pc'[w] = "top"
      BY <2>1, <2>2, PcTable
    <3>2. QED
      BY <1>1, <2>1, <3>1 DEF Coming
  <2>3. CASE pc'[w] = "waiting"
    <3>1. holder # w
      BY <2>1 DEF PlaceOf
    <3>2. asleep'[w] = "timed" \/ asleep'[w] = Awake
      BY <1>7, <2>1, <3>1, AsleepMoves, Falls
    <3>3. wakeAt' = wakeAt
      BY WakeAtChanges
    <3>4. CASE asleep'[w] = Awake
      BY <1>1, <2>1, <2>3, <3>4 DEF Coming
    <3>5. CASE asleep'[w] = "timed"
      <4>1. w \in Waiting'
        BY <2>1, <2>3 DEF Waiting
      <4>2. QED
        BY <1>7, <3>3, <3>5, <4>1 DEF Cover
    <3>6. QED
      BY <3>2, <3>4, <3>5
  <2>4. QED
    BY <2>2, <2>3
<1>8. QED
  BY <1>2, <1>3, <1>5, <1>6, <1>7 DEF Cover

\* A count of nothing.
LEMMA NobodyWaits ==
  ASSUME Typed, Counts
  PROVE  waiting = 0 <=> Waiting = {}
  BY Finite, FS_EmptySet DEF Counts

LEMMA SignalOf ==
  ASSUME NEW x \in Thread, In("signal", chores'[x])
  PROVE  \E y \in Thread : HasChore(y, "signal")'
<1>1. HasChore(x, "signal")'
  BY DEF HasChore, In
<1>2. QED
  BY <1>1

\* The task that was posted, and all the others, have a thread: the one that is
\* created, or the one that is signaled, unless none waits and none may be created.
LEMMA PostCovers ==
  ASSUME Typed, Places, Creation, Counts, Covered, [Next]_vars,
         NEW x \in Thread, NEW k \in AnyKind, PostTask(x, k), NEW t \in Stop'
  PROVE  Cover(t)'
<1>1. /\ chores \in [Thread -> Seq(Chore)] /\ pc' = pc /\ beingCreated \in BOOLEAN
      /\ shutdown' = shutdown /\ cleanup' = cleanup
  BY DEF Typed, PostTask, workerVars, cleanupVars
<1>2. Waiting' = Waiting /\ Threads' = Threads
  BY <1>1 DEF Waiting, Threads
<1> DEFINE runnable == Runnable # {} \/ TokenRunnable(k.token)
<1>3. PICK create \in BOOLEAN :
        /\ create = Helpful(runnable)
        /\ chores' = [chores EXCEPT ![x] = IF create THEN <<"create">> ELSE <<"signal">>]
  <2>1. Helpful(runnable) \in BOOLEAN
    BY DEF Helpful
  <2>2. QED
    BY <2>1 DEF PostTask
<1>4. CASE create
  <2>1. chores'[x] = <<"create">>
    BY <1>1, <1>3, <1>4
  <2>2. HasChore(x, "create")'
    BY <2>1, Lists DEF HasChore, In
  <2>3. QED
    BY <2>2 DEF Cover, Creators
<1>5. CASE ~create
  <2>1. chores'[x] = <<"signal">>
    BY <1>1, <1>3, <1>5
  <2>2. \E y \in Thread : HasChore(y, "signal")'
    BY <2>1, Lists, SignalOf
  <2>3. CASE Waiting # {}
    BY <1>2, <2>2, <2>3 DEF Cover
  <2>4. CASE Waiting = {}
    <3>1. CASE Creatable
      <4>1. waiting = 0 /\ ~shutdown /\ cleanup = "done" /\ Threads # Worker
        BY <2>4, <3>1, NobodyWaits DEF Creatable
      <4>2. runnable
        <5> DEFINE n == Len(tasks) + 1
        <5>1. TaskIds' = TaskIds \cup {n} /\ \A u \in TaskIds : tasks'[u] = tasks[u]
          BY Posted
        <5>0. tasks'[n] = [token |-> k.token, shutdown |-> k.shutdown,
                           time |-> clock + k.delay, state |-> "pending"]
          BY Posted
        <5> HIDE DEF n
        <5>2. tasks'[n].token = k.token
          BY <5>0
        <5>3. current' = current
          BY DEF PostTask
        <5>4. t \in TaskIds' /\ tasks'[t].state = "pending"
              /\ (tasks'[t].token = 0 \/ tasks'[t].token \notin current')
          BY DEF Stop, Runnable, Pending, TokenRunnable
        <5>5. CASE t = n
          BY <5>2, <5>3, <5>4, <5>5 DEF TokenRunnable
        <5>6. CASE t \in TaskIds
          <6>1. t \in Runnable
            BY <5>1, <5>3, <5>4, <5>6 DEF Runnable, Pending, TokenRunnable
          <6>2. QED
            BY <6>1
        <5>7. QED
          BY <5>1, <5>4, <5>5, <5>6
      <4>3. beingCreated
        BY <1>3, <1>5, <4>1, <4>2 DEF Helpful
      <4>4. CASE Creators # {}
        <5>1. PICK y \in Thread : HasChore(y, "create")
          BY <4>4 DEF Creators
        <5>2. y # x
          BY <5>1, Lists DEF PostTask, Posts, HasChore, In
        <5>3. chores'[y] = chores[y]
          BY <1>1, <1>3, <5>2
        <5>4. HasChore(y, "create")'
          BY <5>1, <5>3 DEF HasChore
        <5>5. QED
          BY <5>4 DEF Cover, Creators
      <4>5. CASE Starting # {}
        <5>1. PICK w \in Worker : pc[w] = "starting"
          BY <4>5 DEF Starting
        <5>2. Coming(w)'
          BY <1>1, <5>1 DEF Coming
        <5>3. QED
          BY <5>2 DEF Cover
      <4>6. QED
        BY <4>3, <4>4, <4>5 DEF Creation
    <3>2. CASE ~Creatable
      <4>1. ~Creatable'
        BY <1>1, <1>2, <3>2 DEF Creatable
      <4>2. QED
        BY <1>2, <2>4, <4>1 DEF Cover
    <3>3. QED
      BY <3>1, <3>2
  <2>5. QED
    BY <2>3, <2>4
<1>6. QED
  BY <1>4, <1>5

LEMMA RunCovers ==
  ASSUME Typed, Jobs, Tokens, Closures, Origin, Places, Creation, Counts, [Next]_vars,
         NEW w \in Worker, RunTask(w), NEW t \in Stop'
  PROVE  Cover(t)'
<1> DEFINE f    == FirstOf(Stop)
           tok  == tasks[f].token
           left == Runnable \ (OnTheWay \cup {f})
           some == \E u \in left : tok = 0 \/ tasks[u].token # tok
<1>1. /\ chores \in [Thread -> Seq(Chore)] /\ pc \in [Worker -> Pc] /\ w \in Thread
      /\ beingCreated \in BOOLEAN
  BY ThreadSets DEF Typed, Pc
<1>2. /\ pc[w] = "get" /\ pc' = [pc EXCEPT ![w] = "running"]
      /\ shutdown' = shutdown /\ cleanup' = cleanup
  BY DEF RunTask, Holds, Goto, cleanupVars
<1>3. Waiting' = Waiting /\ Threads' = Threads
  BY <1>1, <1>2 DEF Waiting, Threads
<1>4. chores' = [chores EXCEPT ![w] = IF Helpful(some) THEN <<"signal", "delete", "create">>
                                                       ELSE <<"signal", "delete">>]
  BY DEF RunTask
<1>5. /\ f \in TaskIds /\ OnlyStates(tasks')
      /\ current' = IF tok = 0 THEN current ELSE current \cup {tok}
      /\ \A u \in TaskIds : tasks'[u].state = IF u = f THEN "running"
                                              ELSE IF u \in OnTheWay THEN "doomed"
                                              ELSE tasks[u].state
  BY Started, RunTaskRuns
<1> HIDE DEF f
<1>6. some
  <2>1. /\ t \in TaskIds /\ tasks'[t].state = "pending" /\ tasks'[t].token = tasks[t].token
        /\ tasks[t].token = 0 \/ tasks[t].token \notin current'
    BY <1>5 DEF Stop, Runnable, Pending, TokenRunnable, OnlyStates, TaskIds
  <2>2. tasks[t].state = "pending" /\ t \notin OnTheWay /\ t # f
    BY <1>5, <2>1
  <2>3. t \in left
    BY <1>5, <2>1, <2>2 DEF Runnable, Pending, TokenRunnable
  <2>4. tok = 0 \/ tasks[t].token # tok
    BY <1>5, <2>1
  <2>5. QED
    BY <2>3, <2>4
<1> HIDE DEF some
<1>7. CASE Helpful(some)
  <2>1. chores'[w] = <<"signal", "delete", "create">>
    BY <1>1, <1>4, <1>7
  <2>2. HasChore(w, "create")'
    BY <2>1, Lists DEF HasChore, In
  <2>3. QED
    BY <1>1, <2>2 DEF Cover, Creators
<1>8. CASE ~Helpful(some)
  <2>1. chores'[w] = <<"signal", "delete">>
    BY <1>1, <1>4, <1>8
  <2>2. \E y \in Thread : HasChore(y, "signal")'
    BY <1>1, <2>1, Lists, SignalOf
  <2>3. CASE Waiting # {}
    BY <1>3, <2>2, <2>3 DEF Cover
  <2>4. CASE Waiting = {} /\ ~Creatable
    BY <1>2, <1>3, <2>4 DEF Cover, Creatable
  <2>5. CASE Waiting = {} /\ Creatable
    <3>1. beingCreated
      BY <1>6, <1>8, <2>5, NobodyWaits DEF Helpful, Creatable
    <3>2. CASE Creators # {}
      <4>1. PICK y \in Thread : HasChore(y, "create")
        BY <3>2 DEF Creators
      <4>2. HasChore(y, "create")'
        <5>1. y # w
          BY <1>1, <1>2, <4>1, Busy
        <5>2. chores'[y] = chores[y]
          BY <1>1, <1>4, <5>1
        <5>3. QED
          BY <4>1, <5>2 DEF HasChore
      <4>3. QED
        BY <4>2 DEF Cover, Creators
    <3>3. CASE Starting # {}
      <4>1. PICK v \in Worker : pc[v] = "starting"
        BY <3>3 DEF Starting
      <4>2. pc'[v] = "starting"
        BY <1>1, <1>2, <4>1
      <4>3. QED
        BY <4>2 DEF Cover, Coming
    <3>4. QED
      BY <3>1, <3>2, <3>3 DEF Creation
  <2>6. QED
    BY <2>3, <2>4, <2>5
<1>9. QED
  BY <1>7, <1>8

LEMMA NextCovered ==
  ASSUME Typed, Jobs, Tokens, Closures, Origin, Places, Creation, Counts, Covered, [Next]_vars
  PROVE  Covered'
<1> SUFFICES ASSUME NEW t \in Stop' PROVE Cover(t)'
  BY CoveredIs DEF Covered, Cover, Creators
<1>1. pc \in [Worker -> Pc] /\ Worker \subseteq Thread
  BY ThreadSets DEF Typed, Pc
<1>2. ASSUME NEW x \in Thread, NEW k \in AnyKind, PostTask(x, k) PROVE Cover(t)'
  BY <1>2, PostCovers
<1>3. ASSUME NEW w \in Worker, FinishTask(w) PROVE Cover(t)'
  <2>1. pc'[w] = "top"
    BY <1>1, <1>3 DEF FinishTask, Goto
  <2>2. QED
    BY <2>1 DEF Cover, Coming
<1>4. ASSUME NEW w \in Worker, RunTask(w) PROVE Cover(t)'
  BY <1>4, RunCovers
<1>5. ASSUME NEW w \in Worker, LeaveLoop(w) PROVE Cover(t)'
  <2>1. chores' = [chores EXCEPT ![w] = <<"signal", "can_shutdown">>] /\ shutdown /\ shutdown' = shutdown
    BY <1>5 DEF LeaveLoop
  <2>2. chores'[w] = <<"signal", "can_shutdown">>
    BY <1>1, <2>1 DEF Typed
  <2>3. \E y \in Thread : HasChore(y, "signal")'
    BY <1>1, <2>2, Lists, SignalOf
  <2>4. ~Creatable'
    BY <2>1 DEF Creatable
  <2>5. QED
    BY <2>3, <2>4 DEF Cover
<1>6. ASSUME ~\E x \in Thread, k \in AnyKind : PostTask(x, k), ~\E w \in Worker : FinishTask(w)
      PROVE  t \in Stop /\ t \in TaskIds /\ tasks'[t].time = tasks[t].time
  BY <1>6, StopShrinks, TasksKeep DEF Stop, Runnable, Pending
<1>7. ASSUME NEW w \in Worker, WaitForWork(w) PROVE Cover(t)'
  <2>1. /\ pc[w] = "get" /\ pc' = [pc EXCEPT ![w] = "waiting"]
        /\ Stop # {} => /\ asleep' = [asleep EXCEPT ![w] = "timed"]
                        /\ wakeAt' = [wakeAt EXCEPT ![w] = tasks[FirstOf(Stop)].time]
    BY <1>7 DEF WaitForWork, Waits, Holds, Goto, Sleep
  <2>2. (~\E x \in Thread, k \in AnyKind : PostTask(x, k)) /\ ~\E v \in Worker : FinishTask(v)
    <3>1. ASSUME NEW x \in Thread, NEW k \in AnyKind, PostTask(x, k) PROVE FALSE
      BY <1>1, <2>1, <3>1 DEF PostTask, workerVars
    <3>2. ASSUME NEW v \in Worker, FinishTask(v) PROVE FALSE
      BY <1>1, <2>1, <3>2 DEF FinishTask, Goto
    <3>3. QED
      BY <3>1, <3>2
  <2>3. t \in Stop /\ t \in TaskIds /\ tasks'[t].time = tasks[t].time
    BY <1>6, <2>2
  <2>4. tasks[FirstOf(Stop)].time <= tasks[t].time
    <3>1. FirstOf(Stop) \in TaskIds /\ (t # FirstOf(Stop) => Before(FirstOf(Stop), t))
      BY <2>3, Queue
    <3>2. tasks[FirstOf(Stop)].time \in Nat /\ tasks[t].time \in Nat
      BY <2>3, <3>1, TaskType
    <3>3. QED
      BY <3>1, <3>2 DEF Before
  <2>5. w \in Waiting' /\ asleep'[w] = "timed" /\ wakeAt'[w] = tasks[FirstOf(Stop)].time
    BY <1>1, <2>1, <2>3 DEF Waiting, Typed
  <2>6. QED
    BY <2>3, <2>4, <2>5 DEF Cover
<1>8. CASE /\ ~\E x \in Thread, k \in AnyKind : PostTask(x, k)
           /\ ~\E w \in Worker : FinishTask(w) \/ RunTask(w) \/ LeaveLoop(w) \/ WaitForWork(w)
  <2>1. t \in Stop /\ tasks'[t].time = tasks[t].time
    BY <1>6, <1>8
  <2>2. Cover(t)
    BY <2>1, CoveredIs
  <2>3. QED
    BY <1>8, <2>1, <2>2, CoverStays
<1>9. QED
  BY <1>2, <1>3, <1>4, <1>5, <1>7, <1>8

(***************************************************************************)
(* Shutdown.                                                               *)
(***************************************************************************)
\* What Shutdown waits for.
LEMMA NothingBlocks ==
  ASSUME Typed, Origin, Counts, CanShutdown, NEW t \in TaskIds
  PROVE  /\ tasks[t].shutdown = "block" => tasks[t].state = "done"
         /\ tasks[t].shutdown = "skip" => tasks[t].state # "running"
<1>1. PendingBlock = {} /\ RunningBlock = {}
  BY Finite, FS_EmptySet DEF Counts, CanShutdown
<1>2. tasks[t].shutdown # "continue" => tasks[t].state # "running"
  BY <1>1 DEF RunningBlock
<1>3. tasks[t].shutdown = "block" => tasks[t].state \notin {"pending", "doomed", "deleted"}
  BY <1>1 DEF PendingBlock, Pending, Origin
<1>4. QED
  BY <1>2, <1>3, TaskType DEF States

LEMMA NextShutdown ==
  ASSUME Typed, Jobs, Closures, Origin, Places, Counts, Phases, ShutdownKeepsPromise, [Next]_vars
  PROVE  ShutdownKeepsPromise'
<1> SUFFICES ASSUME call' = "shut_down", NEW t \in TaskIds'
             PROVE  /\ tasks'[t].shutdown = "block" => tasks'[t].state = "done"
                    /\ tasks'[t].shutdown = "skip" => tasks'[t].state # "running"
  BY DEF ShutdownKeepsPromise
<1>1. CASE call = "shut_down"
  <2>1. shutdown
    BY <1>1 DEF Phases
  <2>2. ASSUME NEW x \in Thread, NEW k \in AnyKind, PostTask(x, k) PROVE FALSE
    <3>1. Posts(x) /\ Behavior(x) # "continue"
      BY <2>1, <2>2 DEF PostTask, Accepts
    <3>2. x \in Worker /\ pc[x] = "running" /\ tasks[job[x]].shutdown # "continue"
      BY <3>1, ConstantsAssumption DEF Posts, Behavior
    <3>3. job[x] \in TaskIds /\ tasks[job[x]].state = "running"
      BY <3>2 DEF Jobs, Running, InState
    <3>4. tasks[job[x]].shutdown \in {"skip", "block"}
      BY <3>2, <3>3, TaskType DEF Behaviors
    <3>5. QED
      BY <1>1, <3>3, <3>4 DEF ShutdownKeepsPromise
  <2>3. t \in TaskIds
    BY <2>2, NewTasks
  <2>4. tasks'[t].shutdown = tasks[t].shutdown /\ Moves(t)
    BY <2>3, TasksKeep, StateMoves
  <2>5. ASSUME NEW w \in Worker, RunTask(w), t = FirstOf(Stop)
        PROVE  tasks[t].shutdown = "block" /\ tasks[t].state = "pending"
    BY <2>1, <2>5, Started, Queue DEF Pending
  <2>6. QED
    BY <1>1, <2>3, <2>4, <2>5 DEF ShutdownKeepsPromise, Moves
<1>2. CASE call # "shut_down"
  <2>1. CanShutdown /\ tasks' = tasks
    BY <1>2, CallChanges DEF Shutdown, ShutdownReturns, Flush, FlushReturns, queueVars
  <2>2. TaskIds' = TaskIds
    BY <2>1 DEF TaskIds
  <2>3. QED
    BY <2>1, <2>2, NothingBlocks
<1>3. QED
  BY <1>1, <1>2

(***************************************************************************)
(* The invariant.                                                          *)
(***************************************************************************)
LEMMA InitPool ==
  ASSUME Init
  PROVE  PoolInv
<1>1. tasks = <<>> /\ TaskIds = {} /\ Len(tasks) = 0 /\ MaxTasks \in Nat
  BY ConstantsAssumption DEF Init, TaskIds, MaxTasks
<1>2. /\ \A w \in Worker : pc[w] = "none" /\ job[w] = 0 /\ doomed[w] = {} /\ asleep[w] = Awake
      /\ \A x \in Thread : chores[x] = <<>> /\ asleep[x] = Awake
  BY ThreadSets DEF Init
<1>3. /\ Running = {} /\ Pending = {} /\ InState("doomed") = {} /\ Stop = {}
      /\ PendingBlock = {} /\ RunningBlock = {}
  BY <1>1 DEF Running, Pending, InState, Stop, Runnable, PendingBlock, RunningBlock
<1>4. Waiting = {} /\ Idlers = {} /\ Starting = {}
  BY <1>2 DEF Waiting, Idlers, Starting
<1>5. Creators = {}
  BY <1>2, Lists DEF Creators, HasChore, In
<1>6. Typed
  <2>1. tasks \in Seq(TaskRecord) /\ mark \in 0..MaxTasks
    BY <1>1 DEF Init
  <2>2. /\ clock \in 0..MaxClock /\ newBlocking \in 0..MaxNew /\ flushes \in 0..MaxFlush
    BY ConstantsAssumption DEF Init
  <2>3. chores \in [Thread -> Seq(Chore)]
    BY DEF Init
  <2>4. QED
    BY <2>1, <2>2, <2>3 DEF Init, Typed
<1>7. Jobs /\ Tokens /\ Sequence /\ Closures /\ Origin /\ Covered /\ ShutdownKeepsPromise
  BY <1>1, <1>2, <1>3 DEF Init, Jobs, Tokens, Sequence, Closures, Origin, Covered, ShutdownKeepsPromise
<1>8. Places
  BY <1>2, ThreadSets DEF Init, Places, ChoresOf, PlaceOf
<1>9. Creation
  BY <1>4, <1>5 DEF Init, Creation
<1>10. Counts
  BY <1>3, <1>4, FS_EmptySet DEF Init, Counts
<1>11. Phases /\ Flushed
  BY <1>1, <1>2, <1>4 DEF Init, Phases, Flushed
<1>12. QED
  BY <1>6, <1>7, <1>8, <1>9, <1>10, <1>11 DEF PoolInv

LEMMA NextPool ==
  ASSUME PoolInv, [Next]_vars
  PROVE  PoolInv'
<1>1. Typed' /\ Jobs' /\ Tokens' /\ Sequence' /\ Closures' /\ Origin' /\ Places'
  BY NextTyped, NextJobs, NextTokens, NextSequence, NextClosures, NextOrigin, NextPlaces DEF PoolInv
<1>2. Creation' /\ Counts' /\ Phases' /\ Flushed' /\ Covered' /\ ShutdownKeepsPromise'
  BY NextCreation, NextCounts, NextPhases, NextFlushed, NextCovered, NextShutdown DEF PoolInv
<1>3. QED
  BY <1>1, <1>2 DEF PoolInv

LEMMA AlwaysPool == Spec => []PoolInv
<1>1. Init => PoolInv
  BY InitPool
<1>2. PoolInv /\ [Next]_vars => PoolInv'
  BY NextPool
<1>3. QED
  BY <1>1, <1>2, PTL DEF Spec

(***************************************************************************)
(* Theorems.                                                               *)
(***************************************************************************)
\* Whichever threads run, post, flush and shut down, every variable keeps its type
\* and every counter counts what it stands for: the tasks and threads that Shutdown
\* waits for, the threads that wait, and the thread that is being created.
THEOREM TypeCorrect == Spec => []TypeOK
<1>1. PoolInv => TypeOK
  <2> SUFFICES ASSUME PoolInv PROVE TypeOK
    OBVIOUS
  <2>1. \A x \in Thread : HasChore(x, "create") <=> "create" \in ToSet(chores[x])
    BY DEF HasChore, ToSet
  <2>2. beingCreated = ((\E w \in Worker : pc[w] = "starting")
                          \/ \E x \in Thread : "create" \in ToSet(chores[x]))
    <3>1. beingCreated \in BOOLEAN
      BY DEF PoolInv, Typed
    <3>2. beingCreated <=> ((\E w \in Worker : pc[w] = "starting")
                              \/ \E x \in Thread : "create" \in ToSet(chores[x]))
      BY <2>1 DEF PoolInv, Creation, Starting, Creators
    <3>3. QED
      BY <3>1, <3>2
  <2>3. QED
    BY <2>2 DEF PoolInv, TypeOK, CountersMatch, Counts, PendingBlock, RunningBlock, Waiting
<1>2. QED
  BY <1>1, AlwaysPool, PTL

\* The tasks of one sequence token run one at a time and in order, whichever workers
\* take them: current_sequences_ holds the token from GetWork to DidRunWorkerTask.
THEOREM SequenceCorrect == Spec => []RunInSequence
<1>1. PoolInv => RunInSequence
  BY DEF PoolInv, RunInSequence, Tokens, Sequence, Running, InState
<1>2. QED
  BY <1>1, AlwaysPool, PTL

\* A task that could run has a thread that will look at the queue, or there is none
\* to be had: a signal and the decision to create a thread never miss each other.
THEOREM WorkersCorrect == Spec => []WorkHasWorker
<1>1. PoolInv => WorkHasWorker
  <2> SUFFICES ASSUME PoolInv, NEW t \in Stop, Due(t)
               PROVE  \/ OnItsWay
                      \/ /\ shutdown \/ cleanup # "done" \/ Threads = Worker
                         /\ \A w \in Threads : pc[w] # "waiting"
    BY DEF WorkHasWorker, Stop
  <2>1. Cover(t)
    BY CoveredIs DEF PoolInv
  <2>2. \A x \in Thread : \A c : HasChore(x, c) <=> c \in ToSet(chores[x])
    BY DEF HasChore, ToSet
  <2>3. CASE Creators # {} \/ \E x \in Thread : HasChore(x, "signal")
    BY <2>2, <2>3 DEF OnItsWay, Creators
  <2>4. CASE \E w \in Worker : Coming(w)
    BY <2>4 DEF OnItsWay, Coming
  <2>5. CASE Waiting = {} /\ ~Creatable
    BY <2>5 DEF Creatable, Waiting, Threads
  <2>6. ASSUME NEW w \in Waiting, asleep[w] = "timed", wakeAt[w] <= tasks[t].time PROVE OnItsWay
    <3>1. t \in TaskIds /\ w \in Worker /\ pc[w] = "waiting"
      BY <2>6 DEF Stop, Runnable, Pending, Waiting
    <3>2. wakeAt[w] \in Nat /\ tasks[t].time \in Nat /\ clock \in Nat
      BY <3>1, TaskType, ConstantsAssumption DEF PoolInv, Typed
    <3>3. wakeAt[w] <= clock
      BY <2>6, <3>2 DEF Due
    <3>4. QED
      BY <2>6, <3>1, <3>3 DEF OnItsWay
  <2>7. QED
    BY <2>1, <2>3, <2>4, <2>5, <2>6 DEF Cover
<1>2. QED
  BY <1>1, AlwaysPool, PTL

\* When Shutdown has returned every task that blocks it has run, none of those that
\* are skipped is running, and no task is accepted any more.
THEOREM ShutdownCorrect == Spec => []ShutdownKeepsPromise
<1>1. PoolInv => ShutdownKeepsPromise
  BY DEF PoolInv
<1>2. QED
  BY <1>1, AlwaysPool, PTL

\* FlushForTesting returns only when the tasks posted before it have run, or were
\* delayed and have been deleted, though workers come and go meanwhile.
THEOREM FlushCorrect == Spec => FlushIsComplete
<1>1. PoolInv /\ [Next]_vars =>
        [call = "flushing" /\ call' = "none" =>
           \A t \in 1..mark : tasks[t].state \in {"done", "deleted"}]_vars
  <2> SUFFICES ASSUME PoolInv, [Next]_vars, call = "flushing", call' = "none"
               PROVE  \A t \in 1..mark : tasks[t].state \in {"done", "deleted"}
    OBVIOUS
  <2>1. cleanup = "done"
    BY CallChanges DEF Shutdown, Flush, ShutdownReturns, FlushReturns
  <2>2. QED
    BY <2>1 DEF PoolInv, Flushed
<1>2. QED
  BY <1>1, AlwaysPool, PTL DEF Spec, FlushIsComplete
=============================================================================
