------------------------- MODULE SequencedWorkerPool -------------------------
(***************************************************************************)
(* base::SequencedWorkerPool: a pool of worker threads, created as they    *)
(* are needed, that runs tasks of one sequence token in order, waits at    *)
(* shutdown for the tasks that block it and deletes the others.            *)
(*                                                                         *)
(* Everything is protected by lock_.  A worker's loop holds it from the    *)
(* end of one task to the start of the next or to a wait, so that its      *)
(* branches are actions of the thread that is "holder"; all other critical *)
(* sections are one action, taken while nobody holds the lock.  What is    *)
(* done after the lock was released (signal, delete closures, create a     *)
(* thread) is a list of chores that a thread goes through first.           *)
(*                                                                         *)
(* The three condition variables are "asleep": which one a thread sleeps   *)
(* on.  The owner is the thread that constructed the pool; it flushes and  *)
(* shuts down.  Tasks are posted by other threads and by running tasks.    *)
(* The time-to-run of a task is read from the clock when it is inserted.   *)
(***************************************************************************)
EXTENDS Naturals, FiniteSets, Sequences, SequencesExt

CONSTANTS
  Worker,      \* the threads the pool may create (max_threads_)
  Poster,      \* threads outside the pool that post
  Owner,       \* the thread of the constructor
  Nobody,
  Kinds,       \* kinds of tasks, token, shutdown behavior and delay, for each task posted
  MaxNew,      \* max_new_blocking_tasks_after_shutdown
  MaxFlush,    \* bound: calls of FlushForTesting
  MaxClock     \* bound: the clock

Behaviors == {"continue", "skip", "block"}
TaskKind  == [token : Nat, shutdown : Behaviors, delay : Nat]

ASSUME ConstantsAssumption ==
  /\ Nobody \notin Worker \cup Poster \cup {Owner}
  /\ Worker \cap Poster = {} /\ Owner \notin Worker \cup Poster
  /\ MaxNew \in Nat /\ MaxFlush \in Nat /\ MaxClock \in Nat
  /\ IsFiniteSet(Worker)
  /\ Kinds \in Seq(SUBSET TaskKind)
  /\ \A n \in DOMAIN Kinds : \A k \in Kinds[n] : k.delay > 0 => k.shutdown = "skip"

VARIABLES
  tasks,        \* every task accepted so far; its index is its sequence_task_number
  clock,
  current,      \* current_sequences_
  beingCreated, \* thread_being_created_
  waiting,      \* waiting_thread_count_
  blockThreads, \* blocking_shutdown_thread_count_
  blockPending, \* blocking_shutdown_pending_task_count_
  shutdown,     \* shutdown_called_
  newBlocking,  \* max_blocking_tasks_after_shutdown_
  cleanup,      \* cleanup_state_
  idlers,       \* cleanup_idlers_
  holder,       \* the worker whose loop holds lock_
  pc,           \* where a worker is in ThreadLoop
  job,          \* the task it runs
  doomed,       \* its delete_these_outside_lock
  wakeAt,       \* the end of its timed wait
  chores,       \* what a thread has to do after releasing the lock
  asleep,       \* the condition variable a thread sleeps on
  call,         \* what the owner is doing
  flushes,      \* calls of FlushForTesting so far
  mark          \* history: tasks posted before the last of them

queueVars   == <<tasks, current, blockPending>>
threadVars  == <<beingCreated, waiting, blockThreads>>
cleanupVars == <<cleanup, idlers>>
workerVars  == <<pc, job, doomed, wakeAt>>
ownerVars   == <<call, flushes, mark>>
vars == <<queueVars, threadVars, shutdown, newBlocking, cleanupVars, clock, holder, workerVars,
          chores, asleep, ownerVars>>

\* Bound: tasks posted.
MaxTasks == Len(Kinds)
AnyKind  == UNION ToSet(Kinds)

Thread   == Worker \cup Poster \cup {Owner}
TaskIds  == DOMAIN tasks
Awake    == "no"
Chore    == {"signal", "delete", "create", "can_shutdown"}

Pending  == {t \in TaskIds : tasks[t].state = "pending"}
\* threads_: workers are never removed.
Threads  == {w \in Worker : pc[w] \notin {"none", "starting"}}

LockFree == holder = Nobody
Holds(w, at) == holder = w /\ pc[w] = at
Goto(w, at)  == pc' = [pc EXCEPT ![w] = at]

SetState(T, s) == [t \in TaskIds |-> IF t \in T THEN [tasks[t] EXCEPT !.state = s] ELSE tasks[t]]

(***************************************************************************)
(* Condition variables.                                                    *)
(***************************************************************************)
Sleepers(cv) == {x \in Thread : asleep[x] = cv}
WorkSleepers == Sleepers("work") \cup Sleepers("timed")

\* Signal wakes one of the sleepers, whichever.
OneWoken(S, a) == IF S = {} THEN {a} ELSE {[a EXCEPT ![x] = Awake] : x \in S}

Signal(S) == asleep' \in OneWoken(S, asleep)

\* Wait releases the lock.
Sleep(x, cv) == asleep' = [asleep EXCEPT ![x] = cv] /\ holder' = Nobody

AllWoken == [x \in Thread |-> IF asleep[x] = "cleanup" THEN Awake ELSE asleep[x]]

(***************************************************************************)
(* The queue.                                                              *)
(***************************************************************************)
\* SequencedTaskLessThan.
Before(t, u) ==
  \/ tasks[t].time < tasks[u].time
  \/ tasks[t].time = tasks[u].time /\ t < u

\* Wrong: the sequences in use are not looked at.
TokenRunnable_Always(token) == TRUE

TokenRunnable(token) == token = 0 \/ token \notin current

Runnable == {t \in Pending : TokenRunnable(tasks[t].token)}

FirstOf(S) == CHOOSE t \in S : \A u \in S \ {t} : Before(t, u)

\* Tasks that are deleted at shutdown rather than run.
Skipped == {t \in Runnable : shutdown /\ tasks[t].shutdown # "block"}

\* Where the search of GetWork stops, and what it deletes on the way.
Stop    == Runnable \ Skipped
OnTheWay == IF Stop = {} THEN Skipped
                         ELSE {t \in Skipped : Before(t, FirstOf(Stop))}

\* Wrong: a thread on its way does not count.
Helpful_EvenIfBeingCreated(runnable) ==
  ~shutdown /\ cleanup = "done" /\ Threads # Worker /\ waiting = 0 /\ runnable

\* PrepareToStartAdditionalThreadIfHelpful.
Helpful(runnable) ==
  /\ ~shutdown /\ ~beingCreated /\ cleanup = "done"
  /\ Threads # Worker /\ waiting = 0
  /\ runnable

(***************************************************************************)
(* PostTask, and what is done after releasing the lock.                    *)
(***************************************************************************)
Posts(x) ==
  /\ chores[x] = <<>>
  /\ x \in Poster \/ (x \in Worker /\ pc[x] = "running")

\* LockedCurrentThreadShutdownBehavior.
Behavior(x) == IF x \in Worker /\ job[x] # 0 THEN tasks[job[x]].shutdown ELSE "continue"

Accepts(x, k) ==
  shutdown => k.shutdown = "block" /\ Behavior(x) # "continue" /\ newBlocking > 0

PostTask(x, k) ==
  /\ LockFree /\ Posts(x) /\ Accepts(x, k)
  /\ Len(tasks) < MaxTasks /\ k \in Kinds[Len(tasks) + 1]
  /\ LET create == Helpful(Runnable # {} \/ TokenRunnable(k.token)) IN
       /\ beingCreated' = (beingCreated \/ create)
       /\ chores' = [chores EXCEPT ![x] = IF create THEN <<"create">> ELSE <<"signal">>]
  /\ tasks' = Append(tasks, [token |-> k.token, shutdown |-> k.shutdown,
                             time |-> clock + k.delay, state |-> "pending"])
  /\ blockPending' = IF k.shutdown = "block" THEN blockPending + 1 ELSE blockPending
  /\ newBlocking' = IF shutdown THEN newBlocking - 1 ELSE newBlocking
  /\ UNCHANGED <<current, waiting, blockThreads, shutdown, cleanupVars, clock, holder, workerVars,
                 asleep, ownerVars>>

Does(x, c) ==
  /\ chores[x] # <<>> /\ Head(chores[x]) = c
  /\ chores' = [chores EXCEPT ![x] = Tail(@)]

\* Wrong: nobody is woken.
SignalHasWork_Lost(x) ==
  /\ Does(x, "signal")
  /\ UNCHANGED <<queueVars, threadVars, shutdown, newBlocking, cleanupVars, clock, holder,
                 workerVars, asleep, ownerVars>>

SignalHasWork(x) ==
  /\ Does(x, "signal")
  /\ Signal(WorkSleepers)
  /\ UNCHANGED <<queueVars, threadVars, shutdown, newBlocking, cleanupVars, clock, holder,
                 workerVars, ownerVars>>

\* FinishStartingAdditionalThread; the thread registers itself.
CreateThread(x, w) ==
  /\ Does(x, "create")
  /\ pc[w] = "none"
  /\ Goto(w, "starting")
  /\ UNCHANGED <<queueVars, threadVars, shutdown, newBlocking, cleanupVars, clock, holder, job,
                 doomed, wakeAt, asleep, ownerVars>>

DeleteOutsideLock(w) ==
  /\ Does(w, "delete")
  /\ tasks' = SetState(doomed[w], "deleted")
  /\ doomed' = [doomed EXCEPT ![w] = {}]
  /\ UNCHANGED <<current, blockPending, threadVars, shutdown, newBlocking, cleanupVars, clock,
                 holder, pc, job, wakeAt, asleep, ownerVars>>

\* The end of a thread: the next worker is woken already, now the owner may be.
SignalCanShutdown(w) ==
  /\ Does(w, "can_shutdown")
  /\ Signal(Sleepers("can_shutdown"))
  /\ Goto(w, "exited")
  /\ UNCHANGED <<queueVars, threadVars, shutdown, newBlocking, cleanupVars, clock, holder, job,
                 doomed, wakeAt, ownerVars>>

(***************************************************************************)
(* ThreadLoop: taking the lock.                                            *)
(***************************************************************************)
StartThread(w) ==
  /\ LockFree /\ pc[w] = "starting"
  /\ holder' = w /\ Goto(w, "top")
  /\ beingCreated' = FALSE
  /\ UNCHANGED <<queueVars, waiting, blockThreads, shutdown, newBlocking, cleanupVars, clock, job,
                 doomed, wakeAt, chores, asleep, ownerVars>>

\* Wrong: the count of the tasks that block shutdown is not lowered.
FinishTask_StillBlocks(w) ==
  /\ LockFree /\ pc[w] = "running" /\ chores[w] = <<>>
  /\ holder' = w /\ Goto(w, "top")
  /\ tasks' = SetState({job[w]}, "done")
  /\ current' = current \ {tasks[job[w]].token}
  /\ job' = [job EXCEPT ![w] = 0]
  /\ UNCHANGED <<blockPending, beingCreated, waiting, blockThreads, shutdown, newBlocking,
                 cleanupVars, clock, doomed, wakeAt, chores, asleep, ownerVars>>

\* The task returns; DidRunWorkerTask.
FinishTask(w) ==
  /\ LockFree /\ pc[w] = "running" /\ chores[w] = <<>>
  /\ holder' = w /\ Goto(w, "top")
  /\ tasks' = SetState({job[w]}, "done")
  /\ current' = current \ {tasks[job[w]].token}
  /\ blockThreads' = IF tasks[job[w]].shutdown # "continue" THEN blockThreads - 1 ELSE blockThreads
  /\ job' = [job EXCEPT ![w] = 0]
  /\ UNCHANGED <<blockPending, beingCreated, waiting, shutdown, newBlocking, cleanupVars, clock,
                 doomed, wakeAt, chores, asleep, ownerVars>>

\* Wait returns with the lock; the iteration ends, and with it its vector of closures.
WakeUp(w) ==
  /\ LockFree /\ pc[w] = "waiting" /\ asleep[w] = Awake
  /\ holder' = w /\ Goto(w, "top")
  /\ waiting' = waiting - 1
  /\ tasks' = SetState(doomed[w], "deleted")
  /\ doomed' = [doomed EXCEPT ![w] = {}]
  /\ UNCHANGED <<current, blockPending, beingCreated, blockThreads, shutdown, newBlocking,
                 cleanupVars, clock, job, wakeAt, chores, asleep, ownerVars>>

TimedWaitEnds(w) ==
  /\ asleep[w] = "timed" /\ clock >= wakeAt[w]
  /\ asleep' = [asleep EXCEPT ![w] = Awake]
  /\ UNCHANGED <<queueVars, threadVars, shutdown, newBlocking, cleanupVars, clock, holder,
                 workerVars, chores, ownerVars>>

\* The waits of HandleCleanup, and of the worker that deletes delayed tasks.
Relock(w) ==
  /\ LockFree /\ asleep[w] = Awake /\ chores[w] = <<>>
  /\ pc[w] \in {"cleaner", "idler", "finisher", "cleaned"}
  /\ holder' = w
  /\ pc' = [pc EXCEPT ![w] = IF @ = "cleaned" THEN "top" ELSE @]
  /\ UNCHANGED <<queueVars, threadVars, shutdown, newBlocking, cleanupVars, clock, job, doomed,
                 wakeAt, chores, asleep, ownerVars>>

(***************************************************************************)
(* ThreadLoop: HandleCleanup.                                              *)
(***************************************************************************)
NoCleanup(w) ==
  /\ Holds(w, "top") /\ cleanup \in {"done", "running"}
  /\ Goto(w, "get")
  /\ UNCHANGED <<queueVars, threadVars, shutdown, newBlocking, cleanupVars, clock, holder, job,
                 doomed, wakeAt, chores, asleep, ownerVars>>

\* "We win": this worker will clean up.
BecomeCleaner(w) ==
  /\ Holds(w, "top") /\ cleanup = "requested"
  /\ cleanup' = "starting" /\ Goto(w, "cleaner")
  /\ UNCHANGED <<queueVars, threadVars, shutdown, newBlocking, idlers, clock, holder, job, doomed,
                 wakeAt, chores, asleep, ownerVars>>

\* Wrong: the workers that run tasks are not waited for.
AllIdle_OrBusy == ~beingCreated

AllIdle == ~beingCreated /\ idlers = Cardinality(Threads) - 1

CleanerWaits(w) ==
  /\ Holds(w, "cleaner") /\ ~AllIdle
  /\ asleep' \in OneWoken(WorkSleepers, [asleep EXCEPT ![w] = "cleanup"])
  /\ holder' = Nobody
  /\ UNCHANGED <<queueVars, threadVars, shutdown, newBlocking, cleanupVars, clock, workerVars,
                 chores, ownerVars>>

CleanerStarts(w) ==
  /\ Holds(w, "cleaner") /\ AllIdle
  /\ cleanup' = "running" /\ Goto(w, "get")
  /\ UNCHANGED <<queueVars, threadVars, shutdown, newBlocking, idlers, clock, holder, job, doomed,
                 wakeAt, chores, asleep, ownerVars>>

\* Another worker cleans up: idle until it has finished.
BecomeIdler(w) ==
  /\ Holds(w, "top") /\ cleanup = "starting"
  /\ idlers' = idlers + 1 /\ Goto(w, "idler")
  /\ asleep' = [AllWoken EXCEPT ![w] = "cleanup"] /\ holder' = Nobody
  /\ UNCHANGED <<queueVars, threadVars, shutdown, newBlocking, cleanup, clock, job, doomed, wakeAt,
                 chores, ownerVars>>

\* Woken before the end, by the broadcast of a third worker, it sleeps again.
IdlerChecks(w) ==
  /\ Holds(w, "idler")
  /\ IF cleanup = "finishing"
     THEN /\ idlers' = idlers - 1 /\ Goto(w, "get")
          /\ asleep' = AllWoken /\ UNCHANGED holder
     ELSE Sleep(w, "cleanup") /\ UNCHANGED <<idlers, pc>>
  /\ UNCHANGED <<queueVars, threadVars, shutdown, newBlocking, cleanup, clock, job, doomed, wakeAt,
                 chores, ownerVars>>

\* Any worker that comes to the top meanwhile waits for the idlers to wake up.
BecomeFinisher(w) ==
  /\ Holds(w, "top") /\ cleanup = "finishing"
  /\ Goto(w, "finisher")
  /\ UNCHANGED <<queueVars, threadVars, shutdown, newBlocking, cleanupVars, clock, holder, job,
                 doomed, wakeAt, chores, asleep, ownerVars>>

FinisherWaits(w) ==
  /\ Holds(w, "finisher") /\ idlers # 0
  /\ asleep' = [AllWoken EXCEPT ![w] = "cleanup"] /\ holder' = Nobody
  /\ UNCHANGED <<queueVars, threadVars, shutdown, newBlocking, cleanupVars, clock, workerVars,
                 chores, ownerVars>>

FinisherGoesOn(w) ==
  /\ Holds(w, "finisher") /\ idlers = 0
  /\ Goto(w, "get")
  /\ IF cleanup = "finishing" THEN cleanup' = "done" /\ Signal(Sleepers("cleanup"))
                              ELSE UNCHANGED <<cleanup, asleep>>
  /\ UNCHANGED <<queueVars, threadVars, shutdown, newBlocking, idlers, clock, holder, job, doomed,
                 wakeAt, chores, ownerVars>>

(***************************************************************************)
(* ThreadLoop: GetWork and its three outcomes.                             *)
(***************************************************************************)
Due(t) == tasks[t].time <= clock

\* GET_WORK_FOUND and WillRunWorkerTask; the lock is released to run the task.
RunTask(w) ==
  /\ Holds(w, "get") /\ Stop # {} /\ Due(FirstOf(Stop))
  /\ LET t    == FirstOf(Stop)
         tok  == tasks[t].token
         left == Runnable \ (OnTheWay \cup {t})
         more == Helpful(\E u \in left : tok = 0 \/ tasks[u].token # tok)
     IN /\ tasks' = [SetState(OnTheWay, "doomed") EXCEPT ![t].state = "running"]
        /\ doomed' = [doomed EXCEPT ![w] = OnTheWay]
        /\ job' = [job EXCEPT ![w] = t]
        /\ current' = IF tok = 0 THEN current ELSE current \cup {tok}
        /\ blockPending' =
             IF tasks[t].shutdown = "block" THEN blockPending - 1 ELSE blockPending
        /\ blockThreads' =
             IF tasks[t].shutdown # "continue" THEN blockThreads + 1 ELSE blockThreads
        /\ beingCreated' = (beingCreated \/ more)
        /\ chores' = [chores EXCEPT ![w] = IF more THEN <<"signal", "delete", "create">>
                                                    ELSE <<"signal", "delete">>]
  /\ holder' = Nobody /\ Goto(w, "running")
  /\ UNCHANGED <<waiting, shutdown, newBlocking, cleanupVars, clock, wakeAt, asleep, ownerVars>>

Waits(w) == Holds(w, "get") /\ (Stop # {} => ~Due(FirstOf(Stop)))

\* While cleaning up a delayed task is deleted, outside the lock.
DeleteDelayed(w) ==
  /\ Waits(w) /\ cleanup = "running" /\ Stop # {}
  /\ doomed' = [doomed EXCEPT ![w] = OnTheWay \cup {FirstOf(Stop)}]
  /\ tasks' = SetState(OnTheWay \cup {FirstOf(Stop)}, "doomed")
  /\ chores' = [chores EXCEPT ![w] = <<"delete">>]
  /\ Goto(w, "cleaned") /\ holder' = Nobody
  /\ UNCHANGED <<current, blockPending, threadVars, shutdown, newBlocking, cleanupVars, clock,
                 job, wakeAt, asleep, ownerVars>>

CleanupDone(w) ==
  /\ Waits(w) /\ cleanup = "running" /\ Stop = {}
  /\ cleanup' = "finishing" /\ Goto(w, "top")
  /\ asleep' = AllWoken
  /\ UNCHANGED <<queueVars, threadVars, shutdown, newBlocking, idlers, clock, holder, job, doomed,
                 wakeAt, chores, ownerVars>>

\* The loop ends and the scope of the vector with it, before the lock is released.
LeaveLoop(w) ==
  /\ Waits(w) /\ cleanup # "running" /\ shutdown /\ blockPending = 0
  /\ tasks' = SetState(OnTheWay, "deleted")
  /\ chores' = [chores EXCEPT ![w] = <<"signal", "can_shutdown">>]
  /\ Goto(w, "leaving") /\ holder' = Nobody
  /\ UNCHANGED <<current, blockPending, threadVars, shutdown, newBlocking, cleanupVars, clock,
                 job, doomed, wakeAt, asleep, ownerVars>>

WaitForWork(w) ==
  /\ Waits(w) /\ cleanup # "running" /\ ~(shutdown /\ blockPending = 0)
  /\ waiting' = waiting + 1
  /\ tasks' = SetState(OnTheWay, "doomed")
  /\ doomed' = [doomed EXCEPT ![w] = OnTheWay]
  /\ Goto(w, "waiting")
  /\ IF Stop = {}
     THEN Sleep(w, "work") /\ UNCHANGED wakeAt
     ELSE Sleep(w, "timed") /\ wakeAt' = [wakeAt EXCEPT ![w] = tasks[FirstOf(Stop)].time]
  /\ UNCHANGED <<current, blockPending, beingCreated, blockThreads, shutdown, newBlocking,
                 cleanupVars, clock, job, chores, ownerVars>>

(***************************************************************************)
(* The owner: Shutdown and FlushForTesting.                                *)
(***************************************************************************)
\* Wrong: tasks that have not started do not count.
CanShutdown_OnlyRunning == ~beingCreated /\ blockThreads = 0

CanShutdown == ~beingCreated /\ blockThreads = 0 /\ blockPending = 0

Shutdown ==
  /\ LockFree /\ call = "none" /\ ~shutdown
  /\ shutdown' = TRUE
  /\ newBlocking' = MaxNew
  /\ Signal(WorkSleepers)
  /\ call' = IF CanShutdown THEN "shut_down" ELSE "shutting_down"
  /\ UNCHANGED <<queueVars, threadVars, cleanupVars, clock, holder, workerVars, chores, flushes,
                 mark>>

ShutdownWaits ==
  /\ LockFree /\ call = "shutting_down" /\ asleep[Owner] = Awake /\ ~CanShutdown
  /\ asleep' = [asleep EXCEPT ![Owner] = "can_shutdown"]
  /\ UNCHANGED <<queueVars, threadVars, shutdown, newBlocking, cleanupVars, clock, holder,
                 workerVars, chores, ownerVars>>

ShutdownReturns ==
  /\ LockFree /\ call = "shutting_down" /\ asleep[Owner] = Awake /\ CanShutdown
  /\ call' = "shut_down"
  /\ UNCHANGED <<queueVars, threadVars, shutdown, newBlocking, cleanupVars, clock, holder,
                 workerVars, chores, asleep, flushes, mark>>

\* CleanupForTesting returns at once if there is nothing to do.
NothingToFlush == Pending = {} /\ waiting = Cardinality(Threads)

Flush ==
  /\ LockFree /\ call = "none" /\ ~shutdown /\ flushes < MaxFlush /\ ~NothingToFlush
  /\ flushes' = flushes + 1 /\ mark' = Len(tasks)
  /\ cleanup' = "requested" /\ idlers' = 0
  /\ asleep' \in OneWoken(WorkSleepers, [asleep EXCEPT ![Owner] = "cleanup"])
  /\ call' = "flushing"
  /\ UNCHANGED <<queueVars, threadVars, shutdown, newBlocking, clock, holder, workerVars, chores>>

FlushWaits ==
  /\ LockFree /\ call = "flushing" /\ asleep[Owner] = Awake /\ cleanup # "done"
  /\ asleep' = [asleep EXCEPT ![Owner] = "cleanup"]
  /\ UNCHANGED <<queueVars, threadVars, shutdown, newBlocking, cleanupVars, clock, holder,
                 workerVars, chores, ownerVars>>

FlushReturns ==
  /\ LockFree /\ call = "flushing" /\ asleep[Owner] = Awake /\ cleanup = "done"
  /\ call' = "none"
  /\ UNCHANGED <<queueVars, threadVars, shutdown, newBlocking, cleanupVars, clock, holder,
                 workerVars, chores, asleep, flushes, mark>>

\* Time passes; only a delayed task can tell.
Tick ==
  /\ clock < MaxClock /\ \E t \in Pending : ~Due(t)
  /\ clock' = clock + 1
  /\ UNCHANGED <<queueVars, threadVars, shutdown, newBlocking, cleanupVars, holder, workerVars,
                 chores, asleep, ownerVars>>

(***************************************************************************)
(* Specification.                                                          *)
(***************************************************************************)
Init ==
  /\ tasks = <<>> /\ clock = 0 /\ current = {} /\ blockPending = 0
  /\ beingCreated = FALSE /\ waiting = 0 /\ blockThreads = 0
  /\ shutdown = FALSE /\ newBlocking = 0
  /\ cleanup = "done" /\ idlers = 0
  /\ holder = Nobody
  /\ pc = [w \in Worker |-> "none"]
  /\ job = [w \in Worker |-> 0]
  /\ doomed = [w \in Worker |-> {}]
  /\ wakeAt = [w \in Worker |-> 0]
  /\ chores = [x \in Thread |-> <<>>]
  /\ asleep = [x \in Thread |-> Awake]
  /\ call = "none" /\ flushes = 0 /\ mark = 0

HandleCleanup(w) ==
  \/ NoCleanup(w) \/ BecomeCleaner(w) \/ CleanerWaits(w) \/ CleanerStarts(w)
  \/ BecomeIdler(w) \/ IdlerChecks(w)
  \/ BecomeFinisher(w) \/ FinisherWaits(w) \/ FinisherGoesOn(w)

HolderSteps(w) ==
  \/ HandleCleanup(w)
  \/ RunTask(w) \/ DeleteDelayed(w) \/ CleanupDone(w) \/ LeaveLoop(w) \/ WaitForWork(w)

TakesLock(w) == StartThread(w) \/ FinishTask(w) \/ WakeUp(w) \/ Relock(w)

DoesChore(x) ==
  \/ SignalHasWork(x)
  \/ \E w \in Worker : CreateThread(x, w)
  \/ x \in Worker /\ (DeleteOutsideLock(x) \/ SignalCanShutdown(x))

OwnerTakesLock == ShutdownWaits \/ ShutdownReturns \/ FlushWaits \/ FlushReturns

Next ==
  \/ \E x \in Thread, k \in AnyKind : PostTask(x, k)
  \/ \E x \in Thread : DoesChore(x)
  \/ \E w \in Worker : TakesLock(w) \/ HolderSteps(w) \/ TimedWaitEnds(w)
  \/ Shutdown \/ Flush \/ OwnerTakesLock
  \/ Tick

Spec == Init /\ [][Next]_vars

\* Threads run, every task returns, time passes, and the lock is passed on: a thread
\* that wants it again and again gets it.
Fairness ==
  /\ \A x \in Thread : WF_vars(DoesChore(x))
  /\ \A w \in Worker : /\ WF_vars(HolderSteps(w)) /\ SF_vars(TakesLock(w))
                       /\ WF_vars(TimedWaitEnds(w))
  /\ SF_vars(OwnerTakesLock)
  /\ WF_vars(Tick)

FairSpec == Spec /\ Fairness

(***************************************************************************)
(* Properties.                                                             *)
(***************************************************************************)
TaskRecord == [token : Nat, shutdown : Behaviors, time : Nat,
               state : {"pending", "running", "done", "doomed", "deleted"}]

\* The counts that Shutdown waits for and thread creation looks at are right whenever
\* the lock is free: each task and thread that blocks shutdown is counted once.
CountersMatch ==
  LockFree =>
    /\ blockPending = Cardinality({t \in Pending : tasks[t].shutdown = "block"})
    /\ blockThreads = Cardinality({t \in TaskIds : /\ tasks[t].state = "running"
                                                   /\ tasks[t].shutdown # "continue"})
    /\ waiting = Cardinality({w \in Worker : pc[w] = "waiting"})
    /\ beingCreated = \/ \E w \in Worker : pc[w] = "starting"
                      \/ \E x \in Thread : "create" \in ToSet(chores[x])

\* The shape of the code's data.
Typed ==
  /\ tasks \in Seq(TaskRecord) /\ clock \in 0..MaxClock
  /\ current \subseteq {k.token : k \in AnyKind}
  /\ blockPending \in Nat /\ waiting \in Nat /\ blockThreads \in Nat
  /\ beingCreated \in BOOLEAN /\ shutdown \in BOOLEAN /\ newBlocking \in 0..MaxNew
  /\ cleanup \in {"done", "requested", "starting", "running", "finishing"} /\ idlers \in Nat
  /\ holder \in Worker \cup {Nobody}
  /\ pc \in [Worker -> {"none", "starting", "top", "cleaner", "idler", "finisher", "get", "running",
                        "cleaned", "waiting", "leaving", "exited"}]
  /\ job \in [Worker -> Nat] /\ doomed \in [Worker -> SUBSET Nat] /\ wakeAt \in [Worker -> Nat]
  /\ chores \in [Thread -> Seq(Chore)]
  /\ asleep \in [Thread -> {Awake, "work", "timed", "cleanup", "can_shutdown"}]
  /\ call \in {"none", "flushing", "shutting_down", "shut_down"}
  /\ flushes \in 0..MaxFlush /\ mark \in 0..MaxTasks

\* Every variable has the shape of the code's data, and the counters their meaning.
TypeOK == Typed /\ CountersMatch

\* Tasks with one token run one at a time and in order of their time to run (the
\* order in which they were posted, when they have no delay), whichever threads run them.
RunInSequence ==
  /\ \A t, u \in TaskIds : tasks[t].state = "running" /\ tasks[u].state = "running" /\ t # u =>
       tasks[t].token = 0 \/ tasks[t].token # tasks[u].token
  /\ \A t, u \in TaskIds :
       /\ tasks[t].token # 0 /\ tasks[t].token = tasks[u].token
       /\ t < u /\ tasks[t].time <= tasks[u].time
       /\ tasks[u].state \in {"running", "done"}
       => tasks[t].state \notin {"pending", "running"}

\* No wakeup is lost: when a task could be run now, a thread is on its way to look
\* at the queue, or no thread sleeps and none may be created: every thread the pool
\* may have is at work, or those it has are cleaning up or shutting down.
OnItsWay ==
  \/ \E x \in Thread : {"signal", "create"} \cap ToSet(chores[x]) # {}
  \/ \E w \in Worker :
       \/ pc[w] \in {"starting", "top", "get", "cleaner", "idler", "finisher", "cleaned"}
       \/ pc[w] = "waiting" /\ asleep[w] = Awake
       \/ pc[w] = "waiting" /\ asleep[w] = "timed" /\ wakeAt[w] <= clock

WorkHasWorker ==
  (\E t \in Runnable \ Skipped : Due(t)) =>
    \/ OnItsWay
    \/ (shutdown \/ cleanup # "done" \/ Threads = Worker) /\ \A w \in Threads : pc[w] # "waiting"

\* When Shutdown has returned, every task that blocks shutdown has run, no other task
\* but one that may go on is running, and no further task is taken.
ShutdownKeepsPromise ==
  call = "shut_down" =>
    \A t \in TaskIds :
      /\ tasks[t].shutdown = "block" => tasks[t].state = "done"
      /\ tasks[t].shutdown = "skip" => tasks[t].state # "running"

\* FlushForTesting returns when every task posted before it has run, or was delayed
\* and has been deleted.
FlushIsComplete ==
  [][call = "flushing" /\ call' = "none" =>
       \A t \in 1..mark : tasks[t].state \in {"done", "deleted"}]_vars

\* A flush begun while no worker is at the end of an earlier one, where it waits for the
\* idlers of that one, returns.  (CleanupForTesting resets cleanup_idlers_: such a worker
\* takes the new cleanup for the end of its own and goes to sleep without counting.)
QuietFlushReturns ==
  (call = "flushing" /\ cleanup = "requested" /\ \A w \in Worker : pc[w] # "finisher")
    ~> call = "none"

\* A flush that returns has waited for what was posted, and one begun after the end of
\* the last does return.
FlushContract == FlushIsComplete /\ QuietFlushReturns

\* Shutdown returns, though it is signaled only by threads that end.
ShutdownTerminates == call = "shutting_down" ~> call = "shut_down"

\* After the shutdown every thread ends, though Shutdown wakes only one of them.
ThreadsExit ==
  \A w \in Worker : (shutdown /\ pc[w] # "none") ~> pc[w] = "exited"

\* The shutdown comes to its end for the caller and for every thread.
ShutdownCompletes == ShutdownTerminates /\ ThreadsExit
=============================================================================
