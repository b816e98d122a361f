----------------------------- MODULE MessageLoop -----------------------------
(***************************************************************************)
(* MessageLoop with its RunLoops, on top of MessagePumpDefault or of       *)
(* MessagePumpForIO: tasks posted from any thread run one at a time on the *)
(* loop's thread, in order, or when their time has come, and possibly      *)
(* inside a task that runs a loop of its own.                              *)
(*                                                                         *)
(* incoming_queue_ is shared under its lock; the wakeup (event_, or        *)
(* have_work_ and a completion packet) is shared without it.  Everything   *)
(* else belongs to the loop's thread, whose call stack alternates between  *)
(* run loops and tasks: loops and running, the innermost first.  The       *)
(* should_quit flag of MessagePumpWin's RunState and keep_running_ of      *)
(* MessagePumpDefault are both the loop's "quit".                          *)
(*                                                                         *)
(* Times are numbers, 0 is the null time.                                  *)
(***************************************************************************)
EXTENDS Naturals, FiniteSets, Sequences, SequencesExt

CONSTANTS
  Pumps,      \* the pumps: "default", "io" or both
  Poster,     \* other threads that post
  Loop,       \* the loop's thread
  Kinds,      \* kinds of tasks: nestable or not, and their delay
  MaxTasks,   \* bound: tasks posted
  MaxRuns,    \* bound: run loops started
  MaxClock    \* bound: the clock

ASSUME ConstantsAssumption ==
  /\ Pumps \subseteq {"default", "io"}
  /\ Loop \notin Poster
  /\ Kinds \subseteq [nestable : BOOLEAN, delay : Nat]
  /\ MaxTasks \in Nat /\ MaxRuns \in Nat /\ MaxClock \in Nat

VARIABLES
  pump,      \* which pump this loop has
  tasks,     \* every task posted; its index is its sequence_num
  incoming,  \* incoming_queue_
  work,      \* work_queue_
  delayed,   \* delayed_work_queue_
  deferred,  \* deferred_non_nestable_work_queue_
  allowed,   \* nestable_tasks_allowed_
  loops,     \* the run loops on the stack
  running,   \* the tasks on the stack
  runs,      \* run loops started so far
  timer,     \* delayed_work_time_
  recent,    \* recent_time_
  clock,
  haveWork,  \* have_work_
  wakeups,   \* event_ signaled, or packets that only wake the thread
  posting    \* what each thread is doing in AddToIncomingQueue

queueVars  == <<incoming, work, delayed, deferred>>
stackVars  == <<allowed, loops, running, runs>>
timeVars   == <<timer, recent>>
wakeupVars == <<haveWork, wakeups>>
vars == <<pump, tasks, queueVars, stackVars, timeVars, clock, wakeupVars, posting>>

Thread  == Poster \cup {Loop}
TaskIds == DOMAIN tasks

\* What a thread is doing when it posts.
NotPosting   == [step |-> "idle"]
Step(s)      == [step |-> s]
Idle(x)      == posting[x] = NotPosting
Posting(x,s) == posting[x].step = s
GoesOn(x, p) == posting' = [posting EXCEPT ![x] = p]

\* The loop's thread runs a task, or code outside of any loop; or else a pump.
InTask == Idle(Loop) /\ Len(running) = Len(loops)
InPump == Idle(Loop) /\ Len(running) < Len(loops)
Top    == Head(loops)
Depth  == Len(loops)

Started(t) == tasks[t].state # "posted"

(***************************************************************************)
(* Posting, from any thread.                                               *)
(***************************************************************************)
CanPost(x) ==
  /\ Idle(x) /\ (x = Loop => InTask /\ loops # <<>>)
  /\ Len(tasks) + Cardinality({y \in Thread : Posting(y, "push")}) < MaxTasks

Task(k, time, before) ==
  [nestable |-> k.nestable, delay |-> k.delay, time |-> time, before |-> before,
   state |-> "posted"]

\* Wrong: was_empty is read after the task has been pushed.
Push_NeverWasEmpty(x, t) ==
  /\ tasks' = Append(tasks, t)
  /\ incoming' = Append(incoming, Len(tasks) + 1)
  /\ GoesOn(x, NotPosting)
  /\ UNCHANGED <<pump, work, delayed, deferred, stackVars, timeVars, clock, wakeupVars>>

\* AddToIncomingQueue: only who finds the queue empty wakes the pump.
Push(x, t) ==
  /\ tasks' = Append(tasks, t)
  /\ incoming' = Append(incoming, Len(tasks) + 1)
  /\ GoesOn(x, IF incoming = <<>> THEN Step("schedule") ELSE NotPosting)
  /\ UNCHANGED <<pump, work, delayed, deferred, stackVars, timeVars, clock, wakeupVars>>

PostTask(x, k) ==
  /\ CanPost(x) /\ k.delay = 0
  /\ Push(x, Task(k, 0, Len(tasks)))

\* CalculateDelayedRuntime reads the clock before the lock is taken.
PostDelayedTask(x, k) ==
  /\ CanPost(x) /\ k.delay > 0 /\ clock + k.delay <= MaxClock
  /\ GoesOn(x, [step |-> "push", task |-> Task(k, clock + k.delay, Len(tasks))])
  /\ UNCHANGED <<pump, tasks, queueVars, stackVars, timeVars, clock, wakeupVars>>

PushDelayed(x) == Posting(x, "push") /\ Push(x, posting[x].task)

\* Wrong: a packet for every call.
AfterExchange_Always == Step("packet")

AfterExchange == IF haveWork THEN NotPosting ELSE Step("packet")

\* ScheduleWork: the event, or the exchange of have_work_ and then the packet.
ScheduleWork(x) ==
  /\ Posting(x, "schedule")
  /\ IF pump = "default"
     THEN /\ wakeups' = 1 /\ UNCHANGED haveWork
          /\ GoesOn(x, NotPosting)
     ELSE /\ haveWork' = TRUE /\ UNCHANGED wakeups
          /\ GoesOn(x, AfterExchange)
  /\ UNCHANGED <<pump, tasks, queueVars, stackVars, timeVars, clock>>

PostPacket(x) ==
  /\ Posting(x, "packet")
  /\ wakeups' = wakeups + 1
  /\ GoesOn(x, NotPosting)
  /\ UNCHANGED <<pump, tasks, queueVars, stackVars, timeVars, clock, haveWork>>

(***************************************************************************)
(* RunLoop.                                                                *)
(***************************************************************************)
NewLoop(untilIdle) ==
  [phase |-> "work", did |-> FALSE, quit |-> FALSE, called |-> FALSE, whenIdle |-> untilIdle,
   saved |-> allowed, since |-> Len(tasks)]

\* Run or RunUntilIdle, on an empty stack or in a task, which may allow nestable tasks
\* for its time (this schedules work); without them only RunUntilIdle comes to an end.
\* An IO pump cannot be nested; nor is a loop started by a task that has quit its own.
Run(untilIdle, allow) ==
  /\ InTask /\ runs < MaxRuns
  /\ loops # <<>> => pump # "io" /\ ~Top.quit
  /\ allow \/ (allowed \/ untilIdle)
  /\ runs' = runs + 1
  /\ loops' = <<NewLoop(untilIdle)>> \o loops
  /\ allowed' = (allowed \/ allow)
  /\ GoesOn(Loop, IF allow /\ ~allowed THEN Step("schedule") ELSE NotPosting)
  /\ UNCHANGED <<pump, tasks, queueVars, running, timeVars, clock, wakeupVars>>

\* RunLoop::Quit of a loop on the stack: at once for the innermost, later for others.
Quit(k) ==
  /\ InTask /\ k \in DOMAIN loops
  /\ loops' = [loops EXCEPT ![k].called = TRUE, ![k].quit = @ \/ k = 1]
  /\ UNCHANGED <<pump, tasks, queueVars, allowed, running, runs, timeVars, clock, wakeupVars,
                 posting>>

\* MessageLoop::QuitWhenIdle.
QuitWhenIdle ==
  /\ InTask /\ loops # <<>>
  /\ loops' = [loops EXCEPT ![1].whenIdle = TRUE]
  /\ UNCHANGED <<pump, tasks, queueVars, allowed, running, runs, timeVars, clock, wakeupVars,
                 posting>>

\* Wrong: the Quit that came while a loop was not the innermost is forgotten.
AfterRun_NoDeferredQuit(rest) == rest

\* AfterRun: the deferred Quit of the loop below, if any.
AfterRun(rest) ==
  IF rest # <<>> /\ Head(rest).called THEN [rest EXCEPT ![1].quit = TRUE] ELSE rest

RunReturns ==
  /\ InPump /\ Top.quit
  /\ loops' = AfterRun(Tail(loops))
  /\ allowed' = Top.saved
  /\ UNCHANGED <<pump, tasks, queueVars, running, runs, timeVars, clock, wakeupVars, posting>>

(***************************************************************************)
(* The pump's cycle.  Each phase calls one method of the delegate, or the  *)
(* system; a task that is run returns to the phase set here.               *)
(***************************************************************************)
InPhase(p) == InPump /\ Top.phase = p /\ ~Top.quit

Turn(p, did) == [loops EXCEPT ![1].phase = p, ![1].did = did]

AfterWork == IF pump = "io" THEN "poll" ELSE "delayed"

\* What the cycle does after DoDelayedWork.
AfterDelayed(did) == IF did THEN Turn("work", FALSE) ELSE Turn("idle", FALSE)

RunTask(t) ==
  /\ tasks' = [tasks EXCEPT ![t].state = "running"]
  /\ running' = <<t>> \o running
  /\ allowed' = FALSE

\* DeferOrRunPendingTask.
MayRun(t) == tasks[t].nestable \/ Depth = 1

Defer(t) ==
  /\ deferred' = Append(deferred, t)
  /\ UNCHANGED <<tasks, running, allowed>>

\* The task returns.
FinishTask ==
  /\ InTask /\ running # <<>>
  /\ tasks' = [tasks EXCEPT ![Head(running)].state = "done"]
  /\ running' = Tail(running)
  /\ allowed' = TRUE
  /\ UNCHANGED <<pump, queueVars, loops, runs, timeVars, clock, wakeupVars, posting>>

\* PendingTask::operator<, the earliest first.
Before(t, u) == tasks[t].time < tasks[u].time \/ (tasks[t].time = tasks[u].time /\ t < u)
Earliest(S)  == CHOOSE t \in S : \A u \in S \ {t} : Before(t, u)

ReloadWorkQueue ==
  /\ InPhase("work") /\ allowed /\ incoming # <<>> /\ work = <<>>
  /\ work' = incoming /\ incoming' = <<>>
  /\ UNCHANGED <<pump, tasks, delayed, deferred, stackVars, timeVars, clock, wakeupVars, posting>>

\* DoWork with a task that is delayed: it is only moved.
DelayTask ==
  /\ InPhase("work") /\ allowed /\ work # <<>> /\ tasks[Head(work)].delay > 0
  /\ work' = Tail(work)
  /\ delayed' = delayed \cup {Head(work)}
  /\ timer' = IF Earliest(delayed') = Head(work) THEN tasks[Head(work)].time ELSE timer
  /\ UNCHANGED <<pump, tasks, incoming, deferred, stackVars, recent, clock, wakeupVars, posting>>

DoWork ==
  /\ InPhase("work") /\ allowed /\ work # <<>> /\ tasks[Head(work)].delay = 0
  /\ work' = Tail(work)
  /\ IF MayRun(Head(work))
     THEN RunTask(Head(work)) /\ loops' = Turn(AfterWork, TRUE) /\ UNCHANGED deferred
     ELSE Defer(Head(work)) /\ UNCHANGED loops
  /\ UNCHANGED <<pump, incoming, delayed, runs, timeVars, clock, wakeupVars, posting>>

DoNoWork ==
  /\ InPhase("work") /\ (allowed => work = <<>> /\ incoming = <<>>)
  /\ loops' = Turn(AfterWork, FALSE)
  /\ UNCHANGED <<pump, tasks, queueVars, allowed, running, runs, timeVars, clock, wakeupVars,
                 posting>>

\* MessagePumpForIO: a packet is taken before have_work_ is reset.
TakePacket ==
  /\ InPhase("poll")
  /\ wakeups' = IF wakeups > 0 THEN wakeups - 1 ELSE wakeups
  /\ loops' = IF wakeups > 0 THEN Turn("reset", Top.did) ELSE Turn("delayed", Top.did)
  /\ UNCHANGED <<pump, tasks, queueVars, allowed, running, runs, timeVars, clock, haveWork,
                 posting>>

\* ProcessInternalIOItem.
ResetHaveWork ==
  /\ InPhase("reset")
  /\ haveWork' = FALSE
  /\ loops' = Turn("delayed", TRUE)
  /\ UNCHANGED <<pump, tasks, queueVars, allowed, running, runs, timeVars, clock, wakeups, posting>>

NothingDelayed ==
  /\ InPhase("delayed") /\ (~allowed \/ delayed = {})
  /\ timer' = 0 /\ recent' = 0
  /\ loops' = AfterDelayed(Top.did)
  /\ UNCHANGED <<pump, tasks, queueVars, allowed, running, runs, clock, wakeupVars, posting>>

\* DoDelayedWork looks at the clock only when recent_time_ is not enough.
Recent(t) == IF tasks[t].time > recent THEN clock ELSE recent

IsDue(t) == tasks[t].time <= Recent(t)

NotYet ==
  /\ InPhase("delayed") /\ allowed /\ delayed # {} /\ ~IsDue(Earliest(delayed))
  /\ timer' = tasks[Earliest(delayed)].time
  /\ recent' = Recent(Earliest(delayed))
  /\ loops' = AfterDelayed(Top.did)
  /\ UNCHANGED <<pump, tasks, queueVars, allowed, running, runs, clock, wakeupVars, posting>>

\* DoDelayedWork with a task whose time has come, by recent_time_ or by the clock.
DoDelayedWork ==
  /\ InPhase("delayed") /\ allowed /\ delayed # {} /\ IsDue(Earliest(delayed))
  /\ LET t    == Earliest(delayed)
         rest == delayed \ {t}
     IN /\ recent' = Recent(t)
        /\ delayed' = rest
        /\ timer' = IF rest = {} THEN timer ELSE tasks[Earliest(rest)].time
        /\ IF MayRun(t)
           THEN RunTask(t) /\ loops' = AfterDelayed(TRUE) /\ UNCHANGED deferred
           ELSE Defer(t) /\ loops' = AfterDelayed(Top.did)
  /\ UNCHANGED <<pump, incoming, work, runs, clock, wakeupVars, posting>>

\* Wrong: deferred tasks are run by any loop that is idle.
HasDeferredWork_AnyDepth == deferred # <<>>

HasDeferredWork == Depth = 1 /\ deferred # <<>>

\* DoIdleWork: a deferred task, but only in the outermost loop.
DoIdleWork ==
  /\ InPhase("idle") /\ HasDeferredWork
  /\ deferred' = Tail(deferred)
  /\ RunTask(Head(deferred))
  /\ loops' = Turn("work", FALSE)
  /\ UNCHANGED <<pump, incoming, work, delayed, runs, timeVars, clock, wakeupVars, posting>>

NothingIdle ==
  /\ InPhase("idle") /\ ~HasDeferredWork
  /\ loops' = [Turn("wait", FALSE) EXCEPT ![1].quit = Top.whenIdle]
  /\ UNCHANGED <<pump, tasks, queueVars, allowed, running, runs, timeVars, clock, wakeupVars,
                 posting>>

\* The default pump does not sleep if the time is past, and forgets it.
GoToSleep ==
  /\ InPhase("wait")
  /\ IF pump = "default" /\ timer # 0 /\ timer <= clock
     THEN timer' = 0 /\ loops' = Turn("work", FALSE)
     ELSE loops' = Turn("asleep", FALSE) /\ UNCHANGED timer
  /\ UNCHANGED <<pump, tasks, queueVars, allowed, running, runs, recent, clock, wakeupVars, posting>>

\* Wrong: the flag is left set, so that the next ScheduleWork posts no packet.
WakeUp_StillHasWork ==
  /\ InPhase("asleep") /\ wakeups > 0
  /\ wakeups' = wakeups - 1
  /\ loops' = Turn("work", FALSE)
  /\ UNCHANGED <<pump, tasks, queueVars, allowed, running, runs, timeVars, clock, haveWork, posting>>

\* The event is reset by the wait; after a packet the IO pump resets have_work_ and goes
\* on at the top of the cycle, so that the flag is down before the queue is looked at.
WakeUp ==
  /\ InPhase("asleep") /\ wakeups > 0
  /\ wakeups' = wakeups - 1
  /\ loops' = Turn(IF pump = "io" THEN "awake" ELSE "work", FALSE)
  /\ UNCHANGED <<pump, tasks, queueVars, allowed, running, runs, timeVars, clock, haveWork, posting>>

ResetAwake ==
  /\ InPhase("awake")
  /\ haveWork' = FALSE
  /\ loops' = Turn("work", FALSE)
  /\ UNCHANGED <<pump, tasks, queueVars, allowed, running, runs, timeVars, clock, wakeups, posting>>

TimeOut ==
  /\ InPhase("asleep") /\ timer # 0 /\ timer <= clock
  /\ loops' = Turn("work", FALSE)
  /\ UNCHANGED <<pump, tasks, queueVars, allowed, running, runs, timeVars, clock, wakeupVars,
                 posting>>

\* Time passes; only a delayed task can tell.
Tick ==
  /\ clock < MaxClock
  /\ \E t \in TaskIds : tasks[t].state = "posted" /\ tasks[t].time > clock
  /\ clock' = clock + 1
  /\ UNCHANGED <<pump, tasks, queueVars, stackVars, timeVars, wakeupVars, posting>>

(***************************************************************************)
(* Specification.                                                          *)
(***************************************************************************)
Init ==
  /\ pump \in Pumps
  /\ tasks = <<>> /\ incoming = <<>> /\ work = <<>> /\ delayed = {} /\ deferred = <<>>
  /\ allowed = TRUE /\ loops = <<>> /\ running = <<>> /\ runs = 0
  /\ timer = 0 /\ recent = 0 /\ clock = 1
  /\ haveWork = FALSE /\ wakeups = 0
  /\ posting = [x \in Thread |-> NotPosting]

Posts(x)    == \E k \in Kinds : PostTask(x, k) \/ PostDelayedTask(x, k)
PostOn(x)   == PushDelayed(x) \/ ScheduleWork(x) \/ PostPacket(x)

InTaskStep ==
  \/ \E u, a \in BOOLEAN : Run(u, a)
  \/ \E k \in DOMAIN loops : Quit(k)
  \/ QuitWhenIdle

PumpStep ==
  \/ RunReturns
  \/ ReloadWorkQueue \/ DelayTask \/ DoWork \/ DoNoWork
  \/ TakePacket \/ ResetHaveWork
  \/ NothingDelayed \/ NotYet \/ DoDelayedWork
  \/ DoIdleWork \/ NothingIdle
  \/ GoToSleep \/ WakeUp \/ ResetAwake \/ TimeOut

Next ==
  \/ \E x \in Thread : Posts(x) \/ PostOn(x)
  \/ InTaskStep \/ FinishTask
  \/ PumpStep
  \/ Tick

Spec == Init /\ [][Next]_vars

\* Threads run, tasks return and time passes; nobody has to post or to quit.
Fairness ==
  /\ \A x \in Thread : WF_vars(PostOn(x))
  /\ WF_vars(PumpStep) /\ WF_vars(FinishTask) /\ WF_vars(Tick)

FairSpec == Spec /\ Fairness

(***************************************************************************)
(* Properties.                                                             *)
(***************************************************************************)
\* Every variable has the shape of the code's data, and there is at most one packet,
\* posted by who set have_work_ (the DCHECKs of the pumps).
TaskRecord == [nestable : BOOLEAN, delay : Nat, time : Nat, before : Nat,
               state : {"posted", "running", "done"}]
LoopRecord == [phase : {"work", "poll", "reset", "delayed", "idle", "wait", "asleep", "awake"},
               did : BOOLEAN, quit : BOOLEAN, called : BOOLEAN, whenIdle : BOOLEAN,
               saved : BOOLEAN, since : Nat]

TypeOK ==
  /\ pump \in Pumps
  /\ tasks \in Seq(TaskRecord)
  /\ incoming \in Seq(TaskIds) /\ work \in Seq(TaskIds) /\ deferred \in Seq(TaskIds)
  /\ delayed \subseteq TaskIds
  /\ allowed \in BOOLEAN /\ loops \in Seq(LoopRecord) /\ running \in Seq(TaskIds)
  /\ runs \in 0..MaxRuns /\ timer \in Nat /\ recent \in 0..clock /\ clock \in Nat
  /\ haveWork \in BOOLEAN /\ wakeups \in 0..1
  /\ \A x \in Thread : posting[x].step \in {"idle", "push", "schedule", "packet"}

\* No wakeup is lost: a loop that may run tasks sleeps only over empty queues, or is
\* about to be woken, and not longer than to the time of its first delayed task.
OnlyIdleSleeps ==
  loops # <<>> /\ Top.phase = "asleep" /\ allowed =>
    /\ work = <<>>
    /\ incoming # <<>> =>
         wakeups > 0 \/ \E x \in Thread : posting[x].step \in {"schedule", "packet"}
    /\ delayed # {} => timer # 0 /\ timer <= tasks[Earliest(delayed)].time
    /\ Depth = 1 => deferred = <<>>

\* message_loop.h:160-162: a non-nestable task is never run inside another task.
NonNestableNotNested ==
  \A k \in 1..(Len(running) - 1) : tasks[running[k]].nestable

\* Tasks with the same or a higher delay start after a nestable task posted before.
Precedes(t, u) == t <= tasks[u].before /\ tasks[t].delay <= tasks[u].delay

StartInOrder ==
  \A t, u \in TaskIds : Precedes(t, u) /\ tasks[t].nestable /\ Started(u) => Started(t)

\* No task starts before its time.
NeverEarly == \A t \in TaskIds : Started(t) => tasks[t].time <= clock

\* Tasks start when and where they may: in order, not early, and a non-nestable task
\* never inside another.
TasksStartRightly == StartInOrder /\ NeverEarly /\ NonNestableNotNested

\* After RunLoop::Quit a loop starts no more tasks, also if Quit was called while it was
\* not the innermost.
QuitStopsLoop ==
  [][Len(running') > Len(running) => ~Top.called]_vars

\* A loop that quits when idle has run everything posted before it started that it may
\* run, but for tasks whose time has not come.
IdleMeansAllRun ==
  [][Len(loops') < Len(loops) /\ ~Top.called /\ allowed =>
       \A t \in 1..Top.since :
         tasks[t].delay = 0 /\ MayRun(t) => Started(t)]_vars

\* A loop ends when it is told to, neither later nor with work left.
LoopsEndRightly == QuitStopsLoop /\ IdleMeansAllRun

\* Every nestable task runs, once its time has come, unless the outermost loop ends.
EveryTaskRuns ==
  \A t \in 1..MaxTasks :
    (t \in TaskIds /\ tasks[t].nestable /\ loops # <<>>)
      ~> ((t \in TaskIds /\ Started(t)) \/ loops = <<>>)
=============================================================================
