-------------------------- MODULE MessageLoop_proofs --------------------------
(***************************************************************************)
(* Proofs about MessageLoop, for any posting threads, kinds of tasks and   *)
(* bounds: types, no lost wakeup, the order in which tasks start, and when *)
(* loops end.                                                              *)
(*                                                                         *)
(* The argument: a loop below a task goes on at the top of its cycle, so   *)
(* what it saw of the queues before does not matter.  A loop that has seen *)
(* both queues empty and goes on to sleep is told of what comes after by   *)
(* the thread that finds the queue empty; its wakeup is one token, held by *)
(* one place at a time.  Tasks leave the queues in the order of their      *)
(* numbers, so all below a number have started or are waiting for their    *)
(* time or for the outermost loop.                                         *)
(***************************************************************************)
EXTENDS MessageLoop, TLAPS, WellFoundedInduction

(***************************************************************************)
(* The inductive invariant.                                                *)
(***************************************************************************)
PostingRecord == [step : {"idle", "schedule", "packet"}]
                   \cup [step : {"push"}, task : TaskRecord]

Types == TypeOK /\ posting \in [Thread -> PostingRecord]

\* Loops and tasks alternate on the stack; a loop below a task goes on at the top.
Below(k) == k > 1 \/ Len(running) = Depth

Stack ==
  /\ Len(running) \in {Depth - 1, Depth}
  /\ pump = "io" => Depth <= 1
  /\ \A k \in 1..Depth :
       /\ Below(k) => loops[k].phase = "work"
                        \/ (loops[k].phase \in {"poll", "delayed"} /\ loops[k].did)
       /\ pump = "default" => loops[k].phase \notin {"poll", "reset", "awake"}
       /\ loops[k].phase \in {"reset", "awake"} => ~loops[k].quit
       /\ loops[k].since <= Len(tasks)

\* At the IO pump have_work_ is set while one thread is about to post the packet, or the
\* packet is there, or the loop is about to reset the flag.
Packets == {x \in Thread : Posting(x, "packet")}
Taking  == loops # <<>> /\ Top.phase \in {"reset", "awake"}

OneToken ==
  /\ \A x, y \in Packets : x = y
  /\ wakeups > 0 \/ Taking => Packets = {}
  /\ pump = "io" => ~(wakeups > 0 /\ Taking)
  /\ pump = "io" => (haveWork <=> Packets # {} \/ wakeups > 0 \/ Taking)
  /\ pump = "default" => Packets = {}

\* The tasks that have left the queues are those with the lowest numbers.
Taken == Len(tasks) - Len(work) - Len(incoming)

Queues ==
  /\ Taken >= 0
  /\ \A i \in 1..Len(work) : work[i] = Taken + i
  /\ \A i \in 1..Len(incoming) : incoming[i] = Taken + Len(work) + i
  /\ \A t \in 1..Taken : Started(t) \/ t \in delayed \/ t \in ToSet(deferred)
  /\ \A t \in delayed : t <= Taken /\ tasks[t].delay > 0
  /\ \A t \in ToSet(deferred) : t <= Taken /\ ~tasks[t].nestable /\ tasks[t].time <= clock

\* A loop on its way to sleep has seen its queues empty, and will be told if they are not.
Scheduled == \E x \in Thread : posting[x].step \in {"schedule", "packet"}
Pumping   == loops # <<>> /\ Len(running) < Depth
Settled   == /\ Pumping /\ allowed /\ ~Top.did
             /\ Top.phase \in {"poll", "delayed", "idle", "wait", "asleep"}

Awaited ==
  /\ Settled => /\ work = <<>> /\ Top.since <= Taken
                /\ incoming # <<>> => wakeups > 0 \/ Scheduled
  /\ loops # <<>> /\ Top.phase \in {"idle", "wait", "asleep"} => ~Top.did
  /\ Pumping /\ Depth = 1 /\ Top.phase \in {"wait", "asleep"} => deferred = <<>>

\* The timer is set for the first delayed task.
TimerSet ==
  Pumping /\ allowed /\ Top.phase \in {"idle", "wait", "asleep"} /\ delayed # {} =>
    /\ timer > 0
    /\ \A t \in delayed : timer <= tasks[t].time

\* The times of tasks are in the order of their delays.
InTime(t) ==
  /\ t.time <= clock + t.delay
  /\ IF t.delay = 0 THEN t.time = 0 ELSE t.time > 0
  /\ t.before <= Len(tasks)
  /\ \A u \in 1..t.before : tasks[u].delay <= t.delay => tasks[u].time <= t.time

Times ==
  /\ \A t \in TaskIds : InTime(tasks[t]) /\ tasks[t].before < t
  /\ \A x \in Thread : Posting(x, "push") => InTime(posting[x].task)
                                             /\ posting[x].task.state = "posted"

\* What a task may not overtake has started when its turn comes, to run or to be deferred.
Passed(u)   == Started(u) \/ u \in ToSet(deferred)
Overtook(u) == \A t \in TaskIds : Precedes(t, u) /\ tasks[t].nestable => Started(t)

Order ==
  /\ \A u \in TaskIds : Passed(u) => Overtook(u)
  /\ \A k \in 1..Len(running) : Started(running[k])
  /\ NeverEarly /\ NonNestableNotNested

\* A loop that is to end and was not told to was found idle.
Quits ==
  /\ loops # <<>> /\ Top.called => Top.quit
  /\ \A k \in 1..Depth : loops[k].quit /\ ~loops[k].called => loops[k].phase = "wait"

IInv == Types /\ Stack /\ OneToken /\ Queues /\ Awaited /\ TimerSet /\ Times /\ Order /\ Quits

(***************************************************************************)
(* Types.                                                                  *)
(***************************************************************************)
Phase == {"work", "poll", "reset", "delayed", "idle", "wait", "asleep", "awake"}

\* The elements of a sequence.
LEMMA Elements ==
  ASSUME NEW S, NEW q \in Seq(S)
  PROVE  /\ ToSet(q) = {q[i] : i \in 1..Len(q)}
         /\ ToSet(q) \subseteq S
         /\ q # <<>> => /\ Head(q) = q[1] /\ q[1] \in S /\ Len(q) >= 1
                        /\ Tail(q) \in Seq(S) /\ Len(Tail(q)) = Len(q) - 1
                        /\ \A i \in 1..(Len(q) - 1) : Tail(q)[i] = q[i + 1]
  BY DEF ToSet

\* A list of numbers of tasks stays one when there are more tasks.
LEMMA MoreIds ==
  ASSUME NEW m \in Nat, NEW n \in Nat, m <= n, NEW q \in Seq(1..m)
  PROVE  q \in Seq(1..n)
  OBVIOUS

\* Turn changes the phase and the result of the innermost loop only.
LEMMA TurnLoops ==
  ASSUME loops \in Seq(LoopRecord), loops # <<>>, NEW p \in Phase, NEW d \in BOOLEAN
  PROVE  LET m == Turn(p, d) IN
         /\ m \in Seq(LoopRecord) /\ Len(m) = Depth /\ m # <<>> /\ Head(m) = m[1]
         /\ m[1].phase = p /\ m[1].did = d
         /\ m[1].quit = Top.quit /\ m[1].called = Top.called /\ m[1].since = Top.since
         /\ m[1].whenIdle = Top.whenIdle /\ m[1].saved = Top.saved
         /\ \A k \in 2..Depth : m[k] = loops[k]
<1>1. Depth \in Nat /\ Depth >= 1 /\ Top = loops[1] /\ loops[1] \in LoopRecord
  BY DEF Depth, Top
<1>2. DOMAIN loops = 1..Depth
  BY DEF Depth
<1> DEFINE r == [[loops[1] EXCEPT !.phase = p] EXCEPT !.did = d]
<1>3. r \in LoopRecord /\ r.phase = p /\ r.did = d /\ r.quit = Top.quit
      /\ r.called = Top.called /\ r.since = Top.since /\ r.whenIdle = Top.whenIdle
      /\ r.saved = Top.saved
  BY <1>1 DEF LoopRecord, Phase
<1>4. Turn(p, d) = [loops EXCEPT ![1] = r]
  BY <1>1, <1>2 DEF Turn
<1> HIDE DEF r
<1>5. [loops EXCEPT ![1] = r] \in Seq(LoopRecord)
  BY <1>1, <1>3
<1>6. QED
  BY <1>1, <1>2, <1>3, <1>4, <1>5 DEF Depth

\* Setting the state of a task keeps the rest of it, and the other tasks.
LEMMA StateSet ==
  ASSUME tasks \in Seq(TaskRecord), NEW t \in TaskIds,
         NEW s \in {"posted", "running", "done"}, tasks' = [tasks EXCEPT ![t].state = s]
  PROVE  /\ tasks' \in Seq(TaskRecord) /\ Len(tasks') = Len(tasks) /\ TaskIds' = TaskIds
         /\ TaskIds = 1..Len(tasks) /\ Len(tasks) \in Nat
         /\ \A u \in TaskIds : /\ tasks'[u].nestable = tasks[u].nestable
                               /\ tasks'[u].delay = tasks[u].delay
                               /\ tasks'[u].time = tasks[u].time
                               /\ tasks'[u].before = tasks[u].before
                               /\ u # t => tasks'[u].state = tasks[u].state
         /\ tasks'[t].state = s
<1>1. TaskIds = 1..Len(tasks) /\ Len(tasks) \in Nat /\ tasks[t] \in TaskRecord
  BY DEF TaskIds
<1> DEFINE r == [tasks[t] EXCEPT !.state = s]
<1>2. r \in TaskRecord /\ r.state = s /\ r.nestable = tasks[t].nestable
      /\ r.delay = tasks[t].delay /\ r.time = tasks[t].time /\ r.before = tasks[t].before
  BY <1>1 DEF TaskRecord
<1>3. tasks' = [tasks EXCEPT ![t] = r]
  BY <1>1
<1> HIDE DEF r
<1>4. tasks' \in Seq(TaskRecord) /\ Len(tasks') = Len(tasks) /\ DOMAIN tasks' = DOMAIN tasks
  BY <1>1, <1>2, <1>3
<1>5. tasks'[t] = r /\ \A u \in TaskIds : u # t => tasks'[u] = tasks[u]
  BY <1>1, <1>3 DEF TaskIds
<1>6. QED
  BY <1>1, <1>2, <1>4, <1>5 DEF TaskIds

\* The constants, and what a pump or a thread that posts needs of the types.
LEMMA NamesType ==
  /\ \A t \in TaskRecord : [step |-> "push", task |-> t] \in PostingRecord
  /\ \A s \in {"idle", "schedule", "packet"} : Step(s) \in PostingRecord /\ Step(s).step = s
  /\ NotPosting = Step("idle")
  /\ Loop \in Thread
  BY DEF PostingRecord, Step, NotPosting, Thread

\* A task that is pushed, with the queues behind it.
LEMMA PushTypes ==
  ASSUME Types, NEW x \in Thread, NEW t \in TaskRecord, Push(x, t)
  PROVE  /\ Types'
         /\ Len(tasks') = Len(tasks) + 1 /\ TaskIds = 1..Len(tasks)
         /\ TaskIds' = 1..(Len(tasks) + 1) /\ Len(tasks) \in Nat
         /\ tasks'[Len(tasks) + 1] = t /\ \A u \in TaskIds : tasks'[u] = tasks[u]
<1>1. TaskIds = 1..Len(tasks) /\ Len(tasks) \in Nat /\ tasks \in Seq(TaskRecord)
  BY DEF Types, TypeOK, TaskIds
<1>2. /\ tasks' \in Seq(TaskRecord) /\ Len(tasks') = Len(tasks) + 1
      /\ tasks'[Len(tasks) + 1] = t /\ \A u \in TaskIds : tasks'[u] = tasks[u]
  BY <1>1 DEF Push
<1>3. TaskIds' = 1..(Len(tasks) + 1)
  BY <1>2, <1>1 DEF TaskIds
<1>4. incoming' \in Seq(TaskIds')
  <2>1. incoming \in Seq(TaskIds')
    BY <1>1, <1>3, MoreIds DEF Types, TypeOK
  <2>2. QED
    BY <2>1, <1>1, <1>3 DEF Push
<1>5. work' \in Seq(TaskIds') /\ deferred' \in Seq(TaskIds') /\ running' \in Seq(TaskIds')
  <2>1. work \in Seq(TaskIds') /\ deferred \in Seq(TaskIds') /\ running \in Seq(TaskIds')
    BY <1>1, <1>3, MoreIds DEF Types, TypeOK
  <2>2. QED
    BY <2>1 DEF Push, stackVars
<1>6. delayed' \subseteq TaskIds'
  BY <1>1, <1>3 DEF Push, Types, TypeOK
<1>7. posting' \in [Thread -> PostingRecord]
  BY NamesType DEF Push, Types, GoesOn
<1>8. \A y \in Thread : posting'[y].step \in {"idle", "push", "schedule", "packet"}
  BY <1>7 DEF PostingRecord
<1>9. UNCHANGED <<pump, allowed, loops, runs, timer, recent, clock, haveWork, wakeups>>
  BY DEF Push, stackVars, timeVars, wakeupVars
<1>10. QED
  BY <1>1, <1>2, <1>3, <1>4, <1>5, <1>6, <1>7, <1>8, <1>9 DEF Types, TypeOK

\* Posting ends with the loop woken; the rest of the loop is not touched.
LEMMA WakeTypes ==
  ASSUME Types, NEW x \in Thread, OneToken, ScheduleWork(x) \/ PostPacket(x)
  PROVE  Types'
<1>1. UNCHANGED <<pump, tasks, queueVars, stackVars, timeVars, clock>>
  BY DEF ScheduleWork, PostPacket
<1>2. posting' \in [Thread -> PostingRecord]
  BY NamesType DEF ScheduleWork, PostPacket, Types, GoesOn, AfterExchange
<1>3. haveWork' \in BOOLEAN /\ wakeups' \in 0..1
  <2>1. CASE ScheduleWork(x)
    <3>1. (wakeups' = 1 /\ UNCHANGED haveWork) \/ (haveWork' = TRUE /\ UNCHANGED wakeups)
      BY <2>1, Zenon DEF ScheduleWork
    <3>2. haveWork' \in BOOLEAN
      BY <3>1, Zenon DEF Types, TypeOK
    <3>3. wakeups' \in 0..1
      BY <3>1 DEF Types, TypeOK
    <3>4. QED
      BY <3>2, <3>3
  <2>2. CASE PostPacket(x)
    <3>1. x \in Packets /\ wakeups = 0
      BY <2>2 DEF PostPacket, Packets, OneToken, Types, TypeOK
    <3>2. QED
      BY <2>2, <3>1 DEF PostPacket, Types, TypeOK
  <2>3. QED
    BY <2>1, <2>2
<1>4. \A y \in Thread : posting'[y].step \in {"idle", "push", "schedule", "packet"}
  BY <1>2 DEF PostingRecord
<1>5. QED
  BY <1>1, <1>2, <1>3, <1>4
     DEF Types, TypeOK, queueVars, stackVars, timeVars, TaskIds

\* Types after a step that leaves the tasks and the posting threads alone.
LEMMA SameTasksTypes ==
  ASSUME Types, UNCHANGED <<pump, tasks, clock>>,
         posting' = posting \/ posting' = [posting EXCEPT ![Loop] = Step("schedule")],
         incoming' \in Seq(TaskIds), work' \in Seq(TaskIds), deferred' \in Seq(TaskIds),
         delayed' \subseteq TaskIds, allowed' \in BOOLEAN, loops' \in Seq(LoopRecord),
         running' \in Seq(TaskIds), runs' \in 0..MaxRuns, timer' \in Nat, recent' \in 0..clock,
         haveWork' \in BOOLEAN, wakeups' \in 0..1
  PROVE  Types'
<1>1. posting' \in [Thread -> PostingRecord]
  BY NamesType DEF Types
<1>2. \A y \in Thread : posting'[y].step \in {"idle", "push", "schedule", "packet"}
  BY <1>1 DEF PostingRecord
<1>3. QED
  BY <1>1, <1>2 DEF Types, TypeOK, TaskIds

\* Types after the state of a task has been set.
LEMMA StateTypes ==
  ASSUME Types, UNCHANGED <<pump, clock, posting, haveWork, wakeups, runs>>,
         NEW t \in TaskIds, NEW s \in {"running", "done"},
         tasks' = [tasks EXCEPT ![t].state = s],
         incoming' \in Seq(TaskIds), work' \in Seq(TaskIds), deferred' \in Seq(TaskIds),
         delayed' \subseteq TaskIds, allowed' \in BOOLEAN, loops' \in Seq(LoopRecord),
         running' \in Seq(TaskIds), timer' \in Nat, recent' \in 0..clock
  PROVE  Types'
<1>1. tasks' \in Seq(TaskRecord) /\ TaskIds' = TaskIds
  BY StateSet DEF Types, TypeOK
<1>2. QED
  BY <1>1 DEF Types, TypeOK

\* A set of numbers that is not empty has a least one.
LEMMA LeastNumber ==
  ASSUME NEW S, S \subseteq Nat, S # {}
  PROVE  \E s \in S : \A r \in S : s <= r
<1>1. PICK s \in S : \A r \in S : ~ (<<r, s>> \in OpToRel(<, Nat))
  BY NatLessThanWellFounded, WFMin
<1>2. ASSUME NEW r \in S PROVE s <= r
  <2>1. <<r, s>> \in Nat \X Nat
    OBVIOUS
  <2>2. r < s => <<r, s>> \in OpToRel(<, Nat)
    BY <2>1 DEF OpToRel
  <2>3. ~(r < s)
    BY <1>1, <2>2, Zenon
  <2>4. r \in Nat /\ s \in Nat
    BY <2>1
  <2>5. QED
    BY <2>3, <2>4
<1>3. QED
  BY <1>2

\* Of some tasks one is the earliest: the first of those with the least time.
LEMMA EarliestIs ==
  ASSUME tasks \in Seq(TaskRecord), NEW S, S \subseteq TaskIds, S # {}
  PROVE  /\ Earliest(S) \in S
         /\ \A u \in S \ {Earliest(S)} : Before(Earliest(S), u)
         /\ \A u \in S : tasks[Earliest(S)].time <= tasks[u].time
<1>1. \A u \in S : u \in Nat /\ tasks[u] \in TaskRecord /\ tasks[u].time \in Nat
  <2>1. TaskIds = 1..Len(tasks) /\ Len(tasks) \in Nat
    BY DEF TaskIds
  <2>2. \A u \in S : u \in Nat /\ tasks[u] \in TaskRecord
    BY <2>1
  <2>3. QED
    BY <2>2 DEF TaskRecord
<1> DEFINE Ts == {tasks[u].time : u \in S}
<1>2. PICK T \in Ts : \A r \in Ts : T <= r
  <2>1. Ts \subseteq Nat /\ Ts # {}
    BY <1>1
  <2> HIDE DEF Ts
  <2>2. QED
    BY <2>1, LeastNumber
<1> DEFINE First == {u \in S : tasks[u].time = T}
<1>3. PICK e \in First : \A r \in First : e <= r
  <2>1. First \subseteq Nat /\ First # {}
    BY <1>1, <1>2
  <2> HIDE DEF First
  <2>2. QED
    BY <2>1, LeastNumber
<1>4. e \in S /\ \A u \in S \ {e} : Before(e, u)
  <2>1. e \in S /\ tasks[e].time = T /\ \A u \in S : T <= tasks[u].time
    BY <1>2, <1>3
  <2>2. \A u \in S : tasks[u].time = T => e <= u
    BY <1>3
  <2>3. \A u \in S : u \in Nat /\ tasks[u].time \in Nat
    BY <1>1
  <2> HIDE DEF Ts, First
  <2>4. QED
    BY <2>1, <2>2, <2>3 DEF Before
<1>5. Earliest(S) \in S /\ \A u \in S \ {Earliest(S)} : Before(Earliest(S), u)
  BY <1>4, Zenon DEF Earliest
<1>6. QED
  BY <1>1, <1>5 DEF Before

\* What the types say, in the form the steps need it.
LEMMA Facts ==
  ASSUME Types
  PROVE  /\ TaskIds = 1..Len(tasks) /\ Len(tasks) \in Nat
         /\ \A t \in TaskIds : /\ tasks[t] \in TaskRecord
                               /\ tasks[t].time \in Nat /\ tasks[t].delay \in Nat
                               /\ tasks[t].before \in Nat
         /\ Depth \in Nat /\ Len(running) \in Nat /\ Len(work) \in Nat /\ Len(incoming) \in Nat
         /\ loops # <<>> => Top = loops[1] /\ Depth >= 1 /\ Top \in LoopRecord
                            /\ Top.did \in BOOLEAN /\ Top.since \in Nat
         /\ \A k \in 1..Depth : loops[k] \in LoopRecord
<1>1. TaskIds = 1..Len(tasks) /\ Len(tasks) \in Nat
  BY DEF Types, TypeOK, TaskIds
<1>2. \A t \in TaskIds : tasks[t] \in TaskRecord
  BY <1>1 DEF Types, TypeOK
<1>3. Depth \in Nat /\ Len(running) \in Nat /\ Len(work) \in Nat /\ Len(incoming) \in Nat
  BY DEF Types, TypeOK, Depth
<1>4. loops # <<>> => Top = loops[1] /\ Depth >= 1 /\ Top \in LoopRecord
  BY DEF Types, TypeOK, Depth, Top
<1>5. \A k \in 1..Depth : loops[k] \in LoopRecord
  BY DEF Types, TypeOK, Depth
<1>6. QED
  BY <1>1, <1>2, <1>3, <1>4, <1>5 DEF TaskRecord, LoopRecord

LEMMA PostingTypes ==
  ASSUME Types, NEW x \in Thread, Posts(x) \/ PostOn(x), OneToken
  PROVE  Types'
<1>1. ASSUME NEW k \in Kinds, PostTask(x, k) PROVE Types'
  <2>1. Task(k, 0, Len(tasks)) \in TaskRecord
    BY Facts, ConstantsAssumption DEF Task, TaskRecord
  <2>2. QED
    BY <1>1, <2>1, PushTypes DEF PostTask
<1>2. ASSUME NEW k \in Kinds, PostDelayedTask(x, k) PROVE Types'
  <2>1. clock + k.delay \in Nat
    BY ConstantsAssumption DEF Types, TypeOK
  <2>2. Task(k, clock + k.delay, Len(tasks)) \in TaskRecord
    BY <2>1, Facts, ConstantsAssumption DEF Task, TaskRecord
  <2>3. posting' \in [Thread -> PostingRecord]
    BY <1>2, <2>2, NamesType DEF PostDelayedTask, GoesOn, Types
  <2>4. \A y \in Thread : posting'[y].step \in {"idle", "push", "schedule", "packet"}
    BY <2>3 DEF PostingRecord
  <2>5. UNCHANGED <<pump, tasks, queueVars, stackVars, timeVars, clock, wakeupVars>>
    BY <1>2 DEF PostDelayedTask
  <2>6. allowed' \in BOOLEAN /\ haveWork' \in BOOLEAN
    BY <2>5 DEF Types, TypeOK, stackVars, wakeupVars
  <2>7. QED
    BY <2>3, <2>4, <2>5, <2>6
       DEF Types, TypeOK, TaskIds, queueVars, stackVars, timeVars, wakeupVars
<1>3. CASE PushDelayed(x)
  <2>1. posting[x].step = "push" /\ posting[x] \in PostingRecord
    BY <1>3 DEF PushDelayed, Posting, Types
  <2>2. posting[x].task \in TaskRecord
    BY <2>1 DEF PostingRecord
  <2>3. QED
    BY <1>3, <2>2, PushTypes DEF PushDelayed
<1>4. CASE ScheduleWork(x) \/ PostPacket(x)
  BY <1>4, WakeTypes
<1>5. QED
  BY <1>1, <1>2, <1>3, <1>4 DEF Posts, PostOn

LEMMA InTaskTypes ==
  ASSUME Types, InTaskStep \/ FinishTask \/ Tick
  PROVE  Types'
<1>1. ASSUME NEW u \in BOOLEAN, NEW a \in BOOLEAN, Run(u, a) PROVE Types'
  <2>1. NewLoop(u) \in LoopRecord
    BY Facts DEF NewLoop, LoopRecord, Types, TypeOK
  <2>2. loops' \in Seq(LoopRecord)
    BY <1>1, <2>1 DEF Run, Types, TypeOK
  <2>3. allowed' \in BOOLEAN
    BY <1>1 DEF Run
  <2>4. runs' \in 0..MaxRuns
    BY <1>1, ConstantsAssumption DEF Run, Types, TypeOK
  <2>5. posting' = posting \/ posting' = [posting EXCEPT ![Loop] = Step("schedule")]
    <3>1. InTask /\ (GoesOn(Loop, Step("schedule")) \/ GoesOn(Loop, NotPosting))
      BY <1>1 DEF Run
    <3>2. posting[Loop] = NotPosting
      BY <3>1 DEF InTask, Idle
    <3>3. [posting EXCEPT ![Loop] = NotPosting] = posting
      BY <3>2 DEF Types
    <3>4. QED
      BY <3>1, <3>3 DEF GoesOn
  <2>6. UNCHANGED <<pump, tasks, incoming, work, delayed, deferred, running, timer, recent, clock,
                    haveWork, wakeups>>
    BY <1>1 DEF Run, queueVars, timeVars, wakeupVars
  <2>7. haveWork' \in BOOLEAN
    BY <2>6 DEF Types, TypeOK
  <2>8. QED
    BY <2>2, <2>3, <2>4, <2>5, <2>6, <2>7, SameTasksTypes DEF Types, TypeOK
<1>2. ASSUME NEW k \in DOMAIN loops, Quit(k) PROVE Types'
  <2>1. loops' \in Seq(LoopRecord)
    <3>1. k \in 1..Len(loops) /\ loops[k] \in LoopRecord
      BY DEF Types, TypeOK
    <3> DEFINE r == [[loops[k] EXCEPT !.called = TRUE] EXCEPT !.quit = @ \/ k = 1]
    <3>2. r \in LoopRecord
      BY <3>1 DEF LoopRecord
    <3>3. loops' = [loops EXCEPT ![k] = r]
      BY <1>2, <3>1 DEF Quit
    <3> HIDE DEF r
    <3>4. QED
      BY <3>1, <3>2, <3>3 DEF Types, TypeOK
  <2>2. UNCHANGED <<pump, tasks, incoming, work, delayed, deferred, allowed, running, runs, timer,
                    recent, clock, haveWork, wakeups, posting>>
    BY <1>2 DEF Quit, queueVars, timeVars, wakeupVars
  <2>3. allowed' \in BOOLEAN /\ haveWork' \in BOOLEAN
    BY <2>2 DEF Types, TypeOK
  <2>4. QED
    BY <2>1, <2>2, <2>3, SameTasksTypes DEF Types, TypeOK
<1>3. CASE QuitWhenIdle
  <2>1. loops' \in Seq(LoopRecord)
    <3>1. 1 \in 1..Len(loops) /\ loops[1] \in LoopRecord
      BY <1>3 DEF QuitWhenIdle, Types, TypeOK
    <3> DEFINE r == [loops[1] EXCEPT !.whenIdle = TRUE]
    <3>2. r \in LoopRecord
      BY <3>1 DEF LoopRecord
    <3>3. loops' = [loops EXCEPT ![1] = r]
      BY <1>3, <3>1 DEF QuitWhenIdle
    <3> HIDE DEF r
    <3>4. QED
      BY <3>1, <3>2, <3>3 DEF Types, TypeOK
  <2>2. UNCHANGED <<pump, tasks, incoming, work, delayed, deferred, allowed, running, runs, timer,
                    recent, clock, haveWork, wakeups, posting>>
    BY <1>3 DEF QuitWhenIdle, queueVars, timeVars, wakeupVars
  <2>3. allowed' \in BOOLEAN /\ haveWork' \in BOOLEAN
    BY <2>2 DEF Types, TypeOK
  <2>4. QED
    BY <2>1, <2>2, <2>3, SameTasksTypes DEF Types, TypeOK
<1>4. CASE FinishTask
  <2>1. Head(running) \in TaskIds /\ running' \in Seq(TaskIds)
    BY <1>4 DEF FinishTask, Types, TypeOK
  <2>2. tasks' = [tasks EXCEPT ![Head(running)].state = "done"] /\ allowed' = TRUE
        /\ UNCHANGED <<pump, incoming, work, delayed, deferred, loops, runs, timer, recent, clock,
                       haveWork, wakeups, posting>>
    BY <1>4 DEF FinishTask, queueVars, timeVars, wakeupVars
  <2>3. QED
    BY <2>1, <2>2, StateTypes DEF Types, TypeOK
<1>5. CASE Tick
  <2>1. UNCHANGED <<pump, tasks, incoming, work, delayed, deferred, allowed, loops, running, runs,
                    timer, recent, haveWork, wakeups, posting>> /\ clock' = clock + 1
    BY <1>5 DEF Tick, queueVars, stackVars, timeVars, wakeupVars
  <2>2. allowed' \in BOOLEAN /\ haveWork' \in BOOLEAN
    BY <2>1 DEF Types, TypeOK
  <2>3. recent' \in 0..clock' /\ clock' \in Nat
    BY <2>1 DEF Types, TypeOK
  <2>4. QED
    BY <2>1, <2>2, <2>3 DEF Types, TypeOK, TaskIds
<1>6. QED
  BY <1>1, <1>2, <1>3, <1>4, <1>5 DEF InTaskStep

\* A step of the pump that ends in another phase and may take from the queues.
LEMMA TurnTypes ==
  ASSUME Types, loops # <<>>, NEW p \in Phase, NEW d \in BOOLEAN, loops' = Turn(p, d),
         UNCHANGED <<pump, tasks, clock, posting, allowed, running, runs>>,
         incoming' \in Seq(TaskIds), work' \in Seq(TaskIds), deferred' \in Seq(TaskIds),
         delayed' \subseteq TaskIds, timer' \in Nat, recent' \in 0..clock,
         haveWork' \in BOOLEAN, wakeups' \in 0..1
  PROVE  Types'
<1>1. loops' \in Seq(LoopRecord)
  BY TurnLoops DEF Types, TypeOK
<1>2. allowed' \in BOOLEAN
  BY DEF Types, TypeOK
<1>3. QED
  BY <1>1, <1>2, SameTasksTypes DEF Types, TypeOK

\* A step of the pump that runs a task.
LEMMA RunTaskTypes ==
  ASSUME Types, loops # <<>>, NEW p \in Phase, NEW d \in BOOLEAN, loops' = Turn(p, d),
         NEW t \in TaskIds, RunTask(t), UNCHANGED <<pump, clock, posting, runs, wakeupVars>>,
         incoming' \in Seq(TaskIds), work' \in Seq(TaskIds), deferred' \in Seq(TaskIds),
         delayed' \subseteq TaskIds, timer' \in Nat, recent' \in 0..clock
  PROVE  Types'
<1>1. loops' \in Seq(LoopRecord)
  BY TurnLoops DEF Types, TypeOK
<1>2. allowed' = FALSE /\ tasks' = [tasks EXCEPT ![t].state = "running"]
      /\ running' = <<t>> \o running
  BY DEF RunTask
<1>3. running' \in Seq(TaskIds)
  BY <1>2 DEF Types, TypeOK
<1>4. UNCHANGED <<pump, clock, posting, haveWork, wakeups, runs>>
  BY DEF wakeupVars
<1>5. QED
  BY <1>1, <1>2, <1>3, <1>4, StateTypes

\* A loop in a phase is on the stack, and no task is above it.
LEMMA InPhaseIs ==
  ASSUME Types, NEW p, InPhase(p)
  PROVE  /\ loops # <<>> /\ Idle(Loop) /\ Len(running) < Depth /\ Pumping
         /\ Top.phase = p /\ ~Top.quit
BY Facts DEF InPhase, InPump, Depth, Types, TypeOK, Pumping

\* The values of the operators the pump sets the phase with.
LEMMA PhaseValues ==
  /\ AfterWork \in Phase
  /\ \A d \in BOOLEAN : AfterDelayed(d) = IF d THEN Turn("work", FALSE) ELSE Turn("idle", FALSE)
  /\ {"work", "poll", "reset", "delayed", "idle", "wait", "asleep", "awake"} = Phase
  BY DEF AfterWork, AfterDelayed, Phase

LEMMA PumpTypes ==
  ASSUME Types, PumpStep
  PROVE  Types'
<1> USE PhaseValues
<1>0. /\ allowed \in BOOLEAN /\ haveWork \in BOOLEAN /\ recent \in 0..clock /\ clock \in Nat
      /\ clock \in 0..clock /\ timer \in Nat /\ 0 \in 0..clock /\ wakeups \in 0..1
      /\ incoming \in Seq(TaskIds) /\ work \in Seq(TaskIds) /\ deferred \in Seq(TaskIds)
      /\ delayed \subseteq TaskIds /\ loops \in Seq(LoopRecord) /\ tasks \in Seq(TaskRecord)
      /\ running \in Seq(TaskIds) /\ runs \in 0..MaxRuns
  BY DEF Types, TypeOK
<1>1. CASE RunReturns
  <2>1. loops # <<>> /\ Top \in LoopRecord
    BY <1>1, Facts DEF RunReturns, InPump, Depth, Types, TypeOK
  <2>2. Tail(loops) \in Seq(LoopRecord) /\ Top.saved \in BOOLEAN
    BY <2>1, <1>0 DEF LoopRecord
  <2>3. AfterRun(Tail(loops)) \in Seq(LoopRecord)
    <3> DEFINE q == Tail(loops)
    <3>1. CASE q # <<>> /\ Head(q).called
      <4>1. 1 \in 1..Len(q) /\ q[1] \in LoopRecord /\ q \in Seq(LoopRecord)
        BY <2>2, <3>1
      <4> DEFINE r == [q[1] EXCEPT !.quit = TRUE]
      <4>2. r \in LoopRecord
        BY <4>1 DEF LoopRecord
      <4>3. AfterRun(q) = [q EXCEPT ![1] = r]
        BY <3>1, <4>1 DEF AfterRun
      <4> HIDE DEF r, q
      <4>4. [q EXCEPT ![1] = r] \in Seq(LoopRecord)
        BY <4>1, <4>2
      <4>5. QED
        BY <4>3, <4>4 DEF q
    <3>2. CASE ~(q # <<>> /\ Head(q).called)
      BY <3>2, <2>2, Zenon DEF AfterRun
    <3>3. QED
      BY <3>1, <3>2
  <2>4. UNCHANGED <<pump, tasks, incoming, work, delayed, deferred, running, runs, timer, recent,
                    clock, haveWork, wakeups, posting>>
    BY <1>1 DEF RunReturns, queueVars, timeVars, wakeupVars
  <2>5. allowed' \in BOOLEAN /\ haveWork' \in BOOLEAN
    BY <1>1, <2>2, <2>4, <1>0 DEF RunReturns
  <2>6. loops' \in Seq(LoopRecord)
    BY <1>1, <2>3 DEF RunReturns
  <2>7. QED
    BY <2>4, <2>5, <2>6, <1>0, SameTasksTypes
<1>2. CASE ReloadWorkQueue
  <2>1. UNCHANGED <<pump, tasks, delayed, deferred, allowed, loops, running, runs, timer, recent,
                    clock, haveWork, wakeups, posting>>
    BY <1>2 DEF ReloadWorkQueue, stackVars, timeVars, wakeupVars
  <2>2. work' \in Seq(TaskIds) /\ incoming' \in Seq(TaskIds)
    BY <1>2, <1>0 DEF ReloadWorkQueue
  <2>3. allowed' \in BOOLEAN /\ haveWork' \in BOOLEAN
    BY <2>1, <1>0
  <2>4. QED
    BY <2>1, <2>2, <2>3, <1>0, SameTasksTypes
<1>3. CASE DelayTask
  <2>1. UNCHANGED <<pump, tasks, incoming, deferred, allowed, loops, running, runs, recent,
                    clock, haveWork, wakeups, posting>>
    BY <1>3 DEF DelayTask, stackVars, wakeupVars
  <2>2. work # <<>> /\ Head(work) \in TaskIds /\ Tail(work) \in Seq(TaskIds)
    BY <1>3, <1>0 DEF DelayTask
  <2>3. work' \in Seq(TaskIds) /\ delayed' \subseteq TaskIds /\ timer' \in Nat
    BY <1>3, <2>2, <1>0, Facts DEF DelayTask
  <2>4. allowed' \in BOOLEAN /\ haveWork' \in BOOLEAN
    BY <2>1, <1>0
  <2>5. QED
    BY <2>1, <2>3, <2>4, <1>0, SameTasksTypes
<1>4. CASE DoWork
  <2>1. loops # <<>>
    BY <1>4, InPhaseIs DEF DoWork
  <2>2. work # <<>> /\ Head(work) \in TaskIds /\ Tail(work) \in Seq(TaskIds)
    BY <1>4, <1>0 DEF DoWork
  <2>3. work' = Tail(work)
        /\ UNCHANGED <<pump, incoming, delayed, runs, timer, recent, clock, haveWork, wakeups,
                       wakeupVars, posting>>
    BY <1>4 DEF DoWork, timeVars, wakeupVars
  <2>4. CASE MayRun(Head(work))
    <3>1. RunTask(Head(work)) /\ loops' = Turn(AfterWork, TRUE) /\ deferred' = deferred
      BY <1>4, <2>4 DEF DoWork
    <3>2. QED
      BY <3>1, <2>1, <2>2, <2>3, <1>0, RunTaskTypes
  <2>5. CASE ~MayRun(Head(work))
    <3>1. Defer(Head(work)) /\ loops' = loops
      BY <1>4, <2>5 DEF DoWork
    <3>2. deferred' \in Seq(TaskIds) /\ UNCHANGED <<tasks, running, allowed>>
      BY <3>1, <2>2, <1>0 DEF Defer
    <3>3. allowed' \in BOOLEAN /\ haveWork' \in BOOLEAN
      BY <3>2, <2>3, <1>0
    <3>4. QED
      BY <3>1, <3>2, <3>3, <2>2, <2>3, <1>0, SameTasksTypes
  <2>6. QED
    BY <2>4, <2>5
<1>5. CASE DoNoWork
  <2>1. loops # <<>>
    BY <1>5, InPhaseIs DEF DoNoWork
  <2>2. UNCHANGED <<pump, tasks, incoming, work, delayed, deferred, allowed, running, runs, timer,
                    recent, clock, haveWork, wakeups, posting>> /\ loops' = Turn(AfterWork, FALSE)
    BY <1>5 DEF DoNoWork, queueVars, timeVars, wakeupVars
  <2>3. QED
    BY <2>1, <2>2, <1>0, TurnTypes
<1>6. CASE TakePacket
  <2>1. loops # <<>> /\ Top.did \in BOOLEAN
    BY <1>6, InPhaseIs, Facts DEF TakePacket
  <2>2. UNCHANGED <<pump, tasks, incoming, work, delayed, deferred, allowed, running, runs, timer,
                    recent, clock, haveWork, posting>>
    BY <1>6 DEF TakePacket, queueVars, timeVars
  <2>3. wakeups' \in 0..1
    BY <1>6, <1>0 DEF TakePacket
  <2>4. loops' = Turn("reset", Top.did) \/ loops' = Turn("delayed", Top.did)
    BY <1>6 DEF TakePacket
  <2>5. haveWork' \in BOOLEAN
    BY <2>2, <1>0
  <2>6. QED
    BY <2>1, <2>2, <2>3, <2>4, <2>5, <1>0, TurnTypes
<1>7. CASE ResetHaveWork \/ ResetAwake
  <2>1. loops # <<>>
    BY <1>7, InPhaseIs DEF ResetHaveWork, ResetAwake
  <2>2. UNCHANGED <<pump, tasks, incoming, work, delayed, deferred, allowed, running, runs, timer,
                    recent, clock, wakeups, posting>> /\ haveWork' = FALSE
    BY <1>7 DEF ResetHaveWork, ResetAwake, queueVars, timeVars
  <2>3. loops' = Turn("delayed", TRUE) \/ loops' = Turn("work", FALSE)
    BY <1>7 DEF ResetHaveWork, ResetAwake
  <2>4. QED
    BY <2>1, <2>2, <2>3, <1>0, TurnTypes
<1>8. CASE NothingDelayed \/ NotYet
  <2>1. loops # <<>> /\ Top.did \in BOOLEAN
    BY <1>8, InPhaseIs, Facts DEF NothingDelayed, NotYet
  <2>2. UNCHANGED <<pump, tasks, incoming, work, delayed, deferred, allowed, running, runs,
                    clock, haveWork, wakeups, posting>>
    BY <1>8 DEF NothingDelayed, NotYet, queueVars, wakeupVars
  <2>3. loops' = Turn("work", FALSE) \/ loops' = Turn("idle", FALSE)
    BY <1>8, <2>1 DEF NothingDelayed, NotYet
  <2>4. timer' \in Nat /\ recent' \in 0..clock
    <3>1. CASE NothingDelayed
      BY <3>1, <1>0 DEF NothingDelayed
    <3>2. CASE NotYet
      <4>1. Earliest(delayed) \in TaskIds
        BY <3>2, <1>0, EarliestIs DEF NotYet
      <4>2. QED
        BY <3>2, <4>1, <1>0, Facts DEF NotYet, Recent
    <3>3. QED
      BY <1>8, <3>1, <3>2
  <2>5. haveWork' \in BOOLEAN
    BY <2>2, <1>0
  <2>6. QED
    BY <2>1, <2>2, <2>3, <2>4, <2>5, <1>0, TurnTypes
<1>9. CASE DoDelayedWork
  <2> DEFINE t    == Earliest(delayed)
             rest == delayed \ {t}
  <2>1. loops # <<>> /\ Top.did \in BOOLEAN
    BY <1>9, InPhaseIs, Facts DEF DoDelayedWork
  <2>2. t \in TaskIds /\ rest \subseteq TaskIds
    BY <1>9, <1>0, EarliestIs DEF DoDelayedWork
  <2>3. rest # {} => tasks[Earliest(rest)].time \in Nat
    BY <2>2, <1>0, EarliestIs, Facts
  <2>4. recent' = Recent(t) /\ delayed' = rest
        /\ timer' = IF rest = {} THEN timer ELSE tasks[Earliest(rest)].time
    BY <1>9, Zenon DEF DoDelayedWork
  <2>40. UNCHANGED <<pump, incoming, work, runs, clock, haveWork, wakeups, wakeupVars, posting>>
    BY <1>9 DEF DoDelayedWork, wakeupVars
  <2>41. Recent(t) \in 0..clock
    BY <1>0 DEF Recent
  <2>5. recent' \in 0..clock /\ timer' \in Nat /\ delayed' \subseteq TaskIds
    <3> HIDE DEF t, rest
    <3>1. QED
      BY <2>2, <2>3, <2>4, <2>41, <1>0
  <2>6. CASE MayRun(t)
    <3>1. RunTask(t) /\ loops' = Turn("work", FALSE) /\ deferred' = deferred
      BY <1>9, <2>6 DEF DoDelayedWork
    <3> HIDE DEF t, rest
    <3>2. QED
      BY <3>1, <2>1, <2>2, <2>4, <2>40, <2>5, <1>0, RunTaskTypes
  <2>7. CASE ~MayRun(t)
    <3>1. Defer(t) /\ loops' = AfterDelayed(Top.did)
      BY <1>9, <2>7 DEF DoDelayedWork
    <3>2. loops' = Turn("work", FALSE) \/ loops' = Turn("idle", FALSE)
      BY <3>1, <2>1
    <3> HIDE DEF t, rest
    <3>3. deferred' \in Seq(TaskIds) /\ UNCHANGED <<tasks, running, allowed>>
      BY <3>1, <2>2, <1>0 DEF Defer
    <3>4. haveWork' \in BOOLEAN
      BY <2>40, <1>0, Zenon
    <3>5. QED
      BY <3>2, <3>3, <3>4, <2>1, <2>4, <2>40, <2>5, <1>0, TurnTypes
  <2>8. QED
    BY <2>6, <2>7
<1>10. CASE DoIdleWork
  <2>1. loops # <<>>
    BY <1>10, InPhaseIs DEF DoIdleWork
  <2>2. Head(deferred) \in TaskIds /\ Tail(deferred) \in Seq(TaskIds)
    BY <1>10, <1>0 DEF DoIdleWork, HasDeferredWork
  <2>3. RunTask(Head(deferred)) /\ loops' = Turn("work", FALSE) /\ deferred' = Tail(deferred)
        /\ UNCHANGED <<pump, incoming, work, delayed, runs, timer, recent, clock, wakeupVars,
                       posting>>
    BY <1>10 DEF DoIdleWork, timeVars
  <2>4. QED
    BY <2>1, <2>2, <2>3, <1>0, RunTaskTypes
<1>11. CASE NothingIdle
  <2>1. loops # <<>>
    BY <1>11, InPhaseIs DEF NothingIdle
  <2>2. UNCHANGED <<pump, tasks, incoming, work, delayed, deferred, allowed, running, runs, timer,
                    recent, clock, haveWork, wakeups, posting>>
        /\ loops' = [Turn("wait", FALSE) EXCEPT ![1].quit = Top.whenIdle]
    BY <1>11 DEF NothingIdle, queueVars, timeVars, wakeupVars
  <2>3. loops' \in Seq(LoopRecord)
    <3> DEFINE m == Turn("wait", FALSE)
    <3>1. m \in Seq(LoopRecord) /\ 1 \in 1..Len(m) /\ m[1] \in LoopRecord
      <4>1. m \in Seq(LoopRecord) /\ Len(m) = Depth
        BY <2>1, <1>0, TurnLoops
      <4>2. Depth \in Nat /\ Depth >= 1
        BY <2>1, Facts
      <4> HIDE DEF m
      <4>3. QED
        BY <4>1, <4>2
    <3>2. Top.whenIdle \in BOOLEAN
      BY <2>1, Facts DEF LoopRecord
    <3> HIDE DEF m
    <3> DEFINE r == [m[1] EXCEPT !.quit = Top.whenIdle]
    <3>3. r \in LoopRecord
      BY <3>1, <3>2 DEF LoopRecord
    <3>4. loops' = [m EXCEPT ![1] = r]
      BY <2>2, <3>1 DEF m
    <3> HIDE DEF r
    <3>5. QED
      BY <3>1, <3>3, <3>4
  <2>4. allowed' \in BOOLEAN /\ haveWork' \in BOOLEAN
    BY <2>2, <1>0
  <2>5. QED
    BY <2>2, <2>3, <2>4, <1>0, SameTasksTypes
<1>12. CASE GoToSleep \/ WakeUp \/ TimeOut
  <2>1. loops # <<>>
    BY <1>12, InPhaseIs DEF GoToSleep, WakeUp, TimeOut
  <2>2. UNCHANGED <<pump, tasks, incoming, work, delayed, deferred, allowed, running, runs,
                    recent, clock, haveWork, posting>>
    BY <1>12 DEF GoToSleep, WakeUp, TimeOut, queueVars, timeVars, wakeupVars
  <2>3. timer' \in Nat /\ wakeups' \in 0..1
    <3>1. timer' = 0 \/ timer' = timer
      BY <1>12 DEF GoToSleep, WakeUp, TimeOut, timeVars
    <3>2. wakeups' = wakeups \/ (wakeups > 0 /\ wakeups' = wakeups - 1)
      BY <1>12 DEF GoToSleep, WakeUp, TimeOut, wakeupVars
    <3>3. QED
      BY <1>0, <3>1, <3>2
  <2>4. loops' \in {Turn(p, FALSE) : p \in Phase}
    BY <1>12 DEF GoToSleep, WakeUp, TimeOut
  <2>5. haveWork' \in BOOLEAN
    BY <2>2, <1>0
  <2>6. QED
    BY <2>1, <2>2, <2>3, <2>4, <2>5, <1>0, TurnTypes
<1>13. QED
  BY <1>1, <1>2, <1>3, <1>4, <1>5, <1>6, <1>7, <1>8, <1>9, <1>10, <1>11, <1>12 DEF PumpStep

(***************************************************************************)
(* The stack of loops and tasks.                                           *)
(***************************************************************************)

\* The loops after a Quit or a QuitWhenIdle: the same, but for what it sets.
LEMMA QuitLoops ==
  ASSUME Types, NEW k \in DOMAIN loops, Quit(k)
  PROVE  /\ Len(loops') = Depth /\ loops # <<>>
         /\ \A j \in 1..Depth : /\ loops'[j].phase = loops[j].phase
                                /\ loops'[j].did = loops[j].did
                                /\ loops'[j].since = loops[j].since
                                /\ j # k => loops'[j] = loops[j]
         /\ loops'[k].called /\ (loops[k].quit => loops'[k].quit) /\ (k = 1 => loops'[k].quit)
<1>1. k \in 1..Depth /\ DOMAIN loops = 1..Depth /\ Depth \in Nat /\ loops[k] \in LoopRecord
  BY DEF Types, TypeOK, Depth
<1> DEFINE r == [[loops[k] EXCEPT !.called = TRUE] EXCEPT !.quit = @ \/ k = 1]
<1>2. /\ r \in LoopRecord /\ r.phase = loops[k].phase /\ r.did = loops[k].did
      /\ r.since = loops[k].since /\ r.called /\ (loops[k].quit => r.quit) /\ (k = 1 => r.quit)
  BY <1>1 DEF LoopRecord
<1>3. loops' = [loops EXCEPT ![k] = r]
  BY <1>1 DEF Quit
<1> HIDE DEF r
<1>4. Len(loops') = Depth /\ loops'[k] = r /\ \A j \in 1..Depth : j # k => loops'[j] = loops[j]
  BY <1>1, <1>2, <1>3 DEF Depth, Types, TypeOK
<1>5. QED
  BY <1>1, <1>2, <1>4 DEF Depth

LEMMA WhenIdleLoops ==
  ASSUME Types, QuitWhenIdle
  PROVE  /\ Len(loops') = Depth /\ loops # <<>>
         /\ \A j \in 2..Depth : loops'[j] = loops[j]
         /\ loops'[1].phase = Top.phase /\ loops'[1].did = Top.did
         /\ loops'[1].since = Top.since /\ loops'[1].quit = Top.quit
         /\ loops'[1].called = Top.called
<1>1. 1 \in 1..Depth /\ DOMAIN loops = 1..Depth /\ Depth \in Nat /\ Top \in LoopRecord
      /\ Top = loops[1] /\ loops # <<>>
  BY Facts DEF Types, TypeOK, Depth, QuitWhenIdle
<1> DEFINE r == [Top EXCEPT !.whenIdle = TRUE]
<1>2. /\ r \in LoopRecord /\ r.phase = Top.phase /\ r.did = Top.did
      /\ r.since = Top.since /\ r.called = Top.called /\ r.quit = Top.quit
  BY <1>1 DEF LoopRecord
<1>3. loops' = [loops EXCEPT ![1] = r]
  BY <1>1 DEF QuitWhenIdle
<1> HIDE DEF r
<1>4. Len(loops') = Depth /\ loops'[1] = r /\ \A j \in 2..Depth : loops'[j] = loops[j]
  BY <1>1, <1>2, <1>3 DEF Depth, Types, TypeOK
<1>5. QED
  BY <1>1, <1>2, <1>4

\* NothingIdle is a turn that may also quit.
LEMMA IdleLoops ==
  ASSUME Types, NothingIdle
  PROVE  /\ Len(loops') = Depth /\ loops # <<>>
         /\ \A j \in 2..Depth : loops'[j] = loops[j]
         /\ loops'[1].phase = "wait" /\ loops'[1].did = FALSE
         /\ loops'[1].since = Top.since /\ loops'[1].quit = Top.whenIdle
         /\ loops'[1].called = Top.called
<1>1. 1 \in 1..Depth /\ Depth \in Nat /\ Top.whenIdle \in BOOLEAN /\ loops # <<>>
  BY Facts, InPhaseIs DEF NothingIdle, LoopRecord
<1> DEFINE m == Turn("wait", FALSE)
<1>2. /\ m \in Seq(LoopRecord) /\ Len(m) = Depth
      /\ m[1].phase = "wait" /\ m[1].did = FALSE
      /\ m[1].called = Top.called /\ m[1].since = Top.since
      /\ \A k \in 2..Depth : m[k] = loops[k]
  BY <1>1, TurnLoops, PhaseValues DEF Types, TypeOK
<1>3. loops' = [m EXCEPT ![1].quit = Top.whenIdle]
  BY DEF NothingIdle
<1> HIDE DEF m
<1>4. m[1] \in LoopRecord
  BY <1>1, <1>2
<1> DEFINE r == [m[1] EXCEPT !.quit = Top.whenIdle]
<1>5. /\ r \in LoopRecord /\ r.phase = m[1].phase /\ r.did = m[1].did
      /\ r.since = m[1].since /\ r.called = m[1].called /\ r.quit = Top.whenIdle
  BY <1>1, <1>4 DEF LoopRecord
<1>6. loops' = [m EXCEPT ![1] = r]
  BY <1>1, <1>2, <1>3
<1> HIDE DEF r
<1>7. Len(loops') = Depth /\ loops'[1] = r /\ \A j \in 2..Depth : loops'[j] = loops[j]
  BY <1>1, <1>2, <1>5, <1>6
<1>8. QED
  BY <1>1, <1>2, <1>5, <1>7

\* The loops after the innermost one returns.
LEMMA ReturnLoops ==
  ASSUME Types, RunReturns
  PROVE  /\ loops # <<>> /\ Len(loops') = Depth - 1 /\ Depth >= 1
         /\ \A j \in 2..(Depth - 1) : loops'[j] = loops[j + 1]
         /\ Depth > 1 => /\ loops'[1].phase = loops[2].phase
                         /\ loops'[1].did = loops[2].did
                         /\ loops'[1].since = loops[2].since
                         /\ loops'[1].called = loops[2].called
                         /\ loops'[1].quit = (loops[2].quit \/ loops[2].called)
<1>1. loops # <<>> /\ Depth \in Nat /\ Depth >= 1 /\ Len(running) < Depth
      /\ loops' = AfterRun(Tail(loops))
  BY Facts DEF RunReturns, InPump, Depth, Types, TypeOK
<1> DEFINE q == Tail(loops)
<1>2. /\ q \in Seq(LoopRecord) /\ Len(q) = Depth - 1
      /\ \A j \in 1..(Depth - 1) : q[j] = loops[j + 1] /\ q[j] \in LoopRecord
  BY <1>1 DEF Types, TypeOK, Depth
<1>3. Depth > 1 => q # <<>> /\ Head(q) = loops[2] /\ q[1] = loops[2] /\ loops[2] \in LoopRecord
  <2> HIDE DEF q
  <2> SUFFICES ASSUME Depth > 1
               PROVE  q # <<>> /\ Head(q) = loops[2] /\ q[1] = loops[2] /\ loops[2] \in LoopRecord
    OBVIOUS
  <2>1. 1 \in 1..(Depth - 1)
    BY <1>1
  <2>2. q[1] = loops[2] /\ q[1] \in LoopRecord
    BY <1>2, <2>1
  <2>3. q # <<>> /\ Head(q) = q[1]
    BY <1>1, <1>2
  <2>4. QED
    BY <2>2, <2>3
<1>4. loops' = IF q # <<>> /\ Head(q).called THEN [q EXCEPT ![1].quit = TRUE] ELSE q
  BY <1>1, Zenon DEF AfterRun
<1> HIDE DEF q
<1>5. CASE q # <<>> /\ Head(q).called
  <2>1. Depth > 1
    BY <1>1, <1>2, <1>5
  <2> DEFINE r == [q[1] EXCEPT !.quit = TRUE]
  <2>2. /\ r \in LoopRecord /\ r.phase = q[1].phase /\ r.did = q[1].did
        /\ r.since = q[1].since /\ r.called = q[1].called /\ r.quit = TRUE
    BY <2>1, <1>3 DEF LoopRecord
  <2>3. loops' = [q EXCEPT ![1] = r]
    BY <1>4, <1>5, <1>2, <1>3, <2>1
  <2> HIDE DEF r
  <2>4. Len(loops') = Depth - 1 /\ loops'[1] = r /\ \A j \in 2..(Depth - 1) : loops'[j] = q[j]
    BY <1>1, <1>2, <2>1, <2>2, <2>3
  <2>5. loops[2].called
    BY <1>3, <1>5, <2>1
  <2>6. (loops[2].quit \/ loops[2].called) = TRUE
    BY <2>5
  <2>7. loops'[1].quit = (loops[2].quit \/ loops[2].called)
    BY <2>2, <2>4, <2>6, Zenon
  <2>8. QED
    BY <1>1, <1>2, <1>3, <2>1, <2>2, <2>4, <2>7
<1>6. CASE ~(q # <<>> /\ Head(q).called)
  <2>1. loops' = q
    BY <1>4, <1>6
  <2>2. Depth > 1 => ~loops[2].called
    BY <1>3, <1>6
  <2>3. Depth > 1 => loops[2].quit \in BOOLEAN
    BY <1>3 DEF LoopRecord
  <2>4. Depth > 1 => loops[2].quit = (loops[2].quit \/ loops[2].called)
    BY <2>2, <2>3
  <2>5. QED
    BY <1>1, <1>2, <1>3, <2>1, <2>4
<1>7. QED
  BY <1>5, <1>6

\* The loops after a new one has started.
LEMMA RunLoops ==
  ASSUME Types, NEW u \in BOOLEAN, NEW a \in BOOLEAN, Run(u, a)
  PROVE  /\ Len(loops') = Depth + 1 /\ loops' # <<>>
         /\ \A j \in 1..Depth : loops'[j + 1] = loops[j]
         /\ loops'[1].phase = "work" /\ ~loops'[1].quit /\ ~loops'[1].called
         /\ loops'[1].since = Len(tasks)
<1>1. loops' = <<NewLoop(u)>> \o loops /\ loops \in Seq(LoopRecord) /\ Depth = Len(loops)
  BY DEF Run, Types, TypeOK, Depth
<1>2. NewLoop(u) \in LoopRecord
  BY Facts DEF NewLoop, LoopRecord, Types, TypeOK
<1>3. Len(loops') = Depth + 1 /\ loops' # <<>> /\ loops'[1] = NewLoop(u)
      /\ \A j \in 1..Depth : loops'[j + 1] = loops[j]
  BY <1>1, <1>2
<1>4. QED
  BY <1>3 DEF NewLoop

\* The stack is in order after a step that changes the innermost loop only.
LEMMA StackKept ==
  ASSUME Types, Stack, loops # <<>>, Len(loops') = Depth, pump' = pump,
         Len(tasks') \in Nat, Len(tasks) <= Len(tasks'), loops'[1].since = Top.since,
         \A k \in 2..Depth : /\ loops'[k].phase = loops[k].phase
                             /\ loops'[k].did = loops[k].did
                             /\ loops'[k].since = loops[k].since,
         Len(running') \in {Depth - 1, Depth},
         Len(running') = Depth => loops'[1].phase = "work" \/
                                  (loops'[1].phase \in {"poll", "delayed"} /\ loops'[1].did),
         pump = "default" => loops'[1].phase \notin {"poll", "reset", "awake"},
         loops'[1].phase \in {"reset", "awake"} => ~loops'[1].quit
  PROVE  Stack'
<1>1. Depth' = Depth /\ Depth \in Nat /\ Depth >= 1 /\ Top = loops[1] /\ Len(tasks) \in Nat
  BY Facts DEF Depth
<1>2. \A k \in 2..Depth : k \in 1..Depth /\ Below(k)
  BY <1>1 DEF Below
<1>3. \A k \in 2..Depth : loops[k].phase \in {"work", "poll", "delayed"}
                          /\ (loops[k].phase = "work" \/ loops[k].did)
  BY <1>2 DEF Stack
<1>4. \A k \in 1..Depth : loops[k].since \in Nat /\ loops[k].since <= Len(tasks)
  BY Facts DEF Stack, LoopRecord
<1> SUFFICES ASSUME NEW k \in 1..Depth
             PROVE  /\ Below(k)' => loops'[k].phase = "work"
                              \/ (loops'[k].phase \in {"poll", "delayed"} /\ loops'[k].did)
                    /\ pump = "default" => loops'[k].phase \notin {"poll", "reset", "awake"}
                    /\ loops'[k].phase \in {"reset", "awake"} => ~loops'[k].quit
                    /\ loops'[k].since <= Len(tasks')
  BY <1>1 DEF Stack
<1>5. CASE k = 1
  <2>1. loops'[1].since <= Len(tasks')
    BY <1>1, <1>4
  <2>2. Below(k)' => Len(running') = Depth
    BY <1>1, <1>5 DEF Below
  <2>3. QED
    BY <1>5, <2>1, <2>2
<1>6. CASE k # 1
  <2>1. k \in 2..Depth
    BY <1>1, <1>6
  <2>2. loops'[k].since <= Len(tasks')
    BY <2>1, <1>1, <1>4
  <2>3. pump = "default" => loops[k].phase \notin {"poll", "reset", "awake"}
    BY DEF Stack
  <2>4. QED
    BY <2>1, <2>2, <2>3, <1>3
<1>7. QED
  BY <1>5, <1>6

\* A turn of the pump with no task above it.
LEMMA StackTurn ==
  ASSUME Types, Stack, Pumping, ~Top.quit, UNCHANGED <<pump, tasks>>,
         NEW p \in Phase, NEW d \in BOOLEAN, loops' = Turn(p, d),
         pump = "default" => p \notin {"poll", "reset", "awake"},
         \/ running' = running
         \/ Len(running') = Len(running) + 1
            /\ (p = "work" \/ (p \in {"poll", "delayed"} /\ d))
  PROVE  Stack'
<1>1. /\ Len(loops') = Depth /\ loops'[1].phase = p /\ loops'[1].did = d
      /\ loops'[1].quit = Top.quit /\ loops'[1].since = Top.since
      /\ \A k \in 2..Depth : loops'[k] = loops[k]
  BY TurnLoops DEF Types, TypeOK, Pumping
<1>2. Len(running) = Depth - 1 /\ Depth \in Nat /\ loops # <<>> /\ Len(tasks) \in Nat
  BY Facts DEF Stack, Pumping
<1>3. /\ Len(running') \in {Depth - 1, Depth}
      /\ Len(running') = Depth => p = "work" \/ (p \in {"poll", "delayed"} /\ d)
  BY <1>2
<1>4. QED
  BY <1>1, <1>2, <1>3, StackKept

LEMMA StackPosting ==
  ASSUME Types, Stack, UNCHANGED <<pump, loops, running>>, Len(tasks') \in Nat,
         Len(tasks) <= Len(tasks')
  PROVE  Stack'
<1>1. Depth' = Depth /\ \A k : Below(k)' = Below(k)
  BY DEF Depth, Below
<1>2. \A k \in 1..Depth : loops[k].since \in Nat /\ loops[k].since <= Len(tasks')
  BY Facts DEF Stack, LoopRecord
<1>3. QED
  BY <1>1, <1>2 DEF Stack

LEMMA StackInTask ==
  ASSUME Types, Stack, InTaskStep \/ FinishTask \/ Tick
  PROVE  Stack'
<1>0. /\ Depth \in Nat /\ Len(running) \in Nat /\ Len(tasks) \in Nat
      /\ Depth' = Len(loops') /\ Depth = Len(loops)
  BY Facts DEF Depth
<1>1. ASSUME NEW u \in BOOLEAN, NEW a \in BOOLEAN, Run(u, a) PROVE Stack'
  <2>1. Len(running) = Depth /\ running' = running /\ tasks' = tasks /\ pump' = pump
        /\ (loops # <<>> => pump # "io")
    BY <1>1 DEF Run, InTask, Depth
  <2>2. /\ Len(loops') = Depth + 1 /\ loops'[1].phase = "work" /\ loops'[1].since = Len(tasks)
        /\ \A j \in 1..Depth : loops'[j + 1] = loops[j]
    BY <1>1, RunLoops
  <2>3. pump = "io" => Depth' <= 1
    BY <2>1, <2>2, <1>0 DEF Types, TypeOK
  <2>4. ASSUME NEW k \in 1..(Depth + 1)
        PROVE  /\ Below(k)' => loops'[k].phase = "work"
                         \/ (loops'[k].phase \in {"poll", "delayed"} /\ loops'[k].did)
               /\ pump = "default" => loops'[k].phase \notin {"poll", "reset", "awake"}
               /\ loops'[k].phase \in {"reset", "awake"} => ~loops'[k].quit
               /\ loops'[k].since <= Len(tasks)
    <3>1. CASE k = 1
      BY <3>1, <2>2, <1>0
    <3>2. CASE k # 1
      <4>1. k - 1 \in 1..Depth /\ loops'[k] = loops[k - 1]
        <5>1. k - 1 \in 1..Depth /\ (k - 1) + 1 = k
          BY <3>2, <1>0
        <5>2. QED
          BY <5>1, <2>2
      <4>2. Below(k - 1)
        BY <2>1 DEF Below
      <4>3. QED
        BY <4>1, <4>2 DEF Stack
    <3>3. QED
      BY <3>1, <3>2
  <2>5. Len(running') \in {Depth' - 1, Depth'}
    BY <2>1, <2>2, <1>0
  <2>6. QED
    BY <2>1, <2>2, <2>3, <2>4, <2>5, <1>0 DEF Stack
<1>2. ASSUME NEW k \in DOMAIN loops, Quit(k) PROVE Stack'
  <2>1. Len(running) = Depth /\ UNCHANGED <<pump, tasks, running>>
    BY <1>2 DEF Quit, InTask, Depth
  <2>2. /\ Len(loops') = Depth /\ loops # <<>>
        /\ \A j \in 1..Depth : /\ loops'[j].phase = loops[j].phase
                               /\ loops'[j].did = loops[j].did
                               /\ loops'[j].since = loops[j].since
    BY <1>2, QuitLoops
  <2>3. Top = loops[1] /\ 1 \in 1..Depth /\ \A j \in 2..Depth : j \in 1..Depth
    BY <2>2, <1>0, Facts
  <2>4. Top.phase = "work" \/ (Top.phase \in {"poll", "delayed"} /\ Top.did)
    BY <2>1, <2>3 DEF Stack, Below
  <2>5. pump = "default" => Top.phase \notin {"poll", "reset", "awake"}
    BY <2>3 DEF Stack
  <2>6. QED
    BY <2>1, <2>2, <2>3, <2>4, <2>5, <1>0, StackKept
<1>3. CASE QuitWhenIdle
  <2>1. Len(running) = Depth /\ UNCHANGED <<pump, tasks, running>>
    BY <1>3 DEF QuitWhenIdle, InTask, Depth
  <2>2. /\ Len(loops') = Depth /\ loops # <<>>
        /\ \A j \in 2..Depth : loops'[j] = loops[j]
        /\ loops'[1].phase = Top.phase /\ loops'[1].did = Top.did
        /\ loops'[1].since = Top.since
    BY <1>3, WhenIdleLoops
  <2>3. Top = loops[1] /\ 1 \in 1..Depth
    BY <2>2, <1>0, Facts
  <2>4. Top.phase = "work" \/ (Top.phase \in {"poll", "delayed"} /\ Top.did)
    BY <2>1, <2>3 DEF Stack, Below
  <2>5. pump = "default" => Top.phase \notin {"poll", "reset", "awake"}
    BY <2>3 DEF Stack
  <2>6. QED
    BY <2>1, <2>2, <2>3, <2>4, <2>5, <1>0, StackKept
<1>4. CASE FinishTask
  <2>1. /\ Len(running) = Depth /\ running # <<>> /\ running' = Tail(running) /\ loops' = loops
        /\ pump' = pump /\ tasks' = [tasks EXCEPT ![Head(running)].state = "done"]
        /\ Head(running) \in TaskIds
    BY <1>4 DEF FinishTask, InTask, Depth, Types, TypeOK
  <2>2. Len(running') = Depth - 1 /\ Depth >= 1 /\ loops # <<>>
    BY <2>1, <1>0 DEF Types, TypeOK
  <2>3. Len(tasks') = Len(tasks)
    BY <2>1, StateSet DEF Types, TypeOK
  <2>4. /\ Top = loops[1] /\ 1 \in 1..Depth
        /\ pump = "default" => Top.phase \notin {"poll", "reset", "awake"}
        /\ Top.phase \in {"reset", "awake"} => ~Top.quit
    BY <2>2, <1>0, Facts DEF Stack
  <2>5. QED
    BY <2>1, <2>2, <2>3, <2>4, <1>0, StackKept
<1>5. CASE Tick
  <2>1. UNCHANGED <<pump, loops, running, tasks>>
    BY <1>5 DEF Tick, stackVars
  <2>2. QED
    BY <2>1, <1>0, StackPosting
<1>6. QED
  BY <1>1, <1>2, <1>3, <1>4, <1>5 DEF InTaskStep

LEMMA StackPump ==
  ASSUME Types, Stack, PumpStep
  PROVE  Stack'
<1>0. /\ Depth \in Nat /\ Len(running) \in Nat /\ Len(tasks) \in Nat
      /\ Depth' = Len(loops') /\ Depth = Len(loops) /\ pump \in {"default", "io"}
  BY Facts, ConstantsAssumption DEF Depth, Types, TypeOK
<1>00. /\ pump = "default" => AfterWork \notin {"poll", "reset", "awake"}
       /\ AfterWork \in {"poll", "delayed"}
  BY DEF AfterWork
<1>1. CASE RunReturns
  <2>1. /\ loops # <<>> /\ Len(loops') = Depth - 1 /\ Depth >= 1
        /\ \A j \in 2..(Depth - 1) : loops'[j] = loops[j + 1]
        /\ Depth > 1 => /\ loops'[1].phase = loops[2].phase
                        /\ loops'[1].did = loops[2].did
                        /\ loops'[1].since = loops[2].since
    BY <1>1, ReturnLoops
  <2>2. UNCHANGED <<pump, running, tasks>> /\ Len(running) < Depth
    BY <1>1 DEF RunReturns, InPump, Depth
  <2>3. Len(running') = Depth' /\ (pump = "io" => Depth' <= 1)
    BY <2>1, <2>2, <1>0 DEF Stack
  <2>4. ASSUME NEW k \in 1..(Depth - 1)
        PROVE  /\ loops'[k].phase = loops[k + 1].phase /\ loops'[k].did = loops[k + 1].did
               /\ loops'[k].since = loops[k + 1].since
               /\ k + 1 \in 1..Depth /\ Below(k + 1)
    <3>1. k + 1 \in 1..Depth /\ k + 1 > 1 /\ Depth > 1
      BY <1>0
    <3>2. CASE k = 1
      BY <3>1, <3>2, <2>1 DEF Below
    <3>3. CASE k # 1
      <4>1. k \in 2..(Depth - 1)
        BY <3>3, <1>0
      <4>2. QED
        BY <4>1, <3>1, <2>1 DEF Below
    <3>4. QED
      BY <3>2, <3>3
  <2>5. ASSUME NEW k \in 1..(Depth - 1)
        PROVE  /\ loops'[k].phase = "work"
                    \/ (loops'[k].phase \in {"poll", "delayed"} /\ loops'[k].did)
               /\ pump = "default" => loops'[k].phase \notin {"poll", "reset", "awake"}
               /\ loops'[k].since <= Len(tasks)
    BY <2>4 DEF Stack
  <2>6. \A k \in 1..(Depth - 1) : ~(loops'[k].phase \in {"reset", "awake"})
    BY <2>5
  <2>7. QED
    BY <2>1, <2>2, <2>3, <2>5, <2>6, <1>0 DEF Stack
<1>2. CASE ReloadWorkQueue \/ DelayTask
  <2>1. UNCHANGED <<pump, loops, running, tasks>>
    BY <1>2 DEF ReloadWorkQueue, DelayTask, stackVars
  <2>2. QED
    BY <2>1, <1>0, StackPosting
<1>3. ASSUME NEW t, RunTask(t), t \in TaskIds
      PROVE  Len(tasks') = Len(tasks) /\ Len(running') = Len(running) + 1
  BY <1>3, StateSet, <1>0 DEF RunTask, Types, TypeOK
<1>4. ASSUME NEW t \in TaskIds, RunTask(t), Pumping, ~Top.quit, pump' = pump, NEW p \in Phase,
             NEW d \in BOOLEAN, loops' = Turn(p, d), p = "work" \/ (p \in {"poll", "delayed"} /\ d),
             pump = "default" => p # "poll"
      PROVE  Stack'
  <2>1. /\ Len(loops') = Depth /\ loops'[1].phase = p /\ loops'[1].did = d
        /\ loops'[1].since = Top.since /\ \A k \in 2..Depth : loops'[k] = loops[k]
    BY <1>4, TurnLoops DEF Types, TypeOK, Pumping
  <2>2. Len(running) = Depth - 1 /\ loops # <<>>
    BY <1>0, <1>4 DEF Stack, Pumping
  <2>3. Len(tasks') = Len(tasks) /\ Len(running') = Depth
    BY <1>3, <1>4, <2>2, <1>0
  <2>4. p \notin {"reset", "awake"}
    BY <1>4
  <2>5. QED
    BY <1>4, <2>1, <2>2, <2>3, <2>4, <1>0, StackKept
<1>5. CASE DoWork
  <2>1. Pumping /\ ~Top.quit /\ pump' = pump
    BY <1>5, InPhaseIs DEF DoWork
  <2>2. CASE MayRun(Head(work))
    <3>1. RunTask(Head(work)) /\ loops' = Turn(AfterWork, TRUE) /\ Head(work) \in TaskIds
      BY <1>5, <2>2 DEF DoWork, Types, TypeOK
    <3>2. QED
      BY <3>1, <2>1, <1>4, <1>00, PhaseValues
  <2>3. CASE ~MayRun(Head(work))
    <3>1. UNCHANGED <<pump, loops, running, tasks>>
      BY <1>5, <2>3 DEF DoWork, Defer
    <3>2. QED
      BY <3>1, <1>0, StackPosting
  <2>4. QED
    BY <2>2, <2>3
<1>6. CASE DoNoWork
  <2>1. Pumping /\ ~Top.quit
    BY <1>6, InPhaseIs DEF DoNoWork
  <2>2. loops' = Turn(AfterWork, FALSE) /\ UNCHANGED <<pump, tasks, running>>
    BY <1>6 DEF DoNoWork
  <2>3. QED
    BY <2>1, <2>2, <1>00, PhaseValues, StackTurn
<1>7. CASE TakePacket
  <2>1. Pumping /\ ~Top.quit /\ Top.phase = "poll" /\ Top.did \in BOOLEAN
    BY <1>7, InPhaseIs, Facts DEF TakePacket
  <2>2. loops' \in {Turn("reset", Top.did), Turn("delayed", Top.did)}
        /\ UNCHANGED <<pump, tasks, running>>
    BY <1>7 DEF TakePacket
  <2>3. pump # "default"
    BY <2>1, Facts, <1>0 DEF Stack, Pumping
  <2>4. QED
    BY <2>1, <2>2, <2>3, PhaseValues, StackTurn
<1>8. CASE ResetHaveWork \/ ResetAwake
  <2>1. Pumping /\ ~Top.quit
    BY <1>8, InPhaseIs DEF ResetHaveWork, ResetAwake
  <2>2. loops' \in {Turn("delayed", TRUE), Turn("work", FALSE)}
        /\ UNCHANGED <<pump, tasks, running>>
    BY <1>8 DEF ResetHaveWork, ResetAwake
  <2>3. QED
    BY <2>1, <2>2, PhaseValues, StackTurn
<1>9. CASE NothingDelayed \/ NotYet
  <2>1. Pumping /\ ~Top.quit /\ Top.did \in BOOLEAN
    BY <1>9, InPhaseIs, Facts DEF NothingDelayed, NotYet
  <2>2. loops' \in {Turn("idle", FALSE), Turn("work", FALSE)}
        /\ UNCHANGED <<pump, tasks, running>>
    BY <1>9, <2>1, PhaseValues DEF NothingDelayed, NotYet
  <2>3. QED
    BY <2>1, <2>2, PhaseValues, StackTurn
<1>10. CASE DoDelayedWork
  <2>1. Pumping /\ ~Top.quit /\ Top.did \in BOOLEAN /\ pump' = pump
    BY <1>10, InPhaseIs, Facts DEF DoDelayedWork
  <2>2. Earliest(delayed) \in TaskIds
    BY <1>10, EarliestIs DEF DoDelayedWork, Types, TypeOK
  <2>3. CASE MayRun(Earliest(delayed))
    <3>1. RunTask(Earliest(delayed)) /\ loops' = Turn("work", FALSE)
      BY <1>10, <2>3, PhaseValues DEF DoDelayedWork
    <3>2. QED
      BY <3>1, <2>1, <2>2, <1>4, PhaseValues
  <2>4. CASE ~MayRun(Earliest(delayed))
    <3>1. loops' \in {Turn("idle", FALSE), Turn("work", FALSE)} /\ UNCHANGED <<tasks, running>>
      BY <1>10, <2>4, <2>1, PhaseValues DEF DoDelayedWork, Defer
    <3>2. QED
      BY <3>1, <2>1, PhaseValues, StackTurn
  <2>5. QED
    BY <2>3, <2>4
<1>11. CASE DoIdleWork
  <2>1. Pumping /\ ~Top.quit /\ pump' = pump
    BY <1>11, InPhaseIs DEF DoIdleWork
  <2>2. Head(deferred) \in TaskIds
    BY <1>11 DEF DoIdleWork, HasDeferredWork, Types, TypeOK
  <2>3. RunTask(Head(deferred)) /\ loops' = Turn("work", FALSE)
    BY <1>11 DEF DoIdleWork
  <2>4. QED
    BY <2>1, <2>2, <2>3, <1>4, PhaseValues
<1>12. CASE NothingIdle
  <2>1. Pumping /\ UNCHANGED <<pump, tasks, running>>
    BY <1>12, InPhaseIs DEF NothingIdle
  <2>2. /\ Len(loops') = Depth /\ loops # <<>>
        /\ \A j \in 2..Depth : loops'[j] = loops[j]
        /\ loops'[1].phase = "wait" /\ loops'[1].did = FALSE /\ loops'[1].since = Top.since
    BY <1>12, IdleLoops
  <2>3. Len(running) = Depth - 1 /\ Len(running) # Depth
    BY <2>1, <1>0 DEF Stack, Pumping
  <2>4. QED
    BY <2>1, <2>2, <2>3, <1>0, StackKept
<1>13. CASE GoToSleep \/ WakeUp \/ TimeOut
  <2>1. Pumping /\ ~Top.quit /\ UNCHANGED <<pump, tasks, running>>
    BY <1>13, InPhaseIs DEF GoToSleep, WakeUp, TimeOut
  <2>2. \/ loops' \in {Turn("asleep", FALSE), Turn("work", FALSE)}
        \/ pump = "io" /\ loops' = Turn("awake", FALSE)
    BY <1>13 DEF GoToSleep, WakeUp, TimeOut
  <2>3. QED
    BY <2>1, <2>2, PhaseValues, StackTurn
<1>14. QED
  BY <1>1, <1>2, <1>5, <1>6, <1>7, <1>8, <1>9, <1>10, <1>11, <1>12, <1>13 DEF PumpStep

\* Who posts touches the queue, its own step and the wakeup only.
LEMMA PostingLeaves ==
  ASSUME Types, NEW x \in Thread, Posts(x) \/ PostOn(x)
  PROVE  /\ UNCHANGED <<pump, work, delayed, deferred, allowed, loops, running, runs, timer,
                        recent, clock>>
         /\ Len(tasks') \in Nat /\ Len(tasks) <= Len(tasks')
<1>1. ASSUME NEW k \in Kinds, PostTask(x, k)
      PROVE  \E t \in TaskRecord : Push(x, t)
  <2>1. Task(k, 0, Len(tasks)) \in TaskRecord
    BY Facts, ConstantsAssumption DEF Task, TaskRecord
  <2>2. QED
    BY <1>1, <2>1 DEF PostTask
<1>2. ASSUME PushDelayed(x)
      PROVE  \E t \in TaskRecord : Push(x, t)
  <2>1. posting[x].step = "push" /\ posting[x] \in PostingRecord
    BY <1>2 DEF PushDelayed, Posting, Types
  <2>2. posting[x].task \in TaskRecord
    BY <2>1 DEF PostingRecord
  <2>3. QED
    BY <1>2, <2>2 DEF PushDelayed
<1>3. ASSUME NEW t \in TaskRecord, Push(x, t)
      PROVE  /\ UNCHANGED <<pump, work, delayed, deferred, allowed, loops, running, runs, timer,
                            recent, clock>>
             /\ Len(tasks') \in Nat /\ Len(tasks) <= Len(tasks')
  <2>1. Len(tasks') = Len(tasks) + 1 /\ Len(tasks) \in Nat
    BY <1>3, PushTypes
  <2>2. QED
    BY <1>3, <2>1 DEF Push, stackVars, timeVars
<1>4. CASE \E k \in Kinds : PostDelayedTask(x, k)
  BY <1>4, Facts DEF PostDelayedTask, queueVars, stackVars, timeVars
<1>5. CASE ScheduleWork(x) \/ PostPacket(x)
  BY <1>5, Facts DEF ScheduleWork, PostPacket, queueVars, stackVars, timeVars
<1>6. QED
  BY <1>1, <1>2, <1>3, <1>4, <1>5 DEF Posts, PostOn

(***************************************************************************)
(* The wakeup of the IO pump.                                              *)
(***************************************************************************)
LEMMA TokenSame ==
  ASSUME OneToken, Packets' = Packets, UNCHANGED <<wakeups, haveWork, pump>>, Taking' <=> Taking
  PROVE  OneToken'
  BY DEF OneToken

\* A loop under a task is not taking a packet, nor one that returns.
LEMMA NotTaking ==
  ASSUME Types, Stack, InTask \/ (InPump /\ Top.quit)
  PROVE  ~Taking
<1>1. SUFFICES ASSUME Taking PROVE FALSE
  OBVIOUS
<1>2. Top = loops[1] /\ 1 \in 1..Depth /\ Top.phase \in {"reset", "awake"}
  BY <1>1, Facts DEF Taking
<1>3. ~Top.quit /\ (Below(1) => Top.phase \notin {"reset", "awake"})
  BY <1>2 DEF Stack
<1>4. QED
  BY <1>2, <1>3 DEF InTask, Below, Depth

\* The steps of posting but the last two leave the packets alone.
LEMMA PacketsSame ==
  ASSUME Types, NEW x \in Thread, ~Posting(x, "packet"), NEW r \in PostingRecord,
         r.step # "packet", posting' = [posting EXCEPT ![x] = r]
  PROVE  Packets' = Packets
  BY DEF Packets, Posting, Types

LEMMA TokenPosting ==
  ASSUME Types, OneToken, NEW x \in Thread, Posts(x) \/ PostOn(x)
  PROVE  OneToken'
<1>0. UNCHANGED <<pump, loops>> /\ (Taking' <=> Taking)
  BY PostingLeaves DEF Taking, Top
<1>00. pump \in {"default", "io"} /\ wakeups \in 0..1 /\ haveWork \in BOOLEAN
  BY ConstantsAssumption DEF Types, TypeOK
<1>1. ASSUME NEW t, Push(x, t), Idle(x) \/ Posting(x, "push")
      PROVE  OneToken'
  <2>1. ~Posting(x, "packet")
    BY <1>1 DEF Idle, Posting, NotPosting
  <2>2. GoesOn(x, Step("schedule")) \/ GoesOn(x, NotPosting)
    BY <1>1 DEF Push
  <2>3. Packets' = Packets
    BY <2>1, <2>2, PacketsSame, NamesType DEF GoesOn
  <2>4. UNCHANGED <<wakeups, haveWork>>
    BY <1>1 DEF Push, wakeupVars
  <2>5. QED
    BY <2>3, <2>4, <1>0, TokenSame
<1>2. CASE Posts(x) \/ PushDelayed(x)
  <2>1. CASE \E k \in Kinds : PostTask(x, k)
    BY <2>1, <1>1 DEF PostTask, CanPost
  <2>2. CASE PushDelayed(x)
    BY <2>2, <1>1 DEF PushDelayed
  <2>3. ASSUME NEW k \in Kinds, PostDelayedTask(x, k) PROVE OneToken'
    <3>1. ~Posting(x, "packet")
      BY <2>3 DEF PostDelayedTask, CanPost, Idle, Posting, NotPosting
    <3>2. clock + k.delay \in Nat
      BY ConstantsAssumption DEF Types, TypeOK
    <3>3. Task(k, clock + k.delay, Len(tasks)) \in TaskRecord
      BY <3>2, Facts, ConstantsAssumption DEF Task, TaskRecord
    <3>4. Packets' = Packets
      BY <2>3, <3>1, <3>3, PacketsSame, NamesType DEF PostDelayedTask, GoesOn
    <3>5. UNCHANGED <<wakeups, haveWork>>
      BY <2>3 DEF PostDelayedTask, wakeupVars
    <3>6. QED
      BY <3>4, <3>5, <1>0, TokenSame
  <2>4. QED
    BY <1>2, <2>1, <2>2, <2>3 DEF Posts
<1>3. CASE ScheduleWork(x)
  <2>1. x \notin Packets /\ posting[x].step = "schedule"
    BY <1>3 DEF ScheduleWork, Posting, Packets
  <2>2. CASE pump = "default"
    <3>1. GoesOn(x, NotPosting) /\ wakeups' = 1
      BY <1>3, <2>2 DEF ScheduleWork
    <3>2. Packets' = {}
      BY <2>1, <2>2, <3>1, PacketsSame, NamesType DEF GoesOn, Packets, OneToken, Posting
    <3>3. QED
      BY <2>2, <3>2, <1>0 DEF OneToken
  <2>3. CASE pump = "io" /\ haveWork
    <3>1. GoesOn(x, NotPosting) /\ wakeups' = wakeups /\ haveWork' = TRUE
      BY <1>3, <2>3 DEF ScheduleWork, AfterExchange
    <3>2. Packets' = Packets
      BY <2>1, <3>1, PacketsSame, NamesType DEF GoesOn, Packets, Posting
    <3>3. QED
      BY <2>3, <3>1, <3>2, <1>0 DEF OneToken
  <2>4. CASE pump = "io" /\ ~haveWork
    <3>1. GoesOn(x, Step("packet")) /\ wakeups' = wakeups /\ haveWork' = TRUE
      BY <1>3, <2>4 DEF ScheduleWork, AfterExchange
    <3>2. Packets = {} /\ ~(wakeups > 0) /\ ~Taking
      BY <2>4 DEF OneToken
    <3>3. Packets' = {x}
      BY <3>1, <3>2, NamesType DEF GoesOn, Packets, Posting, Types
    <3>4. QED
      BY <2>4, <3>1, <3>2, <3>3, <1>0 DEF OneToken
  <2>5. QED
    BY <2>2, <2>3, <2>4, <1>00
<1>4. CASE PostPacket(x)
  <2>1. x \in Packets /\ GoesOn(x, NotPosting) /\ wakeups' = wakeups + 1 /\ haveWork' = haveWork
    BY <1>4 DEF PostPacket, Packets
  <2>2. Packets = {x} /\ ~(wakeups > 0) /\ ~Taking /\ pump = "io" /\ haveWork
    BY <2>1, <1>00 DEF OneToken
  <2>3. Packets' = {}
    BY <2>1, <2>2, NamesType DEF GoesOn, Packets, Posting, Types
  <2>4. wakeups' > 0
    BY <2>1, <1>00
  <2>5. QED
    BY <2>1, <2>2, <2>3, <2>4, <1>0 DEF OneToken
<1>5. QED
  BY <1>2, <1>3, <1>4 DEF PostOn

LEMMA TokenInTask ==
  ASSUME Types, Stack, OneToken, InTaskStep \/ FinishTask \/ Tick
  PROVE  OneToken'
<1>1. ASSUME NEW u \in BOOLEAN, NEW a \in BOOLEAN, Run(u, a) PROVE OneToken'
  <2>1. InTask /\ UNCHANGED <<wakeups, haveWork, pump>>
        /\ (GoesOn(Loop, Step("schedule")) \/ GoesOn(Loop, NotPosting))
    BY <1>1 DEF Run, wakeupVars
  <2>2. ~Posting(Loop, "packet") /\ Loop \in Thread
    BY <2>1 DEF InTask, Idle, NotPosting, Posting, Thread
  <2>3. Packets' = Packets
    BY <2>1, <2>2, PacketsSame, NamesType DEF GoesOn
  <2>4. ~Taking
    BY <2>1, NotTaking
  <2>5. ~Taking'
    <3>1. loops' # <<>> /\ loops'[1].phase = "work" /\ Head(loops') = loops'[1]
      BY <1>1, RunLoops, InTaskTypes DEF Run
    <3>2. QED
      BY <3>1 DEF Taking, Top
  <2>6. QED
    BY <2>1, <2>3, <2>4, <2>5, TokenSame
<1>2. CASE (\E k \in DOMAIN loops : Quit(k)) \/ QuitWhenIdle
  <2>1. InTask /\ UNCHANGED <<wakeups, haveWork, pump, posting>>
    BY <1>2 DEF Quit, QuitWhenIdle, wakeupVars
  <2>2. ~Taking
    BY <2>1, NotTaking
  <2>3. loops # <<>> /\ 1 \in 1..Depth /\ Top = loops[1]
    BY <1>2, QuitLoops, WhenIdleLoops, Facts
  <2>4. loops'[1].phase = Top.phase /\ Len(loops') = Depth
    BY <1>2, <2>3, QuitLoops, WhenIdleLoops
  <2>5. Types'
    BY <1>2, InTaskTypes DEF InTaskStep
  <2>6. ~Taking'
    BY SMTT(30), <2>2, <2>3, <2>4, <2>5 DEF Taking, Top, Types, TypeOK
  <2>7. Packets' = Packets
    BY <2>1 DEF Packets, Posting
  <2>8. QED
    BY <2>1, <2>2, <2>6, <2>7, TokenSame
<1>3. CASE FinishTask \/ Tick
  <2>1. UNCHANGED <<wakeups, haveWork, pump, posting, loops>>
    BY <1>3 DEF FinishTask, Tick, wakeupVars, stackVars
  <2>2. Packets' = Packets /\ (Taking' <=> Taking)
    BY <2>1 DEF Packets, Posting, Taking, Top
  <2>3. QED
    BY <2>1, <2>2, TokenSame
<1>4. QED
  BY <1>1, <1>2, <1>3 DEF InTaskStep

\* The innermost loop after a turn.
LEMMA TopTurn ==
  ASSUME Types, loops # <<>>, NEW p \in Phase, NEW d \in BOOLEAN, loops' = Turn(p, d)
  PROVE  /\ loops' # <<>> /\ Depth' = Depth /\ Top'.phase = p /\ Top'.did = d
         /\ Top'.quit = Top.quit /\ Top'.called = Top.called /\ Top'.since = Top.since
         /\ Top' = loops'[1] /\ \A k \in 2..Depth : loops'[k] = loops[k]
<1>1. LET m == Turn(p, d) IN
         /\ m \in Seq(LoopRecord) /\ Len(m) = Depth /\ m # <<>> /\ Head(m) = m[1]
         /\ m[1].phase = p /\ m[1].did = d
         /\ m[1].quit = Top.quit /\ m[1].called = Top.called /\ m[1].since = Top.since
         /\ \A k \in 2..Depth : m[k] = loops[k]
  BY TurnLoops DEF Types, TypeOK
<1>2. QED
  BY <1>1 DEF Top, Depth

\* What each step of a pump does to the innermost loop, if it does not return.
LEMMA PumpTurns ==
  ASSUME Types, PumpStep, ~RunReturns
  PROVE  /\ loops # <<>> /\ Pumping /\ ~Top.quit /\ Idle(Loop)
         /\ \/ loops' = loops /\ Top.phase = "work"
            \/ NothingIdle /\ Top.phase = "idle"
            \/ \E p \in Phase, d \in BOOLEAN :
                 /\ loops' = Turn(p, d)
                 /\ Top.phase \in {"work", "delayed", "idle", "wait"} =>
                      p \notin {"reset", "awake"}
<1> USE PhaseValues
<1>1. CASE ReloadWorkQueue \/ DelayTask
  BY <1>1, InPhaseIs DEF ReloadWorkQueue, DelayTask, stackVars
<1>2. CASE DoWork
  <2>1. loops' = loops \/ loops' = Turn(AfterWork, TRUE)
    BY <1>2 DEF DoWork
  <2>2. AfterWork \notin {"reset", "awake"}
    BY DEF AfterWork
  <2>3. QED
    BY <1>2, <2>1, <2>2, InPhaseIs DEF DoWork
<1>3. CASE DoNoWork
  <2>1. AfterWork \notin {"reset", "awake"}
    BY DEF AfterWork
  <2>2. QED
    BY <1>3, <2>1, InPhaseIs DEF DoNoWork
<1>4. CASE TakePacket
  <2>1. loops # <<>> /\ Top.phase = "poll" /\ Pumping /\ ~Top.quit /\ Idle(Loop)
        /\ Top.did \in BOOLEAN
    BY <1>4, InPhaseIs, Facts DEF TakePacket
  <2>2. loops' \in {Turn("reset", Top.did), Turn("delayed", Top.did)}
    BY <1>4 DEF TakePacket
  <2>3. QED
    BY <2>1, <2>2
<1>5. CASE ResetHaveWork \/ ResetAwake
  BY <1>5, InPhaseIs DEF ResetHaveWork, ResetAwake
<1>6. CASE NothingDelayed \/ NotYet
  <2>1. loops # <<>> /\ Pumping /\ ~Top.quit /\ Idle(Loop) /\ Top.did \in BOOLEAN
    BY <1>6, InPhaseIs, Facts DEF NothingDelayed, NotYet
  <2>2. loops' \in {Turn("work", FALSE), Turn("idle", FALSE)}
    BY <1>6, <2>1 DEF NothingDelayed, NotYet
  <2>3. QED
    BY <2>1, <2>2
<1>7. CASE DoDelayedWork
  <2>1. loops # <<>> /\ Pumping /\ ~Top.quit /\ Idle(Loop) /\ Top.did \in BOOLEAN
    BY <1>7, InPhaseIs, Facts DEF DoDelayedWork
  <2>2. loops' = AfterDelayed(TRUE) \/ loops' = AfterDelayed(Top.did)
    BY <1>7 DEF DoDelayedWork
  <2>3. loops' \in {Turn("work", FALSE), Turn("idle", FALSE)}
    BY <2>1, <2>2
  <2>4. QED
    BY <2>1, <2>3
<1>8. CASE DoIdleWork
  BY <1>8, InPhaseIs DEF DoIdleWork
<1>9. CASE NothingIdle
  BY <1>9, InPhaseIs DEF NothingIdle
<1>10. CASE GoToSleep
  BY <1>10, InPhaseIs DEF GoToSleep
<1>11. CASE WakeUp \/ TimeOut
  <2>1. loops # <<>> /\ Top.phase = "asleep" /\ Pumping /\ ~Top.quit /\ Idle(Loop)
    BY <1>11, InPhaseIs DEF WakeUp, TimeOut
  <2>2. loops' \in {Turn("awake", FALSE), Turn("work", FALSE)}
    BY <1>11 DEF WakeUp, TimeOut
  <2>3. QED
    BY <2>1, <2>2
<1>12. QED
  BY <1>1, <1>2, <1>3, <1>4, <1>5, <1>6, <1>7, <1>8, <1>9, <1>10, <1>11 DEF PumpStep

LEMMA TokenPump ==
  ASSUME Types, Stack, OneToken, PumpStep
  PROVE  OneToken'
<1> USE PhaseValues
<1>0. pump \in {"default", "io"} /\ wakeups \in 0..1
  BY ConstantsAssumption DEF Types, TypeOK
<1>1. CASE RunReturns
  <2>1. UNCHANGED <<wakeups, haveWork, pump, posting>> /\ InPump /\ Top.quit
    BY <1>1 DEF RunReturns, wakeupVars
  <2>2. ~Taking
    BY <2>1, NotTaking
  <2>3. ~Taking'
    <3>1. Depth > 1 => loops'[1].phase = loops[2].phase /\ 2 \in 1..Depth /\ Below(2)
      BY <1>1, ReturnLoops, Facts DEF Below
    <3>2. Depth > 1 => loops'[1].phase \notin {"reset", "awake"}
      BY <3>1 DEF Stack
    <3>3. Len(loops') = Depth - 1 /\ Depth \in Nat
      BY <1>1, ReturnLoops, Facts
    <3>4. loops' \in Seq(LoopRecord)
      BY <1>1, PumpTypes DEF PumpStep, Types, TypeOK
    <3>5. loops' # <<>> => Depth > 1 /\ Head(loops') = loops'[1]
      BY <3>3, <3>4
    <3>6. QED
      BY <3>2, <3>5 DEF Taking, Top
  <2>4. Packets' = Packets
    BY <2>1 DEF Packets, Posting
  <2>5. QED
    BY <2>1, <2>2, <2>3, <2>4, TokenSame
<1>2. CASE TakePacket
  <2>1. /\ loops # <<>> /\ Top.phase = "poll" /\ Top.did \in BOOLEAN /\ ~Taking
        /\ UNCHANGED <<haveWork, pump, posting>>
    BY <1>2, InPhaseIs, Facts DEF TakePacket, Taking
  <2>2. Packets' = Packets
    BY <2>1 DEF Packets, Posting
  <2>3. CASE wakeups > 0
    <3>1. wakeups' = 0 /\ loops' = Turn("reset", Top.did)
      BY <1>2, <2>3, <1>0 DEF TakePacket
    <3>2. Taking'
      BY <3>1, <2>1, TopTurn DEF Taking
    <3>3. QED
      BY <2>1, <2>2, <2>3, <3>1, <3>2 DEF OneToken
  <2>4. CASE ~(wakeups > 0)
    <3>1. wakeups' = wakeups /\ loops' = Turn("delayed", Top.did)
      BY <1>2, <2>4 DEF TakePacket
    <3>2. ~Taking'
      BY <3>1, <2>1, TopTurn DEF Taking
    <3>3. QED
      BY <2>1, <2>2, <3>1, <3>2, TokenSame
  <2>5. QED
    BY <2>3, <2>4
<1>3. CASE ResetHaveWork \/ ResetAwake
  <2>1. /\ loops # <<>> /\ Taking /\ haveWork' = FALSE /\ UNCHANGED <<wakeups, pump, posting>>
        /\ loops' \in {Turn("delayed", TRUE), Turn("work", FALSE)}
    BY <1>3, InPhaseIs DEF ResetHaveWork, ResetAwake, Taking
  <2>2. ~Taking'
    BY <2>1, TopTurn DEF Taking
  <2>3. Packets' = Packets /\ Packets = {}
    BY <2>1 DEF Packets, Posting, OneToken
  <2>4. QED
    BY <2>1, <2>2, <2>3 DEF OneToken
<1>4. CASE WakeUp
  <2>1. /\ loops # <<>> /\ ~Taking /\ wakeups = 1 /\ wakeups' = 0
        /\ UNCHANGED <<haveWork, pump, posting>>
        /\ loops' = Turn(IF pump = "io" THEN "awake" ELSE "work", FALSE)
    BY <1>4, <1>0, InPhaseIs DEF WakeUp, Taking
  <2>2. Taking' <=> pump = "io"
    <3>1. CASE pump = "io"
      BY <2>1, <3>1, TopTurn DEF Taking
    <3>2. CASE pump # "io"
      BY <2>1, <3>2, TopTurn DEF Taking
    <3>3. QED
      BY <3>1, <3>2
  <2>3. Packets' = Packets
    BY <2>1 DEF Packets, Posting
  <2>4. QED
    BY <2>1, <2>2, <2>3, <1>0 DEF OneToken
<1>5. CASE ~(RunReturns \/ TakePacket \/ ResetHaveWork \/ ResetAwake \/ WakeUp)
  <2>1. UNCHANGED <<wakeups, haveWork, pump, posting>>
    BY <1>5 DEF PumpStep, ReloadWorkQueue, DelayTask, DoWork, DoNoWork, NothingDelayed, NotYet,
                DoDelayedWork, DoIdleWork, NothingIdle, GoToSleep, TimeOut, wakeupVars
  <2>2. loops # <<>> /\ Top.phase \in {"work", "delayed", "idle", "wait", "asleep"}
    BY <1>5, InPhaseIs DEF PumpStep, ReloadWorkQueue, DelayTask, DoWork, DoNoWork,
                NothingDelayed, NotYet, DoDelayedWork, DoIdleWork, NothingIdle, GoToSleep, TimeOut
  <2>3. ~Taking
    BY <2>2 DEF Taking
  <2>4. ~Taking'
    <3>1. CASE loops' = loops
      BY <3>1, <2>3 DEF Taking, Top
    <3>2. CASE NothingIdle
      <4>1. loops'[1].phase = "wait" /\ Len(loops') = Depth /\ loops' \in Seq(LoopRecord)
        BY <3>2, IdleLoops, PumpTypes DEF PumpStep, Types, TypeOK
      <4>2. loops' # <<>> /\ Head(loops') = loops'[1]
        BY <4>1, <2>2, Facts
      <4>3. QED
        BY <4>1, <4>2 DEF Taking, Top
    <3>3. CASE TimeOut
      <4>1. loops' = Turn("work", FALSE)
        BY <3>3 DEF TimeOut
      <4>2. QED
        BY <4>1, <2>2, TopTurn DEF Taking
    <3>4. CASE \E p \in Phase, d \in BOOLEAN : loops' = Turn(p, d) /\ p \notin {"reset", "awake"}
      BY <3>4, <2>2, TopTurn DEF Taking
    <3>5. Top.phase = "asleep" => TimeOut
      <4>1. TimeOut \/ \E p \in {"work", "delayed", "idle", "wait"} : InPhase(p)
        BY <1>5 DEF PumpStep, ReloadWorkQueue, DelayTask, DoWork, DoNoWork,
                NothingDelayed, NotYet, DoDelayedWork, DoIdleWork, NothingIdle, GoToSleep
      <4>2. QED
        BY <4>1, InPhaseIs
    <3>6. QED
      BY <1>5, <2>2, <3>1, <3>2, <3>3, <3>4, <3>5, PumpTurns
  <2>5. Packets' = Packets
    BY <2>1 DEF Packets, Posting
  <2>6. QED
    BY <2>1, <2>3, <2>4, <2>5, TokenSame
<1>6. QED
  BY <1>1, <1>2, <1>3, <1>4, <1>5

(***************************************************************************)
(* The queues.                                                             *)
(***************************************************************************)

\* Appending to a sequence adds to its elements; its tail has lost at most the head.
LEMMA AppendTail ==
  ASSUME NEW S, NEW q \in Seq(S)
  PROVE  /\ \A e \in S : ToSet(Append(q, e)) = ToSet(q) \cup {e}
         /\ q # <<>> => /\ ToSet(q) \subseteq ToSet(Tail(q)) \cup {Head(q)}
                        /\ ToSet(Tail(q)) \subseteq ToSet(q) /\ Head(q) \in ToSet(q)
<1>1. ASSUME NEW e \in S PROVE ToSet(Append(q, e)) = ToSet(q) \cup {e}
  <2>1. /\ Append(q, e) \in Seq(S) /\ Len(Append(q, e)) = Len(q) + 1 /\ Len(q) \in Nat
        /\ Append(q, e)[Len(q) + 1] = e /\ \A i \in 1..Len(q) : Append(q, e)[i] = q[i]
    OBVIOUS
  <2>2. DOMAIN Append(q, e) = 1..(Len(q) + 1) /\ DOMAIN q = 1..Len(q)
    BY <2>1
  <2>3. QED
    BY <2>1, <2>2 DEF ToSet
<1>2. ASSUME q # <<>>
      PROVE  /\ ToSet(q) \subseteq ToSet(Tail(q)) \cup {Head(q)}
             /\ ToSet(Tail(q)) \subseteq ToSet(q) /\ Head(q) \in ToSet(q)
  <2>1. /\ Len(q) \in Nat /\ Len(q) >= 1 /\ DOMAIN q = 1..Len(q) /\ Head(q) = q[1]
        /\ DOMAIN Tail(q) = 1..(Len(q) - 1)
        /\ \A i \in 1..(Len(q) - 1) : Tail(q)[i] = q[i + 1]
    BY <1>2
  <2>2. ASSUME NEW i \in 1..Len(q), i # 1 PROVE q[i] \in ToSet(Tail(q))
    <3>1. i - 1 \in 1..(Len(q) - 1) /\ Tail(q)[i - 1] = q[i]
      BY <2>1, <2>2
    <3>2. QED
      BY <3>1, <2>1 DEF ToSet
  <2>3. QED
    BY <2>1, <2>2 DEF ToSet
<1>3. QED
  BY <1>1, <1>2

\* What the tasks keep in a step that adds none.
SameTasks == /\ TaskIds' = TaskIds /\ Len(tasks') = Len(tasks)
             /\ \A t \in TaskIds : /\ tasks'[t].nestable = tasks[t].nestable
                                   /\ tasks'[t].delay = tasks[t].delay
                                   /\ tasks'[t].time = tasks[t].time
                                   /\ tasks'[t].before = tasks[t].before
                                   /\ Started(t) => Started(t)'

LEMMA SetsState ==
  ASSUME Types, NEW t \in TaskIds, NEW s \in {"running", "done"},
         tasks' = [tasks EXCEPT ![t].state = s]
  PROVE  SameTasks /\ Started(t)' /\ \A u \in TaskIds \ {t} : Started(u)' <=> Started(u)
<1>1. /\ Len(tasks') = Len(tasks) /\ TaskIds' = TaskIds
      /\ \A u \in TaskIds : /\ tasks'[u].nestable = tasks[u].nestable
                            /\ tasks'[u].delay = tasks[u].delay
                            /\ tasks'[u].time = tasks[u].time
                            /\ tasks'[u].before = tasks[u].before
                            /\ u # t => tasks'[u].state = tasks[u].state
      /\ tasks'[t].state = s
  BY StateSet DEF Types, TypeOK
<1>2. Started(t)'
  BY <1>1 DEF Started
<1>3. QED
  BY <1>1, <1>2 DEF SameTasks, Started

LEMMA TasksUnchanged ==
  ASSUME tasks' = tasks
  PROVE  SameTasks /\ \A u : Started(u)' <=> Started(u)
  BY DEF SameTasks, TaskIds, Started

\* A step that takes nothing from work_queue_.
LEMMA QueuesStay ==
  ASSUME Types, Queues, SameTasks, UNCHANGED <<work, incoming>>, clock' \in Nat, clock <= clock',
         \A t \in delayed \cup ToSet(deferred) :
           Started(t)' \/ t \in delayed' \/ t \in ToSet(deferred'),
         delayed' \subseteq delayed,
         \A t \in ToSet(deferred') :
           t \in ToSet(deferred) \/
             (t \in delayed /\ ~tasks[t].nestable /\ tasks[t].time <= clock)
  PROVE  Queues'
<1>1. Taken' = Taken /\ Taken \in Int /\ Len(work) \in Nat /\ Len(incoming) \in Nat
  BY Facts DEF Taken, SameTasks
<1>2. delayed \subseteq TaskIds /\ ToSet(deferred) \subseteq TaskIds /\ 1..Taken \subseteq TaskIds
      /\ clock \in Nat
  BY <1>1, Elements, Facts DEF Types, TypeOK, Taken
<1>3. \A t \in 1..Taken : Started(t)' \/ t \in delayed' \/ t \in ToSet(deferred')
  BY <1>2 DEF Queues, SameTasks
<1>4. \A t \in delayed' : t <= Taken /\ tasks'[t].delay > 0
  BY <1>2 DEF Queues, SameTasks
<1>5. ASSUME NEW t \in ToSet(deferred')
      PROVE  t <= Taken /\ ~tasks'[t].nestable /\ tasks'[t].time <= clock'
  <2>1. t \in TaskIds /\ t <= Taken /\ ~tasks[t].nestable /\ tasks[t].time <= clock
    BY <1>2 DEF Queues
  <2>2. tasks[t].time \in Nat /\ tasks'[t].time = tasks[t].time
        /\ tasks'[t].nestable = tasks[t].nestable
    BY <2>1, Facts DEF SameTasks
  <2>3. QED
    BY <2>1, <2>2, <1>2
<1>6. QED
  BY <1>1, <1>3, <1>4, <1>5 DEF Queues

\* A step that takes the head of work_queue_.
LEMMA QueuesTake ==
  ASSUME Types, Queues, SameTasks, incoming' = incoming, work # <<>>, work' = Tail(work),
         clock' = clock,
         \A t \in delayed \cup ToSet(deferred) \cup {Head(work)} :
           Started(t)' \/ t \in delayed' \/ t \in ToSet(deferred'),
         \A t \in delayed' : t \in delayed \/ (t = Head(work) /\ tasks[t].delay > 0),
         \A t \in ToSet(deferred') :
           t \in ToSet(deferred) \/
             (t = Head(work) /\ ~tasks[t].nestable /\ tasks[t].time <= clock)
  PROVE  Queues'
<1>0. /\ Len(work) \in Nat /\ Len(work) >= 1 /\ Head(work) = work[1] /\ Len(incoming) \in Nat
      /\ Len(Tail(work)) = Len(work) - 1 /\ Len(tasks) \in Nat
      /\ \A i \in 1..(Len(work) - 1) : Tail(work)[i] = work[i + 1]
      /\ Head(work) \in TaskIds
  BY Elements, Facts DEF Types, TypeOK
<1>1. Taken' = Taken + 1 /\ Taken \in Nat /\ Len(work') = Len(work) - 1
  BY <1>0 DEF Taken, SameTasks, Queues
<1>2. delayed \subseteq TaskIds /\ ToSet(deferred) \subseteq TaskIds /\ 1..Taken \subseteq TaskIds
  BY SMTT(30), <1>0, <1>1, Elements, Facts DEF Types, TypeOK, Taken
<1>3. Head(work) = Taken + 1
  BY <1>0, <1>1 DEF Queues
<1>4. \A i \in 1..Len(work') : work'[i] = Taken' + i
  <2> SUFFICES ASSUME NEW i \in 1..(Len(work) - 1) PROVE work'[i] = Taken + 1 + i
    BY <1>1
  <2>1. i + 1 \in 1..Len(work)
    BY <1>0
  <2>2. work[i + 1] = Taken + (i + 1)
    BY <2>1 DEF Queues
  <2>3. QED
    BY <2>2, <1>0, <1>1
<1>5. \A i \in 1..Len(incoming') : incoming'[i] = Taken' + Len(work') + i
  BY <1>0, <1>1 DEF Queues
<1>6. \A t \in 1..Taken' : Started(t)' \/ t \in delayed' \/ t \in ToSet(deferred')
  <2> SUFFICES ASSUME NEW t \in 1..(Taken + 1)
               PROVE  Started(t)' \/ t \in delayed' \/ t \in ToSet(deferred')
    BY <1>1
  <2>1. CASE t = Taken + 1
    BY <2>1, <1>3
  <2>2. CASE t # Taken + 1
    <3>1. t \in 1..Taken /\ t \in TaskIds
      BY <2>2, <1>1, <1>2
    <3>2. QED
      BY <3>1 DEF Queues, SameTasks
  <2>3. QED
    BY <2>1, <2>2
<1>7. \A t \in delayed' : t <= Taken' /\ tasks'[t].delay > 0
  <2> SUFFICES ASSUME NEW t \in delayed' PROVE t <= Taken + 1 /\ tasks'[t].delay > 0
    BY <1>1
  <2>1. t \in TaskIds /\ t <= Taken + 1 /\ tasks[t].delay > 0 /\ t \in Nat
    BY <1>0, <1>1, <1>2, <1>3, Facts DEF Queues
  <2>2. QED
    BY <2>1 DEF SameTasks
<1>8. \A t \in ToSet(deferred') : t <= Taken' /\ ~tasks'[t].nestable /\ tasks'[t].time <= clock'
  <2> SUFFICES ASSUME NEW t \in ToSet(deferred')
               PROVE  t <= Taken + 1 /\ ~tasks'[t].nestable /\ tasks'[t].time <= clock
    BY <1>1
  <2>1. t \in TaskIds /\ t <= Taken + 1 /\ ~tasks[t].nestable /\ tasks[t].time <= clock
    BY <1>0, <1>1, <1>2, <1>3, Facts DEF Queues
  <2>2. QED
    BY <2>1 DEF SameTasks
<1>9. QED
  BY <1>1, <1>4, <1>5, <1>6, <1>7, <1>8 DEF Queues

\* A step that leaves the queues and the tasks alone.
LEMMA QueuesSame ==
  ASSUME Types, Queues, SameTasks, UNCHANGED <<work, incoming, delayed, deferred>>,
         clock' \in Nat, clock <= clock'
  PROVE  Queues'
<1>1. ToSet(deferred') = ToSet(deferred)
  OBVIOUS
<1>2. ToSet(deferred) \subseteq TaskIds
  BY Elements DEF Types, TypeOK
<1>3. QED
  BY <1>1, <1>2, QueuesStay

LEMMA QueuesPosting ==
  ASSUME Types, Queues, NEW x \in Thread, Posts(x) \/ PostOn(x)
  PROVE  Queues'
<1>0. UNCHANGED <<work, delayed, deferred, clock>> /\ clock \in Nat
  BY PostingLeaves DEF Types, TypeOK
<1>1. ASSUME NEW t \in TaskRecord, Push(x, t) PROVE Queues'
  <2>1. /\ Len(tasks') = Len(tasks) + 1 /\ Len(tasks) \in Nat /\ TaskIds = 1..Len(tasks)
        /\ \A u \in TaskIds : tasks'[u] = tasks[u]
    BY <1>1, PushTypes
  <2>2. /\ incoming' = Append(incoming, Len(tasks) + 1)
        /\ Len(incoming') = Len(incoming) + 1 /\ incoming'[Len(incoming) + 1] = Len(tasks) + 1
        /\ \A i \in 1..Len(incoming) : incoming'[i] = incoming[i]
        /\ Len(incoming) \in Nat /\ Len(work) \in Nat
    BY <1>1, Facts DEF Push, Types, TypeOK
  <2>3. Taken' = Taken /\ Taken \in Nat /\ Taken + Len(work) + Len(incoming) = Len(tasks)
    BY <2>1, <2>2, <1>0 DEF Taken, Queues
  <2>4. \A i \in 1..Len(incoming') : incoming'[i] = Taken' + Len(work') + i
    <3> SUFFICES ASSUME NEW i \in 1..(Len(incoming) + 1)
                 PROVE  incoming'[i] = Taken + Len(work) + i
      BY <2>2, <2>3, <1>0
    <3>1. CASE i = Len(incoming) + 1
      BY <3>1, <2>2, <2>3
    <3>2. CASE i # Len(incoming) + 1
      <4>1. i \in 1..Len(incoming)
        BY <3>2, <2>2
      <4>2. QED
        BY <4>1, <2>2 DEF Queues
    <3>3. QED
      BY <3>1, <3>2
  <2>5. 1..Taken \subseteq TaskIds /\ delayed \subseteq TaskIds /\ ToSet(deferred) \subseteq TaskIds
    BY SMTT(30), <2>1, <2>2, <2>3, Elements DEF Types, TypeOK
  <2>6. \A t_1 \in TaskIds : Started(t_1)' <=> Started(t_1)
    BY <2>1 DEF Started
  <2>7. /\ \A u \in 1..Taken' : Started(u)' \/ u \in delayed' \/ u \in ToSet(deferred')
        /\ \A u \in delayed' : u <= Taken' /\ tasks'[u].delay > 0
        /\ \A u \in ToSet(deferred') : u <= Taken' /\ ~tasks'[u].nestable
                                                   /\ tasks'[u].time <= clock'
    BY <2>1, <2>3, <2>5, <2>6, <1>0 DEF Queues
  <2>8. QED
    BY <2>3, <2>4, <2>7, <1>0 DEF Queues
<1>2. ASSUME NEW k \in Kinds, PostTask(x, k) PROVE Queues'
  <2>1. Task(k, 0, Len(tasks)) \in TaskRecord
    BY Facts, ConstantsAssumption DEF Task, TaskRecord
  <2>2. QED
    BY <1>2, <1>1, <2>1 DEF PostTask
<1>3. CASE PushDelayed(x)
  <2>1. posting[x].step = "push" /\ posting[x] \in PostingRecord
    BY <1>3 DEF PushDelayed, Posting, Types
  <2>2. posting[x].task \in TaskRecord
    BY <2>1 DEF PostingRecord
  <2>3. QED
    BY <1>3, <1>1, <2>2 DEF PushDelayed
<1>4. CASE (\E k \in Kinds : PostDelayedTask(x, k)) \/ ScheduleWork(x) \/ PostPacket(x)
  <2>1. tasks' = tasks /\ incoming' = incoming
    BY <1>4 DEF PostDelayedTask, ScheduleWork, PostPacket, queueVars
  <2>2. QED
    BY <2>1, <1>0, TasksUnchanged, QueuesSame
<1>5. QED
  BY <1>2, <1>3, <1>4 DEF Posts, PostOn

LEMMA QueuesInTask ==
  ASSUME Types, Queues, InTaskStep \/ FinishTask \/ Tick
  PROVE  Queues'
<1>1. CASE InTaskStep
  <2>1. UNCHANGED <<tasks, work, incoming, delayed, deferred, clock>> /\ clock \in Nat
    BY <1>1 DEF InTaskStep, Run, Quit, QuitWhenIdle, queueVars, Types, TypeOK
  <2>2. QED
    BY <2>1, TasksUnchanged, QueuesSame
<1>2. CASE FinishTask
  <2>1. UNCHANGED <<work, incoming, delayed, deferred, clock>> /\ Head(running) \in TaskIds
        /\ clock \in Nat /\ tasks' = [tasks EXCEPT ![Head(running)].state = "done"]
    BY <1>2 DEF FinishTask, queueVars, Types, TypeOK
  <2>2. SameTasks
    BY <2>1, SetsState
  <2>3. QED
    BY <2>1, <2>2, QueuesSame
<1>3. CASE Tick
  <2>1. UNCHANGED <<tasks, work, incoming, delayed, deferred>> /\ clock' = clock + 1
        /\ clock \in Nat
    BY <1>3 DEF Tick, queueVars, Types, TypeOK
  <2>2. QED
    BY <2>1, TasksUnchanged, QueuesSame
<1>4. QED
  BY <1>1, <1>2, <1>3

LEMMA QueuesPump ==
  ASSUME Types, Queues, Times, PumpStep
  PROVE  Queues'
<1>0. /\ clock \in Nat /\ ToSet(deferred) \subseteq TaskIds /\ delayed \subseteq TaskIds
      /\ recent \in 0..clock /\ deferred \in Seq(TaskIds)
  BY Elements DEF Types, TypeOK
<1>1. CASE ReloadWorkQueue
  <2>1. /\ work = <<>> /\ work' = incoming /\ incoming' = <<>> /\ Len(work) = 0
        /\ Len(incoming') = 0 /\ Len(incoming) \in Nat
        /\ UNCHANGED <<tasks, delayed, deferred, clock>>
    BY <1>1, Facts DEF ReloadWorkQueue
  <2>2. Taken' = Taken /\ Taken \in Nat
    BY <2>1, Facts DEF Taken, Queues
  <2>3. \A u : Started(u)' <=> Started(u)
    BY <2>1 DEF Started
  <2>4. QED
    BY <2>1, <2>2, <2>3 DEF Queues
<1>2. CASE DelayTask
  <2>1. /\ work # <<>> /\ work' = Tail(work) /\ tasks[Head(work)].delay > 0
        /\ delayed' = delayed \cup {Head(work)}
        /\ UNCHANGED <<tasks, incoming, deferred, clock>>
    BY <1>2 DEF DelayTask
  <2>2. QED
    BY <2>1, <1>0, TasksUnchanged, QueuesTake
<1>3. CASE DoWork
  <2>1. /\ work # <<>> /\ work' = Tail(work) /\ tasks[Head(work)].delay = 0
        /\ UNCHANGED <<incoming, delayed, clock>> /\ Head(work) \in TaskIds
    BY <1>3 DEF DoWork, Types, TypeOK
  <2>2. CASE MayRun(Head(work))
    <3>1. tasks' = [tasks EXCEPT ![Head(work)].state = "running"] /\ deferred' = deferred
      BY <1>3, <2>2 DEF DoWork, RunTask
    <3>2. QED
      BY <3>1, <2>1, <1>0, SetsState, QueuesTake
  <2>3. CASE ~MayRun(Head(work))
    <3>1. tasks' = tasks /\ deferred' = Append(deferred, Head(work))
      BY <1>3, <2>3 DEF DoWork, Defer
    <3>2. ToSet(deferred') = ToSet(deferred) \cup {Head(work)}
      BY <3>1, <2>1, <1>0, AppendTail
    <3>3. ~tasks[Head(work)].nestable /\ tasks[Head(work)].time <= clock
      BY <2>1, <2>3, <1>0 DEF MayRun, Times, InTime
    <3>4. QED
      BY <3>1, <3>2, <3>3, <2>1, <1>0, TasksUnchanged, QueuesTake
  <2>4. QED
    BY <2>2, <2>3
<1>4. CASE DoDelayedWork
  <2>0. PICK t \in delayed : t = Earliest(delayed)
    BY <1>4, EarliestIs DEF DoDelayedWork, Types, TypeOK
  <2>1. t \in TaskIds
    BY <1>0
  <2>2. delayed' = delayed \ {t} /\ UNCHANGED <<incoming, work, clock>> /\ tasks[t].time <= clock
    BY <1>4, <2>0, <2>1, <1>0, Facts DEF DoDelayedWork, IsDue, Recent
  <2>3. CASE MayRun(t)
    <3>1. tasks' = [tasks EXCEPT ![t].state = "running"] /\ deferred' = deferred
      BY <1>4, <2>0, <2>3 DEF DoDelayedWork, RunTask
    <3>2. SameTasks /\ Started(t)' /\ ToSet(deferred') = ToSet(deferred)
      BY <3>1, <2>1, SetsState
    <3>3. QED
      BY <3>1, <3>2, <2>1, <2>2, <1>0, QueuesStay DEF SameTasks
  <2>4. CASE ~MayRun(t)
    <3>1. tasks' = tasks /\ deferred' = Append(deferred, t)
      BY <1>4, <2>0, <2>4 DEF DoDelayedWork, Defer
    <3>2. ToSet(deferred') = ToSet(deferred) \cup {t}
      BY <3>1, <2>1, <1>0, AppendTail
    <3>3. ~tasks[t].nestable
      BY <2>4 DEF MayRun
    <3>4. QED
      BY <3>1, <3>2, <3>3, <2>1, <2>2, <1>0, TasksUnchanged, QueuesStay
  <2>5. QED
    BY <2>3, <2>4
<1>5. CASE DoIdleWork
  <2>0. PICK t \in TaskIds : t = Head(deferred)
    BY <1>5, <1>0 DEF DoIdleWork, HasDeferredWork
  <2>1. /\ deferred # <<>> /\ deferred' = Tail(deferred)
        /\ UNCHANGED <<incoming, work, delayed, clock>>
        /\ tasks' = [tasks EXCEPT ![t].state = "running"]
    BY <1>5, <2>0, <1>0 DEF DoIdleWork, HasDeferredWork, RunTask
  <2>2. ToSet(deferred) \subseteq ToSet(deferred') \cup {t}
        /\ ToSet(deferred') \subseteq ToSet(deferred)
    BY <2>0, <2>1, <1>0, AppendTail
  <2>3. SameTasks /\ Started(t)'
    BY <2>1, SetsState
  <2>4. QED
    BY <2>1, <2>2, <2>3, <1>0, QueuesStay DEF SameTasks
<1>6. CASE ~(ReloadWorkQueue \/ DelayTask \/ DoWork \/ DoDelayedWork \/ DoIdleWork)
  <2>1. UNCHANGED <<tasks, work, incoming, delayed, deferred, clock>>
    BY <1>6 DEF PumpStep, RunReturns, DoNoWork, TakePacket, ResetHaveWork, NothingDelayed, NotYet,
                NothingIdle, GoToSleep, WakeUp, ResetAwake, TimeOut, queueVars
  <2>2. QED
    BY <2>1, <1>0, TasksUnchanged, QueuesSame
<1>7. QED
  BY <1>1, <1>2, <1>3, <1>4, <1>5, <1>6

(***************************************************************************)
(* Before the loop sleeps.                                                 *)
(***************************************************************************)

\* Nothing is claimed of a loop that will look at its queues again.
LEMMA LooksAgain ==
  ASSUME loops' # <<>> => Top'.phase \in {"work", "reset", "awake"}
                          \/ (Top'.phase \in {"poll", "delayed"} /\ Top'.did)
  PROVE  Awaited' /\ TimerSet'
  BY DEF Awaited, TimerSet, Settled, Pumping

\* A loop that has a task above it, or has just had one, looks at its queues again.
LEMMA UnderTask ==
  ASSUME Types, Stack, loops # <<>>, Len(running) = Depth
  PROVE  Top.phase = "work" \/ (Top.phase \in {"poll", "delayed"} /\ Top.did)
<1>1. Top = loops[1] /\ 1 \in 1..Depth
  BY Facts
<1>2. QED
  BY <1>1 DEF Stack, Below

LEMMA AwaitedInTask ==
  ASSUME Types, Stack, Awaited, TimerSet, InTaskStep \/ FinishTask \/ Tick
  PROVE  Awaited' /\ TimerSet'
<1>1. ASSUME NEW u \in BOOLEAN, NEW a \in BOOLEAN, Run(u, a) PROVE Awaited' /\ TimerSet'
  <2>1. loops' # <<>> /\ loops'[1].phase = "work" /\ loops' \in Seq(LoopRecord)
    BY <1>1, RunLoops, InTaskTypes DEF InTaskStep, Types, TypeOK
  <2>2. Top'.phase = "work"
    BY <2>1 DEF Top
  <2>3. QED
    BY <2>2, LooksAgain
<1>2. CASE (\E k \in DOMAIN loops : Quit(k)) \/ QuitWhenIdle
  <2>1. Len(running) = Depth
    BY <1>2 DEF Quit, QuitWhenIdle, InTask, Depth
  <2>2. loops # <<>> /\ 1 \in 1..Depth /\ Top = loops[1]
    BY <1>2, QuitLoops, WhenIdleLoops, Facts
  <2>3. loops'[1].phase = Top.phase /\ loops'[1].did = Top.did /\ Len(loops') = Depth
    BY <1>2, <2>2, QuitLoops, WhenIdleLoops
  <2>4. loops' \in Seq(LoopRecord)
    BY <1>2, InTaskTypes DEF InTaskStep, Types, TypeOK
  <2>5. Top' = loops'[1]
    BY <2>2, <2>3, <2>4 DEF Top
  <2>6. QED
    BY <2>1, <2>2, <2>3, <2>5, UnderTask, LooksAgain
<1>3. CASE FinishTask
  <2>1. Len(running) = Depth /\ loops' = loops
    BY <1>3 DEF FinishTask, InTask, Depth
  <2>2. loops # <<>> => Top' = Top
    BY <2>1 DEF Top
  <2>3. QED
    BY <2>1, <2>2, UnderTask, LooksAgain
<1>4. CASE Tick
  BY <1>4 DEF Tick, queueVars, stackVars, timeVars, wakeupVars, Awaited, TimerSet, Settled,
              Pumping, Scheduled, Taken, Top, Depth
<1>5. QED
  BY <1>1, <1>2, <1>3, <1>4 DEF InTaskStep

LEMMA AwaitedPosting ==
  ASSUME Types, OneToken, Awaited, TimerSet, NEW x \in Thread, Posts(x) \/ PostOn(x)
  PROVE  Awaited' /\ TimerSet'
<1>0. /\ UNCHANGED <<pump, work, delayed, deferred, allowed, loops, running, timer>>
      /\ UNCHANGED <<Pumping, Top, Depth>> /\ (Settled' <=> Settled)
  BY PostingLeaves DEF Pumping, Top, Depth, Settled
<1>00. pump \in {"default", "io"} /\ Len(tasks) \in Nat /\ Len(incoming) \in Nat
       /\ delayed \subseteq TaskIds
  BY ConstantsAssumption, Facts DEF Types, TypeOK
<1>1. ASSUME Taken' = Taken,
             Settled /\ incoming' # <<>> => wakeups' > 0 \/ Scheduled',
             \A t \in TaskIds : tasks'[t] = tasks[t]
      PROVE  Awaited' /\ TimerSet'
  <2>1. Awaited'
    BY <1>0, <1>1 DEF Awaited
  <2>2. TimerSet'
    BY <1>0, <1>00, <1>1 DEF TimerSet
  <2>3. QED
    BY <2>1, <2>2
<1>2. ASSUME NEW r \in PostingRecord, posting' = [posting EXCEPT ![x] = r], Scheduled,
             posting[x].step \notin {"schedule", "packet"}
      PROVE  Scheduled'
  <2>1. PICK y \in Thread : posting[y].step \in {"schedule", "packet"}
    BY <1>2 DEF Scheduled
  <2>2. posting'[y] = posting[y]
    BY <1>2, <2>1 DEF Types
  <2>3. QED
    BY <2>1, <2>2 DEF Scheduled
<1>3. ASSUME NEW t \in TaskRecord, Push(x, t), posting[x].step \notin {"schedule", "packet"}
      PROVE  Awaited' /\ TimerSet'
  <2>1. /\ Len(tasks') = Len(tasks) + 1 /\ \A u \in TaskIds : tasks'[u] = tasks[u]
        /\ Len(incoming') = Len(incoming) + 1 /\ wakeups' = wakeups
    <3>1. Len(tasks') = Len(tasks) + 1 /\ \A u \in TaskIds : tasks'[u] = tasks[u]
      BY <1>3, PushTypes
    <3>2. incoming' = Append(incoming, Len(tasks) + 1) /\ wakeups' = wakeups
      BY <1>3 DEF Push, wakeupVars
    <3>3. Len(incoming') = Len(incoming) + 1
      BY <3>2 DEF Types, TypeOK
    <3>4. QED
      BY <3>1, <3>2, <3>3
  <2>2. Taken' = Taken
    BY <2>1, <1>0, <1>00, Facts DEF Taken
  <2>3. CASE incoming = <<>>
    <3>1. GoesOn(x, Step("schedule"))
      BY <1>3, <2>3 DEF Push
    <3>2. Scheduled'
      BY <3>1, NamesType DEF GoesOn, Scheduled, Types
    <3>3. QED
      BY <3>2, <2>1, <2>2, <1>1
  <2>4. CASE incoming # <<>>
    <3>1. GoesOn(x, NotPosting)
      BY <1>3, <2>4 DEF Push
    <3>2. Scheduled => Scheduled'
      BY <3>1, <1>2, <1>3, NamesType DEF GoesOn
    <3>3. Settled => wakeups > 0 \/ Scheduled
      BY <2>4 DEF Awaited
    <3>4. QED
      BY <3>2, <3>3, <2>1, <2>2, <1>1
  <2>5. QED
    BY <2>3, <2>4
<1>4. ASSUME NEW k \in Kinds, PostTask(x, k) PROVE Awaited' /\ TimerSet'
  <2>1. Task(k, 0, Len(tasks)) \in TaskRecord
    BY Facts, ConstantsAssumption DEF Task, TaskRecord
  <2>2. posting[x].step = "idle"
    BY <1>4 DEF PostTask, CanPost, Idle, NotPosting
  <2>3. QED
    BY <1>4, <1>3, <2>1, <2>2 DEF PostTask
<1>5. ASSUME NEW k \in Kinds, PostDelayedTask(x, k) PROVE Awaited' /\ TimerSet'
  <2>1. posting[x].step = "idle"
    BY <1>5 DEF PostDelayedTask, CanPost, Idle, NotPosting
  <2>2. clock + k.delay \in Nat
    BY ConstantsAssumption DEF Types, TypeOK
  <2>3. Task(k, clock + k.delay, Len(tasks)) \in TaskRecord
    BY <2>2, Facts, ConstantsAssumption DEF Task, TaskRecord
  <2>4. Scheduled => Scheduled'
    BY <1>5, <2>1, <2>3, <1>2, NamesType DEF PostDelayedTask, GoesOn
  <2>5. tasks' = tasks /\ incoming' = incoming /\ wakeups' = wakeups
    BY <1>5 DEF PostDelayedTask, queueVars, wakeupVars
  <2>6. Taken' = Taken
    BY <2>5, <1>0 DEF Taken
  <2>7. Settled /\ incoming' # <<>> => wakeups' > 0 \/ Scheduled'
    BY <2>4, <2>5 DEF Awaited
  <2>8. QED
    BY <2>5, <2>6, <2>7, <1>1
<1>6. CASE PushDelayed(x)
  <2>1. posting[x].step = "push" /\ posting[x] \in PostingRecord
    BY <1>6 DEF PushDelayed, Posting, Types
  <2>2. posting[x].task \in TaskRecord
    BY <2>1 DEF PostingRecord
  <2>3. QED
    BY <1>6, <1>3, <2>1, <2>2 DEF PushDelayed
<1>7. CASE ScheduleWork(x) \/ PostPacket(x)
  <2>1. tasks' = tasks /\ incoming' = incoming
    BY <1>7 DEF ScheduleWork, PostPacket, queueVars
  <2>2. Taken' = Taken
    BY <2>1, <1>0 DEF Taken
  <2>3. CASE PostPacket(x)
    <3>1. wakeups' > 0
      BY <2>3 DEF PostPacket, Types, TypeOK
    <3>2. QED
      BY <3>1, <2>1, <2>2, <1>1
  <2>4. CASE ScheduleWork(x) /\ pump = "default"
    <3>1. wakeups' > 0
      BY <2>4 DEF ScheduleWork
    <3>2. QED
      BY <3>1, <2>1, <2>2, <1>1
  <2>5. CASE ScheduleWork(x) /\ pump = "io"
    <3>1. posting[x].step = "schedule" /\ wakeups' = wakeups /\ GoesOn(x, AfterExchange)
      BY <2>5 DEF ScheduleWork, Posting
    <3>2. CASE haveWork
      <4>1. Settled => ~Taking
        BY DEF Settled, Taking
      <4>2. Settled => Packets # {} \/ wakeups > 0
        BY <3>2, <2>5, <4>1 DEF OneToken
      <4>3. Packets # {} => Scheduled'
        <5>1. SUFFICES ASSUME NEW y \in Packets PROVE Scheduled'
          OBVIOUS
        <5>2. y # x /\ posting[y].step = "packet" /\ y \in Thread
          BY <3>1 DEF Packets, Posting
        <5>3. posting'[y] = posting[y]
          BY <3>1, <5>2 DEF GoesOn, Types
        <5>4. QED
          BY <5>2, <5>3 DEF Scheduled
      <4>4. QED
        BY <4>2, <4>3, <3>1, <2>1, <2>2, <1>1
    <3>3. CASE ~haveWork
      <4>1. Scheduled'
        BY <3>1, <3>3, NamesType DEF GoesOn, AfterExchange, Scheduled, Types
      <4>2. QED
        BY <4>1, <2>1, <2>2, <1>1
    <3>4. QED
      BY <3>2, <3>3
  <2>6. QED
    BY <1>7, <2>3, <2>4, <2>5, <1>00
<1>8. QED
  BY <1>4, <1>5, <1>6, <1>7 DEF Posts, PostOn

\* A loop goes on to sleep with nothing new.
LEMMA StaysSettled ==
  ASSUME Types, Awaited, Pumping, ~Top.did,
         NEW p \in {"delayed", "idle", "wait", "asleep"},
         loops' # <<>>, Depth' = Depth, Top'.phase = p, Top'.did = FALSE,
         Top'.since = Top.since,
         Top.phase \in {"poll", "delayed", "idle", "wait"},
         UNCHANGED <<tasks, work, incoming, allowed, wakeups, posting, running>>,
         p \in {"wait", "asleep"} /\ Depth = 1 => deferred' = <<>>
  PROVE  Awaited'
<1>1. Taken' = Taken /\ Pumping' /\ (Scheduled' <=> Scheduled)
  BY DEF Taken, Pumping, Scheduled
<1>2. Settled' => Settled
  BY DEF Settled
<1>3. QED
  BY <1>1, <1>2 DEF Awaited

LEMMA AwaitedPump ==
  ASSUME IInv, PumpStep
  PROVE  Awaited' /\ TimerSet'
<1> USE PhaseValues
<1>0. /\ Types /\ Stack /\ Awaited /\ TimerSet /\ Depth \in Nat /\ Len(running) \in Nat
      /\ Len(tasks) \in Nat /\ tasks \in Seq(TaskRecord) /\ delayed \subseteq TaskIds
  BY Facts DEF IInv, Types, TypeOK
<1>1. CASE RunReturns
  <2>1. Depth > 1 => loops'[1].phase = loops[2].phase /\ loops'[1].did = loops[2].did
                     /\ 2 \in 1..Depth /\ Below(2)
    BY <1>0, <1>1, ReturnLoops DEF Below
  <2>2. Len(loops') = Depth - 1 /\ loops' \in Seq(LoopRecord)
    BY <1>0, <1>1, ReturnLoops, PumpTypes DEF Types, TypeOK
  <2>3. loops' # <<>> => Depth > 1 /\ Top' = loops'[1]
    BY <1>0, <2>2 DEF Top
  <2>4. QED
    BY <1>0, <2>1, <2>3, LooksAgain DEF Stack
<1>2. CASE ReloadWorkQueue \/ DelayTask \/ (DoWork /\ ~MayRun(Head(work)))
  <2>1. loops' = loops /\ loops # <<>> /\ Top.phase = "work"
    BY <1>0, <1>2, InPhaseIs DEF ReloadWorkQueue, DelayTask, DoWork, stackVars
  <2>2. Top' = Top
    BY <2>1 DEF Top
  <2>3. QED
    BY <2>1, <2>2, LooksAgain
<1>3. CASE DoWork /\ MayRun(Head(work))
  <2>1. loops # <<>> /\ loops' = Turn(AfterWork, TRUE) /\ AfterWork \in {"poll", "delayed"}
    BY <1>0, <1>3, InPhaseIs DEF DoWork, AfterWork
  <2>2. QED
    BY <1>0, <2>1, TopTurn, LooksAgain
<1>4. CASE DoNoWork
  <2>1. /\ loops # <<>> /\ loops' = Turn(AfterWork, FALSE) /\ AfterWork \in {"poll", "delayed"}
        /\ (allowed => work = <<>> /\ incoming = <<>>)
        /\ UNCHANGED <<tasks, work, incoming, allowed>>
    BY <1>0, <1>4, InPhaseIs DEF DoNoWork, AfterWork, queueVars
  <2>2. Top'.phase = AfterWork /\ Top'.did = FALSE /\ Top'.since = Top.since
    BY <1>0, <2>1, TopTurn
  <2>3. allowed => Taken' = Len(tasks)
    <3>1. allowed => Len(work') = 0 /\ Len(incoming') = 0
      BY <2>1
    <3>2. QED
      BY <3>1, <2>1, <1>0 DEF Taken
  <2>4. Top.since <= Len(tasks)
    BY <1>0, <2>1, Facts DEF Stack
  <2>5. Awaited'
    BY <2>1, <2>2, <2>3, <2>4 DEF Awaited, Settled
  <2>6. TimerSet'
    BY <2>1, <2>2 DEF TimerSet
  <2>7. QED
    BY <2>5, <2>6
<1>5. CASE TakePacket
  <2>1. /\ loops # <<>> /\ Top.phase = "poll" /\ Pumping /\ Top.did \in BOOLEAN
        /\ UNCHANGED <<tasks, work, incoming, allowed, posting, running>>
    BY <1>0, <1>5, InPhaseIs, Facts DEF TakePacket, queueVars
  <2>2. CASE wakeups > 0
    <3>1. loops' = Turn("reset", Top.did)
      BY <1>5, <2>2 DEF TakePacket
    <3>2. QED
      BY <1>0, <2>1, <3>1, TopTurn, LooksAgain
  <2>3. CASE ~(wakeups > 0)
    <3>1. loops' = Turn("delayed", Top.did) /\ wakeups' = wakeups
      BY <1>5, <2>3 DEF TakePacket
    <3>2. /\ loops' # <<>> /\ Depth' = Depth /\ Top'.phase = "delayed" /\ Top'.did = Top.did
          /\ Top'.since = Top.since
      BY <1>0, <2>1, <3>1, TopTurn
    <3>3. CASE Top.did
      BY <3>2, <3>3, LooksAgain
    <3>4. CASE ~Top.did
      <4>1. Awaited'
        BY <1>0, <2>1, <3>1, <3>2, <3>4, StaysSettled
      <4>2. TimerSet'
        BY <3>2 DEF TimerSet
      <4>3. QED
        BY <4>1, <4>2
    <3>5. QED
      BY <3>3, <3>4
  <2>4. QED
    BY <2>2, <2>3
<1>6. CASE ResetHaveWork \/ ResetAwake
  <2>1. loops # <<>> /\ loops' \in {Turn("delayed", TRUE), Turn("work", FALSE)}
    BY <1>0, <1>6, InPhaseIs DEF ResetHaveWork, ResetAwake
  <2>2. QED
    BY <1>0, <2>1, TopTurn, LooksAgain
<1>7. CASE NothingDelayed \/ NotYet
  <2>1. /\ loops # <<>> /\ Pumping /\ Top.phase = "delayed" /\ Top.did \in BOOLEAN
        /\ loops' = AfterDelayed(Top.did)
        /\ UNCHANGED <<tasks, work, incoming, delayed, allowed, posting, running, wakeups>>
    BY <1>0, <1>7, InPhaseIs, Facts DEF NothingDelayed, NotYet, queueVars, wakeupVars
  <2>2. CASE Top.did
    <3>1. loops' = Turn("work", FALSE)
      BY <2>1, <2>2
    <3>2. QED
      BY <1>0, <2>1, <3>1, TopTurn, LooksAgain
  <2>3. CASE ~Top.did
    <3>1. loops' = Turn("idle", FALSE)
      BY <2>1, <2>3
    <3>2. /\ loops' # <<>> /\ Depth' = Depth /\ Top'.phase = "idle" /\ Top'.did = FALSE
          /\ Top'.since = Top.since
      BY <1>0, <2>1, <3>1, TopTurn
    <3>3. Awaited'
      BY <1>0, <2>1, <2>3, <3>2, StaysSettled
    <3>4. TimerSet'
      <4>1. CASE NothingDelayed
        BY <2>1, <4>1 DEF NothingDelayed, TimerSet
      <4>2. CASE NotYet
        <5>1. PICK t \in delayed : t = Earliest(delayed)
          BY <4>2, <1>0, EarliestIs DEF NotYet
        <5>2. /\ t \in TaskIds /\ timer' = tasks[t].time
              /\ \A u \in delayed : tasks[t].time <= tasks[u].time
          BY <4>2, <5>1, <1>0, EarliestIs DEF NotYet
        <5>3. tasks[t].time > 0
          BY <5>2, <5>1, <1>0, Facts DEF IInv, Times, InTime, Queues
        <5>4. QED
          BY <5>2, <5>3, <2>1 DEF TimerSet
      <4>3. QED
        BY <1>7, <4>1, <4>2
    <3>5. QED
      BY <3>3, <3>4
  <2>4. QED
    BY <2>1, <2>2, <2>3
<1>8. CASE DoDelayedWork
  <2>1. loops # <<>> /\ Pumping /\ Top.phase = "delayed" /\ Top.did \in BOOLEAN
        /\ UNCHANGED <<work, incoming, wakeups, posting>>
    BY <1>0, <1>8, InPhaseIs, Facts DEF DoDelayedWork, wakeupVars
  <2>2. CASE loops' = Turn("work", FALSE)
    BY <1>0, <2>1, <2>2, TopTurn, LooksAgain
  <2>3. CASE loops' # Turn("work", FALSE)
    <3> DEFINE rest == delayed \ {Earliest(delayed)}
    <3>1. /\ ~Top.did /\ loops' = Turn("idle", FALSE) /\ Defer(Earliest(delayed))
      BY <1>8, <2>1, <2>3 DEF DoDelayedWork
    <3>2. UNCHANGED <<tasks, allowed, running>>
      BY <3>1 DEF Defer
    <3>3. /\ loops' # <<>> /\ Depth' = Depth /\ Top'.phase = "idle" /\ Top'.did = FALSE
          /\ Top'.since = Top.since
      BY <1>0, <2>1, <3>1, TopTurn
    <3>4. Awaited'
      BY <1>0, <2>1, <3>1, <3>2, <3>3, StaysSettled
    <3>5. TimerSet'
      <4>1. delayed' = rest /\ (rest # {} => timer' = tasks[Earliest(rest)].time)
        BY <1>8 DEF DoDelayedWork
      <4>2. CASE rest = {}
        BY <4>1, <4>2 DEF TimerSet
      <4>3. CASE rest # {}
        <5>1. rest \subseteq delayed /\ rest \subseteq TaskIds
          BY <1>0
        <5> HIDE DEF rest
        <5>2. PICK t \in rest : t = Earliest(rest)
          BY <4>3, <5>1, <1>0, EarliestIs
        <5>3. \A u \in rest : tasks[t].time <= tasks[u].time
          BY <4>3, <5>1, <5>2, <1>0, EarliestIs
        <5>4. tasks[t].time > 0
          BY <5>1, <5>2, <1>0, Facts DEF IInv, Times, InTime, Queues
        <5>5. QED
          BY <4>1, <4>3, <5>2, <5>3, <5>4, <3>2 DEF TimerSet
      <4>4. QED
        BY <4>2, <4>3
    <3>6. QED
      BY <3>4, <3>5
  <2>4. QED
    BY <2>2, <2>3
<1>9. CASE DoIdleWork
  <2>1. loops # <<>> /\ loops' = Turn("work", FALSE)
    BY <1>0, <1>9, InPhaseIs DEF DoIdleWork
  <2>2. QED
    BY <1>0, <2>1, TopTurn, LooksAgain
<1>10. CASE NothingIdle
  <2>1. /\ loops # <<>> /\ Pumping /\ Top.phase = "idle" /\ ~HasDeferredWork
        /\ UNCHANGED <<tasks, work, incoming, delayed, deferred, allowed, timer, posting, running,
                       wakeups>>
    BY <1>0, <1>10, InPhaseIs DEF NothingIdle, queueVars, timeVars, wakeupVars
  <2>2. /\ loops'[1].phase = "wait" /\ loops'[1].did = FALSE /\ loops'[1].since = Top.since
        /\ Len(loops') = Depth /\ loops' \in Seq(LoopRecord)
    BY <1>0, <1>10, IdleLoops, PumpTypes DEF Types, TypeOK
  <2>3. loops' # <<>> /\ Top' = loops'[1] /\ Depth' = Depth
    BY <2>1, <2>2, <1>0, Facts DEF Top, Depth
  <2>4. ~Top.did /\ (Depth = 1 => deferred' = <<>>)
    BY <2>1, <1>0 DEF Awaited, HasDeferredWork
  <2>5. Awaited'
    BY <1>0, <2>1, <2>2, <2>3, <2>4, StaysSettled
  <2>6. TimerSet'
    BY <1>0, <2>1, <2>2, <2>3 DEF TimerSet, Pumping
  <2>7. QED
    BY <2>5, <2>6
<1>11. CASE GoToSleep
  <2>1. /\ loops # <<>> /\ Pumping /\ Top.phase = "wait"
        /\ UNCHANGED <<tasks, work, incoming, delayed, deferred, allowed, posting, running,
                       wakeups>>
    BY <1>0, <1>11, InPhaseIs DEF GoToSleep, queueVars, wakeupVars
  <2>2. CASE loops' = Turn("work", FALSE)
    BY <1>0, <2>1, <2>2, TopTurn, LooksAgain
  <2>3. CASE loops' # Turn("work", FALSE)
    <3>1. loops' = Turn("asleep", FALSE) /\ timer' = timer
      BY <1>11, <2>3 DEF GoToSleep
    <3>2. /\ loops' # <<>> /\ Depth' = Depth /\ Top'.phase = "asleep" /\ Top'.did = FALSE
          /\ Top'.since = Top.since
      BY <1>0, <2>1, <3>1, TopTurn
    <3>3. ~Top.did /\ (Depth = 1 => deferred' = <<>>)
      BY <2>1, <1>0 DEF Awaited
    <3>4. Awaited'
      BY <1>0, <2>1, <3>2, <3>3, StaysSettled
    <3>5. TimerSet'
      BY <1>0, <2>1, <3>1, <3>2 DEF TimerSet, Pumping
    <3>6. QED
      BY <3>4, <3>5
  <2>4. QED
    BY <2>2, <2>3
<1>12. CASE WakeUp \/ TimeOut
  <2>1. loops # <<>> /\ loops' \in {Turn("awake", FALSE), Turn("work", FALSE)}
    BY <1>0, <1>12, InPhaseIs DEF WakeUp, TimeOut
  <2>2. QED
    BY <1>0, <2>1, TopTurn, LooksAgain
<1>13. QED
  BY <1>1, <1>2, <1>3, <1>4, <1>5, <1>6, <1>7, <1>8, <1>9, <1>10, <1>11, <1>12 DEF PumpStep

(***************************************************************************)
(* Times.                                                                  *)
(***************************************************************************)

\* What is posted stays in time while tasks keep what they were posted with.
LEMMA TimesKept ==
  ASSUME Types, Times, SameTasks, clock' \in Nat, clock <= clock',
         \A x \in Thread : Posting(x, "push")' => posting'[x] = posting[x]
  PROVE  Times'
<1>1. /\ clock \in Nat /\ TaskIds = 1..Len(tasks) /\ Len(tasks) \in Nat
      /\ TaskIds' = TaskIds /\ Len(tasks') = Len(tasks)
  BY Facts DEF Types, TypeOK, SameTasks
<1>2. ASSUME NEW t \in TaskRecord, InTime(t) PROVE InTime(t)'
  <2>1. t.time \in Nat /\ t.delay \in Nat /\ t.before \in Nat
    BY DEF TaskRecord
  <2>2. t.time <= clock' + t.delay
    BY <1>1, <1>2, <2>1 DEF InTime
  <2>3. \A u \in 1..t.before : tasks'[u].delay = tasks[u].delay /\ tasks'[u].time = tasks[u].time
    BY <1>1, <1>2, <2>1 DEF InTime, SameTasks
  <2>4. QED
    BY <1>1, <1>2, <2>2, <2>3 DEF InTime
<1>3. ASSUME NEW t \in TaskIds PROVE InTime(tasks[t])' /\ tasks'[t].before < t
  <2>1. /\ tasks'[t].time = tasks[t].time /\ tasks'[t].delay = tasks[t].delay
        /\ tasks'[t].before = tasks[t].before
    BY DEF SameTasks
  <2>2. tasks[t] \in TaskRecord /\ InTime(tasks[t])
    BY Facts DEF Times
  <2>3. InTime(tasks[t])'
    <3>1. /\ tasks[t].time <= clock' + tasks[t].delay
          /\ \A u \in 1..tasks[t].before : tasks'[u].delay <= tasks[t].delay
                                             => tasks'[u].time <= tasks[t].time
      <4>1. PICK r \in TaskRecord : r = tasks[t]
        BY <2>2
      <4>2. r.time <= clock' + r.delay
            /\ \A u \in 1..r.before : tasks'[u].delay <= r.delay => tasks'[u].time <= r.time
        BY <4>1, <2>2, <1>2 DEF InTime
      <4>3. QED
        BY <4>1, <4>2
    <3>2. QED
      BY <3>1, <2>1, <2>2, <1>1 DEF InTime
  <2>4. QED
    BY <2>1, <2>3 DEF Times
<1>4. ASSUME NEW x \in Thread, Posting(x, "push")'
      PROVE  InTime(posting[x].task)' /\ posting'[x].task.state = "posted"
  <2>1. posting'[x] = posting[x] /\ posting[x].step = "push"
    BY <1>4 DEF Posting
  <2>2. posting[x] \in PostingRecord
    BY DEF Types
  <2>3. posting[x].task \in TaskRecord
    BY <2>1, <2>2 DEF PostingRecord
  <2>4. InTime(posting[x].task) /\ posting[x].task.state = "posted"
    BY <2>1 DEF Times, Posting
  <2>5. PICK r \in TaskRecord : r = posting[x].task
    BY <2>3
  <2>6. InTime(r)'
    BY <2>4, <2>5, <1>2
  <2>7. posting'[x].task = r
    BY <2>1, <2>5
  <2>8. QED
    BY <2>4, <2>5, <2>6, <2>7 DEF InTime
<1>5. QED
  BY <1>1, <1>3, <1>4 DEF Times

\* A task that is posted now is in time, as those before it are.
LEMMA NewTaskInTime ==
  ASSUME Types, Times, NEW k \in Kinds, NEW time \in Nat,
         time = IF k.delay = 0 THEN 0 ELSE clock + k.delay
  PROVE  /\ Task(k, time, Len(tasks)) \in TaskRecord /\ InTime(Task(k, time, Len(tasks)))
         /\ Task(k, time, Len(tasks)).state = "posted"
<1> DEFINE t == Task(k, time, Len(tasks))
<1>1. /\ t \in TaskRecord /\ t.time = time /\ t.delay = k.delay /\ t.before = Len(tasks)
      /\ t.state = "posted" /\ k.delay \in Nat /\ clock \in Nat /\ Len(tasks) \in Nat
      /\ TaskIds = 1..Len(tasks)
  BY Facts, ConstantsAssumption DEF Task, TaskRecord, Types, TypeOK
<1> HIDE DEF t
<1>2. ASSUME NEW u \in 1..t.before, tasks[u].delay <= t.delay PROVE tasks[u].time <= t.time
  <2>1. u \in TaskIds /\ tasks[u].time \in Nat /\ tasks[u].delay \in Nat
    BY <1>1, Facts
  <2>2. /\ tasks[u].time <= clock + tasks[u].delay
        /\ tasks[u].delay = 0 => tasks[u].time = 0
    BY <2>1 DEF Times, InTime
  <2>3. QED
    BY <1>1, <1>2, <2>1, <2>2
<1>3. InTime(t)
  BY <1>1, <1>2 DEF InTime
<1>4. QED
  BY <1>1, <1>3 DEF t

LEMMA TimesPosting ==
  ASSUME Types, Times, NEW x \in Thread, Posts(x) \/ PostOn(x)
  PROVE  Times'
<1>0. /\ clock' = clock /\ clock \in Nat /\ TaskIds = 1..Len(tasks) /\ Len(tasks) \in Nat
  BY PostingLeaves, Facts DEF Types, TypeOK
<1>1. ASSUME NEW t \in TaskRecord, InTime(t), Push(x, t) PROVE Times'
  <2>1. /\ Len(tasks') = Len(tasks) + 1 /\ TaskIds' = 1..(Len(tasks) + 1)
        /\ tasks'[Len(tasks) + 1] = t /\ \A u \in TaskIds : tasks'[u] = tasks[u]
    BY <1>1, PushTypes
  <2>2. ASSUME NEW r \in TaskRecord, InTime(r)
        PROVE  InTime(r)' /\ r.before \in Nat /\ r.before <= Len(tasks)
    <3>1. r.before \in Nat /\ r.before <= Len(tasks) /\ 1..r.before \subseteq TaskIds
      BY <2>2, <1>0 DEF TaskRecord, InTime
    <3>2. \A u \in 1..r.before : tasks'[u] = tasks[u]
      BY <3>1, <2>1
    <3>3. QED
      BY <3>1, <3>2, <2>1, <2>2, <1>0 DEF InTime
  <2>3. ASSUME NEW u \in TaskIds' PROVE InTime(tasks[u])' /\ tasks'[u].before < u
    <3>1. CASE u \in TaskIds
      <4>1. PICK r \in TaskRecord : r = tasks[u]
        BY <3>1, Facts
      <4>2. InTime(r) /\ r.before < u /\ tasks'[u] = r
        BY <3>1, <4>1, <2>1 DEF Times
      <4>3. QED
        BY <4>2, <2>2 DEF InTime
    <3>2. CASE u \notin TaskIds
      <4>1. u = Len(tasks) + 1 /\ tasks'[u] = t
        BY <3>2, <2>1, <1>0
      <4>2. QED
        BY <4>1, <2>2, <1>1, <1>0 DEF InTime
    <3>3. QED
      BY <3>1, <3>2
  <2>4. ASSUME NEW y \in Thread, Posting(y, "push")'
        PROVE  InTime(posting[y].task)' /\ posting'[y].task.state = "posted"
    <3>1. posting'[x] \in {NotPosting, Step("schedule")}
      BY <1>1 DEF Push, GoesOn, Types
    <3>2. y # x /\ posting'[y] = posting[y]
      BY <3>1, <2>4, <1>1, NamesType DEF Push, GoesOn, Types, Posting
    <3>3. posting[y].step = "push" /\ posting[y] \in PostingRecord
      BY <3>2, <2>4 DEF Posting, Types
    <3>4. posting[y].task \in TaskRecord /\ InTime(posting[y].task)
          /\ posting[y].task.state = "posted"
      BY <3>3 DEF PostingRecord, Times, Posting
    <3>5. PICK r \in TaskRecord : r = posting[y].task
      BY <3>4
    <3>6. InTime(r)' /\ posting'[y].task = r
      BY <3>2, <3>4, <3>5, <2>2
    <3>7. QED
      BY <3>4, <3>5, <3>6 DEF InTime
  <2>5. QED
    BY <2>3, <2>4 DEF Times
<1>2. ASSUME NEW k \in Kinds, PostTask(x, k) PROVE Times'
  <2>1. PICK time \in Nat : time = 0
    OBVIOUS
  <2>2. k.delay = 0 /\ Push(x, Task(k, time, Len(tasks)))
    BY <1>2, <2>1 DEF PostTask
  <2>3. Task(k, time, Len(tasks)) \in TaskRecord /\ InTime(Task(k, time, Len(tasks)))
    <3>1. time = IF k.delay = 0 THEN 0 ELSE clock + k.delay
      BY <2>1, <2>2
    <3>2. QED
      BY <3>1, NewTaskInTime, Zenon
  <2>4. QED
    BY <2>2, <2>3, <1>1
<1>3. ASSUME NEW k \in Kinds, PostDelayedTask(x, k) PROVE Times'
  <2>1. clock + k.delay \in Nat /\ k.delay > 0
    BY <1>3, ConstantsAssumption DEF Types, TypeOK, PostDelayedTask
  <2>2. PICK r \in TaskRecord : r = Task(k, clock + k.delay, Len(tasks))
    BY <2>1, NewTaskInTime
  <2>3. InTime(r) /\ r.state = "posted"
    BY <2>1, <2>2, NewTaskInTime
  <2>4. tasks' = tasks /\ clock' = clock
        /\ posting' = [posting EXCEPT ![x] = [step |-> "push", task |-> r]]
    BY <1>3, <2>2 DEF PostDelayedTask, GoesOn
  <2>5. ASSUME NEW s \in TaskRecord, InTime(s) PROVE InTime(s)'
    BY <2>5, <2>4 DEF InTime
  <2>6. ASSUME NEW y \in Thread, Posting(y, "push")'
        PROVE  InTime(posting[y].task)' /\ posting'[y].task.state = "posted"
    <3>1. CASE y = x
      <4>1. posting'[y].task = r
        BY <3>1, <2>4 DEF Types
      <4>2. QED
        BY <4>1, <2>3, <2>4 DEF InTime
    <3>2. CASE y # x
      <4>1. posting'[y] = posting[y]
        BY <3>2, <2>4 DEF Types
      <4>2. InTime(posting[y].task) /\ posting[y].task.state = "posted"
        BY <4>1, <2>6 DEF Times, Posting
      <4>3. QED
        BY <4>1, <4>2, <2>4 DEF InTime
    <3>3. QED
      BY <3>1, <3>2
  <2>7. \A u \in TaskIds' : InTime(tasks[u])' /\ tasks'[u].before < u
    BY <2>4 DEF Times, InTime, TaskIds
  <2>8. QED
    BY <2>6, <2>7 DEF Times
<1>4. CASE PushDelayed(x)
  <2>1. posting[x].step = "push" /\ posting[x] \in PostingRecord
    BY <1>4 DEF PushDelayed, Posting, Types
  <2>2. posting[x].task \in TaskRecord /\ InTime(posting[x].task)
    BY <2>1 DEF PostingRecord, Times, Posting
  <2>3. QED
    BY <1>4, <1>1, <2>2 DEF PushDelayed
<1>5. CASE ScheduleWork(x) \/ PostPacket(x)
  <2>1. tasks' = tasks /\ (GoesOn(x, NotPosting) \/ GoesOn(x, Step("packet")))
    BY <1>5 DEF ScheduleWork, PostPacket, AfterExchange
  <2>2. \A y \in Thread : Posting(y, "push")' => posting'[y] = posting[y]
    BY <2>1, NamesType DEF Posting, GoesOn, Types
  <2>3. QED
    BY <2>1, <2>2, <1>0, TasksUnchanged, TimesKept
<1>6. QED
  BY <1>2, <1>3, <1>4, <1>5 DEF Posts, PostOn

LEMMA TimesOther ==
  ASSUME Types, Times, InTaskStep \/ FinishTask \/ Tick \/ PumpStep
  PROVE  Times'
<1>1. clock' \in Nat /\ clock <= clock'
  <2>1. clock' \in {clock, clock + 1}
    BY DEF InTaskStep, Run, Quit, QuitWhenIdle, FinishTask, Tick, PumpStep,
         RunReturns, ReloadWorkQueue, DelayTask, DoWork, DoNoWork, TakePacket, ResetHaveWork,
         NothingDelayed, NotYet, DoDelayedWork, DoIdleWork, NothingIdle, GoToSleep, WakeUp,
         ResetAwake, TimeOut
  <2>2. QED
    BY <2>1 DEF Types, TypeOK
<1>2. \A x \in Thread : Posting(x, "push")' => posting'[x] = posting[x]
  <2>1. CASE InTaskStep
    <3>1. posting' = posting \/ GoesOn(Loop, NotPosting) \/ GoesOn(Loop, Step("schedule"))
      BY <2>1 DEF InTaskStep, Run, Quit, QuitWhenIdle
    <3>2. QED
      BY <3>1, NamesType DEF Posting, GoesOn, Types
  <2>2. CASE FinishTask \/ Tick \/ PumpStep
    <3>1. posting' = posting
      BY <2>2 DEF FinishTask, Tick, PumpStep,
         RunReturns, ReloadWorkQueue, DelayTask, DoWork, DoNoWork, TakePacket, ResetHaveWork,
         NothingDelayed, NotYet, DoDelayedWork, DoIdleWork, NothingIdle, GoToSleep, WakeUp,
         ResetAwake, TimeOut
    <3>2. QED
      BY <3>1
  <2>3. QED
    BY <2>1, <2>2
<1>3. SameTasks
  <2>1. CASE FinishTask
    <3>1. PICK t \in TaskIds : t = Head(running)
      BY <2>1 DEF FinishTask, Types, TypeOK
    <3>2. tasks' = [tasks EXCEPT ![t].state = "done"]
      BY <2>1, <3>1 DEF FinishTask
    <3>3. QED
      BY <3>2, SetsState
  <2>2. CASE \E t \in TaskIds : RunTask(t)
    <3>1. PICK t \in TaskIds : RunTask(t)
      BY <2>2
    <3>2. tasks' = [tasks EXCEPT ![t].state = "running"]
      BY <3>1 DEF RunTask
    <3>3. QED
      BY <3>2, SetsState
  <2>3. CASE tasks' = tasks
    BY <2>3, TasksUnchanged
  <2>4. PumpStep => tasks' = tasks \/ \E t \in TaskIds : RunTask(t)
    <3>1. ASSUME DoWork
          PROVE  tasks' = tasks \/ \E t \in TaskIds : RunTask(t)
      <4>1. PICK t \in TaskIds : t = Head(work)
        BY <3>1 DEF DoWork, Types, TypeOK
      <4>2. RunTask(t) \/ Defer(t)
        BY <3>1, <4>1 DEF DoWork
      <4>3. QED
        BY <4>2 DEF Defer
    <3>2. ASSUME DoDelayedWork
          PROVE  tasks' = tasks \/ \E t \in TaskIds : RunTask(t)
      <4>1. PICK t \in delayed : t = Earliest(delayed)
        BY <3>2, EarliestIs DEF DoDelayedWork, Types, TypeOK
      <4>2. t \in TaskIds /\ (RunTask(t) \/ Defer(t))
        BY <3>2, <4>1 DEF DoDelayedWork, Types, TypeOK
      <4>3. QED
        BY <4>2 DEF Defer
    <3>3. ASSUME DoIdleWork
          PROVE  \E t \in TaskIds : RunTask(t)
      <4>1. PICK t \in TaskIds : t = Head(deferred)
        BY <3>3 DEF DoIdleWork, HasDeferredWork, Types, TypeOK
      <4>2. QED
        BY <3>3, <4>1 DEF DoIdleWork
    <3>4. PumpStep /\ ~(DoWork \/ DoDelayedWork \/ DoIdleWork) => tasks' = tasks
      BY DEF PumpStep, RunReturns, ReloadWorkQueue, DelayTask, DoNoWork, TakePacket,
             ResetHaveWork, NothingDelayed, NotYet, NothingIdle, GoToSleep, WakeUp, ResetAwake,
             TimeOut
    <3>5. QED
      BY <3>1, <3>2, <3>3, <3>4
  <2>5. InTaskStep \/ Tick => tasks' = tasks
    BY DEF InTaskStep, Run, Quit, QuitWhenIdle, Tick
  <2>6. QED
    BY <2>1, <2>2, <2>3, <2>4, <2>5
<1>4. QED
  BY <1>1, <1>2, <1>3, TimesKept

(***************************************************************************)
(* The order in which tasks start.                                         *)
(***************************************************************************)

\* Tasks start in order as long as each that starts or is deferred does.
LEMMA OvertookKept ==
  ASSUME Types, SameTasks, NEW u \in TaskIds, Overtook(u)
  PROVE  Overtook(u)'
<1> SUFFICES ASSUME NEW t \in TaskIds, Precedes(t, u)', tasks'[t].nestable PROVE Started(t)'
  BY DEF Overtook, SameTasks
<1>1. Precedes(t, u) /\ tasks[t].nestable
  BY DEF Precedes, SameTasks
<1>2. QED
  BY <1>1 DEF Overtook, SameTasks

LEMMA OrderSame ==
  ASSUME Types, Order, UNCHANGED <<tasks, deferred, running>>, clock' \in Nat, clock <= clock'
  PROVE  Order'
<1>1. TaskIds' = TaskIds /\ (\A u : Started(u)' <=> Started(u)) /\ SameTasks
  BY TasksUnchanged DEF SameTasks
<1>2. \A u \in TaskIds : Passed(u)' => Overtook(u)'
  BY <1>1, OvertookKept DEF Order, Passed
<1>3. \A k \in 1..Len(running') : Started(running[k])'
  BY DEF Order, Started
<1>4. NeverEarly'
  BY <1>1, Facts DEF Order, NeverEarly, Types, TypeOK
<1>5. NonNestableNotNested'
  BY DEF Order, NonNestableNotNested
<1>6. QED
  BY <1>1, <1>2, <1>3, <1>4, <1>5 DEF Order

\* A task that is run on top of the others.
LEMMA OrderRun ==
  ASSUME Types, Order, NEW n \in TaskIds, RunTask(n), Len(running) < Depth, MayRun(n),
         ToSet(deferred') \subseteq ToSet(deferred), clock' = clock, tasks[n].time <= clock,
         Overtook(n)
  PROVE  Order'
<1>1. tasks' = [tasks EXCEPT ![n].state = "running"] /\ running' = <<n>> \o running
  BY DEF RunTask
<1>2. /\ SameTasks /\ TaskIds' = TaskIds /\ Started(n)'
      /\ \A u \in TaskIds \ {n} : Started(u)' <=> Started(u)
  BY <1>1, SetsState DEF SameTasks
<1>3. /\ running \in Seq(TaskIds) /\ Len(running) \in Nat /\ Len(running') = Len(running) + 1
      /\ running'[1] = n /\ \A k \in 1..Len(running) : running'[k + 1] = running[k]
      /\ \A k \in 1..Len(running) : running[k] \in TaskIds
  BY SMTT(30), <1>1 DEF Types, TypeOK
<1>4. \A u \in TaskIds' : Passed(u)' => Overtook(u)'
  <2> SUFFICES ASSUME NEW u \in TaskIds, Passed(u)' PROVE Overtook(u)'
    BY <1>2
  <2>1. CASE u = n
    BY <2>1, <1>2, OvertookKept
  <2>2. CASE u # n
    <3>1. Passed(u)
      BY <2>2, <1>2 DEF Passed
    <3>2. QED
      BY <3>1, <1>2, OvertookKept DEF Order
  <2>3. QED
    BY <2>1, <2>2
<1>5. \A k \in 1..Len(running') : Started(running[k])'
  <2> SUFFICES ASSUME NEW k \in 1..(Len(running) + 1) PROVE Started(running[k])'
    BY <1>3
  <2>1. CASE k = 1
    BY <2>1, <1>2, <1>3 DEF Started
  <2>2. CASE k # 1
    <3>1. k - 1 \in 1..Len(running) /\ running'[k] = running[k - 1]
      BY <2>2, <1>3
    <3>2. PICK u \in TaskIds : u = running[k - 1]
      BY <3>1, <1>3
    <3>3. Started(u)'
      BY <3>1, <3>2, <1>2 DEF Order, SameTasks
    <3>4. QED
      BY <3>1, <3>2, <3>3 DEF Started
  <2>3. QED
    BY <2>1, <2>2
<1>6. NeverEarly'
  <2> SUFFICES ASSUME NEW u \in TaskIds, Started(u)' PROVE tasks'[u].time <= clock'
    BY <1>2 DEF NeverEarly
  <2>1. tasks[u].time <= clock
    BY <1>2 DEF Order, NeverEarly
  <2>2. QED
    BY <2>1, <1>2 DEF SameTasks
<1>7. NonNestableNotNested'
  <2> SUFFICES ASSUME NEW k \in 1..Len(running) PROVE tasks'[running'[k]].nestable
    BY <1>3 DEF NonNestableNotNested
  <2>1. CASE k = 1
    <3>1. tasks[n].nestable
      BY <1>3, <2>1, Facts DEF MayRun
    <3>2. QED
      BY <3>1, <2>1, <1>2, <1>3 DEF SameTasks
  <2>2. CASE k # 1
    <3>1. k - 1 \in 1..(Len(running) - 1) /\ running'[k] = running[k - 1]
          /\ running[k - 1] \in TaskIds
      BY <2>2, <1>3
    <3>2. tasks[running[k - 1]].nestable
      BY <3>1 DEF Order, NonNestableNotNested
    <3>3. QED
      BY <3>1, <3>2, <1>2 DEF SameTasks
  <2>3. QED
    BY <2>1, <2>2
<1>8. QED
  BY <1>4, <1>5, <1>6, <1>7 DEF Order

\* A task that has to wait for the outermost loop.
LEMMA OrderDefer ==
  ASSUME Types, Order, NEW n \in TaskIds, Defer(n), clock' = clock, Overtook(n)
  PROVE  Order'
<1>1. UNCHANGED <<tasks, running>> /\ ToSet(deferred') = ToSet(deferred) \cup {n}
  BY AppendTail DEF Defer, Types, TypeOK
<1>2. TaskIds' = TaskIds /\ (\A u : Started(u)' <=> Started(u)) /\ SameTasks
  BY <1>1, TasksUnchanged DEF SameTasks
<1>3. \A u \in TaskIds : Passed(u)' => Passed(u) \/ u = n
  BY <1>1, <1>2 DEF Passed
<1>4. \A u \in TaskIds : Passed(u)' => Overtook(u)'
  BY <1>2, <1>3, OvertookKept DEF Order
<1>5. \A k \in 1..Len(running') : Started(running[k])'
  BY <1>1 DEF Order, Started
<1>6. NeverEarly'
  BY <1>1, <1>2 DEF Order, NeverEarly
<1>7. NonNestableNotNested'
  BY <1>1 DEF Order, NonNestableNotNested
<1>8. QED
  BY <1>2, <1>4, <1>5, <1>6, <1>7 DEF Order

LEMMA OrderPosting ==
  ASSUME Types, Order, Times, NEW x \in Thread, Posts(x) \/ PostOn(x)
  PROVE  Order'
<1>0. UNCHANGED <<deferred, running, clock>> /\ clock \in Nat
  BY PostingLeaves DEF Types, TypeOK
<1>1. ASSUME NEW r \in TaskRecord, r.state = "posted", Push(x, r) PROVE Order'
  <2>1. /\ TaskIds = 1..Len(tasks) /\ TaskIds' = 1..(Len(tasks) + 1) /\ Len(tasks) \in Nat
        /\ tasks'[Len(tasks) + 1] = r /\ \A u \in TaskIds : tasks'[u] = tasks[u]
    BY <1>1, PushTypes
  <2>2. \A u \in TaskIds : Started(u)' <=> Started(u)
    BY <2>1 DEF Started
  <2>3. ASSUME NEW u \in TaskIds', Started(u)' PROVE u \in TaskIds /\ Started(u)
    BY <2>1, <2>2, <2>3, <1>1 DEF Started
  <2>4. ASSUME NEW u \in TaskIds, Overtook(u) PROVE Overtook(u)'
    <3> SUFFICES ASSUME NEW t \in TaskIds', Precedes(t, u)', tasks'[t].nestable
                 PROVE  Started(t)'
      BY DEF Overtook
    <3>1. tasks'[u] = tasks[u] /\ u \in TaskIds' /\ tasks[u].before < u
      BY <2>1 DEF Times
    <3>2. t <= tasks[u].before /\ tasks[u].before \in Nat
      BY <3>1, Facts DEF Precedes
    <3>3. t \in TaskIds
      BY <3>1, <3>2, <2>1
    <3>4. Precedes(t, u) /\ tasks[t].nestable
      BY <3>1, <3>3, <2>1 DEF Precedes
    <3>5. QED
      BY <3>3, <3>4, <2>2, <2>4 DEF Overtook
  <2>5. ToSet(deferred) \subseteq TaskIds /\ \A k \in 1..Len(running) : running[k] \in TaskIds
    BY Elements DEF Types, TypeOK
  <2>6. \A u \in TaskIds' : Passed(u)' => u \in TaskIds /\ Passed(u)
    BY <2>3, <2>5, <1>0 DEF Passed
  <2>7. \A u \in TaskIds' : Passed(u)' => Overtook(u)'
    BY <2>4, <2>6 DEF Order
  <2>8. ASSUME NEW k \in 1..Len(running') PROVE Started(running[k])'
    <3>1. PICK u \in TaskIds : u = running[k] /\ running'[k] = u
      BY <2>5, <1>0
    <3>2. Started(u)'
      BY <3>1, <2>2, <1>0 DEF Order
    <3>3. QED
      BY <3>1, <3>2 DEF Started
  <2>9. NeverEarly'
    BY <2>1, <2>3, <1>0 DEF Order, NeverEarly
  <2>10. NonNestableNotNested'
    <3>1. SUFFICES ASSUME NEW k \in 1..(Len(running) - 1) PROVE tasks'[running[k]].nestable
      BY <1>0 DEF NonNestableNotNested
    <3>2. k \in 1..Len(running)
      BY Facts
    <3>3. running[k] \in TaskIds /\ tasks[running[k]].nestable
      BY <3>2, <2>5 DEF Order, NonNestableNotNested
    <3>4. QED
      BY <3>3, <2>1
  <2>11. QED
    BY <2>7, <2>8, <2>9, <2>10 DEF Order
<1>2. ASSUME NEW k \in Kinds, PostTask(x, k) PROVE Order'
  <2>1. Task(k, 0, Len(tasks)) \in TaskRecord /\ Task(k, 0, Len(tasks)).state = "posted"
    BY Facts, ConstantsAssumption DEF Task, TaskRecord
  <2>2. QED
    BY <1>2, <1>1, <2>1 DEF PostTask
<1>3. CASE PushDelayed(x)
  <2>1. posting[x].step = "push" /\ posting[x] \in PostingRecord
    BY <1>3 DEF PushDelayed, Posting, Types
  <2>2. posting[x].task \in TaskRecord /\ posting[x].task.state = "posted"
    BY <2>1 DEF PostingRecord, Times, Posting
  <2>3. QED
    BY <1>3, <1>1, <2>2 DEF PushDelayed
<1>4. CASE (\E k \in Kinds : PostDelayedTask(x, k)) \/ ScheduleWork(x) \/ PostPacket(x)
  <2>1. tasks' = tasks
    BY <1>4 DEF PostDelayedTask, ScheduleWork, PostPacket
  <2>2. QED
    BY <2>1, <1>0, OrderSame
<1>5. QED
  BY <1>2, <1>3, <1>4 DEF Posts, PostOn

LEMMA OrderInTask ==
  ASSUME Types, Order, InTaskStep \/ FinishTask \/ Tick
  PROVE  Order'
<1>0. clock \in Nat
  BY DEF Types, TypeOK
<1>1. CASE InTaskStep
  <2>1. UNCHANGED <<tasks, deferred, running, clock>>
    BY <1>1 DEF InTaskStep, Run, Quit, QuitWhenIdle, queueVars
  <2>2. QED
    BY <2>1, <1>0, OrderSame
<1>2. CASE FinishTask
  <2>1. PICK n \in TaskIds : n = Head(running)
    BY <1>2 DEF FinishTask, Types, TypeOK
  <2>2. /\ tasks' = [tasks EXCEPT ![n].state = "done"] /\ running' = Tail(running)
        /\ UNCHANGED <<deferred, clock>>
        /\ running # <<>>
    BY <1>2, <2>1 DEF FinishTask, queueVars
  <2>3. /\ SameTasks /\ TaskIds' = TaskIds
        /\ \A u \in TaskIds \ {n} : Started(u)' <=> Started(u)
    BY <2>2, SetsState DEF SameTasks
  <2>4. /\ Len(running') = Len(running) - 1 /\ running[1] = n /\ Len(running) >= 1
        /\ \A k \in 1..(Len(running) - 1) : running'[k] = running[k + 1]
        /\ \A k \in 1..Len(running) : running[k] \in TaskIds
    BY <2>1, <2>2, Elements DEF Types, TypeOK
  <2>5. Started(n)
    BY <2>4 DEF Order
  <2>6. \A u \in TaskIds : Started(u)' <=> Started(u)
    BY <2>3, <2>5 DEF SameTasks
  <2>7. \A u \in TaskIds' : Passed(u)' => Overtook(u)'
    BY <2>2, <2>3, <2>6, OvertookKept DEF Order, Passed
  <2>8. ASSUME NEW k \in 1..Len(running') PROVE Started(running[k])'
    <3>1. k + 1 \in 1..Len(running) /\ running'[k] = running[k + 1]
      BY <2>4, Facts
    <3>2. PICK u \in TaskIds : u = running[k + 1]
      BY <3>1, <2>4
    <3>3. Started(u)'
      BY <3>1, <3>2, <2>6 DEF Order
    <3>4. QED
      BY <3>1, <3>2, <3>3 DEF Started
  <2>9. NeverEarly'
    <3> SUFFICES ASSUME NEW u \in TaskIds, Started(u)' PROVE tasks'[u].time <= clock'
      BY <2>3 DEF NeverEarly
    <3>1. tasks[u].time <= clock
      BY <2>6 DEF Order, NeverEarly
    <3>2. QED
      BY <3>1, <2>2, <2>3 DEF SameTasks
  <2>10. NonNestableNotNested'
    <3>1. SUFFICES ASSUME NEW k \in 1..(Len(running) - 2) PROVE tasks'[running'[k]].nestable
      BY <2>4, Facts DEF NonNestableNotNested
    <3>2. k + 1 \in 1..(Len(running) - 1) /\ running'[k] = running[k + 1]
          /\ running[k + 1] \in TaskIds
      <4>1. Len(running) \in Nat
        BY Facts
      <4>2. k \in 1..(Len(running) - 1) /\ k + 1 \in 1..(Len(running) - 1)
            /\ k + 1 \in 1..Len(running)
        BY <4>1
      <4>3. QED
        BY <4>2, <2>4
    <3>3. tasks[running[k + 1]].nestable
      BY <3>2 DEF Order, NonNestableNotNested
    <3>4. QED
      BY <3>2, <3>3, <2>3 DEF SameTasks
  <2>11. QED
    BY <2>7, <2>8, <2>9, <2>10 DEF Order
<1>3. CASE Tick
  <2>1. UNCHANGED <<tasks, deferred, running>> /\ clock' = clock + 1
    BY <1>3 DEF Tick, queueVars, stackVars
  <2>2. QED
    BY <2>1, <1>0, OrderSame
<1>4. QED
  BY <1>1, <1>2, <1>3

LEMMA OrderPump ==
  ASSUME Types, Order, Queues, Times, PumpStep
  PROVE  Order'
<1>0. /\ clock \in Nat /\ ToSet(deferred) \subseteq TaskIds /\ delayed \subseteq TaskIds
      /\ recent \in 0..clock /\ deferred \in Seq(TaskIds) /\ tasks \in Seq(TaskRecord)
  BY Elements DEF Types, TypeOK
<1>1. ASSUME NEW n \in TaskIds,
             n <= Taken + 1,
             \A t \in delayed : t < n => tasks[t].time > tasks[n].time \/ tasks[n].delay = 0
      PROVE  Overtook(n)
  <2> SUFFICES ASSUME NEW t \in TaskIds, Precedes(t, n), tasks[t].nestable PROVE Started(t)
    BY DEF Overtook
  <2>1. /\ t < n /\ t <= Taken /\ t >= 1 /\ tasks[t].delay <= tasks[n].delay
        /\ Taken \in Int
    <3>1. t <= tasks[n].before /\ tasks[n].before < n /\ tasks[t].delay <= tasks[n].delay
      BY DEF Precedes, Times
    <3>2. t \in Nat /\ n \in Nat /\ t >= 1 /\ Taken \in Int /\ tasks[n].before \in Nat
      BY Facts DEF Taken
    <3>3. QED
      BY <3>1, <3>2, <1>1
  <2>2. t \in 1..Taken
    BY <2>1, Facts
  <2>3. Started(t) \/ t \in delayed
    BY <2>2 DEF Queues
  <2>4. ASSUME t \in delayed PROVE FALSE
    <3>1. tasks[t].delay > 0 /\ tasks[t].delay \in Nat /\ tasks[n].delay \in Nat
          /\ tasks[t].time \in Nat /\ tasks[n].time \in Nat
      BY <2>4, Facts DEF Queues
    <3>2. tasks[t].time > tasks[n].time
      BY <2>1, <2>4, <3>1, <1>1
    <3>3. t \in 1..tasks[n].before
      BY Facts DEF Precedes
    <3>4. tasks[t].time <= tasks[n].time
      BY <2>1, <3>3 DEF Times, InTime
    <3>5. QED
      BY <3>1, <3>2, <3>4
  <2>5. QED
    BY <2>3, <2>4
<1>2. CASE DoWork
  <2>1. PICK n \in TaskIds : n = Head(work)
    BY <1>2 DEF DoWork, Types, TypeOK
  <2>2. InPhase("work") /\ tasks[n].delay = 0 /\ clock' = clock /\ work # <<>>
    BY <1>2, <2>1 DEF DoWork
  <2>3. Len(running) < Depth
    BY <2>2, InPhaseIs
  <2>4. n <= Taken + 1
    <3>1. work[1] = n /\ Len(work) >= 1
      BY <2>1, <2>2, Elements DEF Types, TypeOK
    <3>2. n = Taken + 1
      BY <3>1, Facts DEF Queues
    <3>3. QED
      BY <3>2, Facts DEF Taken
  <2>5. Overtook(n)
    BY <1>1, <2>2, <2>4
  <2>6. tasks[n].time <= clock
    BY <2>2, <1>0 DEF Times, InTime
  <2>7. CASE MayRun(n)
    <3>1. RunTask(n) /\ deferred' = deferred
      BY <1>2, <2>1, <2>7 DEF DoWork
    <3>2. ToSet(deferred') \subseteq ToSet(deferred)
      BY <3>1
    <3>3. QED
      BY <3>1, <3>2, <2>2, <2>3, <2>5, <2>6, <2>7, OrderRun
  <2>8. CASE ~MayRun(n)
    <3>1. Defer(n)
      BY <1>2, <2>1, <2>8 DEF DoWork
    <3>2. QED
      BY <3>1, <2>2, <2>5, OrderDefer
  <2>9. QED
    BY <2>7, <2>8
<1>3. CASE DoDelayedWork
  <2>1. PICK n \in delayed : n = Earliest(delayed)
    BY <1>3, <1>0, EarliestIs DEF DoDelayedWork
  <2>2. n \in TaskIds /\ n <= Taken + 1 /\ Len(running) < Depth /\ clock' = clock
    <3>1. n \in TaskIds /\ n <= Taken /\ Taken \in Int
      BY <2>1, <1>0, Facts DEF Queues, Taken
    <3>2. Len(running) < Depth /\ clock' = clock
      BY <1>3, InPhaseIs DEF DoDelayedWork
    <3>3. QED
      BY <3>1, <3>2, Facts
  <2>3. tasks[n].time <= clock
    BY <1>3, <2>1, <2>2, <1>0, Facts DEF DoDelayedWork, IsDue, Recent
  <2>4. ASSUME NEW t \in delayed, t < n PROVE tasks[t].time > tasks[n].time
    <3>1. t \in TaskIds /\ n \in TaskIds /\ t \in Nat /\ n \in Nat
          /\ tasks[t].time \in Nat /\ tasks[n].time \in Nat
      BY <1>0, <2>2, Facts
    <3>2. t \in delayed \ {n}
      BY <3>1, <2>4
    <3>3. Before(n, t)
      BY <3>2, <2>1, <1>0, EarliestIs
    <3>4. QED
      BY <3>1, <3>3, <2>4 DEF Before
  <2>5. Overtook(n)
    BY <1>1, <2>2, <2>4
  <2>6. CASE MayRun(n)
    <3>1. RunTask(n) /\ deferred' = deferred
      BY <1>3, <2>1, <2>6 DEF DoDelayedWork
    <3>2. ToSet(deferred') \subseteq ToSet(deferred)
      BY <3>1
    <3>3. QED
      BY <3>1, <3>2, <2>2, <2>3, <2>5, <2>6, OrderRun
  <2>7. CASE ~MayRun(n)
    <3>1. Defer(n)
      BY <1>3, <2>1, <2>7 DEF DoDelayedWork
    <3>2. QED
      BY <3>1, <2>2, <2>5, OrderDefer
  <2>8. QED
    BY <2>6, <2>7
<1>4. CASE DoIdleWork
  <2>1. PICK n \in TaskIds : n = Head(deferred)
    BY <1>4, <1>0 DEF DoIdleWork, HasDeferredWork
  <2>2. /\ RunTask(n) /\ clock' = clock /\ Len(running) < Depth /\ MayRun(n)
        /\ deferred # <<>> /\ deferred' = Tail(deferred)
    BY <1>4, <2>1, InPhaseIs DEF DoIdleWork, HasDeferredWork, MayRun
  <2>3. ToSet(deferred') \subseteq ToSet(deferred) /\ n \in ToSet(deferred)
    BY <2>1, <2>2, <1>0, AppendTail
  <2>4. Overtook(n) /\ tasks[n].time <= clock
    BY <2>3 DEF Order, Passed, Queues
  <2>5. QED
    BY <2>2, <2>3, <2>4, OrderRun
<1>5. CASE ~(DoWork \/ DoDelayedWork \/ DoIdleWork)
  <2>1. UNCHANGED <<tasks, deferred, running, clock>>
    BY <1>5 DEF PumpStep, RunReturns, ReloadWorkQueue, DelayTask, DoNoWork, TakePacket,
                ResetHaveWork, NothingDelayed, NotYet, NothingIdle, GoToSleep, WakeUp, ResetAwake,
                TimeOut, queueVars, stackVars
  <2>2. QED
    BY <2>1, <1>0, OrderSame
<1>6. QED
  BY <1>2, <1>3, <1>4, <1>5

(***************************************************************************)
(* When loops end.                                                         *)
(***************************************************************************)
LEMMA QuitsInTask ==
  ASSUME Types, Quits, InTaskStep \/ FinishTask \/ Tick
  PROVE  Quits'
<1>0. Types' /\ Depth \in Nat
  BY InTaskTypes, Facts
<1>1. loops' # <<>> => Top' = loops'[1] /\ Depth' >= 1
  BY <1>0 DEF Top, Types, TypeOK, Depth
<1>2. loops # <<>> => Top = loops[1] /\ Depth >= 1
  BY Facts
<1>3. ASSUME NEW u \in BOOLEAN, NEW a \in BOOLEAN, Run(u, a) PROVE Quits'
  <2>1. /\ Depth' = Depth + 1 /\ \A j \in 1..Depth : loops'[j + 1] = loops[j]
        /\ ~loops'[1].quit /\ ~loops'[1].called
    BY <1>3, RunLoops DEF Depth
  <2>2. ASSUME NEW k \in 1..Depth', loops'[k].quit, ~loops'[k].called
        PROVE  loops'[k].phase = "wait"
    <3>1. k - 1 \in 1..Depth /\ loops'[k] = loops[k - 1]
      BY <2>1, <2>2, <1>0
    <3>2. QED
      BY <3>1, <2>2 DEF Quits
  <2>3. QED
    BY <1>1, <2>1, <2>2 DEF Quits
<1>4. ASSUME NEW k \in DOMAIN loops, Quit(k) PROVE Quits'
  <2>1. /\ Depth' = Depth /\ loops'[k].called /\ (k = 1 => loops'[k].quit)
        /\ \A j \in 1..Depth : j # k => loops'[j] = loops[j]
    BY <1>4, QuitLoops DEF Depth
  <2>2. ASSUME NEW j \in 1..Depth', loops'[j].quit, ~loops'[j].called
        PROVE  loops'[j].phase = "wait"
    BY <2>1, <2>2 DEF Quits
  <2>3. loops' # <<>> /\ Top'.called => Top'.quit
    <3>1. loops # <<>>
      BY <1>4, QuitLoops
    <3>2. QED
      BY <3>1, <2>1, <1>0, <1>1, <1>2 DEF Quits
  <2>4. QED
    BY <2>1, <2>2, <2>3 DEF Quits
<1>5. CASE QuitWhenIdle
  <2>1. /\ Depth' = Depth /\ loops # <<>> /\ \A j \in 2..Depth : loops'[j] = loops[j]
        /\ loops'[1].phase = Top.phase /\ loops'[1].quit = Top.quit
        /\ loops'[1].called = Top.called
    BY <1>5, WhenIdleLoops DEF Depth
  <2>2. ASSUME NEW j \in 1..Depth', loops'[j].quit, ~loops'[j].called
        PROVE  loops'[j].phase = "wait"
    <3>1. j = 1 \/ j \in 2..Depth
      BY <2>1, <1>0
    <3>2. QED
      BY <3>1, <2>1, <2>2, <1>0, <1>2 DEF Quits
  <2>3. QED
    BY <2>1, <2>2, <1>1 DEF Quits
<1>6. CASE FinishTask \/ Tick
  <2>1. loops' = loops
    BY <1>6 DEF FinishTask, Tick, stackVars
  <2>2. QED
    BY <2>1 DEF Quits, Depth, Top
<1>7. QED
  BY <1>3, <1>4, <1>5, <1>6 DEF InTaskStep

LEMMA QuitsPump ==
  ASSUME Types, Quits, PumpStep
  PROVE  Quits'
<1>0. Types' /\ Depth \in Nat
  BY PumpTypes, Facts
<1>1. loops' # <<>> => Top' = loops'[1] /\ Depth' >= 1
  BY <1>0 DEF Top, Types, TypeOK, Depth
<1>2. CASE RunReturns
  <2>1. /\ Depth' = Depth - 1 /\ \A j \in 2..(Depth - 1) : loops'[j] = loops[j + 1]
        /\ Depth > 1 => /\ loops'[1].phase = loops[2].phase
                        /\ loops'[1].called = loops[2].called
                        /\ loops'[1].quit = (loops[2].quit \/ loops[2].called)
    BY <1>2, ReturnLoops DEF Depth
  <2>2. ASSUME NEW j \in 1..Depth', loops'[j].quit, ~loops'[j].called
        PROVE  loops'[j].phase = "wait"
    <3>1. CASE j = 1
      <4>1. Depth > 1 /\ 2 \in 1..Depth
        BY <2>1, <3>1, <1>0
      <4>2. QED
        BY <4>1, <2>1, <2>2, <3>1 DEF Quits
    <3>2. CASE j # 1
      <4>1. j + 1 \in 1..Depth /\ loops'[j] = loops[j + 1]
        BY <2>1, <3>2, <1>0
      <4>2. QED
        BY <4>1, <2>2 DEF Quits
    <3>3. QED
      BY <3>1, <3>2
  <2>3. loops' # <<>> /\ Top'.called => Top'.quit
    <3>1. loops' # <<>> => Depth > 1 /\ Top' = loops'[1]
      BY <2>1, <1>0, <1>1
    <3>2. Depth > 1 /\ loops'[1].called => loops'[1].quit
      BY <2>1
    <3>3. QED
      BY <3>1, <3>2
  <2>4. QED
    BY <2>2, <2>3 DEF Quits
<1>3. CASE ~RunReturns
  <2>1. /\ loops # <<>> /\ ~Top.quit /\ Top = loops[1] /\ Depth >= 1
    BY <1>3, PumpTurns, Facts
  <2>2. ~Top.called
    BY <2>1 DEF Quits
  <2>3. CASE loops' = loops
    BY <2>3 DEF Quits, Depth, Top
  <2>4. CASE NothingIdle
    <3>1. /\ Depth' = Depth /\ \A j \in 2..Depth : loops'[j] = loops[j]
          /\ loops'[1].phase = "wait" /\ loops'[1].called = Top.called
      BY <2>4, IdleLoops DEF Depth
    <3>2. \A j \in 1..Depth : j = 1 \/ j \in 2..Depth
      BY <1>0
    <3>3. QED
      BY <3>1, <3>2, <2>2, <1>1 DEF Quits
  <2>5. ASSUME NEW q \in Phase, NEW d \in BOOLEAN, loops' = Turn(q, d) PROVE Quits'
    <3>1. /\ Depth' = Depth /\ \A j \in 2..Depth : loops'[j] = loops[j]
          /\ loops'[1].quit = Top.quit /\ loops'[1].called = Top.called
      BY <2>1, <2>5, TopTurn
    <3>2. \A j \in 1..Depth : j = 1 \/ j \in 2..Depth
      BY <1>0
    <3>3. QED
      BY <3>1, <3>2, <2>1, <2>2, <1>1 DEF Quits
  <2>6. QED
    BY <1>3, <2>3, <2>4, <2>5, PumpTurns
<1>4. QED
  BY <1>2, <1>3

(***************************************************************************)
(* The invariant.                                                          *)
(***************************************************************************)
LEMMA InitHolds == Init => IInv
<1> SUFFICES ASSUME Init PROVE IInv
  OBVIOUS
<1>1. Types
  <2>1. posting \in [Thread -> PostingRecord] /\ \A x \in Thread : posting[x].step = "idle"
    BY NamesType DEF Init
  <2>2. <<>> \in Seq(TaskRecord) /\ <<>> \in Seq(LoopRecord) /\ <<>> \in Seq(TaskIds)
    OBVIOUS
  <2>3. /\ tasks \in Seq(TaskRecord) /\ loops \in Seq(LoopRecord) /\ delayed \subseteq TaskIds
        /\ incoming \in Seq(TaskIds) /\ work \in Seq(TaskIds) /\ deferred \in Seq(TaskIds)
        /\ running \in Seq(TaskIds)
    BY <2>2 DEF Init
  <2>4. runs \in 0..MaxRuns /\ timer \in Nat /\ clock \in Nat /\ recent \in 0..clock
        /\ wakeups \in 0..1
    BY ConstantsAssumption DEF Init
  <2>5. pump \in Pumps /\ allowed \in BOOLEAN /\ haveWork \in BOOLEAN
    BY DEF Init
  <2>6. \A x \in Thread : posting[x].step \in {"idle", "push", "schedule", "packet"}
    BY <2>1
  <2>7. QED
    BY <2>1, <2>3, <2>4, <2>5, <2>6 DEF Types, TypeOK
<1>2. Depth = 0 /\ Len(running) = 0 /\ TaskIds = {} /\ Taken = 0 /\ ToSet(deferred) = {}
  <2>1. /\ tasks = <<>> /\ work = <<>> /\ incoming = <<>> /\ loops = <<>> /\ running = <<>>
        /\ deferred = <<>>
    BY DEF Init
  <2>2. Len(tasks) = 0 /\ Len(work) = 0 /\ Len(incoming) = 0 /\ Len(loops) = 0
        /\ Len(running) = 0 /\ DOMAIN tasks = {}
    BY <2>1
  <2>3. ToSet(deferred) = {}
    <3>1. ToSet(deferred) = {deferred[i] : i \in 1..Len(deferred)}
      BY <1>1, Elements DEF Types, TypeOK
    <3>2. Len(deferred) = 0
      BY <2>1
    <3>3. QED
      BY <3>1, <3>2
  <2>4. QED
    BY <2>2, <2>3 DEF Depth, TaskIds, Taken
<1>3. Stack
  BY <1>2 DEF Stack, Init
<1>4. Packets = {} /\ ~Taking /\ ~Pumping
  BY DEF Init, Packets, Taking, Pumping, Posting, NotPosting
<1>5. OneToken
  BY <1>4 DEF OneToken, Init
<1>6. Queues
  BY <1>2 DEF Queues, Init
<1>7. Awaited /\ TimerSet
  BY <1>4 DEF Awaited, TimerSet, Settled, Init
<1>8. Times
  BY <1>2 DEF Times, Init, Posting, NotPosting
<1>9. Order
  BY <1>2 DEF Order, NeverEarly, NonNestableNotNested
<1>10. Quits
  BY <1>2 DEF Quits, Init
<1>11. QED
  BY <1>1, <1>3, <1>5, <1>6, <1>7, <1>8, <1>9, <1>10 DEF IInv

LEMMA StepKeeps == IInv /\ [Next]_vars => IInv'
<1> SUFFICES ASSUME IInv, [Next]_vars PROVE IInv'
  OBVIOUS
<1>0. /\ Types /\ Stack /\ OneToken /\ Queues /\ Awaited /\ TimerSet /\ Times /\ Order /\ Quits
  BY DEF IInv
<1>1. ASSUME NEW x \in Thread, Posts(x) \/ PostOn(x) PROVE IInv'
  <2>1. Types' /\ OneToken' /\ Queues' /\ Awaited' /\ TimerSet' /\ Times' /\ Order'
    BY <1>0, <1>1, PostingTypes, TokenPosting, QueuesPosting, AwaitedPosting, TimesPosting,
       OrderPosting
  <2>2. UNCHANGED <<pump, loops, running>> /\ Len(tasks') \in Nat /\ Len(tasks) <= Len(tasks')
    BY <1>0, <1>1, PostingLeaves
  <2>3. Stack'
    BY <1>0, <2>2, StackPosting
  <2>4. Quits'
    BY <1>0, <2>2 DEF Quits, Depth, Top
  <2>5. QED
    BY <2>1, <2>3, <2>4 DEF IInv
<1>2. CASE InTaskStep \/ FinishTask \/ Tick
  BY <1>0, <1>2, InTaskTypes, StackInTask, TokenInTask, QueuesInTask, AwaitedInTask, TimesOther,
     OrderInTask, QuitsInTask DEF IInv
<1>3. CASE PumpStep
  BY <1>0, <1>3, PumpTypes, StackPump, TokenPump, QueuesPump, AwaitedPump, TimesOther,
     OrderPump, QuitsPump DEF IInv
<1>4. CASE UNCHANGED vars
  <2>1. UNCHANGED <<pump, tasks, incoming, work, delayed, deferred, allowed, loops, running, runs,
                    timer, recent, clock, haveWork, wakeups, posting>>
    BY <1>4 DEF vars, queueVars, stackVars, timeVars, wakeupVars
  <2>2. Types'
    BY <2>1, <1>0 DEF Types, TypeOK, TaskIds
  <2>3. Stack' /\ Quits' /\ OneToken'
    BY <2>1, <1>0 DEF Stack, Below, Depth, Quits, Top, OneToken, Packets, Posting, Taking
  <2>4. Awaited' /\ TimerSet'
    BY <2>1, <1>0 DEF Awaited, Settled, Pumping, Scheduled, TimerSet, Taken, Top, Depth
  <2>5. SameTasks /\ clock \in Nat /\ clock' \in Nat /\ clock <= clock'
    BY <2>1, <1>0, TasksUnchanged DEF Types, TypeOK
  <2>6. Queues' /\ Order'
    BY <2>1, <2>5, <1>0, QueuesSame, OrderSame
  <2>7. Times'
    BY <2>1, <2>5, <1>0, TimesKept
  <2>8. QED
    BY <2>2, <2>3, <2>4, <2>6, <2>7 DEF IInv
<1>5. QED
  BY <1>1, <1>2, <1>3, <1>4 DEF Next

LEMMA Invariance == Spec => []IInv
  BY InitHolds, StepKeeps, PTL DEF Spec

(***************************************************************************)
(* What holds of every loop.                                               *)
(***************************************************************************)

\* MessageLoop's variables keep their shape, and no pump is ever woken twice: at most one
\* wakeup is there, which the DCHECKs on have_work_ of MessagePumpForIO rely on.
THEOREM TypeCorrect == Spec => []TypeOK
  BY Invariance, PTL DEF IInv, Types

\* Whatever the threads that post and the loop do in whatever order, a loop that may run
\* tasks sleeps only when its queues are empty or a thread is about to wake it, and its
\* timer is set for the first delayed task: no task waits for a wakeup that does not come.
THEOREM NoLostWakeup == Spec => []OnlyIdleSleeps
<1>1. IInv => OnlyIdleSleeps
  <2> SUFFICES ASSUME IInv, loops # <<>>, Top.phase = "asleep", allowed
               PROVE  /\ work = <<>>
                      /\ incoming # <<>> =>
                           wakeups > 0 \/ Scheduled
                      /\ delayed # {} => timer # 0 /\ timer <= tasks[Earliest(delayed)].time
                      /\ Depth = 1 => deferred = <<>>
    BY DEF OnlyIdleSleeps, Scheduled
  <2>1. Types /\ Stack /\ Awaited /\ TimerSet
    BY DEF IInv
  <2>2. Len(running) < Depth
    <3>1. Len(running) # Depth
      BY <2>1, UnderTask
    <3>2. QED
      BY <3>1, <2>1, Facts DEF Stack
  <2>3. Pumping /\ Settled /\ ~Top.did
    BY <2>1, <2>2 DEF Pumping, Settled, Awaited
  <2>4. delayed # {} => timer # 0 /\ timer <= tasks[Earliest(delayed)].time
    <3>1. delayed # {} => Earliest(delayed) \in delayed
      BY <2>1, EarliestIs DEF Types, TypeOK
    <3>2. QED
      BY <2>1, <2>3, <3>1 DEF TimerSet
  <2>5. QED
    BY <2>1, <2>3, <2>4 DEF Awaited
<1>2. QED
  BY <1>1, Invariance, PTL

\* In every loop, nested ones too, a nestable task starts before those posted after it
\* with the same or a higher delay, no task starts before its time, and a non-nestable
\* task is never run inside another.
THEOREM TasksStartCorrect == Spec => []TasksStartRightly
<1>1. IInv => TasksStartRightly
  <2> SUFFICES ASSUME IInv PROVE StartInOrder
    BY DEF IInv, Order, TasksStartRightly
  <2>1. QED
    BY DEF StartInOrder, IInv, Order, Passed, Overtook
<1>2. QED
  BY <1>1, Invariance, PTL

\* A loop that was told to quit starts no more tasks, and one that ends because it was
\* idle has started every task posted before it that it may run.
THEOREM LoopsEndCorrect == Spec => LoopsEndRightly
<1>1. IInv /\ [Next]_vars => (Len(running') > Len(running) => ~Top.called)
  <2> SUFFICES ASSUME IInv, [Next]_vars, Len(running') > Len(running) PROVE ~Top.called
    OBVIOUS
  <2>1. Types /\ Quits /\ Len(running) \in Nat
    BY Facts DEF IInv
  <2>2. PumpStep /\ ~RunReturns
    <3>1. running' = running \/ (running' = Tail(running) /\ running # <<>>) \/ PumpStep
      <4>1. ASSUME NEW x \in Thread, Posts(x) \/ PostOn(x) PROVE running' = running
        BY <2>1, <4>1, PostingLeaves
      <4>2. InTaskStep \/ Tick \/ UNCHANGED vars => running' = running
        BY DEF InTaskStep, Run, Quit, QuitWhenIdle, Tick, vars, stackVars
      <4>3. FinishTask => running' = Tail(running) /\ running # <<>>
        BY DEF FinishTask
      <4>4. QED
        BY <4>1, <4>2, <4>3 DEF Next
    <3>2. running' = Tail(running) /\ running # <<>> => Len(running') = Len(running) - 1
      BY <2>1, Elements DEF Types, TypeOK
    <3>3. RunReturns => running' = running
      BY DEF RunReturns
    <3>4. QED
      BY <3>1, <3>2, <3>3, <2>1
  <2>3. loops # <<>> /\ ~Top.quit
    BY <2>1, <2>2, PumpTurns
  <2>4. QED
    BY <2>1, <2>3 DEF Quits
<1>2. IInv /\ [Next]_vars =>
        (Len(loops') < Len(loops) /\ ~Top.called /\ allowed =>
           \A t \in 1..Top.since : tasks[t].delay = 0 /\ MayRun(t) => Started(t))
  <2> SUFFICES ASSUME IInv, [Next]_vars, Len(loops') < Len(loops), ~Top.called, allowed,
                      NEW t \in 1..Top.since, tasks[t].delay = 0, MayRun(t)
               PROVE  Started(t)
    OBVIOUS
  <2>1. Types /\ Queues /\ Awaited /\ Quits /\ Depth \in Nat
    BY Facts DEF IInv
  <2>2. RunReturns
    <3>1. ASSUME NEW x \in Thread, Posts(x) \/ PostOn(x) PROVE FALSE
      <4>1. loops' = loops
        BY <2>1, <3>1, PostingLeaves
      <4>2. QED
        BY <4>1, <2>1 DEF Depth
    <3>2. ASSUME NEW u \in BOOLEAN, NEW a \in BOOLEAN, Run(u, a) PROVE FALSE
      BY <2>1, <3>2, RunLoops DEF Depth
    <3>3. ASSUME NEW k \in DOMAIN loops, Quit(k) PROVE FALSE
      BY <2>1, <3>3, QuitLoops DEF Depth
    <3>4. ASSUME QuitWhenIdle PROVE FALSE
      BY <2>1, <3>4, WhenIdleLoops DEF Depth
    <3>5. ASSUME FinishTask \/ Tick \/ UNCHANGED vars PROVE FALSE
      <4>1. loops' = loops
        BY <3>5 DEF FinishTask, Tick, vars, stackVars
      <4>2. QED
        BY <4>1, <2>1 DEF Depth
    <3>6. ASSUME PumpStep, ~RunReturns PROVE FALSE
      <4>1. loops # <<>>
        BY <2>1, <3>6, PumpTurns
      <4>2. CASE loops' = loops
        BY <4>2, <2>1 DEF Depth
      <4>3. CASE NothingIdle
        BY <4>3, <2>1, IdleLoops DEF Depth
      <4>4. ASSUME NEW q \in Phase, NEW d \in BOOLEAN, loops' = Turn(q, d) PROVE FALSE
        <5>1. Depth' = Depth
          BY <4>1, <4>4, <2>1, TopTurn
        <5>2. QED
          BY <5>1, <2>1 DEF Depth
      <4>5. QED
        BY <4>2, <4>3, <4>4, <2>1, <3>6, PumpTurns
    <3>7. QED
      BY <3>1, <3>2, <3>3, <3>4, <3>5, <3>6 DEF Next, InTaskStep
  <2>3. /\ loops # <<>> /\ Top = loops[1] /\ Depth >= 1 /\ Top.quit /\ Pumping
        /\ Top.since \in Nat
    BY <2>1, <2>2, ReturnLoops, Facts DEF RunReturns, InPump, Pumping, Depth
  <2>4. Top.phase = "wait"
    BY <2>1, <2>3 DEF Quits
  <2>5. Settled /\ work = <<>> /\ Top.since <= Taken
    BY <2>1, <2>3, <2>4 DEF Settled, Awaited
  <2>6. t \in 1..Taken
    BY <2>1, <2>3, <2>5, Facts DEF Taken
  <2>7. t \notin delayed
    BY <2>1 DEF Queues
  <2>8. t \notin ToSet(deferred)
    <3>1. SUFFICES ASSUME t \in ToSet(deferred) PROVE FALSE
      OBVIOUS
    <3>2. Depth = 1
      BY <2>1, <3>1 DEF Queues, MayRun
    <3>3. deferred = <<>>
      BY <2>1, <2>3, <2>4, <3>2 DEF Awaited
    <3>4. QED
      BY <3>1, <3>3 DEF ToSet
  <2>9. QED
    BY <2>1, <2>6, <2>7, <2>8 DEF Queues
<1>3. QED
  BY <1>1, <1>2, Invariance, PTL DEF Spec, LoopsEndRightly, QuitStopsLoop, IdleMeansAllRun
=============================================================================
