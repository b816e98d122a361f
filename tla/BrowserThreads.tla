--------------------------- MODULE BrowserThreads ---------------------------
(***************************************************************************)
(* The registry of named threads (browser_thread_impl.cc) and the life of  *)
(* the threads in it (base/threading/thread.cc): one owner constructs,     *)
(* starts and destroys them, as CServerPortDlg does, in the order that     *)
(* DiesFirst gives, while the owner and the tasks of the threads post to   *)
(* them by name.                                                           *)
(*                                                                         *)
(* A name is a number, as in the enumeration BrowserThread::ID: the code   *)
(* takes a thread with a smaller number to outlive those with larger ones. *)
(* The owner has a message loop of its own which is not registered (the    *)
(* dialog registers no UI thread); the worker threads of the blocking pool *)
(* have none.                                                              *)
(***************************************************************************)
EXTENDS Integers, Sequences, FiniteSets

CONSTANTS
  Id,         \* the names of the threads
  Owner,      \* the thread that owns them
  Worker,     \* threads of the blocking pool
  Nobody,     \* no name; no holder of the lock
  Quit,       \* the task ThreadQuitHelper
  DiesFirst,  \* pairs <<j, i>>: the owner destroys j before it destroys i
  MaxPosts,   \* bound: PostTask calls, per poster
  MayFail     \* threads whose creation may fail

Actor == Id \cup {Owner} \cup Worker

ASSUME NamesAssumption ==
  /\ Id \subseteq Nat
  /\ IsFiniteSet(Id)
  /\ Owner \notin Id /\ Worker \cap (Id \cup {Owner}) = {}
  /\ Nobody \notin Actor
ASSUME OrderAssumption == DiesFirst \subseteq Id \X Id
ASSUME BoundsAssumption == MaxPosts \in [Actor -> Nat] /\ MayFail \subseteq Id
ASSUME QuitAssumption == Quit \notin UNION {{a} \X (1..MaxPosts[a]) : a \in Actor}

VARIABLES
  registered,  \* globals.threads[i] is set
  object,      \* the BrowserThreadImpl of i
  started,     \* started_
  loopSet,     \* message_loop_ is not NULL
  phase,       \* where ThreadMain is
  loop,        \* the MessageLoop on the stack of the thread
  queue,       \* its tasks
  quitWhenIdle, \* quit_when_idle_received_ of its run loop
  event,       \* startup_data.event
  lock,        \* globals.lock
  owner,       \* the owner's call on a thread
  call,        \* per actor, its PostTaskHelper or GetCurrentThreadIdentifier
  posted,      \* per actor, the number of its PostTask calls
  status       \* history: what became of each task

vars == <<registered, object, started, loopSet, phase, loop, queue, quitWhenIdle,
          event, lock, owner, call, posted, status>>
threadVars == <<registered, object, started, loopSet, phase, loop, quitWhenIdle, event>>

Task == UNION {{a} \X (1..MaxPosts[a]) : a \in Actor}

Fates == {"none", "queued", "done", "deleted", "refused", "lost"}
Phases == {"none", "created", "init", "signal", "identify", "run", "cleanup",
           "clear", "dying", "exited"}
Places == {"idle", "scan", "look", "lock", "read", "deref", "post"}

\* A call looks at the slots `rest` in turn, has found the thread to be `self`,
\* and posts to `target` (Nobody: BrowserThreadImpl::Run only asks who it is).
Call == [pc : Places, target : Id \cup {Nobody}, self : Id \cup {Nobody}, rest : SUBSET Id]
NoCall == [pc |-> "idle", target |-> Nobody, self |-> Nobody, rest |-> {}]
Asks(t) == [pc |-> "scan", target |-> t, self |-> Nobody, rest |-> Id]

TypeOK ==
  /\ registered \in [Id -> BOOLEAN]
  /\ object \in [Id -> {"none", "alive", "deleted"}]
  /\ started \in [Id -> BOOLEAN]
  /\ loopSet \in [Id -> BOOLEAN]
  /\ phase \in [Id -> Phases]
  /\ loop \in [Id -> {"none", "alive", "dead"}]
  /\ queue \in [Id -> Seq(Task \cup {Quit})]
  /\ quitWhenIdle \in [Id -> BOOLEAN]
  /\ event \in [Id -> BOOLEAN]
  /\ lock \in Actor \cup {Nobody}
  /\ lock # Nobody => call[lock].pc \in {"read", "deref", "post"}
  /\ owner \in [does : {"idle", "start", "join", "unregister", "delete"}, id : Id \cup {Nobody}]
  /\ call \in [Actor -> Call]
  /\ posted \in [Actor -> Nat] /\ \A a \in Actor : posted[a] <= MaxPosts[a]
  /\ status \in [Task -> Fates]

Idle == [does |-> "idle", id |-> Nobody]

Init ==
  /\ registered = [i \in Id |-> FALSE]
  /\ object = [i \in Id |-> "none"]
  /\ started = [i \in Id |-> FALSE]
  /\ loopSet = [i \in Id |-> FALSE]
  /\ phase = [i \in Id |-> "none"]
  /\ loop = [i \in Id |-> "none"]
  /\ queue = [i \in Id |-> <<>>]
  /\ quitWhenIdle = [i \in Id |-> FALSE]
  /\ event = [i \in Id |-> FALSE]
  /\ lock = Nobody
  /\ owner = Idle
  /\ call = [a \in Actor |-> NoCall]
  /\ posted = [a \in Actor |-> 0]
  /\ status = [t \in Task |-> "none"]

OwnerFree == owner.does = "idle" /\ call[Owner].pc = "idle"
At(a, pc) == call[a].pc = pc
Now(a, pc) == call' = [call EXCEPT ![a].pc = pc]

-----------------------------------------------------------------------------
(* The owner.                                                              *)

\* The constructor registers the thread before it is started.
Initialize(i) ==
  /\ OwnerFree
  /\ object[i] = "none"
  /\ \A j \in Id : object[j] # "deleted"
  /\ lock = Nobody
  /\ object' = [object EXCEPT ![i] = "alive"]
  /\ registered' = [registered EXCEPT ![i] = TRUE]
  /\ UNCHANGED <<started, loopSet, phase, loop, queue, quitWhenIdle, event, lock, owner, call, posted, status>>

StartWithOptions(i) ==
  /\ OwnerFree
  /\ object[i] = "alive" /\ phase[i] = "none" /\ \A j \in Id : object[j] # "deleted"
  /\ \/ i \in MayFail /\ UNCHANGED <<phase, owner>>
     \/ /\ phase' = [phase EXCEPT ![i] = "created"]
        /\ owner' = [does |-> "start", id |-> i]
  /\ UNCHANGED <<registered, object, started, loopSet, loop, queue, quitWhenIdle, event, lock, call, posted, status>>

\* Wrong: Start does not wait for the event.
StartReturns_NoWait ==
  /\ owner.does = "start"
  /\ event' = [event EXCEPT ![owner.id] = FALSE]
  /\ started' = [started EXCEPT ![owner.id] = TRUE]
  /\ owner' = Idle
  /\ UNCHANGED <<registered, object, loopSet, phase, loop, queue, quitWhenIdle, lock, call, posted, status>>

\* The event says that message_loop_ is set and Init has returned.
StartReturns ==
  /\ owner.does = "start" /\ event[owner.id]
  /\ event' = [event EXCEPT ![owner.id] = FALSE]
  /\ started' = [started EXCEPT ![owner.id] = TRUE]
  /\ owner' = Idle
  /\ UNCHANGED <<registered, object, loopSet, phase, loop, queue, quitWhenIdle, lock, call, posted, status>>

\* The owner destroys the threads in the order it has chosen for them.
MayDestroy(i) ==
  /\ OwnerFree
  /\ object[i] = "alive"
  /\ \A j \in Id : <<j, i>> \in DiesFirst => object[j] \in {"none", "deleted"}

\* Wrong: the destructor holds the lock while it joins.
Stop_UnderLock(i) ==
  /\ MayDestroy(i) /\ lock = Nobody
  /\ owner' = [does |-> IF started[i] THEN "join" ELSE "unregister", id |-> i]
  /\ queue' = IF started[i] /\ loopSet[i] THEN [queue EXCEPT ![i] = Append(@, Quit)] ELSE queue
  /\ lock' = Owner
  /\ UNCHANGED <<threadVars, call, posted, status>>

\* The destructor begins with Stop: StopSoon posts the quit task, then Join.
Stop(i) ==
  /\ MayDestroy(i)
  /\ owner' = [does |-> IF started[i] THEN "join" ELSE "unregister", id |-> i]
  /\ queue' = IF started[i] /\ loopSet[i] THEN [queue EXCEPT ![i] = Append(@, Quit)] ELSE queue
  /\ UNCHANGED <<threadVars, lock, call, posted, status>>

Join ==
  /\ owner.does = "join" /\ phase[owner.id] = "exited"
  /\ started' = [started EXCEPT ![owner.id] = FALSE]
  /\ owner' = [owner EXCEPT !.does = "unregister"]
  /\ UNCHANGED <<registered, object, loopSet, phase, loop, queue, quitWhenIdle, event, lock, call, posted, status>>

\* Wrong: the slot is cleared without the lock.
Unregister_NoLock ==
  /\ owner.does = "unregister"
  /\ registered' = [registered EXCEPT ![owner.id] = FALSE]
  /\ owner' = [owner EXCEPT !.does = "delete"]
  /\ UNCHANGED <<object, started, loopSet, phase, loop, queue, quitWhenIdle, event, lock, call, posted, status>>

\* The slot is cleared under the lock.
Unregister ==
  /\ owner.does = "unregister" /\ lock = Nobody
  /\ registered' = [registered EXCEPT ![owner.id] = FALSE]
  /\ owner' = [owner EXCEPT !.does = "delete"]
  /\ UNCHANGED <<object, started, loopSet, phase, loop, queue, quitWhenIdle, event, lock, call, posted, status>>

Delete ==
  /\ owner.does = "delete"
  /\ object' = [object EXCEPT ![owner.id] = "deleted"]
  /\ owner' = Idle
  /\ UNCHANGED <<registered, started, loopSet, phase, loop, queue, quitWhenIdle, event, lock, call, posted, status>>

-----------------------------------------------------------------------------
(* BrowserThread::PostTask, by any actor.                                  *)

CanPost(a) == call[a].pc = "idle" /\ posted[a] < MaxPosts[a]
BeginPost(a, t) ==
  /\ posted' = [posted EXCEPT ![a] = @ + 1]
  /\ call' = [call EXCEPT ![a] = Asks(t)]

OwnerPosts(t) ==
  /\ OwnerFree /\ CanPost(Owner)
  /\ BeginPost(Owner, t)
  /\ UNCHANGED <<threadVars, queue, lock, owner, status>>

WorkerPosts(w, t) ==
  /\ CanPost(w)
  /\ BeginPost(w, t)
  /\ UNCHANGED <<threadVars, queue, lock, owner, status>>

\* message_loop() == MessageLoop::current(): both are NULL for a worker and a
\* thread that is registered without a loop.
IsCurrent(a, s) == IF a \in Worker THEN ~loopSet[s] ELSE s = a /\ loopSet[a]

\* No lock is needed where the target outlives the caller.
Outlives(t, self) == self # Nobody /\ self >= t

\* GetCurrentThreadIdentifier is done: Run goes on to the loop, a post to the lock.
Identified(a, self) ==
  IF call[a].target = Nobody
  THEN /\ call' = [call EXCEPT ![a] = NoCall]
       /\ phase' = [phase EXCEPT ![a] = "run"]
  ELSE /\ call' = [call EXCEPT ![a].self = self, ![a].rest = {},
                     ![a].pc = IF Outlives(call[a].target, self) THEN "read" ELSE "lock"]
       /\ UNCHANGED phase

NextSlot(a) == CHOOSE s \in call[a].rest : \A r \in call[a].rest : s <= r

\* GetCurrentThreadIdentifier reads a slot of the array without the lock ...
Scan(a) ==
  /\ At(a, "scan")
  /\ IF call[a].rest = {} THEN Identified(a, Nobody)
     ELSE /\ call' = IF registered[NextSlot(a)]
                     THEN [call EXCEPT ![a].pc = "look"]
                     ELSE [call EXCEPT ![a].rest = @ \ {NextSlot(a)}]
          /\ UNCHANGED phase
  /\ UNCHANGED <<registered, object, started, loopSet, loop, queue, quitWhenIdle, event, lock, owner, posted, status>>

\* ... and then the message_loop_ of the thread it has read.
Look(a) ==
  /\ At(a, "look")
  /\ IF IsCurrent(a, NextSlot(a)) THEN Identified(a, NextSlot(a))
     ELSE /\ call' = [call EXCEPT ![a].pc = "scan", ![a].rest = @ \ {NextSlot(a)}]
          /\ UNCHANGED phase
  /\ UNCHANGED <<registered, object, started, loopSet, loop, queue, quitWhenIdle, event, lock, owner, posted, status>>

Acquire(a) ==
  /\ At(a, "lock") /\ lock = Nobody
  /\ lock' = a
  /\ Now(a, "read")
  /\ UNCHANGED <<threadVars, queue, owner, posted, status>>

Fate(a) == <<a, posted[a]>>

\* Wrong: the lock is kept.
Release_Never(a) == UNCHANGED lock

\* Who holds no lock releases none.
Release(a) == lock' = IF lock = a THEN Nobody ELSE lock

\* PostTaskHelper returns false.
Refuse(a) ==
  /\ Release(a)
  /\ call' = [call EXCEPT ![a] = NoCall]
  /\ status' = [status EXCEPT ![Fate(a)] = "refused"]

ReadThread(a) ==
  /\ At(a, "read")
  /\ IF registered[call[a].target] THEN Now(a, "deref") /\ UNCHANGED <<lock, status>>
     ELSE Refuse(a)
  /\ UNCHANGED <<threadVars, queue, owner, posted>>

ReadLoop(a) ==
  /\ At(a, "deref")
  /\ IF loopSet[call[a].target] THEN Now(a, "post") /\ UNCHANGED <<lock, status>>
     ELSE Refuse(a)
  /\ UNCHANGED <<threadVars, queue, owner, posted>>

\* The loop may have died since message_loop_ was read; then the task is lost.
Post(a) ==
  LET t == call[a].target IN
  /\ At(a, "post")
  /\ IF loop[t] = "alive"
     THEN /\ queue' = [queue EXCEPT ![t] = Append(@, Fate(a))]
          /\ status' = [status EXCEPT ![Fate(a)] = "queued"]
     ELSE /\ status' = [status EXCEPT ![Fate(a)] = "lost"]
          /\ UNCHANGED queue
  /\ Release(a)
  /\ call' = [call EXCEPT ![a] = NoCall]
  /\ UNCHANGED <<threadVars, owner, posted>>

-----------------------------------------------------------------------------
(* ThreadMain.                                                             *)

Step(i, from, to) == phase[i] = from /\ phase' = [phase EXCEPT ![i] = to]

CreateLoop(i) ==
  /\ Step(i, "created", "init")
  /\ loop' = [loop EXCEPT ![i] = "alive"]
  /\ loopSet' = [loopSet EXCEPT ![i] = TRUE]
  /\ UNCHANGED <<registered, object, started, queue, quitWhenIdle, event, lock, owner, call, posted, status>>

\* BrowserProcessSubThread::Init and CleanUp ask CurrentlyOn, under the lock.
InitThread(i) ==
  /\ Step(i, "init", "signal")
  /\ lock = Nobody
  /\ UNCHANGED <<registered, object, started, loopSet, loop, queue, quitWhenIdle, event, lock, owner, call, posted, status>>

\* The starter goes on; BrowserThreadImpl::Run then looks itself up.
SignalStarted(i) ==
  /\ Step(i, "signal", "identify")
  /\ event' = [event EXCEPT ![i] = TRUE]
  /\ call' = [call EXCEPT ![i] = Asks(Nobody)]
  /\ UNCHANGED <<registered, object, started, loopSet, loop, queue, quitWhenIdle, lock, owner, posted, status>>

\* A task is run; it may post, to any thread.
RunTask(i) ==
  /\ phase[i] = "run" /\ At(i, "idle")
  /\ queue[i] # <<>> /\ Head(queue[i]) # Quit
  /\ queue' = [queue EXCEPT ![i] = Tail(@)]
  /\ status' = [status EXCEPT ![Head(queue[i])] = "done"]
  /\ \/ UNCHANGED <<call, posted>>
     \/ CanPost(i) /\ \E t \in Id : BeginPost(i, t)
  /\ UNCHANGED <<threadVars, lock, owner>>

\* ThreadQuitHelper: the loop goes on with the tasks that are queued, and what
\* they post, ...
QuitWhenIdle(i) ==
  /\ phase[i] = "run" /\ At(i, "idle")
  /\ queue[i] # <<>> /\ Head(queue[i]) = Quit
  /\ queue' = [queue EXCEPT ![i] = Tail(@)]
  /\ quitWhenIdle' = [quitWhenIdle EXCEPT ![i] = TRUE]
  /\ UNCHANGED <<registered, object, started, loopSet, phase, loop, event, lock, owner, call, posted, status>>

\* ... and ends when DoIdleWork finds it idle.
QuitLoop(i) ==
  /\ phase[i] = "run" /\ At(i, "idle")
  /\ quitWhenIdle[i] /\ queue[i] = <<>>
  /\ phase' = [phase EXCEPT ![i] = "cleanup"]
  /\ UNCHANGED <<registered, object, started, loopSet, loop, queue, quitWhenIdle, event, lock, owner, call, posted, status>>

CleanUp(i) ==
  /\ Step(i, "cleanup", "clear")
  /\ lock = Nobody
  /\ UNCHANGED <<registered, object, started, loopSet, loop, queue, quitWhenIdle, event, lock, owner, call, posted, status>>

\* message_loop_ is cleared without the lock of the registry.
ClearLoop(i) ==
  /\ Step(i, "clear", "dying")
  /\ loopSet' = [loopSet EXCEPT ![i] = FALSE]
  /\ UNCHANGED <<registered, object, started, loop, queue, quitWhenIdle, event, lock, owner, call, posted, status>>

Rest(i) == {queue[i][k] : k \in 1..Len(queue[i])}

\* ~MessageLoop deletes the tasks that have not run.
DestroyLoop(i) ==
  /\ Step(i, "dying", "exited")
  /\ loop' = [loop EXCEPT ![i] = "dead"]
  /\ status' = [t \in Task |-> IF t \in Rest(i) THEN "deleted" ELSE status[t]]
  /\ queue' = [queue EXCEPT ![i] = <<>>]
  /\ UNCHANGED <<registered, object, started, loopSet, quitWhenIdle, event, lock, owner, call, posted>>

-----------------------------------------------------------------------------
OwnerBegins == \E i \in Id : Initialize(i) \/ StartWithOptions(i) \/ Stop(i) \/ OwnerPosts(i)
OwnerGoesOn == StartReturns \/ Join \/ Unregister \/ Delete
CallStep(a) == Scan(a) \/ Look(a) \/ Acquire(a) \/ ReadThread(a) \/ ReadLoop(a) \/ Post(a)
ThreadStep(i) ==
  \/ CreateLoop(i) \/ InitThread(i) \/ SignalStarted(i)
  \/ RunTask(i) \/ QuitWhenIdle(i) \/ QuitLoop(i) \/ CleanUp(i) \/ ClearLoop(i) \/ DestroyLoop(i)

Next ==
  \/ OwnerBegins
  \/ OwnerGoesOn
  \/ \E w \in Worker, t \in Id : WorkerPosts(w, t)
  \/ \E a \in Actor : CallStep(a)
  \/ \E i \in Id : ThreadStep(i)

Spec == Init /\ [][Next]_vars

\* Threads go on with what they have begun; the owner need not begin anything.
Fairness ==
  /\ WF_vars(OwnerGoesOn)
  /\ \A a \in Actor : WF_vars(CallStep(a))
  /\ \A i \in Id : WF_vars(ThreadStep(i))
FairSpec == Spec /\ Fairness

-----------------------------------------------------------------------------
(* Properties.                                                             *)

\* The thread objects an actor is about to read.
AboutToRead(a) ==
  CASE At(a, "look")  -> {NextSlot(a)}
    [] At(a, "deref") -> {call[a].target}
    [] OTHER          -> {}

\* The owner destroys thread i after actor a: a is the owner, the thread itself,
\* or one that is destroyed first. Thread i stays as long as such an actor runs.
DestroyedAfter(i, a) == a = Owner \/ a = i \/ <<a, i>> \in DiesFirst

\* A thread object that the owner has deleted is not read: neither under the
\* lock, by whatever thread, nor without it by who is destroyed before it.
NoUseAfterDelete ==
  \A a \in Actor : \A i \in AboutToRead(a) :
    lock = a \/ DestroyedAfter(i, a) => object[i] # "deleted"

\* A caller that has skipped the lock, and is destroyed before the target, posts
\* to a loop that is still there.
UnlockedPostIsSafe ==
  \A a \in Actor :
    At(a, "post") /\ lock # a /\ DestroyedAfter(call[a].target, a)
      => loop[call[a].target] = "alive"

\* The lock protects the thread objects, and skipping it is safe towards whoever
\* is destroyed later: so much the registry promises in any order of destruction.
RegistryIsSafe == NoUseAfterDelete /\ UnlockedPostIsSafe

\* "This class automatically handles the lifetime of different threads ... There
\* are no race conditions" (browser_thread.h): a thread of the registry finds every
\* thread object it reads, and a task is posted to a loop that is alive.
NoRaceConditions ==
  /\ \A a \in Actor \ Worker : \A i \in AboutToRead(a) : object[i] # "deleted"
  /\ \A a \in Actor : At(a, "post") => loop[call[a].target] = "alive"

\* Stop waits for everything the owner had posted: a task of the owner's that
\* was accepted runs, it is never deleted with the loop.
OwnersTasksRun ==
  \A n \in 1..MaxPosts[Owner] : status[<<Owner, n>>] \notin {"deleted", "lost"}

\* Between the return of Start and the destruction, no post of the owner's is
\* refused: message_loop_ is set before the starter is let go.
StartedThreadAccepts ==
  [][\A n \in 1..MaxPosts[Owner] :
       status[<<Owner, n>>] = "none" /\ status'[<<Owner, n>>] = "refused"
         => ~started[call[Owner].target]]_vars

\* The owner's posts count: what it posts between Start and Stop is run.
OwnersPostsRun == []OwnersTasksRun /\ StartedThreadAccepts

\* The destructor returns: the thread it joins never waits for something the
\* owner holds.
DestructorReturns == owner.does # "idle" ~> owner.does = "idle"
=============================================================================
