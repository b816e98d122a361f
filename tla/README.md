# Verification of the IPC library and the threads it runs on

TLA+ models of `src/commonlib/common/ipc` (the Chromium IPC library, as built for
Windows here), of the parts of `base` it stands on (message loops, the worker pool,
threads), and of the thread registry of the processes in `src/ServerPort` that use it.
Each model is translated from the source; `PROJECT.json` ("map") gives the lines behind
every definition. The paths below without a directory are in
`src/commonlib/common/ipc/`.

## 1. The system

Two executables talk over one named pipe: a server (`ServerPort.exe`, which launches the
other) and a client (`ClientPort.exe`). In each process a *listener thread* owns the
endpoint and an *IPC thread* (IO thread) does the input and output.

```
 worker threads         SyncMessageFilter (a filter of the proxy)
 ───────────────────────────┼── tasks ───────────────────────────────────────────────────
 listener thread        SyncChannel ── SyncContext(listener side), ReceivedSyncMsgQueue
                            │   Send / dispatch                  ▲ tasks, dispatch_event_
                        ChannelProxy ── Context(listener side)   │
 ───────────────────────────┼── tasks ───────────────────────────┼──────────────────────
 IPC thread             ChannelProxy::Context: filters ──────────┘
                            │
                        Channel::ChannelImpl + ChannelReader
 ───────────────────────────┼── overlapped operations, completion packets ───────────────
 kernel                 named pipe, completion port

 every thread           MessageLoop ── RunLoop ── MessagePump; named in the BrowserThread
                        registry; SequencedWorkerPool runs the blocking tasks
```

| component | state it keeps | operations | what is hard | what makes it correct |
|---|---|---|---|---|
| **SyncChannel** (`ipc_sync_channel.cc`) | per channel: the stack of pending Sends (`deserializers_`), listener, watchers; per listener thread: the queue of received messages with its version, `task_pending_`, `dispatch_event_`, `received_replies_` | Send, SendWithTimeout, WaitForReply, DispatchMessages, QueueMessage, DispatchReplies, TryToUnblockListener, cancellation on error, close, shutdown | Sends nest through handlers that run inside a Send; two threads share queue and event without one lock; replies overtake; two processes block on each other | a Send returns once, innermost first, true only with its own answer; no message or wakeup is lost; nobody waits for a dead channel |
| **Channel** on Windows and **ChannelReader** | pipe handle, two overlapped operations with `is_pending`, output queue, overflow buffer | Create, Connect, Send, Close, OnIOCompleted | completions come later than any of the calls; Close runs a loop of its own; reads cut messages anywhere; either end may vanish | the flags match the kernel; memory outlives the operations; messages arrive whole, once, in order; an error is told once |
| **ChannelProxy** and **Context** | filters and pending filters, `peer_pid_`, the channel, a reference on itself | Init, Close, Send, AddFilter, RemoveFilter, ClearIPCTaskRunner; OnChannelConnected, OnMessageReceived, OnChannelError and the tasks | every call is a task of the other thread; filters come and go while messages pass | filters and listener hear what they should, in order, nothing after removal or close |
| **SyncMessageFilter** | pointers to the pending Sends on the stacks of worker threads, the channel, `io_loop_` | Send, SendOnIOThread, OnFilterAdded, OnMessageReceived, OnChannelError, OnChannelClosing | many workers, the listener's and the IPC thread; a failure signals everybody | every worker's Send ends, with its own answer; no pointer outlives its frame |
| **MessageLoop**, **RunLoop** and pumps (`base/message_loop.cc`, `run_loop.cc`, `message_pump_default.cc`, `message_pump_win.cc`) | incoming queue (locked), work, delayed and deferred queues; the stack of run loops; `have_work_` and completion packets | PostTask, PostDelayedTask, Run, Quit, QuitWhenIdle, DoWork, DoDelayedWork, DoIdleWork, WaitForWork | only the poster that finds the queue empty wakes the pump, without the lock; loops nest in tasks | no wakeup is lost; order and time of tasks; a loop ends when told to |
| **SequencedWorkerPool** (`base/threading/sequenced_worker_pool.cc`) | pending tasks, running sequences, counts of threads and of tasks that block shutdown, cleanup state | PostTask, ThreadLoop, GetWork, PrepareToStartAdditionalThread, Shutdown, CleanupForTesting | one lock, three condition variables with single signals, threads created on demand | sequences do not overlap; work has a worker; Shutdown waits for what it promises and returns |
| **BrowserThread registry** and **Thread** (`browser_thread_impl.cc`, `base/threading/thread.cc`) | the array of threads under a lock, `message_loop_`, `started_`, startup event | register, Start, Stop, join, destroy, PostTask with and without the lock | threads die while others post; the lock is skipped for targets that outlive the caller | no use after the end of a thread; accepted tasks of the owner run; destruction returns |
| **Processes** (`src/ServerPort/ipc_process`, `ServerPort`) | host, launcher, child thread with its 15 s timer | launch, shutdown | order of construction and destruction of threads | see "Not modelled" |
| **WaitableEvent** and watchers (`base`) | manual-reset events, registered waits | Signal, Reset, WaitMany, StartWatching | a wait may miss a pulse | modelled as far as SyncChannel uses them |

How they interact: `SyncContext` *is a* `ChannelProxy::Context`. It looks at a message
before the listener's task queue does, so synchronous messages that must unblock the
peer overtake the ordinary ones. The proxy's `Context` is the listener of the `Channel`.
`Channel` is driven by the message loop of the IPC thread, which hands completion packets
to OnIOCompleted. `SyncMessageFilter` is one of the proxy's filters and sends from threads
that are neither. All calls from the listener side down are posted tasks; all calls up are
posted tasks, or messages put into the shared queue and an event. Every posted task goes
through a `MessageLoop`; the IPC thread of the server is one of the registered
`BrowserThread`s.

The hazards this gives, one by one and at their lines, are listed in `PROJECT.json`.

## 2. Modules

| module | models | abstract counterpart |
|---|---|---|
| `SyncChannel` | any number of processes and channels, one listener and one IPC thread each | `SyncCall`: calls that return innermost first, true only if answered |
| `MCSyncChannel` | the instances of it that are checked | |
| `SyncChannel_proofs` | type correctness, the call stack, the calls and the refinement, proved | |
| `SyncQueues_proofs` | the iterator, the groups and the wakeups of the received messages, and the matching of replies, proved | |
| `ChannelWin` | the two ends of one pipe, with kernel | `MessagePipe`: messages in order, once, none after a loss; told at most once |
| `ChannelWin_proofs` | the pending flags against the kernel, deletion, the write and the read on their way, type correctness and the refinement of `MessagePipe`, proved | |
| `ChannelProxy` | one proxy, its filters, both threads | |
| `ChannelProxy_proofs` | types, what the listener hears and what the filters are told, proved | |
| `SyncMessageFilter` | any number of worker threads, the filter, its proxy's tasks, the owner and the peer | `SyncCall`, with the workers as callers |
| `SyncMessageFilter_proofs` | types, the soundness of its pointers and the refinement, proved | |
| `MessageLoop`, `MCMessageLoop` | one loop on either pump, its nested run loops, other threads that post | |
| `MessageLoop_proofs` | types, no lost wakeup, the order of tasks and the end of loops, proved | |
| `SequencedWorkerPool`, `MCSequencedWorkerPool` | the pool, its owner, posters | |
| `SequencedWorkerPool_proofs` | counts, sequences, wakeups, shutdown and what a flush has done, proved | |
| `BrowserThreads`, `MCBrowserThreads` | the registry, the life of its threads, their owner, threads without a loop | |
| `BrowserThreads_proofs` | types, the safety of the registry in any order of destruction, and the fate of the owner's tasks, proved | |

The models are not instantiated in one another: each takes what is below it as the set of
behaviours the module below shows. `SyncChannel` has a queue of messages in flight per
channel end and an error that may come when the peer is gone (what `MessagePipe` allows);
`ChannelProxy` and `SyncMessageFilter` have a channel that hands over messages and an
error; all of them have first-in first-out task queues whose tasks run, which is what
`MessageLoop` checks (`StartInOrder` for tasks without delay, `EveryTaskRuns`).

### SyncChannel

- A process `p` has a stack `frames[p]` of what the listener thread is in: a Send that
  waits (`wait`), a run of DispatchMessages (`loop`, with its iterator and version), a
  handler. A nested Send pushes on the stack; Sends can only return from the top, which is
  how C++ makes them. A Send whose message has a `pump_messages_event` may run a nested
  message loop (`pump`) instead of blocking.
- `BeginSend` is SendWithTimeout to the point where WaitForReply starts dispatching. Its look
  at the shutdown event and the Push are one step: the only one to signal the event is
  `~ChildProcess` (`child_process.cc:45`), on the thread that Sends, so nothing comes between. The
  steps of the listener thread that touch shared state are separate actions:
  `DispatchMessage` (one turn of the loop, under the lock, then the handler),
  `WaitDispatchEvent` (WaitMany chose `dispatch_event_`, Reset, dispatch), `SendReturns`.
- The IPC thread handles one task or event at a time. `QueueMessage` and
  `SignalDispatchEvent` are two actions because the lock is released between them.
- `DispatchMessagesTask` is the posted task; `OnWaitableEventSignaled` is the watcher of
  `dispatch_event_`, whose registered wait (`DoneWaiting`) posts a task when it has seen
  the event set.
- `sendWatch[p]` is `top_send_done_watcher_`: the Send whose done event wakes the innermost
  nested loop. `PumpMessages` stops the watcher of the loop around it and starts its own,
  `SendDoneWaiting` is the registered wait, `OnSendDone` its task: QuitNow, the outer
  watcher starts again, the Send returns. A task whose watcher was stopped does nothing.
- `OnSendTimeout` may come at any time before the Send returns; the delayed task itself is
  not kept, for later it finds no entry.
- `Crash` takes the memory of the process and closes its ends of the pipes; the other sees the error when nothing more comes.
- History: `outcome` (what a Send has returned) and `answered` (whose handler has sent a
  good reply).

### ChannelWin

- `ch[e]` is the channel object of an end with its kernel operations (`inOp`, `outOp`) and
  its completion port (`port`). A message is a number of parts, so that a read can end
  inside a message, with several, or with none.
- OnIOCompleted is `InputCompleted`, `OutputCompleted` and, for the posted first call,
  `InitSignal`. The steps they share (`ProcessConnection`, `ProcessOutgoing`,
  `DispatchInput`, ...) are operators that take and return the channel object.
- Close is `BeginClose` and, when the packets are in, `CloseDone`; between them only
  completion packets are handled, as in WaitForIOCompletion. An error does the same and
  tells the listener at the end.
- The kernel is external: an operation on an open pipe ends with one packet, with data,
  after success, or failed when either end is closed.

### ChannelProxy

- `proxy` is the owner's side, `ctx` the Context's on the IPC thread; `tasks` and `posted`
  are the two task queues. One step is one handler. That is no loss: the threads share
  only the queues, `pending_filters_` (under its lock), `peer_pid_` (written before the
  task that reads it is posted) and `channel_` (written by the listener thread in Init
  with `create_pipe_now` only).
- Filters are numbered in the order of adding. A filter may handle any message: the `k` of
  `OnMessageReceived` is chosen freely.
- `urgent` stands for the messages that SyncContext keeps for itself and dispatches ahead
  of the tasks.
- The owner keeps to the interface: Init once and before Close; RemoveFilter for a filter
  it added, once, before Close; no posting call after ClearIPCTaskRunner.

### SyncMessageFilter

- A worker's Send is `Insert` (the PendingSyncMsg on its stack is registered under
  `lock_`), `Post`, `WaitManyReturns` and `SendReturns` (the entry is erased, the result
  read). `pending` is the set of pointers, named by the worker whose frame they point into.
- The IPC thread runs `tasks` in order: the channel is opened, the filter added, messages
  sent, the channel closed. `SignalAllEvents` is what a message that finds no channel, an
  error and a close have in common.
- The owner adds the filter right after it has created the channel, closes the proxy, or
  shuts down as `~ChildProcess` does: the event first, then the IPC thread, whose remaining
  tasks are deleted. The result of `channel_->Send` is ignored, as in the code.

### MessageLoop

- `loops` and `running` are the alternating stack of run loops and tasks. A turn of a pump
  is cut where another thread could see or change something: `AddToIncomingQueue` under
  the lock and the wakeup after it (`push`, `schedule`, `packet`), ReloadWorkQueue, the
  wait, the reset of `have_work_` and the removal of the packet.
- `pump` is chosen at the start: the event of MessagePumpDefault, or `have_work_` and
  completion packets of MessagePumpForIO.
- PostDelayedTask reads the clock before it takes the lock, so a delayed task may be
  inserted after a task that was posted later.

### SequencedWorkerPool

- A worker's loop holds `lock_` from the end of one task to the start of the next or to a
  wait; its branches are actions of the `holder`. Every other critical section is one
  action. What follows after the lock was released (signals, deleting closures, creating a
  thread) is a list of `chores` that a thread goes through first.
- A condition variable wakes any one of its sleepers; a timed wait may end early.
- Kinds of tasks are given per task posted: token, shutdown behaviour, delay.
- PostTask reads the clock before it takes the lock (`sequenced_worker_pool.cc:561`), the model
  when it inserts the task; in the code a task inserted later may have an earlier time to run.
  `RunInSequence` speaks of tasks whose times are in the order of insertion.

### BrowserThreads

- The owner constructs, starts, stops and destroys (`Initialize` to `Delete`), as the
  dialog of the server does. `phase` is where ThreadMain of a thread is.
- The task that Stop posts only asks the loop to quit when it is idle (`QuitWhenIdle`); the
  thread goes on with what is queued and what those tasks post, under the lock or not, until
  DoIdleWork finds nothing (`QuitLoop`). That it is idle at some time is not a matter of
  course: tasks that post for ever would keep it, and its joiner, for ever. Here the bound
  `MaxPosts` on the posts of each thread sees to it.
- PostTaskHelper is `Scan` and `Look` (GetCurrentThreadIdentifier reads the slots and their
  `message_loop_` without the lock), `Acquire` if the target may die first, `ReadThread`,
  `ReadLoop`, `Post`. Tasks may post; so do threads without a loop.
- `DiesFirst` is the order in which the owner destroys. Both runs take that of the dialog:
  its members die in the reverse order of their declaration (`ServerPortDlg.h:68-69`), the
  launcher's thread (5) before the IO thread (7). `browser_thread.h:52-53` asks for the
  opposite, that a thread outlives those with larger numbers, and PostTaskHelper counts on it.
  The theorems hold for any order.

## 3. Runs

Constants are bounds or choices of the environment; all are in the `.cfg` files.

| run | instance | shows |
|---|---|---|
| `sync_faults` | P and Q, one channel; P may Send twice, Q once; P may shut down or destroy its channel, Q may die; fair | `TypeOK`; `SendsAccounted`: the stack and `deserializers_` agree and no Send on a dead channel is forgotten; SyncChannel implements `SyncCall`; `NobodyWaitsForEver`: every Send returns, every queued message is dispatched |
| `sync_nested` | the same pair, P's messages unblock and Q's may not; handlers may keep their replies, P's first Send may time out, P may run nested message loops, one in the other too | `RepliesMatched`: a reply never answers another Send and none is stranded in `received_replies_`; `WakeupsKept`: no message is left to nobody, and the innermost nested loop is the one that is woken |
| `sync_groups` | P with channels to Q and to R in two restrict-dispatch groups, one Send per process; Q's side and R's are symmetric | restricted messages re-enter only under their own group; the iterator kept over a handler is valid |
| `sync_stranded` | as `sync_groups` | **violated**: a thread at rest may have a message queued (finding 1) |
| `win_faults` | two messages of two parts in all, after the hello of one; the server may close or delete its channel, the client may die or not know the secret; fair | the flags against the kernel, deletion, `OperationsKept` (the message being written, the read that is always on its way); ChannelWin implements `MessagePipe`; `PeerIsHeard`: what was sent arrives, or the loss is noticed; Close returns |
| `win_loss` | no messages, the client may die; fair | **violated**: a server may never learn that its client came and went (finding 2) |
| `proxy` | two filters, two messages of which the second is urgent, a Send that may fail, a Close, both values of `create_pipe_now`; fair | `ListenerContract` (once, in order, connected first), `FilterContract`, `FiltersReached`; what nobody handled is heard; Close destroys the channel and releases the context |
| `filter` | two workers with one call each, an asynchronous message; channel that fails to open, breaks, is closed; shutdown; fair | `PointersSound`; `SimultaneousCalls`: the filter implements `SyncCall` and fails a call for a reason only; every Send returns |
| `pool` | two workers, three tasks with and without token, delay and each shutdown behaviour, one of them posted during the shutdown, two flushes; fair | sequences in order (`RunInSequence`), no lost wakeup (`WorkHasWorker`), `ShutdownKeepsPromise`, `FlushContract`: a flush returns when its work is done, and does return if no worker was still at the end of an earlier one; Shutdown returns |
| `loop` | both pumps, three tasks (non-nestable or delayed) from two threads, one run loop nested in a task; fair | no wakeup is lost (`OnlyIdleSleeps`), `TasksStartRightly`, `LoopsEndRightly`, `EveryTaskRuns` |
| `threads` | the launcher's thread (5) and the IO thread (7), two posts of the owner, one of each thread and of a thread without a loop, in the order of the dialog; fair | `RegistryIsSafe`: the lock protects the thread objects, and skipping it is safe towards whoever is destroyed later; `OwnersPostsRun`: nothing the owner posted between Start and Stop is refused or deleted; destructors return, though the joined thread first runs all that is queued |
| `threads_race` | the same two threads, in the order of the dialog | **violated**: a thread reads the object of one that was deleted before it (finding 3) |

Properties that belong to one question are checked as one conjunction, whose named parts
are defined and commented next to it.

`CHECK_DEADLOCK FALSE` is in every configuration because all these systems may be at rest:
nobody has to send, post, connect or close, and a process may be gone.

**Why the bounds are enough.** Two Sends of P and one of Q give every shape of nesting the
code distinguishes: a Send inside a handler inside a Send, a reply to the outer one while
the inner is on top, both processes blocked on each other, and a Send after a cancellation
or a shutdown. Two channels of one thread are what the code treats differently from one
(`task_pending_`, groups, the shared event). For the pipe, two messages after the hello
make a queue behind a pending write; a hello of one part and messages of two, against a read
buffer and a quota of two, make reads that end inside a message and between messages, and writes that wait for the reader. Two filters are needed for one to take a
message from another and to be removed from the front and from the back of the list. For
the filter, two workers make a failure of one signal the other, and leave a frame to dangle
while the other's call goes on. In the pool two workers are the least for
a sequence to overlap and for a signal to reach the wrong thread; two flushes let one begin
while the workers leave the other; three tasks put one
between two of a sequence (an idler of a cleanup that is woken early and sleeps again needs
a third worker: that branch of `IdlerChecks` is modelled and not reached here). In
the loop three tasks give a queue that is not empty while one is added and a nested loop with
work of both levels; each of the two kinds takes its own way past the work queue. Two registered threads give a
caller below, above and equal to its target.

**Fairness.** Only of what a scheduler or the kernel does by itself. Threads run the tasks
they have; the IPC thread handles what arrives; the kernel completes operations it can
complete; a registered wait sees an event that stays set (it need not see one that is reset
in between: `DoneWaiting` is not strongly fair). Handlers return and send their replies at
some time, the peer of the filter answers or dies: without that no synchronous call can
promise to return. `win_faults` also assumes that both owners construct and connect their
channel; `filter`, that an owner whose channel broke gives up, which
ChildThread::OnChannelError does by quitting the main loop. Strong fairness is used once,
for the lock of the pool: a thread that wants a lock which is again and again free gets
it. The loop's tasks end and its clock goes on. No fairness of Sends, posts, timers,
crashes, shutdowns, closes, of adding and removing filters, or of the owner of the threads
beginning anything.

## 4. Proofs

For every value of the constants that the named assumptions allow. The assumptions are
the shapes of the constants (`ConstantsAssumption`, `PipeAssumption`, `EndsAssumption`,
`NamesAssumption`, ...); nothing is assumed about the behaviour.

- **`SyncChannel_proofs!TypeCorrect`**: `Spec => []TypeOK`. For any topology of processes
  and channels, groups and budgets. The invariant is inductive as it stands; the proof
  goes by lemmas on what the helpers (Pop, Unblock, PostIpc, Push, ...) keep, then one
  lemma for each kind of step of `Next`.
- **`SyncChannel_proofs!CallsAccounted`, `ChannelImplementsCalls`, `TrueCallsAnswered`**: for
  any topology, nesting and budget, `Spec => []SendsAccounted`, `Spec => ImplementsSyncCall`
  and `Spec => []TrueMeansAnswered`. That `deserializers_` and the call stack agree is not
  inductive: Pop erases the last entry, which is the right one only because ids grow along
  the stack and along `deserializers_`, both hold exactly the Sends that are pending, and a
  nested message loop lies on the Send that asked for it (`CallStack`). That a reply is for
  the Send it names needs its request's number to have been handed out before the reply was
  made, wherever the number is kept: on the wire, in the two task queues, in
  `message_queue_`, on the stack of the peer, in a handler that keeps its reply (`Sent`); and
  every good reply on its way back, in `received_replies_` or already in an entry is for a
  request that was answered (`Answered`). `NoSendLeftBehind` is inductive with these. The
  refinement then maps BeginSend and the four ways a Send returns to `SyncCall`'s steps and
  every other step to a stutter.
- **`SyncQueues_proofs!IteratorsCorrect`, `ReentrancyRestricted`, `NoWakeupLost`,
  `WakeupsCorrect`**: `Spec => []IteratorValid`, `[]RestrictedReentrancy` and the two parts
  of `WakeupsKept` about Sends that block and about nested message loops, for every topology
  and any groups; and `WakeupsKept` itself where any loop may dispatch any message. To the
  invariant above `QueueInv` adds what may lie on what on the call stack (`Nesting`, from
  which the reentrancy follows), distinct places for queued messages (`Places`), that a loop
  whose version is current has left nothing behind its iterator which it may dispatch
  (`Loops`), that `task_pending_` has a task on its way (`Tasked`), and which watcher a
  nested message loop has stopped (`Watchers`). The third part, every queued message has a
  loop or a task, is false with restricted groups: a loop ends over messages it must not
  touch (finding 1). That is why `WakeupsCorrect` has a hypothesis, which every instance of
  one group, or of contexts without one, satisfies.
- **`SyncQueues_proofs!RepliesCorrect`**: `Spec => []RepliesMatched`, for every topology and
  any groups. Its first part is `TrueMeansAnswered`; the second, that a reply is never
  stranded in `received_replies_`, needs three facts more. `Home`: what belongs to a context
  is kept by its process. `OnePlace`: a request and its reply are together in at most one of
  nine places (request task, wire, `message_queue_`, posted task, handler, kept reply,
  reply task, wire back, `received_replies_`), because every step moves it from one to the
  next (`Moves`) or loses it (`Shrinks`); so at most one queued reply is for the Send that
  Pop uncovers. `Awaited`: there are as many `DispatchReplies` tasks on their way as queued
  replies whose Send is on top: Pop posts one, the task takes one, and a Send that begins
  has no reply yet.
- **`ChannelWin_proofs!PendingCorrect`**: `Spec => []PendingMatchesKernel`. The
  statement alone is not inductive. `OnInput` with `~inPending` starts a read whatever
  else is going on, which is right only because the posted initialization signal is never
  on its way while an input operation is pending; `ProcessOutgoing` starts a write and
  overwrites `outOp`, which is right only while `outPending` is clear; `Create` and
  `Connect` start from an object that has no operations; and a write has parts only
  because a queued message has. The strengthening `IInv` says these: `init => ~inPending`, a
  signal and operations only once the object is connected, a queue that is not empty while
  a write is pending; messages have at least one part by `PipeAssumption`. One lemma per handler shows that
  an object with these facts keeps them; the last part lifts them from one end to the
  system, since no step touches the operations of two ends.
- **`ChannelWin_proofs!DeletionSafe`**: `Spec => []GoneMeansQuiet`, from the same
  invariant and the guard of `CloseDone`: with both flags clear the kernel owes nothing.
- **`ChannelWin_proofs!OperationsCorrect`**: `Spec => []OperationsKept`. `Kept` adds
  to `IInv` what the writes and reads need. `Held`: the parts being written are the last of
  the message at the head of the queue (`SuffixTail`: what is left after a packet of success
  still is), and nothing is written before the connection, because a connect that still has
  to wait has found no other end, and a write before it fails. `Reads`: a connected open
  channel has its read, its packet or its first signal, because every branch of `OnInput`
  starts the next read or closes the pipe.
- **`ChannelWin_proofs!TypeCorrect`, `PipeImplemented`**: `Spec => []TypeOK`, and
  `Spec => ImplementsMessagePipe` for every number of sends, size, buffer and quota. Type
  correctness already needs the whole argument: that a message delivered has a number that
  was sent is a fact about every place it passes. `PInv` reads these places as one
  sequence: `Flow(e)`, the overflow buffer, the packet, the wire and the parts being
  written. Its messages are numbered one after the other (`Consecutive`), beginning after
  those the listener has got, and `Line` continues them with the queue of the other end up
  to the last one sent; once the other end has closed, a beginning of this is left
  (`Follows`). `Local` says what an end alone must fulfil, among others that what is kept
  in the overflow buffer ends no message, that a client of the right secret is refused by
  nobody, and that a read fails only when the other end is gone. What a reader makes of
  the parts at hand, however they are cut (`ArrivedIs`, `RestIs`), is proved by induction
  over a set of numbers (`NatSet`, from the finiteness of intervals). `StepInv` is the one
  lemma all actions use: a step that takes parts off the head of one flow and adds a
  message behind the other keeps `PInv`. `PipeImplemented` has a hypothesis, `MessagesFit`:
  the reader gives up a connection when a message and a read do not fit
  `kMaximumMessageSize` (`ipc_channel_reader.cc:56-61`), so messages must be smaller by a
  read buffer. It is 128 MB; the runs satisfy the hypothesis.
- **`ChannelProxy_proofs!TypeCorrect`, `ListenerCorrect`, `FiltersCorrect`,
  `FiltersReachedCorrect`**: for any number of filters, messages, sends, calls and closes,
  `Spec => []TypeOK`, `[]ListenerContract`, `[]FilterContract` and `[]FiltersReached`. That
  Context's references stay 0 or 1 is a fact about the order of the tasks (`Opening`): create
  and open are queued once, create first, and a close behind the open; so the close finds
  either a channel and its reference or nothing. `DeliveredOnceInOrder` is an equation
  between what has been heard, what is on its way and what arrived; every step moves one
  call from the second to the first, or adds one to the second and the third. It is kept
  because `Only`, the selection from a history, distributes over appending and joining
  (`OnlyAppend`, `OnlyConcat`), which is proved by induction over a set of numbers.
  `Connecting` and `Hearing` say that nothing reaches the listener thread before the pid is
  known, which `ConnectedFirst` needs because a message may overtake the task of
  OnChannelConnected. `Filters`: filters are in the order of adding, so those a message is
  asked of before filter `f` have smaller numbers. `Log(f)` ties what a filter has been told
  to where it is: a pending one has been told nothing, one among the filters knows of the
  connection, and one that was given a channel stays there until it is removed. `Removing`: a
  filter to be removed is there, or is pending with its add task ahead of the removal, and no
  close comes between; so the NOTREACHED of OnRemoveFilter is not. `Staying`: an early filter
  that is not removed is among the filters whenever messages come.
- **`SyncMessageFilter_proofs!TypeCorrect`, `PointersCorrect`, `CallsCorrect`**: for any
  number of workers, calls and messages, `Spec => []TypeOK`, `Spec => []PointersSound` and
  `Spec => SimultaneousCalls`, the last being the refinement of `SyncCall` together with
  the action property that no call fails without a reason. The invariant adds to
  `PointersSound` that one task at most adds the filter and nobody is registered before it
  has run (`Adding`): otherwise the filter could get a channel back after it has signaled
  everybody, and a woken call would have no reason to have failed; that a worker's calls
  come one after the other (`Numbers`), which makes each of them the innermost; that who
  is woken has been told why (`Told`); and that what is on its way was sent and what comes
  back was answered (`Messages`). One lemma per action; two lemmas map the steps that
  change an outcome to steps of `SyncCall`.
- **`BrowserThreads_proofs!TypeCorrect`**: `Spec => []TypeOK`, in whatever order the owner
  destroys its threads. It says of a held lock that its holder is between taking and
  releasing it. Needs that a call belongs to a thread that runs, that a thread runs only
  between its start and the join of its destructor, and that the owner does one thing at a
  time.
- **`BrowserThreads_proofs!RegistrySafe`**: `Spec => []RegistryIsSafe`, in whatever order the
  owner destroys its threads. Who holds the lock has read a registered slot, and the owner
  clears a slot under the lock before it deletes the object. A caller that skips the lock runs
  on a thread that is alive and not beyond its join, so the owner cannot have begun to destroy
  one that comes after it (`DestroyedInOrder`); a thread's loop quits only because its
  destructor has begun (`Quits`). A caller that identifies itself stops at its own slot, which
  stays registered while it runs (`Calls`). `Looks` and `Unlocked` state what then holds of the
  slot that has been read. Where the code skips the lock towards a thread that is destroyed
  before the caller, as the dialog makes it do, nothing is promised, and finding 3 shows why.
- **`BrowserThreads_proofs!OwnersPostsCorrect`**: `Spec => OwnersPostsRun`, in any order of
  destruction. The owner is in no slot, so it takes the lock for every post (`OwnerLocks`), and
  it destroys nobody meanwhile; so the loop it posts to is not about to end. A thread that
  counts as started has gone past its signal, and stops counting before it is deleted
  (`Begun`). The owner's tasks are ahead of the one that quits the loop, and once that is
  taken none of them is left (`QuitIsLast`).
- **`MessageLoop_proofs!TypeCorrect`, `NoLostWakeup`, `TasksStartCorrect`,
  `LoopsEndCorrect`**: for any posting threads, tasks, delays and nesting of loops, on
  either pump, `Spec => []TypeOK`, `[]OnlyIdleSleeps`, `[]TasksStartRightly` and
  `LoopsEndRightly`. None is inductive alone. A loop that lies below a task goes on at the
  top of its cycle (`Stack`), so it never trusts what it saw before the task ran. The
  wakeup is one token: at the IO pump `have_work_` is set exactly while one thread is
  about to post the packet, the packet is there or the loop is about to reset the flag
  (`OneToken`), which is why a thread that finds the flag set may leave. From both,
  `Awaited`: a loop on its way to sleep has seen its queues empty and is told of what
  comes after. `Queues` gives every task a place: those with the highest numbers are in
  `incoming`, those below in `work`, and the rest have started, are delayed or deferred.
  With the times of tasks in the order of their delays (`Times`) the earliest delayed task
  has overtaken nobody, which makes `Order` inductive; and `Quits` says that a loop which
  is to end without having been told was found idle.

- **`SequencedWorkerPool_proofs!TypeCorrect`, `SequenceCorrect`, `WorkersCorrect`,
  `ShutdownCorrect`, `FlushCorrect`**: for any number of workers, posters, tasks, flushes and
  ticks, `Spec => []TypeOK` (with the counts of tasks that block shutdown, of sleepers and of
  idlers), `[]RunInSequence`, `[]WorkHasWorker`, `[]ShutdownKeepsPromise` and
  `FlushIsComplete`, the safety part of `FlushContract`. `current_sequences_` excludes a
  second task of a sequence only because it holds exactly the tokens of the tasks that run
  (`Tokens`), each with one worker (`Jobs`). The counts are cardinalities (`Counts`); they
  move by one because a worker is in one place (`Places`) and what was taken off the queue
  has one worker to delete it (`Closures`). `Creation` says that the flag
  `thread_being_created_` stands for one thread, about to be created or about to start. A
  lost wakeup is excluded by `Covered`, which is stronger than `WorkHasWorker`: it speaks of
  tasks that are not due yet, for which a timed wait must end early enough. The rendezvous of
  the cleanup (`Phases`: while it runs every other worker is an idler) gives that nothing
  posted before a flush is left when it ends (`Flushed`).

Every safety property and every refinement that a passing run checks is a theorem above
(`FlushContract` in its safety part, `ImplementsMessagePipe` under `MessagesFit`,
`WakeupsKept` under the groups named there). Only model-checked:

- liveness (out of the prover's reach under fairness): `NobodyWaitsForEver`, `PeerIsHeard`,
  `CloseReturns`, `EverythingHeard`, `CloseCompletes`, `EverySendReturns`, `EveryTaskRuns`,
  `ShutdownCompletes`, `DestructorReturns` and the second part of `FlushContract`.

## 5. Findings

1. **A synchronous message may be left in the queue of an idle thread** (`sync_stranded`).
   The comment at `ipc_sync_channel.cc:36-37` promises a task for received messages. There
   is one `task_pending_` per listener thread and the task dispatches for the context it
   was posted for. With two restrict-dispatch groups on the thread, a message for the
   second group that comes while the task for the first is pending gets no task of its
   own; that task skips it; and the watcher of the first channel resets `dispatch_event_`
   when it runs, after which the second watcher may never see it. The sender waits until
   something else happens to dispatch.
2. **A server may wait for ever for a client that has gone** (`win_loss`). When the client
   connects and dies before the server handles the connection, ProcessConnection fails and
   OnIOCompleted returns at once (`ipc_channel_win.cc:423-424`): no operation is pending,
   the pipe stays open, no error is reported. `LossNoticed` shows that this is the only
   window: an end that has completed the connection always learns.
3. **A thread object can be read after it was deleted, and a task posted to a loop that has
   been destroyed** (`threads_race`). `browser_thread.h:43-45` says "It's always safe to call
   PostTask on any thread ... There are no race conditions." The dialog destroys the
   launcher's thread (5) before the IO thread (7), against `browser_thread.h:52-53`. The IO
   thread looks itself up when it starts to run and whenever it posts, and reads slot 5 and
   the object in it without the lock; between the two the destructor clears the slot and
   deletes the object. That is the trace TLC finds. The property rejects the other race of the
   registry too: the thread that ends clears `message_loop_` and destroys the loop on its stack
   (`thread.cc:212-213`) without the registry's lock, and its destructor takes the lock only
   after the join, so whoever has read `message_loop_` (`browser_thread_impl.cc:260-261`) may
   post to a loop that is gone. In the order of the dialog these are the IO thread, which skips
   the lock for the smaller number, and threads without a loop, which take it; in the order of
   the enumeration (`DiesFirst` the other way round) it is the launcher's thread, under the
   lock. In debug builds the destructor asserts the order of the enumeration
   (`browser_thread_impl.cc:229-233`).

Seen while modelling, and not findings of their own:

- `ipc_sync_channel.h:103-105` says that queued messages are only dispatched while a
  synchronous message is being sent, but the posted task dispatches them at rest as well.
- `ipc_channel.h:89-90` makes a message of `kMaximumMessageSize` an error; the reader
  compares `>` the sum of what it has buffered and what it just read.
- A Send that fails is reported by OnChannelError, but the channel stays open and goes on
  handing over what the peer wrote before it went.
- Non-nestable tasks that a nested loop has set aside run after tasks posted later, so the
  order of starting is stated for nestable ones.
- The pool's `delete_these_outside_lock` is destroyed with the lock held when the loop of a
  worker breaks or goes round again; the comment there says otherwise.
- `ipc_sync_channel.cc:529-531` says that of nested calls with message loops "the outermost
  call completes first"; the inner one does, as with any call (`NestedLoopIsWoken`).
- A nested message loop of a Send runs the dispatch tasks of every channel of the thread, so
  it lets in restricted messages of other groups; `RestrictedReentrancy` asks the group of
  the innermost Send only when that Send blocks.
- FlushForTesting may never return when it is called a second time, though the tests say that
  "spamming the method shouldn't deadlock or confuse the class"
  (`sequenced_worker_pool_unittest.cc:792`). Two workers are enough. One is slow to wake as a
  finisher of the first flush (`sequenced_worker_pool.cc:826-829`); the other sets
  CLEANUP_DONE, the first flush returns, the second begins, and the same worker becomes its
  cleaner: it signals `has_work_cv_`, where nobody waits, and sleeps. Now the first takes the
  lock, finds no idlers and a state that is not CLEANUP_FINISHING, goes on, and waits for
  work. CleanupForTesting sets `cleanup_idlers_` to zero and never asks whether a finisher of
  the last cleanup is left. `QuietFlushReturns` therefore speaks of flushes that begin without
  one; TLC finds this behaviour when that condition is dropped (`pool` has two workers and two
  flushes). `FlushCorrect` is about what has been done when a flush returns, and holds for any
  number of both.
- A thread without a loop takes itself for a registered thread that has not started or has
  ended, since both have a NULL `message_loop_`, and may then skip the lock. No thread without
  a loop posts in this repository: `NoRaceConditions` asks nothing of what such a thread reads.

## 6. Not modelled

- **The launch** (`ServerPortDlg`, `ProcessHostImpl`, `ChildProcessLauncher`): synchronous
  here, inside constructors; the hazard of a launch that fails before
  `child_process_launcher_` is set is visible at its line and a model would restate it. The
  child's 15 s timer ends the process whatever else goes on, which is the crash of the
  models above.
- **ForwardingMessageFilter**: a map under a lock and one PostTask, never added to a channel
  here.
- **MessagePumpForUI** (window messages), dispatchers, observers, a failing
  PostQueuedCompletionStatus, and the tasks that `~MessageLoop` deletes in a loop of their
  own (the deletion is in `BrowserThreads`).
- **Delegates and blocking pool** of the thread registry, and assertions of debug builds.
- **Serialisation** (`Message`, `Pickle`, macros): data, kept as identity and size. Logging,
  test sinks, the POSIX and NaCl channels (not built on Windows), the outgoing message filter
  of ChannelProxy (rewrites messages for tests), the user interface.
- **The rest of `base`**: the repository is, by size, almost entirely vendored library code
  (files, strings, XML, platform wrappers) and tests of it. The lines the map covers are a
  small part of the whole for that reason; they are nearly all of the IPC path on Windows.

## 7. Plan

Done: the modules above with their runs, and the theorems of section 4, which state every
safety property of the passing runs. What would add most after that:

1. The start of a channel inside `SyncChannel`: its ends are connected and its groups set from
   the beginning, so a Send before the hello, or a group that is set while messages wait, is
   not covered.
2. ProcessHostImpl and its launcher composed with `BrowserThreads`, for a host that is closed
   while its process is being launched.
3. A pool of three workers, for the branch of `IdlerChecks` that two do not reach.
