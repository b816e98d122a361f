-------------------------- MODULE SyncMessageFilter --------------------------
(***************************************************************************)
(* IPC::SyncMessageFilter: synchronous calls from worker threads over the  *)
(* channel of the listener thread.                                         *)
(*                                                                         *)
(* A worker registers a PendingSyncMsg that lives on its stack, posts the  *)
(* message to the IPC thread and waits for its done event or the shutdown  *)
(* event.  The IPC thread, which runs the tasks of the filter's channel    *)
(* proxy in order, answers a waiting worker when its reply arrives and     *)
(* signals all of them when the channel is gone.  A step of a thread is    *)
(* what it does under lock_ or between two blocking calls.                 *)
(*                                                                         *)
(* The owner adds the filter right after it has created the channel; it    *)
(* may close the channel, or shut the process down: ~ChildProcess signals  *)
(* the shutdown event and then stops the IPC thread.  The channel and the  *)
(* peer behind it are external.                                            *)
(***************************************************************************)
EXTENDS Naturals, FiniteSets, Sequences, SequencesExt

CONSTANTS
  Worker,     \* threads that send, neither the listener's nor the IPC thread
  MaxSends,   \* bound: synchronous messages a worker sends
  MaxCalls,   \* bound: synchronous messages all workers send
  MaxAsync    \* bound: asynchronous messages all workers send

ASSUME ConstantsAssumption == MaxSends \in Nat /\ MaxCalls \in Nat /\ MaxAsync \in Nat

VARIABLES
  \* workers
  pc,         \* where the worker is in Send
  nextId,     \* the next synchronous message of the worker
  asyncs,     \* asynchronous messages sent
  done,       \* done_event of the worker's PendingSyncMsg
  result,     \* its send_result
  \* the filter
  pending,    \* pending_sync_messages_, by the worker whose stack holds the entry
  ioLoop,     \* io_loop_ is set
  channelPtr, \* channel_ is not NULL
  \* the IPC thread and the channel
  tasks,      \* message loop of the IPC thread
  running,    \* the IPC thread has not been stopped
  added,      \* the filter is one of the proxy's filters
  channel,    \* "created", "open", "broken" or "deleted"
  peerAlive,
  requests,   \* messages the peer has yet to answer
  replies,    \* replies in flight
  shutdown,   \* shutdown_event_ is signaled
  \* history
  outcome,    \* what became of a Send
  answered,   \* Sends the peer has answered
  rejected    \* Sends the peer has answered with an error

workerVars  == <<pc, nextId, asyncs, done, result>>
filterVars  == <<pending, ioLoop, channelPtr>>
channelVars == <<running, added, channel, peerAlive, requests, replies>>
history     == <<outcome, answered, rejected>>
vars        == <<workerVars, filterVars, tasks, channelVars, shutdown, history>>

Ids     == 1..MaxSends
Request == Worker \X Ids
Reply   == [to : Request, ok : BOOLEAN]
Task    == [kind : {"open", "add", "close", "async"}] \cup [kind : {"sync"}, msg : Request]

Control(k)    == [kind |-> k]
SendTask(w)   == [kind |-> "sync", msg |-> <<w, nextId[w]>>]

\* PostTask: once the loop has been stopped the task is deleted, and the result ignored.
PostTask(t) == tasks' = IF running THEN Append(tasks, t) ELSE tasks

(***************************************************************************)
(* Worker threads: Send.                                                   *)
(***************************************************************************)
Started == {m \in Request : outcome[m[1]][m[2]] # "none"}

CanSend(w) == pc[w] = "idle" /\ nextId[w] <= MaxSends /\ Cardinality(Started) < MaxCalls

SendRefused(w) ==
  /\ CanSend(w) /\ ~ioLoop
  /\ outcome' = [outcome EXCEPT ![w][nextId[w]] = "false"]
  /\ nextId' = [nextId EXCEPT ![w] = @ + 1]
  /\ UNCHANGED <<pc, asyncs, done, result, filterVars, tasks, channelVars, shutdown, answered,
                 rejected>>

SendAsync(w) ==
  /\ pc[w] = "idle" /\ asyncs < MaxAsync /\ ioLoop
  /\ asyncs' = asyncs + 1
  /\ PostTask(Control("async"))
  /\ UNCHANGED <<pc, nextId, done, result, filterVars, channelVars, shutdown, history>>

\* io_loop_ is checked and the entry inserted under the lock, once each; io_loop_
\* is never reset, so that the two make one step.
Insert(w) ==
  /\ CanSend(w) /\ ioLoop
  /\ pending' = pending \cup {w}
  /\ pc' = [pc EXCEPT ![w] = "inserted"]
  /\ outcome' = [outcome EXCEPT ![w][nextId[w]] = "pending"]
  /\ UNCHANGED <<nextId, asyncs, done, result, ioLoop, channelPtr, tasks, channelVars, shutdown, answered,
                 rejected>>

Post(w) ==
  /\ pc[w] = "inserted"
  /\ PostTask(SendTask(w))
  /\ pc' = [pc EXCEPT ![w] = "waiting"]
  /\ UNCHANGED <<nextId, asyncs, done, result, filterVars, channelVars, shutdown, history>>

WaitManyReturns(w) ==
  /\ pc[w] = "waiting" /\ (done[w] \/ shutdown)
  /\ pc' = [pc EXCEPT ![w] = "woken"]
  /\ UNCHANGED <<nextId, asyncs, done, result, filterVars, tasks, channelVars, shutdown,
                 history>>

\* Wrong: the entry stays registered when its Send has returned.
SendReturns_NoErase(w) ==
  /\ pc[w] = "woken"
  /\ pc' = [pc EXCEPT ![w] = "idle"]
  /\ done' = [done EXCEPT ![w] = FALSE]
  /\ result' = [result EXCEPT ![w] = FALSE]
  /\ nextId' = [nextId EXCEPT ![w] = @ + 1]
  /\ outcome' = [outcome EXCEPT ![w][nextId[w]] = IF result[w] THEN "true" ELSE "false"]
  /\ UNCHANGED <<asyncs, filterVars, tasks, channelVars, shutdown, answered,
                 rejected>>

SendReturns(w) ==
  /\ pc[w] = "woken"
  /\ pending' = pending \ {w}
  /\ pc' = [pc EXCEPT ![w] = "idle"]
  /\ done' = [done EXCEPT ![w] = FALSE]
  /\ result' = [result EXCEPT ![w] = FALSE]
  /\ nextId' = [nextId EXCEPT ![w] = @ + 1]
  /\ outcome' = [outcome EXCEPT ![w][nextId[w]] = IF result[w] THEN "true" ELSE "false"]
  /\ UNCHANGED <<asyncs, ioLoop, channelPtr, tasks, channelVars, shutdown,
                 answered, rejected>>

(***************************************************************************)
(* IPC thread.                                                             *)
(***************************************************************************)
\* SignalAllEvents, under the lock.
SignalAllEvents == done' = [w \in Worker |-> done[w] \/ w \in pending]

HeadTask(k) ==
  /\ running /\ tasks # <<>> /\ Head(tasks).kind = k
  /\ tasks' = Tail(tasks)

\* The proxy opens the channel before it adds the filter, which so hears of no failure.
OpenChannel ==
  /\ HeadTask("open")
  /\ channel' \in {"open", "broken"}
  /\ UNCHANGED <<workerVars, filterVars, running, added, peerAlive, requests, replies,
                 shutdown, history>>

\* Context::OnAddFilter calls it only while there is a channel.
OnFilterAdded ==
  /\ HeadTask("add")
  /\ added' = (channel # "deleted")
  /\ channelPtr' = (channel # "deleted")
  /\ ioLoop' = (channel # "deleted")
  /\ UNCHANGED <<workerVars, pending, running, channel, peerAlive, requests, replies,
                 shutdown, history>>

\* Wrong: a message that cannot be sent is deleted and nobody is told.
SendOnIOThread_Silent ==
  /\ HeadTask("sync")
  /\ requests' = IF channelPtr /\ channel = "open" /\ peerAlive
                 THEN requests \cup {Head(tasks).msg} ELSE requests
  /\ UNCHANGED <<workerVars, filterVars, running, added, channel, peerAlive, replies,
                 shutdown, history>>

\* channel_->Send, whose result is ignored, or "just signal them all".
SendOnIOThread ==
  /\ HeadTask("sync")
  /\ IF channelPtr THEN UNCHANGED done ELSE SignalAllEvents
  /\ requests' = IF channelPtr /\ channel = "open" /\ peerAlive
                 THEN requests \cup {Head(tasks).msg} ELSE requests
  /\ UNCHANGED <<pc, nextId, asyncs, result, filterVars, running, added, channel, peerAlive,
                 replies, shutdown, history>>

SendAsyncOnIOThread ==
  /\ HeadTask("async")
  /\ UNCHANGED <<workerVars, filterVars, channelVars, shutdown, history>>

\* Wrong: the filter keeps its channel when the channel is closed.
OnChannelClosing_KeepsChannel ==
  /\ HeadTask("close")
  /\ IF added THEN SignalAllEvents ELSE UNCHANGED done
  /\ added' = FALSE
  /\ channel' = "deleted" /\ requests' = {} /\ replies' = {}
  /\ UNCHANGED <<pc, nextId, asyncs, result, filterVars, running, peerAlive,
                 shutdown, history>>

\* Context::OnChannelClosed: OnChannelClosing, and the channel is deleted.
OnChannelClosing ==
  /\ HeadTask("close")
  /\ IF added THEN SignalAllEvents ELSE UNCHANGED done
  /\ channelPtr' = FALSE
  /\ added' = FALSE
  /\ channel' = "deleted" /\ requests' = {} /\ replies' = {}
  /\ UNCHANGED <<pc, nextId, asyncs, result, pending, ioLoop, running, peerAlive,
                 shutdown, history>>

\* The peer is found dead by the IO pump, or by a failed write of the listener's
\* thread, which leaves the pipe open and what it holds to be read.
OnChannelError(c) ==
  /\ running /\ channel = "open" /\ ~peerAlive
  /\ channel' = c
  /\ requests' = {}
  /\ replies' = IF c = "open" THEN replies ELSE {}
  /\ IF added THEN SignalAllEvents /\ channelPtr' = FALSE ELSE UNCHANGED <<done, channelPtr>>
  /\ UNCHANGED <<pc, nextId, asyncs, result, pending, ioLoop, tasks, running, added, peerAlive,
                 shutdown, history>>

\* Wrong: the reply ends whatever Send is waiting.
OnMessageReceived_AnyId(r) ==
  /\ running /\ channel = "open" /\ r \in replies
  /\ replies' = replies \ {r}
  /\ result' = [w \in Worker |-> IF w \in pending THEN r.ok ELSE result[w]]
  /\ done' = [w \in Worker |-> done[w] \/ w \in pending]
  /\ UNCHANGED <<pc, nextId, asyncs, filterVars, tasks, running, added, channel, peerAlive,
                 requests, shutdown, history>>

\* The filter takes the reply if its Send is still registered, else the proxy passes it on.
Takes(r) == added /\ r.to[1] \in pending /\ nextId[r.to[1]] = r.to[2]

OnMessageReceived(r) ==
  /\ running /\ channel = "open" /\ r \in replies
  /\ replies' = replies \ {r}
  /\ IF Takes(r)
     THEN /\ result' = [result EXCEPT ![r.to[1]] = @ \/ r.ok]
          /\ done' = [done EXCEPT ![r.to[1]] = TRUE]
     ELSE UNCHANGED <<result, done>>
  /\ UNCHANGED <<pc, nextId, asyncs, filterVars, tasks, running, added, channel, peerAlive,
                 requests, shutdown, history>>

(***************************************************************************)
(* The owner, on the listener's thread, and the peer.                      *)
(***************************************************************************)
Close ==
  /\ running /\ channel # "deleted" /\ Control("close") \notin ToSet(tasks)
  /\ PostTask(Control("close"))
  /\ UNCHANGED <<workerVars, filterVars, channelVars, shutdown, history>>

Shutdown ==
  /\ ~shutdown
  /\ shutdown' = TRUE
  /\ UNCHANGED <<workerVars, filterVars, tasks, channelVars, history>>

\* ~ChildProcess destroys its io_thread_; what is left in the loop is deleted.
StopIOThread ==
  /\ shutdown /\ running
  /\ running' = FALSE
  /\ tasks' = <<>>
  /\ UNCHANGED <<workerVars, filterVars, added, channel, peerAlive, requests, replies,
                 shutdown, history>>

PeerReplies(m, ok) ==
  /\ peerAlive /\ m \in requests
  /\ requests' = requests \ {m}
  /\ replies' = replies \cup {[to |-> m, ok |-> ok]}
  /\ answered' = IF ok THEN answered \cup {m} ELSE answered
  /\ rejected' = IF ok THEN rejected ELSE rejected \cup {m}
  /\ UNCHANGED <<workerVars, filterVars, tasks, running, added, channel, peerAlive, shutdown,
                 outcome>>

PeerDies ==
  /\ peerAlive
  /\ peerAlive' = FALSE
  /\ UNCHANGED <<workerVars, filterVars, tasks, running, added, channel, requests, replies,
                 shutdown, history>>

Init ==
  /\ pc = [w \in Worker |-> "idle"]
  /\ nextId = [w \in Worker |-> 1]
  /\ asyncs = 0
  /\ done = [w \in Worker |-> FALSE]
  /\ result = [w \in Worker |-> FALSE]
  /\ pending = {} /\ ioLoop = FALSE /\ channelPtr = FALSE
  /\ tasks = <<Control("open"), Control("add")>>
  /\ running = TRUE /\ added = FALSE /\ channel = "created" /\ peerAlive = TRUE
  /\ requests = {} /\ replies = {} /\ shutdown = FALSE
  /\ outcome = [w \in Worker |-> [i \in Ids |-> "none"]]
  /\ answered = {} /\ rejected = {}

WorkerStep(w) == Post(w) \/ WaitManyReturns(w) \/ SendReturns(w)

IPCTask == OpenChannel \/ OnFilterAdded \/ SendOnIOThread \/ SendAsyncOnIOThread
             \/ OnChannelClosing

Answer == \E m \in requests, ok \in BOOLEAN : PeerReplies(m, ok)

Next ==
  \/ \E w \in Worker : SendRefused(w) \/ SendAsync(w) \/ Insert(w) \/ WorkerStep(w)
  \/ IPCTask
  \/ \E c \in {"open", "broken"} : OnChannelError(c)
  \/ \E r \in replies : OnMessageReceived(r)
  \/ Close \/ Shutdown \/ StopIOThread
  \/ Answer \/ PeerDies

Spec == Init /\ [][Next]_vars

\* The IPC thread runs its tasks and its completions, the peer answers or is noticed
\* to be dead (module ChannelWin), and an owner whose channel broke gives up:
\* ChildThread::OnChannelError quits the main loop and ~ChildProcess signals the event.
Fairness ==
  /\ \A w \in Worker : WF_vars(WorkerStep(w))
  /\ WF_vars(IPCTask)
  /\ WF_vars(\E r \in replies : OnMessageReceived(r))
  /\ WF_vars(Answer)
  /\ WF_vars(OnChannelError("broken"))
  /\ WF_vars(channel = "broken" /\ Shutdown)

FairSpec == Spec /\ Fairness

(***************************************************************************)
(* Properties.                                                             *)
(***************************************************************************)
\* Every variable has its type; done_event and send_result live as long as their Send.
TypeOK ==
  /\ \A w \in Worker : pc[w] = "idle" => ~done[w] /\ ~result[w]
  /\ pc \in [Worker -> {"idle", "inserted", "waiting", "woken"}]
  /\ nextId \in [Worker -> 1..(MaxSends + 1)]
  /\ asyncs \in 0..MaxAsync
  /\ done \in [Worker -> BOOLEAN] /\ result \in [Worker -> BOOLEAN]
  /\ pending \subseteq Worker /\ ioLoop \in BOOLEAN /\ channelPtr \in BOOLEAN
  /\ tasks \in Seq(Task) /\ running \in BOOLEAN /\ added \in BOOLEAN
  /\ channel \in {"created", "open", "broken", "deleted"}
  /\ peerAlive \in BOOLEAN /\ shutdown \in BOOLEAN
  /\ requests \subseteq Request /\ replies \subseteq Reply
  /\ outcome \in [Worker -> [Ids -> {"none", "pending", "true", "false"}]]
  /\ answered \subseteq Request /\ rejected \subseteq Request

\* pending_sync_messages_ holds pointers into the stacks of the workers: it has one
\* for every Send under way and none for a Send that has returned, which the IPC
\* thread would write to and signal.
NoDanglingSend == pending = {w \in Worker : pc[w] # "idle"}

\* channel_ never outlives the channel, whose last user is a task of the IPC thread.
ChannelPointerLive == channelPtr => channel # "deleted"

\* Once the filter has lost its channel, a worker that waits unsignaled is one
\* whose own message is still to be tried, and will then signal it.
NoWorkerLeftBehind ==
  ioLoop /\ ~channelPtr /\ running =>
    \A w \in Worker : pc[w] = "waiting" /\ ~done[w] => SendTask(w) \in ToSet(tasks)

\* The filter's pointers are sound: every pending Send is on the stack of a worker that
\* somebody will wake, and the channel is there while it is used.
PointersSound == NoDanglingSend /\ NoWorkerLeftBehind /\ ChannelPointerLive

\* "Just signal them all" does not fail a Send that could have been answered: a Send
\* returns false only after a shutdown, the loss of the channel or an error reply to it.
NoSpuriousFailure ==
  [][\A w \in Worker, i \in Ids :
       outcome[w][i] = "pending" /\ outcome'[w][i] = "false" =>
         shutdown \/ ~channelPtr \/ <<w, i>> \in rejected]_vars

\* Simultaneous calls from several threads: each returns true only if the peer
\* answered that very call (module SyncCall).
Calls == INSTANCE SyncCall WITH Proc <- Worker
ImplementsSyncCall == Calls!CallSpec

\* A call succeeds and fails for a reason of its own only.
SimultaneousCalls == NoSpuriousFailure /\ ImplementsSyncCall

\* Every Send returns: by its reply, or because the channel was lost or closed or the
\* process shuts down, also when the filter was added to a channel already broken.
EverySendReturns == \A w \in Worker : pc[w] = "inserted" ~> pc[w] = "idle"
=============================================================================
