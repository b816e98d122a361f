---------------------------- MODULE SyncChannel ----------------------------
(***************************************************************************)
(* IPC::SyncChannel: synchronous calls over message channels.              *)
(*                                                                         *)
(* A process has one listener thread and one IPC thread.  A SyncContext is *)
(* the end of one channel; the contexts of a listener thread share one     *)
(* ReceivedSyncMsgQueue.  SyncChannel::Send blocks the listener thread     *)
(* until the reply is in, and meanwhile dispatches the synchronous         *)
(* messages that arrive, whose handlers may Send again: the thread has a   *)
(* call stack of Sends, dispatch loops and handlers, here "frames".  The   *)
(* IPC thread matches replies with the top of a context's deserializers_,  *)
(* queues what it cannot match and cancels every Send of a dead channel.   *)
(*                                                                         *)
(* The channel itself (IPC::Channel, external here) is a queue of messages *)
(* in flight to each context; the start is the state in which all channels *)
(* have connected.  A Send whose message has a pump_messages_event may run *)
(* a nested message loop instead of blocking.  Filters are not part of     *)
(* this module.                                                            *)
(***************************************************************************)
EXTENDS Naturals, FiniteSets, Sequences, SequencesExt

CONSTANTS
  Proc,          \* processes: a listener thread and an IPC thread each
  Ctx,           \* SyncContexts
  Owner,         \* Owner[c]: the process c lives in
  Peer,          \* Peer[c]: the context at the other end of c's channel
  Group,         \* Group[c]: restrict_dispatch_group()
  Unrestricted,  \* kRestrictDispatchGroup_None
  MaxSends,      \* bound: synchronous messages any process creates
  Budget,        \* Budget[p]: how many of them p creates
  UnblockFlags,  \* UnblockFlags[p]: values of should_unblock() p uses
  ReplyResults,  \* whether replies deserialize (FALSE: an error reply)
  MayDefer,      \* handlers may keep the reply message and send it later
  MayTimeOut,    \* <<p, i>>: p sends its message i with SendWithTimeout
  MayPump,       \* processes whose synchronous messages have a pump_messages_event
  MayShutDown,   \* processes that may signal shutdown_event
  MayDestroy,    \* contexts whose SyncChannel may be destroyed
  MayCrash       \* processes that may die at any point

ASSUME ConstantsAssumption ==
  /\ "none" \notin Ctx /\ Owner \in [Ctx -> Proc]
  /\ Peer \in [Ctx -> Ctx]
  /\ \A c \in Ctx : Peer[Peer[c]] = c /\ Peer[c] # c
  /\ MaxSends \in Nat /\ Budget \in [Proc -> 0..MaxSends]
  /\ UnblockFlags \in [Proc -> SUBSET BOOLEAN]
  /\ ReplyResults \subseteq BOOLEAN
  /\ MayDefer \in BOOLEAN
  /\ MayTimeOut \subseteq Proc \X (1..MaxSends) /\ MayPump \subseteq Proc
  /\ MayShutDown \subseteq Proc /\ MayCrash \subseteq Proc
  /\ MayDestroy \subseteq Ctx

VARIABLES
  \* SyncContext
  deser,        \* deserializers_: the pending Sends of a context, innermost last
  channel,      \* channel_ and its pipe: "open", "error" (pipe closed), "closed" (no channel_)
  listener,     \* listener_ is not NULL
  watching,     \* dispatch_watcher_: "armed", "posted", "off"
  shutWatch,    \* shutdown_watcher_ is watching
  owed,         \* messages whose handler kept the reply for later
  \* ReceivedSyncMsgQueue
  mq,           \* message_queue_; "at" orders the list
  version,      \* message_queue_version_
  taskPending,  \* task_pending_
  event,        \* dispatch_event_
  replies,      \* received_replies_
  sendWatch,    \* top_send_done_watcher_: the Send whose done event it watches, if any
  queueing,     \* QueueMessage between releasing message_lock_ and Signal
  \* threads
  frames,       \* call stack of the listener thread, innermost last
  ltasks,       \* message loop of the listener thread
  itasks,       \* message loop of the IPC thread
  shutdown,     \* shutdown_event_ is signaled
  alive,
  nextId,       \* g_next_id
  wire,         \* messages in flight to a context
  \* history
  outcome,      \* what became of a Send
  answered      \* Sends whose handler has sent a good reply

ctxVars   == <<deser, channel, listener, watching, shutWatch, owed>>
queueVars == <<mq, version, taskPending, event, replies, sendWatch, queueing>>
procVars  == <<frames, ltasks, itasks, shutdown, alive, nextId, wire>>
history   == <<outcome, answered>>
vars      == <<ctxVars, queueVars, procVars, history>>

Ids == 1..MaxSends

Message       == [type : {"sync", "reply"}, id : Ids, unblock : BOOLEAN, ok : BOOLEAN]
PendingSend   == [id : Ids, done : BOOLEAN, result : BOOLEAN]
QueuedMessage == [ctx : Ctx, id : Ids, at : Nat]
QueuedReply   == [ctx : Ctx, id : Ids, ok : BOOLEAN]
Outcome       == {"none", "pending", "true", "false"}
Frame         == [kind : {"wait", "handler"}, ctx : Ctx, id : Ids, it : Nat, ver : Nat]
                   \cup [kind : {"loop"}, ctx : Ctx, id : {0}, it : Nat, ver : Nat]
                   \cup [kind : {"pump"}, ctx : Ctx, id : Ids, old : 0..MaxSends]
ListenerTask  == [kind : {"message", "sendDone"}, ctx : Ctx, id : Ids]
                   \cup [kind : {"dispatch", "watch"}, ctx : Ctx, id : {0}]
IpcTask       == [kind : {"closed"}, ctx : Ctx] \cup [kind : {"send"}, ctx : Ctx, msg : Message]
                   \cup [kind : {"replies"}]

WaitFrame(c, i)    == [kind |-> "wait", ctx |-> c, id |-> i, it |-> 0, ver |-> 0]
\* A nested message loop; old is the Send whose watcher it stopped, 0 for none (old_event).
PumpFrame(c, i, o) == [kind |-> "pump", ctx |-> c, id |-> i, old |-> o]
LoopFrame(c)       == [kind |-> "loop", ctx |-> c, id |-> 0, it |-> 0, ver |-> 0]
\* Wrong: the handler's reply loses the id of the request.
HandlerFrame_NoId(c, i) == [kind |-> "handler", ctx |-> c, id |-> 0, it |-> 0, ver |-> 0]
HandlerFrame(c, i) == [kind |-> "handler", ctx |-> c, id |-> i, it |-> 0, ver |-> 0]
\* The state of a watcher that has just started on the event of Send i; 0: it has no event.
Watch(i)           == [id |-> i, posted |-> FALSE]
SyncMsg(i, u)      == [type |-> "sync", id |-> i, unblock |-> u, ok |-> TRUE]
ReplyMsg(i, ok)    == [type |-> "reply", id |-> i, unblock |-> FALSE, ok |-> ok]
SendTask(c, m)     == [kind |-> "send", ctx |-> c, msg |-> m]
ClosedTask(c)      == [kind |-> "closed", ctx |-> c]
RepliesTask        == [kind |-> "replies"]
Task(k, c, i)      == [kind |-> k, ctx |-> c, id |-> i]

Idle(p)     == frames[p] = <<>>
TopIs(p, k) == ~Idle(p) /\ Last(frames[p]).kind = k
Top(p)      == Last(frames[p])

Push(p, f) == frames' = [frames EXCEPT ![p] = Append(@, f)]
PopFrame(p) == frames' = [frames EXCEPT ![p] = Front(@)]
PostIpc(p, t) == itasks' = [itasks EXCEPT ![p] = Append(@, t)]
PostListener(p, t) == ltasks' = [ltasks EXCEPT ![p] = Append(@, t)]

(***************************************************************************)
(* deserializers_, under deserializers_lock_.                              *)
(***************************************************************************)
\* Wrong: any pending Send takes the reply.
IsTopSend_AnyId(c, i) == deser[c] # <<>>

IsTopSend(c, i) == deser[c] # <<>> /\ Last(deser[c]).id = i

Unblock(c, ok) ==
  LET s == Last(deser[c]) IN
    deser' = [deser EXCEPT ![c][Len(deser[c])] = [s EXCEPT !.done = TRUE, !.result = ok]]

\* Wrong: the oldest Send is popped.
Pop_Oldest(p, c) ==
  /\ deser' = [deser EXCEPT ![c] = Tail(@)]
  /\ PostIpc(p, RepliesTask)

\* Wrong: the queued replies are not looked at.
Pop_NoReplies(p, c) ==
  /\ deser' = [deser EXCEPT ![c] = Front(@)]
  /\ UNCHANGED itasks

\* Pop: the reply of a Send further down may be waiting in received_replies_.
Pop(p, c) ==
  /\ deser' = [deser EXCEPT ![c] = Front(@)]
  /\ PostIpc(p, RepliesTask)

CancelPendingSends(c) ==
  deser' = [deser EXCEPT ![c] =
              [k \in DOMAIN deser[c] |-> [deser[c][k] EXCEPT !.done = TRUE]]]

\* received_replies_[k] is a reply its context is waiting for.
Unblocks(p, k) == IsTopSend(replies[p][k].ctx, replies[p][k].id)

(***************************************************************************)
(* Listener thread: user code, which runs in a task or in a handler.       *)
(***************************************************************************)
\* The thread is in its message loop, or in one that a Send runs.
InMessageLoop(p) == Idle(p) \/ TopIs(p, "pump")

RunsUserCode(p) == alive[p] /\ (InMessageLoop(p) \/ TopIs(p, "handler"))

CanSend(p, c) ==
  /\ RunsUserCode(p)
  /\ Owner[c] = p /\ listener[c]
  /\ nextId[p] <= Budget[p]

\* SendWithTimeout up to the DispatchMessages that WaitForReply starts with.
BeginSend(p, c, unblock) ==
  /\ CanSend(p, c) /\ ~shutdown[p]
  /\ LET i == nextId[p] IN
       /\ nextId' = [nextId EXCEPT ![p] = i + 1]
       /\ deser' = [deser EXCEPT ![c] = Append(@, [id |-> i, done |-> FALSE, result |-> FALSE])]
       /\ PostIpc(p, SendTask(c, SyncMsg(i, unblock)))
       /\ frames' = [frames EXCEPT ![p] = Append(Append(@, WaitFrame(c, i)), LoopFrame(c))]
       /\ outcome' = [outcome EXCEPT ![p][i] = "pending"]
  /\ UNCHANGED <<channel, listener, watching, shutWatch, owed, queueVars, ltasks,
                 shutdown, alive, wire, answered>>

SendAfterShutdown(p, c) ==
  /\ CanSend(p, c) /\ shutdown[p]
  /\ nextId' = [nextId EXCEPT ![p] = @ + 1]
  /\ outcome' = [outcome EXCEPT ![p][nextId[p]] = "false"]
  /\ UNCHANGED <<ctxVars, queueVars, frames, ltasks, itasks, shutdown, alive,
                 wire, answered>>

\* The handler of a synchronous message sends the reply and returns.
Reply(p, ok) ==
  /\ alive[p] /\ TopIs(p, "handler") /\ listener[Top(p).ctx]
  /\ PostIpc(p, SendTask(Top(p).ctx, ReplyMsg(Top(p).id, ok)))
  /\ answered' = IF ok THEN answered \cup {<<Owner[Peer[Top(p).ctx]], Top(p).id>>}
                       ELSE answered
  /\ PopFrame(p)
  /\ UNCHANGED <<ctxVars, queueVars, ltasks, shutdown, alive, nextId, wire, outcome>>

\* The handler returns and keeps the reply, or has no channel to send it on.
ReturnWithoutReply(p) ==
  /\ alive[p] /\ TopIs(p, "handler")
  /\ MayDefer \/ ~listener[Top(p).ctx]
  /\ owed' = IF listener[Top(p).ctx] THEN [owed EXCEPT ![Top(p).ctx] = @ \cup {Top(p).id}]
                                     ELSE owed
  /\ PopFrame(p)
  /\ UNCHANGED <<deser, channel, listener, watching, shutWatch, queueVars, ltasks, itasks,
                 shutdown, alive, nextId, wire, history>>

SendDeferredReply(p, c, i, ok) ==
  /\ RunsUserCode(p) /\ Owner[c] = p /\ listener[c] /\ i \in owed[c]
  /\ owed' = [owed EXCEPT ![c] = @ \ {i}]
  /\ PostIpc(p, SendTask(c, ReplyMsg(i, ok)))
  /\ answered' = IF ok THEN answered \cup {<<Owner[Peer[c]], i>>} ELSE answered
  /\ UNCHANGED <<deser, channel, listener, watching, shutWatch, queueVars, frames, ltasks,
                 shutdown, alive, nextId, wire, outcome>>

\* ~SyncChannel: the watcher goes, then Close: Clear and the posted OnChannelClosed.
RemoveContext(p, c) ==
  LET gone == {m \in mq[p] : m.ctx = c} IN
    /\ mq' = [mq EXCEPT ![p] = @ \ gone]
    /\ version' = [version EXCEPT ![p] = @ + Cardinality(gone)]

Destroy(p, c) ==
  /\ RunsUserCode(p) /\ Owner[c] = p /\ listener[c] /\ c \in MayDestroy
  /\ watching' = [watching EXCEPT ![c] = "off"]
  /\ CancelPendingSends(c)
  /\ RemoveContext(p, c)
  /\ listener' = [listener EXCEPT ![c] = FALSE]
  /\ PostIpc(p, ClosedTask(c))
  /\ UNCHANGED <<channel, shutWatch, owed, taskPending, event, replies, sendWatch, queueing,
                 frames, ltasks, shutdown, alive, nextId, wire, history>>

\* ~ChildProcess signals the event; it runs on the listener thread.
Shutdown(p) ==
  /\ RunsUserCode(p) /\ p \in MayShutDown /\ ~shutdown[p]
  /\ shutdown' = [shutdown EXCEPT ![p] = TRUE]
  /\ UNCHANGED <<ctxVars, queueVars, frames, ltasks, itasks, alive, nextId, wire,
                 history>>

(***************************************************************************)
(* Listener thread: the dispatch loop and WaitForReply.                    *)
(***************************************************************************)
\* Wrong: the groups are ignored.
Eligible_Any(c, dispatching) == TRUE

Eligible(c, dispatching) == Group[c] = Unrestricted \/ Group[c] = Group[dispatching]

\* The list from the loop's iterator on, or from begin() when the version changed.
Ahead(p, f) ==
  {m \in mq[p] : version[p] # f.ver \/ (f.it # 0 /\ m.at >= f.it)}

Candidates(p, f) == {m \in Ahead(p, f) : Eligible(m.ctx, f.ctx)}

FirstOf(S) == CHOOSE m \in S : \A n \in S : m.at <= n.at

\* Wrong: the iterator stays at the erased element.
Following_Erased(S, m) == m.at

\* erase returns the element that follows, 0 stands for end().
Following(S, m) == LET after == {n \in S : n.at > m.at} IN
                     IF after = {} THEN 0 ELSE FirstOf(after).at

\* One turn of DispatchMessages that finds a message and runs OnDispatchMessage.
DispatchMessage(p) ==
  /\ alive[p] /\ TopIs(p, "loop") /\ Candidates(p, Top(p)) # {}
  /\ LET f    == Top(p)
         m    == FirstOf(Candidates(p, f))
         loop == [f EXCEPT !.it = Following(mq[p], m), !.ver = version[p] + 1]
         base == Append(Front(frames[p]), loop)
     IN /\ mq' = [mq EXCEPT ![p] = @ \ {m}]
        /\ version' = [version EXCEPT ![p] = @ + 1]
        /\ frames' = [frames EXCEPT ![p] =
             IF listener[m.ctx] THEN Append(base, HandlerFrame(m.ctx, m.id)) ELSE base]
  /\ UNCHANGED <<ctxVars, taskPending, event, replies, sendWatch, queueing, ltasks, itasks,
                 shutdown, alive, nextId, wire, history>>

DispatchEnd(p) ==
  /\ alive[p] /\ TopIs(p, "loop") /\ Candidates(p, Top(p)) = {}
  /\ PopFrame(p)
  /\ UNCHANGED <<ctxVars, queueVars, ltasks, itasks, shutdown, alive, nextId, wire,
                 history>>

\* WaitMany returns the first signaled event: dispatch_event_ before the done event.
WaitDispatchEvent(p) ==
  /\ alive[p] /\ TopIs(p, "wait") /\ event[p]
  /\ event' = [event EXCEPT ![p] = FALSE]
  /\ Push(p, LoopFrame(Top(p).ctx))
  /\ UNCHANGED <<ctxVars, mq, version, taskPending, replies, sendWatch, queueing, ltasks, itasks,
                 shutdown, alive, nextId, wire, history>>

\* Pop, and the innermost Send of the thread returns its result.
EndSend(p, stack) ==
  LET c == Top(p).ctx
      s == Last(deser[c])
  IN /\ deser[c] # <<>>
     /\ Pop(p, c)
     /\ outcome' = [outcome EXCEPT ![p][Top(p).id] = IF s.result THEN "true" ELSE "false"]
     /\ frames' = [frames EXCEPT ![p] = stack]

\* GetSendDoneEvent()->IsSignaled().
SendDone(c) == deser[c] # <<>> /\ Last(deser[c]).done

\* The done event is set.
SendReturns(p) ==
  /\ alive[p] /\ TopIs(p, "wait") /\ ~event[p]
  /\ SendDone(Top(p).ctx)
  /\ EndSend(p, Front(frames[p]))
  /\ UNCHANGED <<channel, listener, watching, shutWatch, owed, queueVars, ltasks,
                 shutdown, alive, nextId, wire, answered>>

\* The message's pump_messages_event may be signaled by now; WaitMany returns it when neither
\* of the other events is.  WaitForReplyWithNestedMessageLoop stops the watcher of the outer
\* nested loop, watches its own Send and runs the loop.
PumpMessages(p) ==
  /\ alive[p] /\ p \in MayPump /\ TopIs(p, "wait") /\ ~event[p]
  /\ LET c == Top(p).ctx IN
       /\ deser[c] # <<>> /\ ~Last(deser[c]).done
       /\ Push(p, PumpFrame(c, Top(p).id, sendWatch[p].id))
       /\ sendWatch' = [sendWatch EXCEPT ![p] = Watch(Last(deser[c]).id)]
  /\ UNCHANGED <<ctxVars, mq, version, taskPending, event, replies, queueing, ltasks, itasks,
                 shutdown, alive, nextId, wire, history>>

(***************************************************************************)
(* Listener thread: tasks of its message loops.                            *)
(***************************************************************************)
HeadTask(p, k) ==
  /\ alive[p] /\ InMessageLoop(p) /\ ltasks[p] # <<>> /\ Head(ltasks[p]).kind = k
  /\ ltasks' = [ltasks EXCEPT ![p] = Tail(@)]

DispatchMessagesTask(p) ==
  /\ HeadTask(p, "dispatch")
  /\ taskPending' = [taskPending EXCEPT ![p] = FALSE]
  /\ Push(p, LoopFrame(Head(ltasks[p]).ctx))
  /\ UNCHANGED <<ctxVars, mq, version, event, replies, sendWatch, queueing, itasks,
                 shutdown, alive, nextId, wire, history>>

\* A message that does not unblock arrives as a posted OnDispatchMessage.
OnDispatchMessage(p) ==
  /\ HeadTask(p, "message")
  /\ LET t == Head(ltasks[p]) IN
       IF listener[t.ctx] THEN Push(p, HandlerFrame(t.ctx, t.id)) ELSE UNCHANGED frames
  /\ UNCHANGED <<ctxVars, queueVars, itasks, shutdown, alive, nextId, wire, history>>

\* dispatch_watcher_ fired: Reset, watch again, DispatchMessages.
OnWaitableEventSignaled(p) ==
  /\ HeadTask(p, "watch")
  /\ LET c == Head(ltasks[p]).ctx IN
       IF watching[c] = "posted"
       THEN /\ event' = [event EXCEPT ![p] = FALSE]
            /\ watching' = [watching EXCEPT ![c] = "armed"]
            /\ Push(p, LoopFrame(c))
       ELSE UNCHANGED <<event, watching, frames>>
  /\ UNCHANGED <<deser, channel, listener, shutWatch, owed, mq, version, taskPending,
                 replies, sendWatch, queueing, itasks, shutdown, alive, nextId, wire,
                 history>>

\* Wrong: the watcher of the outer nested loop stays stopped.
OnSendDone_NotRestored(p) ==
  /\ HeadTask(p, "sendDone")
  /\ IF TopIs(p, "pump") /\ sendWatch[p] = [id |-> Head(ltasks[p]).id, posted |-> TRUE]
     THEN /\ sendWatch' = [sendWatch EXCEPT ![p] = Watch(0)]
          /\ EndSend(p, SubSeq(frames[p], 1, Len(frames[p]) - 2))
     ELSE UNCHANGED <<sendWatch, deser, itasks, frames, outcome>>
  /\ UNCHANGED <<channel, listener, watching, shutWatch, owed, mq, version, taskPending, event,
                 replies, queueing, shutdown, alive, nextId, wire, answered>>

\* send_done_watcher fired: QuitNow ends the nested loop, the watcher of the loop around it
\* starts again, WaitForReply is over and the Send returns.  The task of a watcher that
\* was stopped after its event was set does nothing.
OnSendDone(p) ==
  /\ HeadTask(p, "sendDone")
  /\ IF TopIs(p, "pump") /\ sendWatch[p] = [id |-> Head(ltasks[p]).id, posted |-> TRUE]
     THEN /\ sendWatch' = [sendWatch EXCEPT ![p] = Watch(Top(p).old)]
          /\ EndSend(p, SubSeq(frames[p], 1, Len(frames[p]) - 2))
     ELSE UNCHANGED <<sendWatch, deser, itasks, frames, outcome>>
  /\ UNCHANGED <<channel, listener, watching, shutWatch, owed, mq, version, taskPending, event,
                 replies, queueing, shutdown, alive, nextId, wire, answered>>

\* The wait thread sees the watched done event set; manual reset keeps it set.
SendDoneWaiting(c) ==
  LET p == Owner[c] IN
    /\ alive[p] /\ ~sendWatch[p].posted
    /\ \E s \in ToSet(deser[c]) : s.id = sendWatch[p].id /\ s.done
    /\ sendWatch' = [sendWatch EXCEPT ![p].posted = TRUE]
    /\ PostListener(p, Task("sendDone", c, sendWatch[p].id))
    /\ UNCHANGED <<ctxVars, mq, version, taskPending, event, replies, queueing, frames, itasks,
                   shutdown, alive, nextId, wire, history>>

\* The system's wait thread sees dispatch_event_ set and posts the watcher's task.
DoneWaiting(c) ==
  /\ alive[Owner[c]] /\ watching[c] = "armed" /\ event[Owner[c]]
  /\ watching' = [watching EXCEPT ![c] = "posted"]
  /\ PostListener(Owner[c], Task("watch", c, 0))
  /\ UNCHANGED <<deser, channel, listener, shutWatch, owed, queueVars, frames, itasks,
                 shutdown, alive, nextId, wire, history>>

(***************************************************************************)
(* IPC thread.                                                             *)
(***************************************************************************)
NotQueueing == [ctx |-> "none", post |-> FALSE]
IpcReady(p) == alive[p] /\ queueing[p] = NotQueueing

HeadIpcTask(p, k) ==
  /\ IpcReady(p) /\ itasks[p] # <<>> /\ Head(itasks[p]).kind = k
  /\ itasks' = [itasks EXCEPT ![p] = Tail(@)]

\* Wrong: a failed Channel::Send is ignored.
OnSendMessage_Ignored(p) ==
  /\ HeadIpcTask(p, "send")
  /\ LET t == Head(itasks[p]) IN
       IF channel[t.ctx] = "open" /\ channel[Peer[t.ctx]] = "open"
       THEN wire' = [wire EXCEPT ![Peer[t.ctx]] = Append(@, t.msg)]
       ELSE UNCHANGED wire
  /\ UNCHANGED <<ctxVars, queueVars, frames, ltasks, shutdown, alive, nextId, history>>

\* Channel::Send writes while both ends of the pipe are open.
OnSendMessage(p) ==
  /\ HeadIpcTask(p, "send")
  /\ LET t == Head(itasks[p]) IN
       IF channel[t.ctx] = "open" /\ channel[Peer[t.ctx]] = "open"
       THEN /\ wire' = [wire EXCEPT ![Peer[t.ctx]] = Append(@, t.msg)]
            /\ UNCHANGED <<deser, shutWatch>>
       ELSE \* Send fails: OnChannelError; no channel_: OnChannelClosed
            /\ CancelPendingSends(t.ctx)
            /\ shutWatch' = [shutWatch EXCEPT ![t.ctx] = FALSE]
            /\ UNCHANGED wire
  /\ UNCHANGED <<channel, listener, watching, owed, queueVars, frames, ltasks,
                 shutdown, alive, nextId, history>>

DispatchReplies(p) ==
  /\ HeadIpcTask(p, "replies")
  /\ IF \E k \in DOMAIN replies[p] : Unblocks(p, k)
     THEN \E k \in DOMAIN replies[p] :
            /\ Unblocks(p, k) /\ \A j \in 1..(k - 1) : ~Unblocks(p, j)
            /\ Unblock(replies[p][k].ctx, replies[p][k].ok)
            /\ replies' = [replies EXCEPT ![p] = RemoveAt(@, k)]
     ELSE UNCHANGED <<deser, replies>>
  /\ UNCHANGED <<channel, listener, watching, shutWatch, owed, mq, version, taskPending,
                 event, sendWatch, queueing, frames, ltasks, shutdown, alive, nextId,
                 wire, history>>

OnChannelClosed(p) ==
  /\ HeadIpcTask(p, "closed")
  /\ LET c == Head(itasks[p]).ctx IN
       /\ CancelPendingSends(c)
       /\ shutWatch' = [shutWatch EXCEPT ![c] = FALSE]
       /\ channel' = [channel EXCEPT ![c] = "closed"]
       /\ wire' = [wire EXCEPT ![c] = <<>>]
  /\ UNCHANGED <<listener, watching, owed, queueVars, frames, ltasks, shutdown,
                 alive, nextId, history>>

Receive(c, type) ==
  /\ IpcReady(Owner[c]) /\ channel[c] = "open" /\ wire[c] # <<>>
  /\ Head(wire[c]).type = type
  /\ wire' = [wire EXCEPT ![c] = Tail(@)]

\* OnMessageReceived of a reply: TryToUnblockListener, else QueueReply.
ReceiveReply(c) ==
  /\ Receive(c, "reply")
  /\ LET r == Head(wire[c]) IN
       IF IsTopSend(c, r.id)
       THEN Unblock(c, r.ok) /\ UNCHANGED replies
       ELSE /\ replies' = [replies EXCEPT ![Owner[c]] =
                             Append(@, [ctx |-> c, id |-> r.id, ok |-> r.ok])]
            /\ UNCHANGED deser
  /\ UNCHANGED <<channel, listener, watching, shutWatch, owed, mq, version, taskPending,
                 event, sendWatch, queueing, frames, ltasks, itasks, shutdown, alive,
                 nextId, history>>

\* OnMessageReceived of a synchronous message that unblocks: QueueMessage, under the lock.
QueueMessage(c) ==
  /\ Receive(c, "sync") /\ Head(wire[c]).unblock
  /\ LET p == Owner[c] IN
       /\ version' = [version EXCEPT ![p] = @ + 1]
       /\ mq' = [mq EXCEPT ![p] = @ \cup
                   {[ctx |-> c, id |-> Head(wire[c]).id, at |-> version[p] + 1]}]
       /\ taskPending' = [taskPending EXCEPT ![p] = TRUE]
       /\ queueing' = [queueing EXCEPT ![p] = [ctx |-> c, post |-> ~taskPending[p]]]
  /\ UNCHANGED <<ctxVars, event, replies, sendWatch, frames, ltasks, itasks, shutdown,
                 alive, nextId, history>>

\* The rest of QueueMessage, outside the lock: Signal, and PostTask if none was pending.
SignalDispatchEvent(p) ==
  /\ alive[p] /\ queueing[p] # NotQueueing
  /\ event' = [event EXCEPT ![p] = TRUE]
  /\ IF queueing[p].post THEN PostListener(p, Task("dispatch", queueing[p].ctx, 0))
                         ELSE UNCHANGED ltasks
  /\ queueing' = [queueing EXCEPT ![p] = NotQueueing]
  /\ UNCHANGED <<ctxVars, mq, version, taskPending, replies, sendWatch, frames, itasks,
                 shutdown, alive, nextId, wire, history>>

\* OnMessageReceived of any other message: OnMessageReceivedNoFilter.
PostMessage(c) ==
  /\ Receive(c, "sync") /\ ~Head(wire[c]).unblock
  /\ PostListener(Owner[c], Task("message", c, Head(wire[c]).id))
  /\ UNCHANGED <<ctxVars, queueVars, frames, itasks, shutdown, alive, nextId, history>>

\* The peer's end is gone: the pipe is closed, what was in flight is lost.
OnChannelError(c) ==
  /\ IpcReady(Owner[c]) /\ channel[c] = "open" /\ channel[Peer[c]] # "open"
  /\ channel' = [channel EXCEPT ![c] = "error"]
  /\ wire' = [wire EXCEPT ![c] = <<>>]
  /\ CancelPendingSends(c)
  /\ shutWatch' = [shutWatch EXCEPT ![c] = FALSE]
  /\ UNCHANGED <<listener, watching, owed, queueVars, frames, ltasks, itasks,
                 shutdown, alive, nextId, history>>

OnShutdownSignaled(c) ==
  /\ IpcReady(Owner[c]) /\ shutdown[Owner[c]] /\ shutWatch[c]
  /\ CancelPendingSends(c)
  /\ shutWatch' = [shutWatch EXCEPT ![c] = FALSE]
  /\ UNCHANGED <<channel, listener, watching, owed, queueVars, procVars, history>>

\* The delayed task of a Send with a timeout, at any time before the Send returns; later it
\* finds no entry and does nothing.
OnSendTimeout(c, i) ==
  /\ IpcReady(Owner[c]) /\ <<Owner[c], i>> \in MayTimeOut
  /\ \E k \in DOMAIN deser[c] :
       /\ deser[c][k].id = i /\ ~deser[c][k].done
       /\ deser' = [deser EXCEPT ![c][k] = [deser[c][k] EXCEPT !.done = TRUE]]
  /\ UNCHANGED <<channel, listener, watching, shutWatch, owed, queueVars, procVars, history>>

(***************************************************************************)
(* The process dies: its memory is gone, the system closes its ends of the *)
(* pipes.                                                                  *)
(***************************************************************************)
Crash(p) ==
  LET mine == {c \in Ctx : Owner[c] = p} IN
    /\ alive[p] /\ p \in MayCrash
    /\ alive' = [alive EXCEPT ![p] = FALSE]
    /\ channel' = [c \in Ctx |-> IF c \in mine THEN "closed" ELSE channel[c]]
    /\ deser' = [c \in Ctx |-> IF c \in mine THEN <<>> ELSE deser[c]]
    /\ watching' = [c \in Ctx |-> IF c \in mine THEN "off" ELSE watching[c]]
    /\ shutWatch' = [c \in Ctx |-> shutWatch[c] /\ c \notin mine]
    /\ owed' = [c \in Ctx |-> IF c \in mine THEN {} ELSE owed[c]]
    /\ wire' = [c \in Ctx |-> IF c \in mine THEN <<>> ELSE wire[c]]
    /\ mq' = [mq EXCEPT ![p] = {}]
    /\ version' = [version EXCEPT ![p] = 0]
    /\ taskPending' = [taskPending EXCEPT ![p] = FALSE]
    /\ event' = [event EXCEPT ![p] = FALSE]
    /\ replies' = [replies EXCEPT ![p] = <<>>]
    /\ sendWatch' = [sendWatch EXCEPT ![p] = Watch(0)]
    /\ queueing' = [queueing EXCEPT ![p] = NotQueueing]
    /\ frames' = [frames EXCEPT ![p] = <<>>]
    /\ ltasks' = [ltasks EXCEPT ![p] = <<>>]
    /\ itasks' = [itasks EXCEPT ![p] = <<>>]
    /\ UNCHANGED <<listener, shutdown, nextId, history>>

(***************************************************************************)
(* Specification.                                                          *)
(***************************************************************************)
Init ==
  /\ deser = [c \in Ctx |-> <<>>]
  /\ channel = [c \in Ctx |-> "open"]
  /\ listener = [c \in Ctx |-> TRUE]
  /\ watching = [c \in Ctx |-> "armed"]
  /\ shutWatch = [c \in Ctx |-> TRUE]
  /\ owed = [c \in Ctx |-> {}]
  /\ mq = [p \in Proc |-> {}]
  /\ version = [p \in Proc |-> 0]
  /\ taskPending = [p \in Proc |-> FALSE]
  /\ event = [p \in Proc |-> FALSE]
  /\ replies = [p \in Proc |-> <<>>]
  /\ sendWatch = [p \in Proc |-> Watch(0)]
  /\ queueing = [p \in Proc |-> NotQueueing]
  /\ frames = [p \in Proc |-> <<>>]
  /\ ltasks = [p \in Proc |-> <<>>]
  /\ itasks = [p \in Proc |-> <<>>]
  /\ shutdown = [p \in Proc |-> FALSE]
  /\ alive = [p \in Proc |-> TRUE]
  /\ nextId = [p \in Proc |-> 1]
  /\ wire = [c \in Ctx |-> <<>>]
  /\ outcome = [p \in Proc |-> [i \in Ids |-> "none"]]
  /\ answered = {}

\* Steps of user code that nothing obliges it to take.
UserCode(p) ==
  \/ \E c \in Ctx, u \in UnblockFlags[p] : BeginSend(p, c, u)
  \/ \E c \in Ctx : SendAfterShutdown(p, c)
  \/ \E c \in Ctx : Destroy(p, c)
  \/ Shutdown(p)
  \/ Crash(p)

\* A handler returns, with or without having sent its reply.
HandlerReturns(p) == (\E ok \in ReplyResults : Reply(p, ok)) \/ ReturnWithoutReply(p)

DeferredReplies(p) ==
  \E c \in Ctx, i \in Ids, ok \in ReplyResults : SendDeferredReply(p, c, i, ok)

\* What the listener thread does by itself.
ListenerStep(p) ==
  \/ DispatchMessage(p) \/ DispatchEnd(p)
  \/ WaitDispatchEvent(p) \/ SendReturns(p)
  \/ DispatchMessagesTask(p) \/ OnDispatchMessage(p) \/ OnWaitableEventSignaled(p)
  \/ OnSendDone(p)

IpcTaskStep(p) ==
  OnSendMessage(p) \/ DispatchReplies(p) \/ OnChannelClosed(p) \/ SignalDispatchEvent(p)

ChannelStep(c) ==
  \/ ReceiveReply(c) \/ QueueMessage(c) \/ PostMessage(c)
  \/ OnChannelError(c) \/ OnShutdownSignaled(c)

Next ==
  \/ \E p \in Proc : \/ UserCode(p) \/ HandlerReturns(p) \/ DeferredReplies(p)
                     \/ ListenerStep(p) \/ PumpMessages(p) \/ IpcTaskStep(p)
  \/ \E c \in Ctx : ChannelStep(c) \/ DoneWaiting(c) \/ SendDoneWaiting(c)
  \/ \E c \in Ctx, i \in Ids : OnSendTimeout(c, i)

Spec == Init /\ [][Next]_vars

\* Threads run, handlers return and answer, the wait thread sees an event that
\* stays set; nobody has to start a Send, and no timer has to fire.
Fairness ==
  /\ \A p \in Proc :
       /\ WF_vars(HandlerReturns(p)) /\ WF_vars(DeferredReplies(p))
       /\ WF_vars(ListenerStep(p)) /\ WF_vars(IpcTaskStep(p))
  /\ \A c \in Ctx :
       /\ WF_vars(ReceiveReply(c) \/ QueueMessage(c) \/ PostMessage(c))
       /\ WF_vars(OnChannelError(c)) /\ WF_vars(OnShutdownSignaled(c))
       /\ WF_vars(DoneWaiting(c)) /\ WF_vars(SendDoneWaiting(c))

FairSpec == Spec /\ Fairness

(***************************************************************************)
(* Properties.                                                             *)
(***************************************************************************)

\* Every variable has the shape the code's data structure gives it.
CtxTypeOK ==
  /\ deser \in [Ctx -> Seq(PendingSend)]
  /\ channel \in [Ctx -> {"open", "error", "closed"}]
  /\ listener \in [Ctx -> BOOLEAN]
  /\ watching \in [Ctx -> {"armed", "posted", "off"}]
  /\ shutWatch \in [Ctx -> BOOLEAN]
  /\ owed \in [Ctx -> SUBSET Ids]

QueueTypeOK ==
  /\ mq \in [Proc -> SUBSET QueuedMessage]
  /\ \A p \in Proc : IsFiniteSet(mq[p])
  /\ version \in [Proc -> Nat]
  /\ taskPending \in [Proc -> BOOLEAN]
  /\ event \in [Proc -> BOOLEAN]
  /\ replies \in [Proc -> Seq(QueuedReply)]
  /\ sendWatch \in [Proc -> [id : 0..MaxSends, posted : BOOLEAN]]
  /\ queueing \in [Proc -> {NotQueueing} \cup [ctx : Ctx, post : BOOLEAN]]

ProcTypeOK ==
  /\ frames \in [Proc -> Seq(Frame)]
  /\ ltasks \in [Proc -> Seq(ListenerTask)]
  /\ itasks \in [Proc -> Seq(IpcTask)]
  /\ shutdown \in [Proc -> BOOLEAN]
  /\ alive \in [Proc -> BOOLEAN]
  /\ nextId \in [Proc -> 1..(MaxSends + 1)]
  /\ wire \in [Ctx -> Seq(Message)]

HistoryTypeOK ==
  /\ outcome \in [Proc -> [Ids -> Outcome]]
  /\ answered \subseteq Proc \X Ids

TypeOK == CtxTypeOK /\ QueueTypeOK /\ ProcTypeOK /\ HistoryTypeOK

\* A Send returns true only when the handler of that very message has sent a
\* good reply: no reply is taken for another Send of the call stack, or for a
\* Send that timed out or was canceled (TryToUnblockListener, received_replies_).
TrueMeansAnswered ==
  \A p \in Proc, i \in Ids : outcome[p][i] = "true" => <<p, i>> \in answered

\* The pending Sends of a context are exactly the Sends on the call stack of its
\* thread, in the same order, so Pop (which takes the last) is always the
\* bookkeeping of the Send that returns, whatever nested handlers did in between.
StackDiscipline ==
  /\ \A p \in Proc : \A j, k \in DOMAIN frames[p] :
       j < k /\ frames[p][j].kind = "wait" /\ frames[p][k].kind = "wait" =>
         frames[p][j].id < frames[p][k].id
  /\ \A c \in Ctx : \A j, k \in DOMAIN deser[c] : j < k => deser[c][j].id < deser[c][k].id
  /\ \A c \in Ctx : {s.id : s \in ToSet(deser[c])} =
       {f.id : f \in {g \in ToSet(frames[Owner[c]]) : g.kind = "wait" /\ g.ctx = c}}

\* A reply that arrived while its Send was not the innermost one is not
\* stranded: for each queued reply that could unblock a Send now, a
\* DispatchReplies is still queued, though each handles one reply only.
NoReplyStranded ==
  \A p \in Proc :
    Cardinality({k \in DOMAIN replies[p] :
                   Unblocks(p, k) /\ ~Last(deser[replies[p][k].ctx]).done})
      <= Cardinality({k \in DOMAIN itasks[p] : itasks[p][k].kind = "replies"})

\* A listener thread about to block in WaitMany has no message it would dispatch:
\* no wakeup is lost between QueueMessage's push and Signal and the listener's
\* Reset and scan.
BlocksOnlyWithNothingToDispatch ==
  \A p \in Proc :
    TopIs(p, "wait") /\ ~event[p] /\ queueing[p] = NotQueueing =>
      \A m \in mq[p] : ~Eligible(m.ctx, Top(p).ctx)

\* Every queued synchronous message has somebody on the way who dispatches it:
\* the posted task, or a dispatch loop on the call stack.
QueuedMessageHasDispatcher ==
  \A p \in Proc : mq[p] # {} =>
    \/ \E k \in DOMAIN ltasks[p] : ltasks[p][k].kind = "dispatch"
    \/ queueing[p].post
    \/ \E k \in DOMAIN frames[p] : frames[p][k].kind = "loop"

\* The opening comment (ipc_sync_channel.cc:36-37): while the listener thread is not
\* sending, a task is queued on it to dispatch the received messages.  So a thread
\* at rest, with nothing left to run, has dispatched them all.
AtRestMeansDispatched ==
  \A p \in Proc :
    Idle(p) /\ ltasks[p] = <<>> /\ queueing[p] = NotQueueing /\ ~event[p] => mq[p] = {}

\* The iterator a DispatchMessages loop keeps across the handler it runs is valid
\* when the version still matches, though nested loops, RemoveContext and the IPC
\* thread change the list meanwhile.
IteratorValid ==
  \A p \in Proc : \A k \in DOMAIN frames[p] :
    LET f == frames[p][k] IN
      f.kind = "loop" /\ f.ver = version[p] /\ f.it # 0 => \E m \in mq[p] : m.at = f.it

\* A context of a restricted group re-enters the listener thread only under a Send
\* on a context of the same group (SetRestrictDispatchChannelGroup), or in a nested
\* message loop, which runs every task of the thread.
RestrictedReentrancy ==
  \A p \in Proc : \A k \in DOMAIN frames[p] :
    LET f     == frames[p][k]
        below == {j \in 1..(k - 1) : frames[p][j].kind \in {"wait", "pump"}}
    IN f.kind = "handler" /\ Group[f.ctx] # Unrestricted /\ below # {} =>
         \E j \in below : /\ \A h \in below : h <= j
                         /\ \/ frames[p][j].kind = "pump"
                            \/ Group[frames[p][j].ctx] = Group[f.ctx]

\* Replies reach the Send they belong to: no other Send, and not no Send.
RepliesMatched == TrueMeansAnswered /\ NoReplyStranded

\* The Sends that run a nested message loop wait for the innermost one only: its done event
\* is the watched one, whatever loops it interrupted or that ended inside it, and it is the
\* one DCHECK_EQ(GetSendDoneEvent(), event) expects.  Once the watcher has fired, the task
\* that ends the loop is on its way.
NestedLoopIsWoken ==
  \A p \in Proc :
    LET pumping == {k \in DOMAIN frames[p] : frames[p][k].kind = "pump"}
        w       == sendWatch[p]
    IN IF pumping = {} THEN w = Watch(0)
       ELSE \E k \in pumping :
              LET f == frames[p][k] IN
                /\ \A j \in pumping : j <= k
                /\ w.id = f.id
                /\ k = Len(frames[p]) => Last(deser[f.ctx]).id = f.id
                /\ w.posted => Contains(ltasks[p], Task("sendDone", f.ctx, f.id))

\* Between the IPC thread's push, signal and post and the listener's reset and scan
\* no message is left to nobody, and no nested message loop outlives its Send.
WakeupsKept ==
  BlocksOnlyWithNothingToDispatch /\ QueuedMessageHasDispatcher /\ NestedLoopIsWoken

\* When a channel is gone, a Send on it that has not been canceled is one whose
\* message the IPC thread has yet to try to send, and fail.
NoSendLeftBehind ==
  \A c \in Ctx : channel[c] # "open" /\ alive[Owner[c]] =>
    \A k \in DOMAIN deser[c] : deser[c][k].done \/
      \E n \in DOMAIN itasks[Owner[c]] :
        LET t == itasks[Owner[c]][n] IN
          t.kind = "send" /\ t.ctx = c /\ t.msg = SyncMsg(deser[c][k].id, t.msg.unblock)

\* Nested Sends end with the entry they pushed, and none is forgotten by the
\* cancellation (Pop, CancelPendingSends, OnSendMessage).
SendsAccounted == StackDiscipline /\ NoSendLeftBehind

\* Every Send returns, whoever calls whom meanwhile, when handlers answer: by its
\* reply, or because the peer died, the channel was closed or the process shuts
\* down.  (Sends are finitely many, so each returns if again and again none is pending.)
EverySendReturns ==
  \A p \in Proc : []<>(~alive[p] \/ \A i \in Ids : outcome[p][i] # "pending")

\* Every synchronous message that was queued is taken off the queue.
EveryMessageDispatched == \A p \in Proc : []<>(~alive[p] \/ mq[p] = {})

\* Neither a caller nor a received message waits for ever.
NobodyWaitsForEver == EverySendReturns /\ EveryMessageDispatched

\* What the channel promises its callers: module SyncCall, with the same history.
Calls == INSTANCE SyncCall
ImplementsSyncCall == Calls!CallSpec
=============================================================================
