------------------------ MODULE SyncChannel_proofs ------------------------
(***************************************************************************)
(* SyncChannel and its callers, for every topology and bound: the type     *)
(* invariant, nested Sends are accounted for (SendsAccounted), a Send that *)
(* returns true was answered (TrueMeansAnswered), and SyncChannel          *)
(* implements SyncCall.  Inductive:                                        *)
(*   CallStack  the Sends a context waits for are those on its thread's    *)
(*              call stack, innermost last, and they are the pending ones; *)
(*   Sent       wherever the number of a request is kept on its way to the *)
(*              handler and in the handler, the peer has handed it out;    *)
(*   Answered   wherever a good reply is kept on its way back, its request *)
(*              has been answered.                                         *)
(***************************************************************************)
EXTENDS SyncChannel, TLAPS, FiniteSetTheorems, SequenceTheorems,
        WellFoundedInduction

LEMMA FrontType ==
  ASSUME NEW S, NEW s \in Seq(S), s # <<>>
  PROVE  /\ Front(s) \in Seq(S) /\ Len(Front(s)) = Len(s) - 1
         /\ \A k \in 1..(Len(s) - 1) : Front(s)[k] = s[k]
<1>1. /\ Len(s) \in Nat /\ Len(s) >= 1
      /\ \A i \in 1..(Len(s) - 1) : s[i] \in S
  OBVIOUS
<1> DEFINE n == Len(s) - 1
<1>2. /\ SubSeq(s, 1, n) \in Seq(S)
      /\ Len(SubSeq(s, 1, n)) = IF 1 <= n THEN n - 1 + 1 ELSE 0
      /\ \A k \in 1..(n - 1 + 1) : SubSeq(s, 1, n)[k] = s[1 + k - 1]
  <2>1. 1 \in Int /\ n \in Int /\ \A k \in 1..n : s[k] \in S
    BY <1>1
  <2>2. QED
    BY <2>1, SubSeqProperties
<1>3. Front(s) = SubSeq(s, 1, n)
  BY DEF Front
<1>4. Len(Front(s)) = n
  <2> DEFINE l == Len(SubSeq(s, 1, n))
  <2>1. n \in Nat
    BY <1>1
  <2>2. l = IF 1 <= n THEN n - 1 + 1 ELSE 0
    BY <1>2
  <2> HIDE DEF l, n
  <2>3. l = n
    BY <2>1, <2>2
  <2>4. QED
    BY <2>3, <1>3 DEF l
<1>5. ASSUME NEW k \in 1..n PROVE Front(s)[k] = s[k]
  <2>1. k \in 1..(n - 1 + 1) /\ 1 + k - 1 = k
    BY <1>1
  <2>2. QED
    BY <1>2, <1>3, <2>1
<1>6. QED
  BY <1>2, <1>3, <1>4, <1>5

LEMMA LastType ==
  ASSUME NEW S, NEW s \in Seq(S), s # <<>>
  PROVE  Last(s) \in S /\ Len(s) \in DOMAIN s /\ Last(s) = s[Len(s)]
  BY DEF Last

LEMMA RemoveAtType ==
  ASSUME NEW S, NEW s \in Seq(S), NEW k \in DOMAIN s
  PROVE  RemoveAt(s, k) \in Seq(S)
<1>1. /\ SubSeq(s, 1, k - 1) \in Seq(S) /\ SubSeq(s, k + 1, Len(s)) \in Seq(S)
  <2>1. /\ \A i \in 1..(k - 1) : s[i] \in S
        /\ \A i \in (k + 1)..Len(s) : s[i] \in S
        /\ k \in Int /\ Len(s) \in Int
    OBVIOUS
  <2>2. QED
    BY <2>1, SubSeqProperties
<1>2. QED
  BY <1>1 DEF RemoveAt

LEMMA PushTo ==
  ASSUME NEW S, NEW D, NEW f \in [D -> Seq(S)], NEW d \in D, NEW e \in S
  PROVE  [f EXCEPT ![d] = Append(@, e)] \in [D -> Seq(S)]
  OBVIOUS

LEMMA PopFrom ==
  ASSUME NEW S, NEW D, NEW f \in [D -> Seq(S)], NEW d \in D, f[d] # <<>>
  PROVE  [f EXCEPT ![d] = Front(@)] \in [D -> Seq(S)]
  BY FrontType

LEMMA TakeFrom ==
  ASSUME NEW S, NEW D, NEW f \in [D -> Seq(S)], NEW d \in D, f[d] # <<>>
  PROVE  [f EXCEPT ![d] = Tail(@)] \in [D -> Seq(S)] /\ Head(f[d]) \in S
  OBVIOUS

LEMMA InitType == Init => TypeOK
  BY ConstantsAssumption, FS_EmptySet
  DEF Watch, Init, TypeOK, CtxTypeOK, QueueTypeOK, ProcTypeOK, HistoryTypeOK, NotQueueing, Ids, Outcome

LEMMA TopFrame ==
  ASSUME TypeOK, NEW p \in Proc, ~Idle(p)
  PROVE  /\ frames[p] \in Seq(Frame) /\ frames[p] # <<>>
         /\ Top(p) \in Frame /\ Top(p) = frames[p][Len(frames[p])]
         /\ Len(frames[p]) \in DOMAIN frames[p]
         /\ Top(p).ctx \in Ctx
         /\ Top(p).kind \in {"wait", "handler", "pump"} => Top(p).id \in Ids
         /\ Top(p).kind = "pump" => Top(p).old \in 0..MaxSends
<1>1. frames[p] \in Seq(Frame) /\ frames[p] # <<>>
  BY DEF TypeOK, ProcTypeOK, Idle
<1>2. /\ Top(p) \in Frame /\ Top(p) = frames[p][Len(frames[p])]
      /\ Len(frames[p]) \in DOMAIN frames[p]
  BY <1>1, LastType DEF Top
<1>3. QED
  BY <1>1, <1>2 DEF Frame

LEMMA PostIpcType ==
  ASSUME TypeOK, NEW p \in Proc, NEW t \in IpcTask, PostIpc(p, t)
  PROVE  itasks' \in [Proc -> Seq(IpcTask)]
  BY PushTo DEF PostIpc, TypeOK, ProcTypeOK

LEMMA PostListenerType ==
  ASSUME TypeOK, NEW p \in Proc, NEW t \in ListenerTask, PostListener(p, t)
  PROVE  ltasks' \in [Proc -> Seq(ListenerTask)]
  BY PushTo DEF PostListener, TypeOK, ProcTypeOK

LEMMA PushType ==
  ASSUME TypeOK, NEW p \in Proc, NEW f \in Frame, Push(p, f)
  PROVE  frames' \in [Proc -> Seq(Frame)]
  BY PushTo DEF Push, TypeOK, ProcTypeOK

LEMMA PopFrameType ==
  ASSUME TypeOK, NEW p \in Proc, ~Idle(p), PopFrame(p)
  PROVE  frames' \in [Proc -> Seq(Frame)]
  BY PopFrom DEF PopFrame, TypeOK, ProcTypeOK, Idle

LEMMA CancelType ==
  ASSUME TypeOK, NEW c \in Ctx, CancelPendingSends(c)
  PROVE  deser' \in [Ctx -> Seq(PendingSend)]
<1> DEFINE s == deser[c]
           t == [k \in DOMAIN s |-> [s[k] EXCEPT !.done = TRUE]]
<1>1. deser \in [Ctx -> Seq(PendingSend)] /\ s \in Seq(PendingSend)
  BY DEF TypeOK, CtxTypeOK
<1>2. ASSUME NEW k \in 1..Len(s) PROVE [s[k] EXCEPT !.done = TRUE] \in PendingSend
  <2>1. s[k] \in PendingSend
    BY <1>1
  <2> HIDE DEF s
  <2>2. QED
    BY <2>1, TRUE \in BOOLEAN DEF PendingSend
<1>3. t = [k \in 1..Len(s) |-> [s[k] EXCEPT !.done = TRUE]] /\ Len(s) \in Nat
  BY <1>1
<1>4. t \in Seq(PendingSend)
  <2>1. t \in [1..Len(s) -> PendingSend]
    BY <1>2, <1>3
  <2>2. QED
    BY <1>3, <2>1, SeqDef
<1>5. deser' = [deser EXCEPT ![c] = t]
  BY DEF CancelPendingSends
<1>6. QED
  BY <1>1, <1>4, <1>5

LEMMA UnblockType ==
  ASSUME TypeOK, NEW c \in Ctx, NEW i, NEW ok \in BOOLEAN, IsTopSend(c, i), Unblock(c, ok)
  PROVE  deser' \in [Ctx -> Seq(PendingSend)]
<1> DEFINE s == deser[c]
           e == [s[Len(s)] EXCEPT !.done = TRUE, !.result = ok]
<1>1. deser \in [Ctx -> Seq(PendingSend)] /\ s \in Seq(PendingSend) /\ s # <<>>
  BY DEF TypeOK, CtxTypeOK, IsTopSend
<1>2. Len(s) \in 1..Len(s) /\ s[Len(s)] \in PendingSend
  BY <1>1
<1>3. e \in PendingSend
  <2>1. PICK x \in PendingSend : x = s[Len(s)]
    BY <1>2
  <2>2. [x EXCEPT !.done = TRUE, !.result = ok] \in PendingSend
    BY <2>1 DEF PendingSend
  <2>3. QED
    BY <2>1, <2>2
<1>4. [s EXCEPT ![Len(s)] = e] \in Seq(PendingSend)
  BY <1>1, <1>2, <1>3, ExceptSeq
<1>5. deser' = [deser EXCEPT ![c] = [s EXCEPT ![Len(s)] = e]]
  BY DEF Unblock, Last
<1>6. QED
  BY <1>1, <1>4, <1>5

LEMMA HeadTaskType ==
  ASSUME TypeOK, NEW p \in Proc, NEW k, HeadTask(p, k)
  PROVE  /\ ltasks' \in [Proc -> Seq(ListenerTask)]
         /\ Head(ltasks[p]) \in ListenerTask /\ Head(ltasks[p]).kind = k
         /\ Head(ltasks[p]).ctx \in Ctx
         /\ k \in {"message", "sendDone"} => Head(ltasks[p]).id \in Ids
<1>1. /\ ltasks' \in [Proc -> Seq(ListenerTask)]
      /\ Head(ltasks[p]) \in ListenerTask /\ Head(ltasks[p]).kind = k
  BY TakeFrom DEF HeadTask, TypeOK, ProcTypeOK
<1>2. QED
  BY <1>1 DEF ListenerTask

LEMMA HeadIpcTaskType ==
  ASSUME TypeOK, NEW p \in Proc, NEW k, HeadIpcTask(p, k)
  PROVE  /\ itasks' \in [Proc -> Seq(IpcTask)]
         /\ Head(itasks[p]) \in IpcTask /\ Head(itasks[p]).kind = k
         /\ k \in {"send", "closed"} => Head(itasks[p]).ctx \in Ctx
         /\ k = "send" => Head(itasks[p]).msg \in Message
<1>1. /\ itasks' \in [Proc -> Seq(IpcTask)]
      /\ Head(itasks[p]) \in IpcTask /\ Head(itasks[p]).kind = k
  BY TakeFrom DEF HeadIpcTask, TypeOK, ProcTypeOK
<1>2. QED
  BY <1>1 DEF IpcTask

\* What a task of the IPC thread leaves alone.
LEMMA IpcTaskKeeps ==
  ASSUME NEW p \in Proc, OnSendMessage(p) \/ OnChannelClosed(p) \/ DispatchReplies(p)
  PROVE  /\ UNCHANGED <<listener, watching, owed, mq, version, taskPending, event, sendWatch,
                        queueing, frames, ltasks, shutdown, alive, nextId, outcome, answered>>
         /\ itasks[p] # <<>> /\ itasks' = [itasks EXCEPT ![p] = Tail(@)]
         /\ replies' # replies => DispatchReplies(p)
<1>1. CASE OnSendMessage(p)
  BY <1>1 DEF OnSendMessage, HeadIpcTask, queueVars, history
<1>2. CASE OnChannelClosed(p)
  BY <1>2 DEF OnChannelClosed, HeadIpcTask, queueVars, history
<1>3. CASE DispatchReplies(p)
  BY <1>3 DEF DispatchReplies, HeadIpcTask, history
<1>4. QED
  BY <1>1, <1>2, <1>3

\* A message that cannot be sent, or a closed channel, cancels the Sends of its context.
LEMMA IpcTaskCancels ==
  ASSUME TypeOK, NEW p \in Proc, OnSendMessage(p) \/ OnChannelClosed(p)
  PROVE  /\ Head(itasks[p]).ctx \in Ctx /\ Head(itasks[p]).kind # "replies"
         /\ deser' = deser \/ CancelPendingSends(Head(itasks[p]).ctx)
<1>1. CASE OnSendMessage(p)
  <2>1. Head(itasks[p]).ctx \in Ctx /\ Head(itasks[p]).kind # "replies"
    BY <1>1, HeadIpcTaskType DEF OnSendMessage
  <2>2. QED
    BY <1>1, <2>1 DEF OnSendMessage
<1>2. CASE OnChannelClosed(p)
  <2>1. Head(itasks[p]).ctx \in Ctx /\ Head(itasks[p]).kind # "replies"
    BY <1>2, HeadIpcTaskType DEF OnChannelClosed
  <2>2. QED
    BY <1>2, <2>1 DEF OnChannelClosed
<1>3. QED
  BY <1>1, <1>2

LEMMA ReceiveType ==
  ASSUME TypeOK, NEW c \in Ctx, NEW k, Receive(c, k)
  PROVE  /\ wire' \in [Ctx -> Seq(Message)]
         /\ Head(wire[c]) \in Message /\ Head(wire[c]).type = k
         /\ Head(wire[c]).id \in Ids /\ Head(wire[c]).ok \in BOOLEAN
<1>1. /\ wire' \in [Ctx -> Seq(Message)]
      /\ Head(wire[c]) \in Message /\ Head(wire[c]).type = k
  BY TakeFrom DEF Receive, TypeOK, ProcTypeOK
<1>2. QED
  BY <1>1 DEF Message

LEMMA BeginSendType ==
  ASSUME TypeOK, NEW p \in Proc, NEW c \in Ctx, NEW u \in UnblockFlags[p],
         BeginSend(p, c, u)
  PROVE  TypeOK'
<1> DEFINE i == nextId[p]
<1>1. i \in Ids
  <2>1. i <= Budget[p]
    BY DEF BeginSend, CanSend
  <2>2. i \in 1..(MaxSends + 1)
    BY DEF TypeOK, ProcTypeOK
  <2>3. QED
    BY <2>1, <2>2, ConstantsAssumption DEF Ids
<1>2. CtxTypeOK'
  <2>1. deser' = [deser EXCEPT ![c] = Append(@, [id |-> i, done |-> FALSE, result |-> FALSE])]
    BY DEF BeginSend
  <2>2. [id |-> i, done |-> FALSE, result |-> FALSE] \in PendingSend
    BY <1>1 DEF PendingSend
  <2>3. deser' \in [Ctx -> Seq(PendingSend)]
    BY <2>1, <2>2, PushTo DEF TypeOK, CtxTypeOK
  <2>4. QED
    BY <2>3 DEF TypeOK, CtxTypeOK, BeginSend
<1>3. ProcTypeOK'
  <2>1. itasks' \in [Proc -> Seq(IpcTask)]
    <3>1. SendTask(c, SyncMsg(i, u)) \in IpcTask
      BY <1>1, ConstantsAssumption DEF SendTask, SyncMsg, IpcTask, Message
    <3>2. itasks' = [itasks EXCEPT ![p] = Append(@, SendTask(c, SyncMsg(i, u)))]
      BY DEF BeginSend, PostIpc
    <3>3. QED
      BY <3>1, <3>2, PushTo DEF TypeOK, ProcTypeOK
  <2>2. frames' \in [Proc -> Seq(Frame)]
    <3>1. WaitFrame(c, i) \in Frame /\ LoopFrame(c) \in Frame
      BY <1>1 DEF WaitFrame, LoopFrame, Frame
    <3>2. frames' = [frames EXCEPT ![p] = Append(Append(@, WaitFrame(c, i)), LoopFrame(c))]
      BY DEF BeginSend
    <3>3. frames \in [Proc -> Seq(Frame)]
      BY DEF TypeOK, ProcTypeOK
    <3>4. QED
      BY <3>1, <3>2, <3>3
  <2>3. nextId' \in [Proc -> 1..(MaxSends + 1)]
    <3>1. nextId' = [nextId EXCEPT ![p] = @ + 1] /\ nextId[p] + 1 \in 1..(MaxSends + 1)
      BY <1>1, ConstantsAssumption DEF BeginSend, Ids
    <3>2. QED
      BY <3>1 DEF TypeOK, ProcTypeOK
  <2>4. QED
    BY <2>1, <2>2, <2>3 DEF BeginSend, TypeOK, ProcTypeOK
<1>4. HistoryTypeOK'
  BY <1>1 DEF BeginSend, TypeOK, HistoryTypeOK, Outcome
<1>5. QueueTypeOK'
  BY DEF BeginSend, TypeOK, QueueTypeOK, queueVars
<1>6. QED
  BY <1>2, <1>3, <1>4, <1>5 DEF TypeOK

LEMMA SendAfterShutdownType ==
  ASSUME TypeOK, NEW p \in Proc, NEW c \in Ctx, SendAfterShutdown(p, c)
  PROVE  TypeOK'
<1>1. nextId[p] \in Ids
  <2>1. nextId[p] <= Budget[p]
    BY DEF SendAfterShutdown, CanSend
  <2>2. nextId[p] \in 1..(MaxSends + 1)
    BY DEF TypeOK, ProcTypeOK
  <2>3. QED
    BY <2>1, <2>2, ConstantsAssumption DEF Ids
<1>2. CtxTypeOK' /\ QueueTypeOK'
  BY DEF SendAfterShutdown, TypeOK, CtxTypeOK, QueueTypeOK, ctxVars, queueVars
<1>3. ProcTypeOK'
  <2>1. nextId' = [nextId EXCEPT ![p] = @ + 1] /\ nextId[p] + 1 \in 1..(MaxSends + 1)
    BY <1>1, ConstantsAssumption DEF SendAfterShutdown, Ids
  <2>2. nextId' \in [Proc -> 1..(MaxSends + 1)]
    BY <2>1 DEF TypeOK, ProcTypeOK
  <2>3. QED
    BY <2>2 DEF SendAfterShutdown, TypeOK, ProcTypeOK
<1>4. HistoryTypeOK'
  BY <1>1 DEF SendAfterShutdown, TypeOK, HistoryTypeOK, Outcome
<1>5. QED
  BY <1>2, <1>3, <1>4 DEF TypeOK

LEMMA ReplyType ==
  ASSUME TypeOK, NEW p \in Proc, NEW ok \in ReplyResults, Reply(p, ok)
  PROVE  TypeOK'
<1> DEFINE f == Top(p)
<1>1. ~Idle(p) /\ f.ctx \in Ctx /\ f.id \in Ids
  BY TopFrame DEF Reply, TopIs, Top
<1>2. CtxTypeOK' /\ QueueTypeOK'
  BY DEF Reply, TypeOK, CtxTypeOK, QueueTypeOK, ctxVars, queueVars
<1>3. ProcTypeOK'
  <2>1. SendTask(f.ctx, ReplyMsg(f.id, ok)) \in IpcTask
    BY <1>1, ConstantsAssumption DEF SendTask, ReplyMsg, IpcTask, Message
  <2>2. itasks' \in [Proc -> Seq(IpcTask)]
    BY <2>1, PostIpcType DEF Reply
  <2>3. frames' \in [Proc -> Seq(Frame)]
    BY <1>1, PopFrameType DEF Reply
  <2>4. QED
    BY <2>2, <2>3 DEF Reply, TypeOK, ProcTypeOK
<1>4. HistoryTypeOK'
  <2>1. Owner[Peer[f.ctx]] \in Proc
    BY <1>1, ConstantsAssumption
  <2>2. QED
    BY <1>1, <2>1 DEF Reply, TypeOK, HistoryTypeOK
<1>5. QED
  BY <1>2, <1>3, <1>4 DEF TypeOK

LEMMA ReturnWithoutReplyType ==
  ASSUME TypeOK, NEW p \in Proc, ReturnWithoutReply(p)
  PROVE  TypeOK'
<1>1. ~Idle(p) /\ Top(p).ctx \in Ctx /\ Top(p).id \in Ids
  BY TopFrame DEF ReturnWithoutReply, TopIs, Top
<1>2. CtxTypeOK'
  BY <1>1 DEF ReturnWithoutReply, TypeOK, CtxTypeOK
<1>3. ProcTypeOK'
  <2>1. frames' \in [Proc -> Seq(Frame)]
    BY <1>1, PopFrameType DEF ReturnWithoutReply
  <2>2. QED
    BY <2>1 DEF ReturnWithoutReply, TypeOK, ProcTypeOK
<1>4. QueueTypeOK' /\ HistoryTypeOK'
  BY DEF ReturnWithoutReply, TypeOK, QueueTypeOK, HistoryTypeOK, queueVars, history
<1>5. QED
  BY <1>2, <1>3, <1>4 DEF TypeOK

LEMMA SendDeferredReplyType ==
  ASSUME TypeOK, NEW p \in Proc, NEW c \in Ctx, NEW i \in Ids, NEW ok \in ReplyResults,
         SendDeferredReply(p, c, i, ok)
  PROVE  TypeOK'
<1>1. CtxTypeOK' /\ QueueTypeOK'
  BY DEF SendDeferredReply, TypeOK, CtxTypeOK, QueueTypeOK, queueVars
<1>2. ProcTypeOK'
  <2>1. SendTask(c, ReplyMsg(i, ok)) \in IpcTask
    BY ConstantsAssumption DEF SendTask, ReplyMsg, IpcTask, Message
  <2>2. itasks' \in [Proc -> Seq(IpcTask)]
    BY <2>1, PostIpcType DEF SendDeferredReply
  <2>3. QED
    BY <2>2 DEF SendDeferredReply, TypeOK, ProcTypeOK
<1>3. HistoryTypeOK'
  <2>1. Owner[Peer[c]] \in Proc
    BY ConstantsAssumption
  <2>2. QED
    BY <2>1 DEF SendDeferredReply, TypeOK, HistoryTypeOK
<1>4. QED
  BY <1>1, <1>2, <1>3 DEF TypeOK

LEMMA DestroyType ==
  ASSUME TypeOK, NEW p \in Proc, NEW c \in Ctx, Destroy(p, c)
  PROVE  TypeOK'
<1>1. CtxTypeOK'
  <2>1. deser' \in [Ctx -> Seq(PendingSend)]
    BY CancelType DEF Destroy
  <2>2. QED
    BY <2>1 DEF Destroy, TypeOK, CtxTypeOK
<1>2. QueueTypeOK'
  <2> DEFINE gone == {m \in mq[p] : m.ctx = c}
  <2>1. mq' = [mq EXCEPT ![p] = @ \ gone] /\ version' = [version EXCEPT ![p] = @ + Cardinality(gone)]
    BY DEF Destroy, RemoveContext
  <2>2. IsFiniteSet(gone) /\ IsFiniteSet(mq[p] \ gone)
    <3>1. IsFiniteSet(mq[p]) /\ gone \subseteq mq[p] /\ mq[p] \ gone \subseteq mq[p]
      BY DEF TypeOK, QueueTypeOK
    <3>2. QED
      BY <3>1, FS_Subset
  <2>3. Cardinality(gone) \in Nat
    BY <2>2, FS_CardinalityType
  <2> HIDE DEF gone
  <2>4. version' \in [Proc -> Nat]
    BY <2>1, <2>3 DEF TypeOK, QueueTypeOK
  <2>5. mq' \in [Proc -> SUBSET QueuedMessage] /\ \A q \in Proc : IsFiniteSet(mq'[q])
    BY <2>1, <2>2 DEF TypeOK, QueueTypeOK
  <2>6. QED
    BY <2>4, <2>5 DEF Destroy, TypeOK, QueueTypeOK
<1>3. ProcTypeOK'
  <2>1. itasks' \in [Proc -> Seq(IpcTask)]
    <3>1. ClosedTask(c) \in IpcTask
      BY DEF ClosedTask, IpcTask
    <3>2. QED
      BY <3>1, PostIpcType DEF Destroy
  <2>2. QED
    BY <2>1 DEF Destroy, TypeOK, ProcTypeOK
<1>4. HistoryTypeOK'
  BY DEF Destroy, TypeOK, HistoryTypeOK, history
<1>5. QED
  BY <1>1, <1>2, <1>3, <1>4 DEF TypeOK

LEMMA WatchType ==
  ASSUME NEW i \in 0..MaxSends
  PROVE  Watch(i) \in [id : 0..MaxSends, posted : BOOLEAN]
  BY DEF Watch

LEMMA ShutdownType ==
  ASSUME TypeOK, NEW p \in Proc, Shutdown(p)
  PROVE  TypeOK'
  BY DEF Shutdown, TypeOK, CtxTypeOK, QueueTypeOK, ProcTypeOK, HistoryTypeOK, ctxVars,
         queueVars, history

LEMMA CrashType ==
  ASSUME TypeOK, NEW p \in Proc, Crash(p)
  PROVE  TypeOK'
<1>1. CtxTypeOK'
  BY DEF Crash, TypeOK, CtxTypeOK
<1>2. QueueTypeOK'
  <2>1. /\ mq' = [mq EXCEPT ![p] = {}] /\ sendWatch' = [sendWatch EXCEPT ![p] = Watch(0)]
        /\ queueing' = [queueing EXCEPT ![p] = NotQueueing]
    BY DEF Crash
  <2>2. mq' \in [Proc -> SUBSET QueuedMessage] /\ \A q \in Proc : IsFiniteSet(mq'[q])
    BY <2>1, FS_EmptySet DEF TypeOK, QueueTypeOK
  <2>3. sendWatch' \in [Proc -> [id : 0..MaxSends, posted : BOOLEAN]]
    <3>1. Watch(0) \in [id : 0..MaxSends, posted : BOOLEAN]
      BY ConstantsAssumption, WatchType
    <3>2. QED
      BY <2>1, <3>1 DEF TypeOK, QueueTypeOK
  <2>4. /\ version' \in [Proc -> Nat] /\ taskPending' \in [Proc -> BOOLEAN]
        /\ event' \in [Proc -> BOOLEAN] /\ replies' \in [Proc -> Seq(QueuedReply)]
        /\ queueing' \in [Proc -> {NotQueueing} \cup [ctx : Ctx, post : BOOLEAN]]
    BY <2>1 DEF Crash, TypeOK, QueueTypeOK
  <2>5. QED
    BY <2>2, <2>3, <2>4 DEF QueueTypeOK
<1>3. ProcTypeOK'
  BY DEF Crash, TypeOK, ProcTypeOK
<1>4. HistoryTypeOK'
  BY DEF Crash, TypeOK, HistoryTypeOK, history
<1>5. QED
  BY <1>1, <1>2, <1>3, <1>4 DEF TypeOK

LEMMA NatMin ==
  ASSUME NEW T \in SUBSET Nat, T # {}
  PROVE  \E x \in T : \A y \in T : x <= y
<1>1. PICK x \in T : \A y \in T : ~ (<<y, x>> \in OpToRel(<, Nat))
  BY NatLessThanWellFounded, WFMin
<1>2. ASSUME NEW y \in T PROVE x <= y
  <2>1. <<y, x>> \in Nat \X Nat
    OBVIOUS
  <2>2. y < x => <<y, x>> \in OpToRel(<, Nat)
    BY <2>1 DEF OpToRel
  <2>3. ~(y < x)
    BY <1>1, <2>2, Zenon
  <2>4. x \in Nat /\ y \in Nat
    BY <2>1
  <2>5. QED
    BY <2>3, <2>4
<1>3. QED
  BY <1>2

LEMMA FirstOfIn ==
  ASSUME NEW S \in SUBSET QueuedMessage, S # {}
  PROVE  FirstOf(S) \in S /\ \A n \in S : FirstOf(S).at <= n.at
<1>1. \A m \in S : m.at \in Nat
  BY DEF QueuedMessage
<1>2. {m.at : m \in S} \in SUBSET Nat /\ {m.at : m \in S} # {}
  BY <1>1
<1>3. PICK x \in {m.at : m \in S} : \A y \in {m.at : m \in S} : x <= y
  BY <1>2, NatMin
<1>4. \E m \in S : \A n \in S : m.at <= n.at
  BY <1>3
<1>5. QED
  BY <1>4 DEF FirstOf

LEMMA FollowingType ==
  ASSUME NEW S \in SUBSET QueuedMessage, NEW m
  PROVE  Following(S, m) \in Nat
<1> DEFINE after == {n \in S : n.at > m.at}
<1>1. CASE after = {}
  BY <1>1 DEF Following
<1>2. CASE after # {}
  <2>1. FirstOf(after) \in QueuedMessage
    BY <1>2, FirstOfIn
  <2>2. QED
    BY <1>2, <2>1 DEF Following, QueuedMessage
<1>3. QED
  BY <1>1, <1>2

LEMMA DispatchMessageType ==
  ASSUME TypeOK, NEW p \in Proc, DispatchMessage(p)
  PROVE  TypeOK'
<1> DEFINE f    == Top(p)
           m    == FirstOf(Candidates(p, f))
           loop == [f EXCEPT !.it = Following(mq[p], m), !.ver = version[p] + 1]
           base == Append(Front(frames[p]), loop)
<1>1. ~Idle(p) /\ f.kind = "loop" /\ Candidates(p, f) # {}
  BY DEF DispatchMessage, TopIs, Top
<1>2. /\ frames[p] \in Seq(Frame) /\ Front(frames[p]) \in Seq(Frame)
      /\ f \in [kind : {"loop"}, ctx : Ctx, id : {0}, it : Nat, ver : Nat]
  <2>1. frames[p] \in Seq(Frame) /\ frames[p] # <<>> /\ f \in Frame
    BY <1>1, TopFrame
  <2>2. Front(frames[p]) \in Seq(Frame)
    BY <2>1, FrontType
  <2>3. QED
    BY <1>1, <2>1, <2>2 DEF Frame
<1>3. m \in mq[p] /\ m \in QueuedMessage
  <2>1. Candidates(p, f) \subseteq mq[p] /\ mq[p] \subseteq QueuedMessage
    BY DEF Candidates, Ahead, TypeOK, QueueTypeOK
  <2>2. Candidates(p, f) \subseteq QueuedMessage
    BY <2>1
  <2>3. m \in Candidates(p, f)
    BY <1>1, <2>2, FirstOfIn
  <2>4. QED
    BY <2>1, <2>3
<1>4. Following(mq[p], m) \in Nat
  BY <1>3, FollowingType DEF TypeOK, QueueTypeOK
<1>5. version[p] + 1 \in Nat
  BY DEF TypeOK, QueueTypeOK
<1>6. loop \in Frame
  BY <1>2, <1>4, <1>5 DEF Frame
<1>7. base \in Seq(Frame)
  BY <1>2, <1>6
<1>8. HandlerFrame(m.ctx, m.id) \in Frame
  BY <1>3 DEF HandlerFrame, Frame, QueuedMessage
<1>9. frames' = [frames EXCEPT ![p] =
         IF listener[m.ctx] THEN Append(base, HandlerFrame(m.ctx, m.id)) ELSE base]
  BY DEF DispatchMessage
<1> HIDE DEF f, m, loop, base
<1>10. frames' \in [Proc -> Seq(Frame)]
  BY <1>7, <1>8, <1>9 DEF TypeOK, ProcTypeOK
<1>11. ProcTypeOK'
  BY <1>10 DEF DispatchMessage, TypeOK, ProcTypeOK
<1>12. QueueTypeOK'
  <2>1. mq' = [mq EXCEPT ![p] = @ \ {m}] /\ version' = [version EXCEPT ![p] = @ + 1]
    BY DEF DispatchMessage, m, f
  <2>2. IsFiniteSet(mq[p] \ {m})
    BY FS_Subset DEF TypeOK, QueueTypeOK
  <2>3. mq' \in [Proc -> SUBSET QueuedMessage] /\ \A q \in Proc : IsFiniteSet(mq'[q])
    BY <2>1, <2>2 DEF TypeOK, QueueTypeOK
  <2>4. version' \in [Proc -> Nat]
    BY <2>1 DEF TypeOK, QueueTypeOK
  <2>5. QED
    BY <2>3, <2>4 DEF DispatchMessage, TypeOK, QueueTypeOK
<1>13. CtxTypeOK' /\ HistoryTypeOK'
  BY DEF DispatchMessage, TypeOK, CtxTypeOK, HistoryTypeOK, ctxVars, history
<1>14. QED
  BY <1>11, <1>12, <1>13 DEF TypeOK

LEMMA DispatchEndType ==
  ASSUME TypeOK, NEW p \in Proc, DispatchEnd(p)
  PROVE  TypeOK'
<1>1. frames' \in [Proc -> Seq(Frame)]
  BY PopFrameType DEF DispatchEnd, TopIs
<1>2. ProcTypeOK'
  BY <1>1 DEF DispatchEnd, TypeOK, ProcTypeOK
<1>3. CtxTypeOK' /\ QueueTypeOK' /\ HistoryTypeOK'
  BY DEF DispatchEnd, TypeOK, CtxTypeOK, QueueTypeOK, HistoryTypeOK, ctxVars, queueVars, history
<1>4. QED
  BY <1>2, <1>3 DEF TypeOK

LEMMA LoopFrameType ==
  ASSUME NEW c \in Ctx
  PROVE  LoopFrame(c) \in Frame
  BY DEF LoopFrame, Frame

LEMMA WaitDispatchEventType ==
  ASSUME TypeOK, NEW p \in Proc, WaitDispatchEvent(p)
  PROVE  TypeOK'
<1>1. LoopFrame(Top(p).ctx) \in Frame
  BY TopFrame, LoopFrameType DEF WaitDispatchEvent, TopIs
<1>2. frames' \in [Proc -> Seq(Frame)]
  BY <1>1, PushType DEF WaitDispatchEvent
<1>3. ProcTypeOK'
  BY <1>2 DEF WaitDispatchEvent, TypeOK, ProcTypeOK
<1>4. QueueTypeOK'
  BY DEF WaitDispatchEvent, TypeOK, QueueTypeOK
<1>5. CtxTypeOK' /\ HistoryTypeOK'
  BY DEF WaitDispatchEvent, TypeOK, CtxTypeOK, HistoryTypeOK, ctxVars, history
<1>6. QED
  BY <1>3, <1>4, <1>5 DEF TypeOK

LEMMA EndSendType ==
  ASSUME TypeOK, NEW p \in Proc, ~Idle(p), Top(p).kind \in {"wait", "pump"},
         NEW stack \in Seq(Frame), EndSend(p, stack)
  PROVE  /\ deser' \in [Ctx -> Seq(PendingSend)]
         /\ itasks' \in [Proc -> Seq(IpcTask)]
         /\ frames' \in [Proc -> Seq(Frame)]
         /\ outcome' \in [Proc -> [Ids -> Outcome]]
<1> DEFINE c == Top(p).ctx
<1>1. c \in Ctx /\ Top(p).id \in Ids
  BY TopFrame
<1>2. deser' \in [Ctx -> Seq(PendingSend)]
  <2>1. deser[c] # <<>> /\ deser' = [deser EXCEPT ![c] = Front(@)]
    BY DEF EndSend, Pop
  <2>2. QED
    BY <1>1, <2>1, PopFrom DEF TypeOK, CtxTypeOK
<1>3. itasks' \in [Proc -> Seq(IpcTask)]
  <2>1. RepliesTask \in IpcTask
    BY DEF RepliesTask, IpcTask
  <2>2. QED
    BY <2>1, PostIpcType DEF EndSend, Pop
<1>4. frames' \in [Proc -> Seq(Frame)]
  BY DEF EndSend, TypeOK, ProcTypeOK
<1>5. outcome' \in [Proc -> [Ids -> Outcome]]
  <2>1. PICK r \in Outcome : outcome' = [outcome EXCEPT ![p][Top(p).id] = r]
    BY DEF EndSend, Outcome
  <2>2. QED
    BY <1>1, <2>1 DEF TypeOK, HistoryTypeOK
<1>6. QED
  BY <1>2, <1>3, <1>4, <1>5

LEMMA SendReturnsType ==
  ASSUME TypeOK, NEW p \in Proc, SendReturns(p)
  PROVE  TypeOK'
<1>1. ~Idle(p) /\ Top(p).kind = "wait"
  BY DEF SendReturns, TopIs, Top
<1>2. Front(frames[p]) \in Seq(Frame)
  BY <1>1, TopFrame, FrontType
<1>3. EndSend(p, Front(frames[p]))
  BY DEF SendReturns
<1>4. /\ deser' \in [Ctx -> Seq(PendingSend)]
      /\ itasks' \in [Proc -> Seq(IpcTask)]
      /\ frames' \in [Proc -> Seq(Frame)]
      /\ outcome' \in [Proc -> [Ids -> Outcome]]
  BY <1>1, <1>2, <1>3, EndSendType
<1>5. CtxTypeOK'
  BY <1>4 DEF SendReturns, TypeOK, CtxTypeOK
<1>6. ProcTypeOK'
  BY <1>4 DEF SendReturns, TypeOK, ProcTypeOK
<1>7. QueueTypeOK'
  BY DEF SendReturns, TypeOK, QueueTypeOK, queueVars
<1>8. HistoryTypeOK'
  BY <1>4 DEF SendReturns, TypeOK, HistoryTypeOK
<1>9. QED
  BY <1>5, <1>6, <1>7, <1>8 DEF TypeOK

LEMMA PumpMessagesType ==
  ASSUME TypeOK, NEW p \in Proc, PumpMessages(p)
  PROVE  TypeOK'
<1> DEFINE c == Top(p).ctx
           f == PumpFrame(c, Top(p).id, sendWatch[p].id)
<1>1. ~Idle(p) /\ Top(p).kind = "wait" /\ c \in Ctx /\ Top(p).id \in Ids
  BY TopFrame DEF PumpMessages, TopIs, Top
<1>2. sendWatch[p].id \in 0..MaxSends
  BY DEF TypeOK, QueueTypeOK
<1>3. f \in Frame
  BY <1>1, <1>2 DEF PumpFrame, Frame
<1>4. frames' \in [Proc -> Seq(Frame)]
  BY <1>3, PushType DEF PumpMessages
<1>5. sendWatch' \in [Proc -> [id : 0..MaxSends, posted : BOOLEAN]]
  <2>1. deser[c] \in Seq(PendingSend) /\ deser[c] # <<>>
    BY <1>1 DEF PumpMessages, TypeOK, CtxTypeOK
  <2>2. Last(deser[c]) \in PendingSend
    BY <2>1, LastType
  <2>3. Last(deser[c]).id \in 0..MaxSends
    BY <2>2, ConstantsAssumption DEF PendingSend, Ids
  <2>4. Watch(Last(deser[c]).id) \in [id : 0..MaxSends, posted : BOOLEAN]
    BY <2>3, WatchType
  <2>5. sendWatch' = [sendWatch EXCEPT ![p] = Watch(Last(deser[c]).id)]
    BY DEF PumpMessages
  <2>6. QED
    BY <2>4, <2>5 DEF TypeOK, QueueTypeOK
<1>6. ProcTypeOK'
  BY <1>4 DEF PumpMessages, TypeOK, ProcTypeOK
<1>7. QueueTypeOK'
  BY <1>5 DEF PumpMessages, TypeOK, QueueTypeOK
<1>8. CtxTypeOK' /\ HistoryTypeOK'
  BY DEF PumpMessages, TypeOK, CtxTypeOK, HistoryTypeOK, ctxVars, history
<1>9. QED
  BY <1>6, <1>7, <1>8 DEF TypeOK

LEMMA PrefixType ==
  ASSUME NEW S, NEW s \in Seq(S), NEW n \in Int, n <= Len(s)
  PROVE  SubSeq(s, 1, n) \in Seq(S)
<1>1. \A i \in 1..n : s[i] \in S
  OBVIOUS
<1>2. QED
  BY <1>1, SubSeqProperties

LEMMA OnSendDoneType ==
  ASSUME TypeOK, NEW p \in Proc, OnSendDone(p)
  PROVE  TypeOK'
<1> DEFINE stack == SubSeq(frames[p], 1, Len(frames[p]) - 2)
<1>1. ltasks' \in [Proc -> Seq(ListenerTask)]
  BY HeadTaskType DEF OnSendDone
<1>2. /\ sendWatch' \in [Proc -> [id : 0..MaxSends, posted : BOOLEAN]]
      /\ deser' \in [Ctx -> Seq(PendingSend)]
      /\ itasks' \in [Proc -> Seq(IpcTask)]
      /\ frames' \in [Proc -> Seq(Frame)]
      /\ outcome' \in [Proc -> [Ids -> Outcome]]
  <2>1. CASE /\ TopIs(p, "pump") /\ EndSend(p, stack)
             /\ sendWatch' = [sendWatch EXCEPT ![p] = Watch(Top(p).old)]
    <3>1. ~Idle(p) /\ Top(p).kind = "pump"
      BY <2>1 DEF TopIs, Top
    <3>2. Top(p).old \in 0..MaxSends /\ frames[p] \in Seq(Frame)
      BY <3>1, TopFrame
    <3>3. stack \in Seq(Frame)
      <4>1. Len(frames[p]) - 2 \in Int /\ Len(frames[p]) - 2 <= Len(frames[p])
        BY <3>2
      <4>2. QED
        BY <3>2, <4>1, PrefixType
    <3>4. Watch(Top(p).old) \in [id : 0..MaxSends, posted : BOOLEAN]
      BY <3>2, WatchType
    <3>5. sendWatch' \in [Proc -> [id : 0..MaxSends, posted : BOOLEAN]]
      BY <2>1, <3>4 DEF TypeOK, QueueTypeOK
    <3> HIDE DEF stack
    <3>6. QED
      BY <2>1, <3>1, <3>3, <3>5, EndSendType
  <2>2. CASE UNCHANGED <<sendWatch, deser, itasks, frames, outcome>>
    BY <2>2 DEF TypeOK, CtxTypeOK, QueueTypeOK, ProcTypeOK, HistoryTypeOK
  <2>3. QED
    BY <2>1, <2>2 DEF OnSendDone
<1>3. CtxTypeOK'
  BY <1>2 DEF OnSendDone, TypeOK, CtxTypeOK
<1>4. QueueTypeOK'
  BY <1>2 DEF OnSendDone, TypeOK, QueueTypeOK
<1>5. ProcTypeOK'
  BY <1>1, <1>2 DEF OnSendDone, TypeOK, ProcTypeOK
<1>6. HistoryTypeOK'
  BY <1>2 DEF OnSendDone, TypeOK, HistoryTypeOK
<1>7. QED
  BY <1>3, <1>4, <1>5, <1>6 DEF TypeOK

LEMMA SendDoneWaitingType ==
  ASSUME TypeOK, NEW c \in Ctx, SendDoneWaiting(c)
  PROVE  TypeOK'
<1> DEFINE p == Owner[c]
<1>1. p \in Proc /\ deser[c] \in Seq(PendingSend)
  BY ConstantsAssumption DEF TypeOK, CtxTypeOK
<1>2. sendWatch[p].id \in Ids
  <2>1. PICK s \in ToSet(deser[c]) : s.id = sendWatch[p].id
    BY DEF SendDoneWaiting
  <2>2. s \in PendingSend
    BY <1>1, <2>1 DEF ToSet
  <2>3. QED
    BY <2>1, <2>2 DEF PendingSend
<1>3. Task("sendDone", c, sendWatch[p].id) \in ListenerTask
  BY <1>2 DEF Task, ListenerTask
<1>4. ltasks' \in [Proc -> Seq(ListenerTask)]
  BY <1>1, <1>3, PostListenerType DEF SendDoneWaiting
<1>5. sendWatch' = [sendWatch EXCEPT ![p].posted = TRUE]
  BY DEF SendDoneWaiting
<1>6. sendWatch' \in [Proc -> [id : 0..MaxSends, posted : BOOLEAN]]
  BY <1>1, <1>5 DEF TypeOK, QueueTypeOK
<1>7. ProcTypeOK'
  BY <1>4 DEF SendDoneWaiting, TypeOK, ProcTypeOK
<1>8. QueueTypeOK'
  BY <1>6 DEF SendDoneWaiting, TypeOK, QueueTypeOK
<1>9. CtxTypeOK' /\ HistoryTypeOK'
  BY DEF SendDoneWaiting, TypeOK, CtxTypeOK, HistoryTypeOK, ctxVars, history
<1>10. QED
  BY <1>7, <1>8, <1>9 DEF TypeOK

LEMMA DispatchMessagesTaskType ==
  ASSUME TypeOK, NEW p \in Proc, DispatchMessagesTask(p)
  PROVE  TypeOK'
<1>1. ltasks' \in [Proc -> Seq(ListenerTask)] /\ LoopFrame(Head(ltasks[p]).ctx) \in Frame
  BY HeadTaskType, LoopFrameType DEF DispatchMessagesTask
<1>2. frames' \in [Proc -> Seq(Frame)]
  BY <1>1, PushType DEF DispatchMessagesTask
<1>3. ProcTypeOK'
  BY <1>1, <1>2 DEF DispatchMessagesTask, TypeOK, ProcTypeOK
<1>4. QueueTypeOK'
  BY DEF DispatchMessagesTask, TypeOK, QueueTypeOK
<1>5. CtxTypeOK' /\ HistoryTypeOK'
  BY DEF DispatchMessagesTask, TypeOK, CtxTypeOK, HistoryTypeOK, ctxVars, history
<1>6. QED
  BY <1>3, <1>4, <1>5 DEF TypeOK

LEMMA OnDispatchMessageType ==
  ASSUME TypeOK, NEW p \in Proc, OnDispatchMessage(p)
  PROVE  TypeOK'
<1> DEFINE t == Head(ltasks[p])
<1>1. ltasks' \in [Proc -> Seq(ListenerTask)] /\ t.ctx \in Ctx /\ t.id \in Ids
  BY HeadTaskType DEF OnDispatchMessage
<1>2. HandlerFrame(t.ctx, t.id) \in Frame
  BY <1>1 DEF HandlerFrame, Frame
<1>3. Push(p, HandlerFrame(t.ctx, t.id)) \/ frames' = frames
  BY DEF OnDispatchMessage
<1>4. frames' \in [Proc -> Seq(Frame)]
  BY <1>2, <1>3, PushType DEF TypeOK, ProcTypeOK
<1>5. ProcTypeOK'
  BY <1>1, <1>4 DEF OnDispatchMessage, TypeOK, ProcTypeOK
<1>6. CtxTypeOK' /\ QueueTypeOK' /\ HistoryTypeOK'
  BY DEF OnDispatchMessage, TypeOK, CtxTypeOK, QueueTypeOK, HistoryTypeOK, ctxVars, queueVars,
         history
<1>7. QED
  BY <1>5, <1>6 DEF TypeOK

LEMMA OnWaitableEventSignaledType ==
  ASSUME TypeOK, NEW p \in Proc, OnWaitableEventSignaled(p)
  PROVE  TypeOK'
<1> DEFINE c == Head(ltasks[p]).ctx
<1>1. ltasks' \in [Proc -> Seq(ListenerTask)] /\ c \in Ctx /\ LoopFrame(c) \in Frame
  BY HeadTaskType, LoopFrameType DEF OnWaitableEventSignaled
<1>2. Push(p, LoopFrame(c)) \/ frames' = frames
  BY DEF OnWaitableEventSignaled
<1>3. frames' \in [Proc -> Seq(Frame)]
  BY <1>1, <1>2, PushType DEF TypeOK, ProcTypeOK
<1>4. ProcTypeOK'
  BY <1>1, <1>3 DEF OnWaitableEventSignaled, TypeOK, ProcTypeOK
<1>5. CtxTypeOK'
  BY <1>1 DEF OnWaitableEventSignaled, TypeOK, CtxTypeOK
<1>6. QueueTypeOK'
  BY DEF OnWaitableEventSignaled, TypeOK, QueueTypeOK
<1>7. HistoryTypeOK'
  BY DEF OnWaitableEventSignaled, TypeOK, HistoryTypeOK, history
<1>8. QED
  BY <1>4, <1>5, <1>6, <1>7 DEF TypeOK

LEMMA DoneWaitingType ==
  ASSUME TypeOK, NEW c \in Ctx, DoneWaiting(c)
  PROVE  TypeOK'
<1>1. Owner[c] \in Proc /\ Task("watch", c, 0) \in ListenerTask
  BY ConstantsAssumption DEF Task, ListenerTask
<1>2. ltasks' \in [Proc -> Seq(ListenerTask)]
  BY <1>1, PostListenerType DEF DoneWaiting
<1>3. ProcTypeOK'
  BY <1>2 DEF DoneWaiting, TypeOK, ProcTypeOK
<1>4. CtxTypeOK'
  BY DEF DoneWaiting, TypeOK, CtxTypeOK
<1>5. QueueTypeOK' /\ HistoryTypeOK'
  BY DEF DoneWaiting, TypeOK, QueueTypeOK, HistoryTypeOK, queueVars, history
<1>6. QED
  BY <1>3, <1>4, <1>5 DEF TypeOK

LEMMA OnSendMessageType ==
  ASSUME TypeOK, NEW p \in Proc, OnSendMessage(p)
  PROVE  TypeOK'
<1> DEFINE t == Head(itasks[p])
<1>1. itasks' \in [Proc -> Seq(IpcTask)] /\ t.ctx \in Ctx /\ t.msg \in Message
  BY HeadIpcTaskType DEF OnSendMessage
<1>2. Peer[t.ctx] \in Ctx
  BY <1>1, ConstantsAssumption
<1>3. \/ /\ wire' = [wire EXCEPT ![Peer[t.ctx]] = Append(@, t.msg)]
         /\ deser' = deser /\ shutWatch' = shutWatch
      \/ /\ CancelPendingSends(t.ctx)
         /\ shutWatch' = [shutWatch EXCEPT ![t.ctx] = FALSE]
         /\ wire' = wire
  BY DEF OnSendMessage
<1> HIDE DEF t
<1>4. wire' \in [Ctx -> Seq(Message)]
  <2>1. wire \in [Ctx -> Seq(Message)]
    BY DEF TypeOK, ProcTypeOK
  <2>2. wire' = wire \/ wire' = [wire EXCEPT ![Peer[t.ctx]] = Append(@, t.msg)]
    BY <1>3
  <2>3. [wire EXCEPT ![Peer[t.ctx]] = Append(@, t.msg)] \in [Ctx -> Seq(Message)]
    BY <1>1, <1>2, <2>1, PushTo
  <2>4. QED
    BY <2>1, <2>2, <2>3
<1>5. deser' \in [Ctx -> Seq(PendingSend)]
  BY <1>1, <1>3, CancelType DEF TypeOK, CtxTypeOK
<1>6. shutWatch' \in [Ctx -> BOOLEAN]
  BY <1>1, <1>3 DEF TypeOK, CtxTypeOK
<1>7. CtxTypeOK'
  BY <1>5, <1>6 DEF OnSendMessage, TypeOK, CtxTypeOK
<1>8. ProcTypeOK'
  BY <1>1, <1>4 DEF OnSendMessage, TypeOK, ProcTypeOK
<1>9. QueueTypeOK' /\ HistoryTypeOK'
  BY DEF OnSendMessage, TypeOK, QueueTypeOK, HistoryTypeOK, queueVars, history
<1>10. QED
  BY <1>7, <1>8, <1>9 DEF TypeOK

LEMMA DispatchRepliesType ==
  ASSUME TypeOK, NEW p \in Proc, DispatchReplies(p)
  PROVE  TypeOK'
<1>1. itasks' \in [Proc -> Seq(IpcTask)]
  BY HeadIpcTaskType DEF DispatchReplies
<1>2. deser' \in [Ctx -> Seq(PendingSend)] /\ replies' \in [Proc -> Seq(QueuedReply)]
  <2>1. CASE deser' = deser /\ replies' = replies
    BY <2>1 DEF TypeOK, CtxTypeOK, QueueTypeOK
  <2>2. CASE \E k \in DOMAIN replies[p] :
               /\ Unblocks(p, k)
               /\ Unblock(replies[p][k].ctx, replies[p][k].ok)
               /\ replies' = [replies EXCEPT ![p] = RemoveAt(@, k)]
    <3>1. PICK k \in DOMAIN replies[p] :
               /\ Unblocks(p, k)
               /\ Unblock(replies[p][k].ctx, replies[p][k].ok)
               /\ replies' = [replies EXCEPT ![p] = RemoveAt(@, k)]
      BY <2>2
    <3>2. replies \in [Proc -> Seq(QueuedReply)] /\ replies[p] \in Seq(QueuedReply)
      BY DEF TypeOK, QueueTypeOK
    <3>3. replies[p][k] \in QueuedReply
      BY <3>2
    <3>4. replies[p][k].ctx \in Ctx /\ replies[p][k].ok \in BOOLEAN
      BY <3>3 DEF QueuedReply
    <3>5. deser' \in [Ctx -> Seq(PendingSend)]
      BY <3>1, <3>4, UnblockType DEF Unblocks
    <3>6. RemoveAt(replies[p], k) \in Seq(QueuedReply)
      BY <3>2, RemoveAtType
    <3>7. QED
      BY <3>1, <3>2, <3>5, <3>6
  <2>3. QED
    BY <2>1, <2>2 DEF DispatchReplies
<1>3. CtxTypeOK'
  BY <1>2 DEF DispatchReplies, TypeOK, CtxTypeOK
<1>4. QueueTypeOK'
  BY <1>2 DEF DispatchReplies, TypeOK, QueueTypeOK
<1>5. ProcTypeOK'
  BY <1>1 DEF DispatchReplies, TypeOK, ProcTypeOK
<1>6. HistoryTypeOK'
  BY DEF DispatchReplies, TypeOK, HistoryTypeOK, history
<1>7. QED
  BY <1>3, <1>4, <1>5, <1>6 DEF TypeOK

LEMMA OnChannelClosedType ==
  ASSUME TypeOK, NEW p \in Proc, OnChannelClosed(p)
  PROVE  TypeOK'
<1> DEFINE c == Head(itasks[p]).ctx
<1>1. itasks' \in [Proc -> Seq(IpcTask)] /\ c \in Ctx
  BY HeadIpcTaskType DEF OnChannelClosed
<1>2. deser' \in [Ctx -> Seq(PendingSend)]
  BY <1>1, CancelType DEF OnChannelClosed
<1>3. CtxTypeOK'
  BY <1>2 DEF OnChannelClosed, TypeOK, CtxTypeOK
<1>4. ProcTypeOK'
  BY <1>1 DEF OnChannelClosed, TypeOK, ProcTypeOK
<1>5. QueueTypeOK' /\ HistoryTypeOK'
  BY DEF OnChannelClosed, TypeOK, QueueTypeOK, HistoryTypeOK, queueVars, history
<1>6. QED
  BY <1>3, <1>4, <1>5 DEF TypeOK

LEMMA ReceiveReplyType ==
  ASSUME TypeOK, NEW c \in Ctx, ReceiveReply(c)
  PROVE  TypeOK'
<1> DEFINE r == Head(wire[c])
           q == [ctx |-> c, id |-> r.id, ok |-> r.ok]
<1>1. wire' \in [Ctx -> Seq(Message)] /\ r.id \in Ids /\ r.ok \in BOOLEAN
  BY ReceiveType DEF ReceiveReply
<1>2. Owner[c] \in Proc
  BY ConstantsAssumption
<1>3. \/ IsTopSend(c, r.id) /\ Unblock(c, r.ok) /\ replies' = replies
      \/ replies' = [replies EXCEPT ![Owner[c]] = Append(@, q)] /\ deser' = deser
  BY DEF ReceiveReply
<1>4. q \in QueuedReply
  BY <1>1 DEF QueuedReply
<1> HIDE DEF q
<1>5. deser' \in [Ctx -> Seq(PendingSend)]
  BY <1>1, <1>3, UnblockType DEF TypeOK, CtxTypeOK
<1>6. replies' \in [Proc -> Seq(QueuedReply)]
  <2>1. replies \in [Proc -> Seq(QueuedReply)]
    BY DEF TypeOK, QueueTypeOK
  <2>2. replies' = replies \/ replies' = [replies EXCEPT ![Owner[c]] = Append(@, q)]
    BY <1>3
  <2>3. [replies EXCEPT ![Owner[c]] = Append(@, q)] \in [Proc -> Seq(QueuedReply)]
    BY <1>2, <1>4, <2>1, PushTo
  <2>4. QED
    BY <2>1, <2>2, <2>3
<1>7. CtxTypeOK'
  BY <1>5 DEF ReceiveReply, TypeOK, CtxTypeOK
<1>8. QueueTypeOK'
  BY <1>6 DEF ReceiveReply, TypeOK, QueueTypeOK
<1>9. ProcTypeOK'
  BY <1>1 DEF ReceiveReply, TypeOK, ProcTypeOK
<1>10. HistoryTypeOK'
  BY DEF ReceiveReply, TypeOK, HistoryTypeOK, history
<1>11. QED
  BY <1>7, <1>8, <1>9, <1>10 DEF TypeOK

LEMMA QueueMessageType ==
  ASSUME TypeOK, NEW c \in Ctx, QueueMessage(c)
  PROVE  TypeOK'
<1> DEFINE p == Owner[c]
           m == [ctx |-> c, id |-> Head(wire[c]).id, at |-> version[p] + 1]
<1>1. wire' \in [Ctx -> Seq(Message)] /\ Head(wire[c]).id \in Ids
  BY ReceiveType DEF QueueMessage
<1>2. p \in Proc
  BY ConstantsAssumption
<1>3. m \in QueuedMessage
  BY <1>1, <1>2 DEF QueuedMessage, TypeOK, QueueTypeOK
<1>4. /\ mq' = [mq EXCEPT ![p] = @ \cup {m}]
      /\ version' = [version EXCEPT ![p] = @ + 1]
      /\ taskPending' = [taskPending EXCEPT ![p] = TRUE]
      /\ queueing' = [queueing EXCEPT ![p] = [ctx |-> c, post |-> ~taskPending[p]]]
  BY DEF QueueMessage
<1> HIDE DEF m, p
<1>5. mq' \in [Proc -> SUBSET QueuedMessage]
  BY <1>2, <1>3, <1>4 DEF TypeOK, QueueTypeOK
<1>6. \A q \in Proc : IsFiniteSet(mq'[q])
  BY <1>2, <1>4, FS_AddElement DEF TypeOK, QueueTypeOK
<1>7. /\ version' \in [Proc -> Nat] /\ taskPending' \in [Proc -> BOOLEAN]
      /\ queueing' \in [Proc -> {NotQueueing} \cup [ctx : Ctx, post : BOOLEAN]]
  BY <1>2, <1>4 DEF TypeOK, QueueTypeOK
<1>8. QueueTypeOK'
  BY <1>5, <1>6, <1>7 DEF QueueMessage, TypeOK, QueueTypeOK
<1>9. ProcTypeOK'
  BY <1>1 DEF QueueMessage, TypeOK, ProcTypeOK
<1>10. CtxTypeOK' /\ HistoryTypeOK'
  BY DEF QueueMessage, TypeOK, CtxTypeOK, HistoryTypeOK, ctxVars, history
<1>11. QED
  BY <1>8, <1>9, <1>10 DEF TypeOK

LEMMA SignalDispatchEventType ==
  ASSUME TypeOK, NEW p \in Proc, SignalDispatchEvent(p)
  PROVE  TypeOK'
<1>1. queueing[p].ctx \in Ctx
  BY DEF SignalDispatchEvent, TypeOK, QueueTypeOK
<1>2. PostListener(p, Task("dispatch", queueing[p].ctx, 0)) \/ ltasks' = ltasks
  BY DEF SignalDispatchEvent
<1>3. Task("dispatch", queueing[p].ctx, 0) \in ListenerTask
  BY <1>1 DEF Task, ListenerTask
<1>4. ltasks' \in [Proc -> Seq(ListenerTask)]
  BY <1>2, <1>3, PostListenerType DEF TypeOK, ProcTypeOK
<1>5. ProcTypeOK'
  BY <1>4 DEF SignalDispatchEvent, TypeOK, ProcTypeOK
<1>6. QueueTypeOK'
  BY DEF SignalDispatchEvent, TypeOK, QueueTypeOK
<1>7. CtxTypeOK' /\ HistoryTypeOK'
  BY DEF SignalDispatchEvent, TypeOK, CtxTypeOK, HistoryTypeOK, ctxVars, history
<1>8. QED
  BY <1>5, <1>6, <1>7 DEF TypeOK

LEMMA PostMessageType ==
  ASSUME TypeOK, NEW c \in Ctx, PostMessage(c)
  PROVE  TypeOK'
<1>1. /\ wire' \in [Ctx -> Seq(Message)] /\ Head(wire[c]).id \in Ids
      /\ Owner[c] \in Proc
  BY ReceiveType, ConstantsAssumption DEF PostMessage
<1>2. Task("message", c, Head(wire[c]).id) \in ListenerTask
  BY <1>1 DEF Task, ListenerTask
<1>3. ltasks' \in [Proc -> Seq(ListenerTask)]
  BY <1>1, <1>2, PostListenerType DEF PostMessage
<1>4. ProcTypeOK'
  BY <1>1, <1>3 DEF PostMessage, TypeOK, ProcTypeOK
<1>5. CtxTypeOK' /\ QueueTypeOK' /\ HistoryTypeOK'
  BY DEF PostMessage, TypeOK, CtxTypeOK, QueueTypeOK, HistoryTypeOK, ctxVars, queueVars, history
<1>6. QED
  BY <1>4, <1>5 DEF TypeOK

LEMMA OnChannelErrorType ==
  ASSUME TypeOK, NEW c \in Ctx, OnChannelError(c)
  PROVE  TypeOK'
<1>1. deser' \in [Ctx -> Seq(PendingSend)]
  BY CancelType DEF OnChannelError
<1>2. CtxTypeOK'
  BY <1>1 DEF OnChannelError, TypeOK, CtxTypeOK
<1>3. ProcTypeOK'
  BY DEF OnChannelError, TypeOK, ProcTypeOK
<1>4. QueueTypeOK' /\ HistoryTypeOK'
  BY DEF OnChannelError, TypeOK, QueueTypeOK, HistoryTypeOK, queueVars, history
<1>5. QED
  BY <1>2, <1>3, <1>4 DEF TypeOK

LEMMA OnShutdownSignaledType ==
  ASSUME TypeOK, NEW c \in Ctx, OnShutdownSignaled(c)
  PROVE  TypeOK'
<1>1. deser' \in [Ctx -> Seq(PendingSend)]
  BY CancelType DEF OnShutdownSignaled
<1>2. CtxTypeOK'
  BY <1>1 DEF OnShutdownSignaled, TypeOK, CtxTypeOK
<1>3. QueueTypeOK' /\ ProcTypeOK' /\ HistoryTypeOK'
  BY DEF OnShutdownSignaled, TypeOK, QueueTypeOK, ProcTypeOK, HistoryTypeOK, queueVars,
         procVars, history
<1>4. QED
  BY <1>2, <1>3 DEF TypeOK

LEMMA OnSendTimeoutType ==
  ASSUME TypeOK, NEW c \in Ctx, NEW i \in Ids, OnSendTimeout(c, i)
  PROVE  TypeOK'
<1> DEFINE s == deser[c]
<1>1. deser \in [Ctx -> Seq(PendingSend)] /\ s \in Seq(PendingSend)
  BY DEF TypeOK, CtxTypeOK
<1>2. PICK k \in DOMAIN s :
        deser' = [deser EXCEPT ![c][k] = [deser[c][k] EXCEPT !.done = TRUE]]
  BY DEF OnSendTimeout
<1> DEFINE e == [s[k] EXCEPT !.done = TRUE]
<1>3. e \in PendingSend
  <2>1. PICK x \in PendingSend : x = s[k]
    BY <1>1
  <2>2. [x EXCEPT !.done = TRUE] \in PendingSend
    BY <2>1 DEF PendingSend
  <2>3. QED
    BY <2>1, <2>2
<1>4. [s EXCEPT ![k] = e] \in Seq(PendingSend)
  <2>1. k \in 1..Len(s)
    BY <1>1
  <2> HIDE DEF s, e
  <2>2. QED
    BY <1>1, <1>3, <2>1, ExceptSeq
<1>5. deser' \in [Ctx -> Seq(PendingSend)]
  <2>1. deser' = [deser EXCEPT ![c] = [s EXCEPT ![k] = e]]
    BY <1>2
  <2>2. QED
    BY <1>1, <1>4, <2>1
<1>6. CtxTypeOK'
  BY <1>5 DEF OnSendTimeout, TypeOK, CtxTypeOK
<1>7. QueueTypeOK' /\ ProcTypeOK' /\ HistoryTypeOK'
  BY DEF OnSendTimeout, TypeOK, QueueTypeOK, ProcTypeOK, HistoryTypeOK, queueVars, procVars,
         history
<1>8. QED
  BY <1>6, <1>7 DEF TypeOK

LEMMA NextType ==
  ASSUME TypeOK, [Next]_vars
  PROVE  TypeOK'
<1>1. ASSUME NEW p \in Proc, UserCode(p) PROVE TypeOK'
  BY <1>1, BeginSendType, SendAfterShutdownType, DestroyType, ShutdownType, CrashType
  DEF UserCode
<1>2. ASSUME NEW p \in Proc, HandlerReturns(p) PROVE TypeOK'
  BY <1>2, ReplyType, ReturnWithoutReplyType DEF HandlerReturns
<1>3. ASSUME NEW p \in Proc, DeferredReplies(p) PROVE TypeOK'
  BY <1>3, SendDeferredReplyType DEF DeferredReplies
<1>4. ASSUME NEW p \in Proc, ListenerStep(p) PROVE TypeOK'
  BY <1>4, DispatchMessageType, DispatchEndType, WaitDispatchEventType, SendReturnsType,
     DispatchMessagesTaskType, OnDispatchMessageType, OnWaitableEventSignaledType,
     OnSendDoneType
  DEF ListenerStep
<1>5. ASSUME NEW p \in Proc, IpcTaskStep(p) PROVE TypeOK'
  BY <1>5, OnSendMessageType, DispatchRepliesType, OnChannelClosedType, SignalDispatchEventType
  DEF IpcTaskStep
<1>6. ASSUME NEW c \in Ctx, ChannelStep(c) PROVE TypeOK'
  BY <1>6, ReceiveReplyType, QueueMessageType, PostMessageType, OnChannelErrorType,
     OnShutdownSignaledType
  DEF ChannelStep
<1>7. CASE UNCHANGED vars
  BY <1>7 DEF vars, ctxVars, queueVars, procVars, history, TypeOK, CtxTypeOK, QueueTypeOK,
              ProcTypeOK, HistoryTypeOK
<1>8. QED
  BY <1>1, <1>2, <1>3, <1>4, <1>5, <1>6, <1>7, PumpMessagesType, DoneWaitingType,
     SendDoneWaitingType, OnSendTimeoutType
  DEF Next

\* The type invariant holds in every reachable state, for every topology and bound.
THEOREM TypeCorrect == Spec => []TypeOK
<1>1. TypeOK /\ [Next]_vars => TypeOK'
  BY NextType
<1>2. QED
  BY InitType, <1>1, PTL DEF Spec

(***************************************************************************)
(* The call stack.                                                         *)
(***************************************************************************)
\* g_next_id: the numbers handed out are those below nextId.
Numbered == \A p \in Proc, i \in Ids : outcome[p][i] = "none" <=> nextId[p] <= i

PendingOnStack ==
  \A p \in Proc : alive[p] =>
    \A i \in Ids : outcome[p][i] = "pending" <=>
      \E k \in DOMAIN frames[p] : frames[p][k].kind = "wait" /\ frames[p][k].id = i

WaitsNested ==
  \A p \in Proc : \A j, k \in DOMAIN frames[p] :
    j < k /\ frames[p][j].kind = "wait" /\ frames[p][k].kind = "wait" =>
      frames[p][j].id < frames[p][k].id

WaitsOwned ==
  \A p \in Proc : \A k \in DOMAIN frames[p] :
    frames[p][k].kind = "wait" => Owner[frames[p][k].ctx] = p

\* A nested message loop runs inside the Send whose message asked for it.
PumpOnWait ==
  \A p \in Proc : \A k \in DOMAIN frames[p] : frames[p][k].kind = "pump" =>
    /\ k - 1 \in DOMAIN frames[p]
    /\ frames[p][k - 1].kind = "wait"
    /\ frames[p][k - 1].ctx = frames[p][k].ctx /\ frames[p][k - 1].id = frames[p][k].id

DeserNested ==
  \A c \in Ctx : \A j, k \in DOMAIN deser[c] : j < k => deser[c][j].id < deser[c][k].id

DeserOnStack ==
  \A c \in Ctx : \A k \in DOMAIN deser[c] : \E j \in DOMAIN frames[Owner[c]] :
    LET f == frames[Owner[c]][j] IN f.kind = "wait" /\ f.ctx = c /\ f.id = deser[c][k].id

StackInDeser ==
  \A c \in Ctx : \A j \in DOMAIN frames[Owner[c]] :
    LET f == frames[Owner[c]][j] IN
      f.kind = "wait" /\ f.ctx = c => \E k \in DOMAIN deser[c] : deser[c][k].id = f.id

CallStack ==
  /\ Numbered /\ PendingOnStack
  /\ WaitsNested /\ WaitsOwned /\ PumpOnWait
  /\ DeserNested /\ DeserOnStack /\ StackInDeser

(***************************************************************************)
(* Steps that neither begin nor end a Send.                                *)
(***************************************************************************)
\* The Sends of call stack s are those of t, at the same places.
WaitsIn(s, t) == \A k \in DOMAIN s : s[k].kind = "wait" => k \in DOMAIN t /\ t[k] = s[k]

\* From call stack s to t only loops, handlers and nested message loops come and go.
SameSends(s, t) ==
  /\ WaitsIn(s, t) /\ WaitsIn(t, s)
  /\ \A k \in DOMAIN t : t[k].kind = "pump" =>
       \/ k \in DOMAIN s /\ s[k] = t[k]
       \/ /\ k - 1 \in DOMAIN s /\ s[k - 1].kind = "wait"
          /\ s[k - 1].ctx = t[k].ctx /\ s[k - 1].id = t[k].id

SameIds(s, t) == DOMAIN s = DOMAIN t /\ \A k \in DOMAIN s : s[k].id = t[k].id

SameCalls ==
  /\ nextId' = nextId /\ outcome' = outcome /\ alive' = alive
  /\ \A p \in Proc : SameSends(frames[p], frames'[p])
  /\ \A c \in Ctx : SameIds(deser[c], deser'[c])

LEMMA SameCallsKeepCallStack ==
  ASSUME TypeOK, CallStack, SameCalls
  PROVE  CallStack'
<1> USE DEF CallStack, SameCalls
<1> DEFINE Keep(p) == WaitsIn(frames[p], frames'[p]) /\ WaitsIn(frames'[p], frames[p])
<1>1. \A p \in Proc : Keep(p)
  BY DEF SameSends
<1>2. \A c \in Ctx : Owner[c] \in Proc
  BY ConstantsAssumption
<1>3. Numbered'
  BY DEF Numbered
<1>4. PendingOnStack'
  BY <1>1 DEF PendingOnStack, WaitsIn
<1>5. WaitsNested'
  BY <1>1 DEF WaitsNested, WaitsIn
<1>6. WaitsOwned'
  BY <1>1 DEF WaitsOwned, WaitsIn
<1>7. PumpOnWait'
  <2> SUFFICES ASSUME NEW p \in Proc, NEW k \in DOMAIN frames'[p], frames'[p][k].kind = "pump"
               PROVE  /\ k - 1 \in DOMAIN frames'[p]
                      /\ frames'[p][k - 1].kind = "wait"
                      /\ frames'[p][k - 1].ctx = frames'[p][k].ctx
                      /\ frames'[p][k - 1].id = frames'[p][k].id
    BY DEF PumpOnWait
  <2>1. /\ k - 1 \in DOMAIN frames[p] /\ frames[p][k - 1].kind = "wait"
        /\ frames[p][k - 1].ctx = frames'[p][k].ctx /\ frames[p][k - 1].id = frames'[p][k].id
    BY DEF PumpOnWait, SameSends
  <2>2. QED
    BY <1>1, <2>1 DEF WaitsIn
<1>8. DeserNested'
  BY DEF DeserNested, SameIds
<1>9. DeserOnStack'
  BY <1>1, <1>2 DEF DeserOnStack, SameIds, WaitsIn
<1>10. StackInDeser'
  <2> SUFFICES ASSUME NEW c \in Ctx, NEW j \in DOMAIN frames'[Owner[c]],
                      frames'[Owner[c]][j].kind = "wait", frames'[Owner[c]][j].ctx = c
               PROVE  \E k \in DOMAIN deser'[c] : deser'[c][k].id = frames'[Owner[c]][j].id
    BY DEF StackInDeser
  <2>1. j \in DOMAIN frames[Owner[c]] /\ frames[Owner[c]][j] = frames'[Owner[c]][j]
    BY <1>1, <1>2 DEF WaitsIn
  <2>2. PICK k \in DOMAIN deser[c] : deser[c][k].id = frames'[Owner[c]][j].id
    BY <2>1 DEF StackInDeser
  <2>3. QED
    BY <2>2 DEF SameIds
<1>11. QED
  BY <1>3, <1>4, <1>5, <1>6, <1>7, <1>8, <1>9, <1>10

LEMMA SameSendsRefl == ASSUME NEW s PROVE SameSends(s, s) /\ SameIds(s, s)
  BY DEF SameSends, WaitsIn, SameIds

LEMMA AppendSameSends ==
  ASSUME NEW S, NEW s \in Seq(S), NEW e \in S, e.kind \in {"loop", "handler"}
  PROVE  SameSends(s, Append(s, e))
  BY DEF SameSends, WaitsIn

LEMMA FrontSameSends ==
  ASSUME NEW S, NEW s \in Seq(S), s # <<>>, Last(s).kind \in {"loop", "handler"}
  PROVE  SameSends(s, Front(s))
<1>1. /\ Front(s) \in Seq(S) /\ Len(Front(s)) = Len(s) - 1
      /\ \A k \in 1..(Len(s) - 1) : Front(s)[k] = s[k]
  BY FrontType
<1>2. s[Len(s)].kind \in {"loop", "handler"}
  BY DEF Last
<1>3. QED
  BY <1>1, <1>2 DEF SameSends, WaitsIn

LEMMA SameSendsTrans ==
  ASSUME NEW s, NEW t, NEW u, SameSends(s, t), SameSends(t, u)
  PROVE  SameSends(s, u)
  BY DEF SameSends, WaitsIn

LEMMA ChangeFrames ==
  ASSUME TypeOK, NEW p \in Proc, NEW s, frames' = [frames EXCEPT ![p] = s],
         SameSends(frames[p], s)
  PROVE  \A q \in Proc : SameSends(frames[q], frames'[q])
<1>1. ASSUME NEW q \in Proc PROVE frames'[q] = IF q = p THEN s ELSE frames[q]
  BY DEF TypeOK, ProcTypeOK
<1>2. QED
  BY <1>1, SameSendsRefl

LEMMA PushSameSends ==
  ASSUME TypeOK, NEW p \in Proc, NEW f \in Frame, f.kind \in {"loop", "handler"}, Push(p, f)
  PROVE  \A q \in Proc : SameSends(frames[q], frames'[q])
<1>1. frames[p] \in Seq(Frame)
  BY DEF TypeOK, ProcTypeOK
<1>2. SameSends(frames[p], Append(frames[p], f))
  BY <1>1, AppendSameSends
<1>3. QED
  BY <1>2, ChangeFrames DEF Push

LEMMA PopSameSends ==
  ASSUME TypeOK, NEW p \in Proc, ~Idle(p), Top(p).kind \in {"loop", "handler"}, PopFrame(p)
  PROVE  \A q \in Proc : SameSends(frames[q], frames'[q])
<1>1. frames[p] \in Seq(Frame) /\ frames[p] # <<>>
  BY DEF TypeOK, ProcTypeOK, Idle
<1>2. SameSends(frames[p], Front(frames[p]))
  BY <1>1, FrontSameSends DEF Top
<1>3. QED
  BY <1>2, ChangeFrames DEF PopFrame

LEMMA ChangeDeser ==
  ASSUME TypeOK, NEW c \in Ctx, NEW s, deser' = [deser EXCEPT ![c] = s], SameIds(deser[c], s)
  PROVE  \A d \in Ctx : SameIds(deser[d], deser'[d])
<1>1. ASSUME NEW d \in Ctx PROVE deser'[d] = IF d = c THEN s ELSE deser[d]
  BY DEF TypeOK, CtxTypeOK
<1>2. QED
  BY <1>1, SameSendsRefl

LEMMA CancelSameIds ==
  ASSUME TypeOK, NEW c \in Ctx, CancelPendingSends(c)
  PROVE  \A d \in Ctx : SameIds(deser[d], deser'[d])
<1> DEFINE s == deser[c]
           t == [k \in DOMAIN s |-> [s[k] EXCEPT !.done = TRUE]]
<1>1. ASSUME NEW k \in DOMAIN s PROVE t[k].id = s[k].id
  <2>1. s[k] \in PendingSend
    BY DEF TypeOK, CtxTypeOK
  <2>2. t[k] = [s[k] EXCEPT !.done = TRUE]
    OBVIOUS
  <2>3. QED
    BY <2>1, <2>2 DEF PendingSend
<1>2. SameIds(deser[c], t)
  BY <1>1 DEF SameIds
<1>3. deser' = [deser EXCEPT ![c] = t]
  BY DEF CancelPendingSends
<1> HIDE DEF t
<1>4. QED
  BY <1>2, <1>3, ChangeDeser

LEMMA UnblockSameIds ==
  ASSUME TypeOK, NEW c \in Ctx, NEW i, NEW ok \in BOOLEAN, IsTopSend(c, i), Unblock(c, ok)
  PROVE  \A d \in Ctx : SameIds(deser[d], deser'[d])
<1> DEFINE s == deser[c]
           n == Len(s)
           t == [s EXCEPT ![n] = [s[n] EXCEPT !.done = TRUE, !.result = ok]]
<1>1. s \in Seq(PendingSend) /\ s # <<>> /\ n \in DOMAIN s /\ s[n] \in PendingSend
  BY DEF TypeOK, CtxTypeOK, IsTopSend
<1>2. [s[n] EXCEPT !.done = TRUE, !.result = ok].id = s[n].id
  BY <1>1 DEF PendingSend
<1>3. DOMAIN t = DOMAIN s /\ \A k \in DOMAIN s : t[k].id = s[k].id
  BY <1>1, <1>2
<1>4. deser' = [deser EXCEPT ![c] = t]
  BY DEF Unblock, Last
<1>5. SameIds(deser[c], t)
  BY <1>3 DEF SameIds
<1> HIDE DEF t
<1>6. QED
  BY <1>4, <1>5, ChangeDeser

LEMMA FramesSameCalls ==
  ASSUME TypeOK, NEW p \in Proc,
         \/ \E ok \in ReplyResults : Reply(p, ok)
         \/ ReturnWithoutReply(p)
         \/ DispatchEnd(p)
         \/ WaitDispatchEvent(p)
         \/ DispatchMessagesTask(p)
         \/ OnDispatchMessage(p)
         \/ OnWaitableEventSignaled(p)
  PROVE  SameCalls
<1>1. nextId' = nextId /\ outcome' = outcome /\ alive' = alive /\ deser' = deser
  BY DEF Reply, ReturnWithoutReply, DispatchEnd, WaitDispatchEvent, DispatchMessagesTask,
         OnDispatchMessage, OnWaitableEventSignaled, ctxVars, history
<1>2. \/ ~Idle(p) /\ Top(p).kind \in {"loop", "handler"} /\ PopFrame(p)
      \/ \E c \in Ctx : Push(p, LoopFrame(c))
      \/ \E c \in Ctx, i \in Ids : Push(p, HandlerFrame(c, i))
      \/ frames' = frames
  <2>1. CASE (\E ok \in ReplyResults : Reply(p, ok)) \/ ReturnWithoutReply(p) \/ DispatchEnd(p)
    BY <2>1 DEF Reply, ReturnWithoutReply, DispatchEnd, TopIs, Top
  <2>2. CASE WaitDispatchEvent(p)
    BY <2>2, TopFrame DEF WaitDispatchEvent, TopIs
  <2>3. CASE DispatchMessagesTask(p)
    BY <2>3, HeadTaskType DEF DispatchMessagesTask
  <2>4. CASE OnDispatchMessage(p)
    <3>1. Head(ltasks[p]).ctx \in Ctx /\ Head(ltasks[p]).id \in Ids
      BY <2>4, HeadTaskType DEF OnDispatchMessage
    <3>2. QED
      BY <2>4, <3>1 DEF OnDispatchMessage
  <2>5. CASE OnWaitableEventSignaled(p)
    <3>1. Head(ltasks[p]).ctx \in Ctx
      BY <2>5, HeadTaskType DEF OnWaitableEventSignaled
    <3>2. QED
      BY <2>5, <3>1 DEF OnWaitableEventSignaled
  <2>6. QED
    BY <2>1, <2>2, <2>3, <2>4, <2>5
<1>3. \A q \in Proc : SameSends(frames[q], frames'[q])
  <2>1. /\ \A c \in Ctx : LoopFrame(c) \in Frame /\ LoopFrame(c).kind = "loop"
        /\ \A c \in Ctx, i \in Ids :
             HandlerFrame(c, i) \in Frame /\ HandlerFrame(c, i).kind = "handler"
    BY DEF LoopFrame, HandlerFrame, Frame
  <2>2. CASE frames' = frames
    BY <2>2, SameSendsRefl
  <2>3. CASE ~Idle(p) /\ Top(p).kind \in {"loop", "handler"} /\ PopFrame(p)
    BY <2>3, PopSameSends
  <2>4. ASSUME NEW c \in Ctx, Push(p, LoopFrame(c))
        PROVE  \A q \in Proc : SameSends(frames[q], frames'[q])
    BY <2>1, <2>4, PushSameSends
  <2>5. ASSUME NEW c \in Ctx, NEW i \in Ids, Push(p, HandlerFrame(c, i))
        PROVE  \A q \in Proc : SameSends(frames[q], frames'[q])
    BY <2>1, <2>5, PushSameSends
  <2>6. QED
    BY <1>2, <2>2, <2>3, <2>4, <2>5
<1>4. QED
  BY <1>1, <1>3, SameSendsRefl DEF SameCalls

LEMMA DispatchMessageFrames ==
  ASSUME TypeOK, NEW p \in Proc, DispatchMessage(p)
  PROVE  \E m \in mq[p], loop \in Frame :
           /\ loop.kind = "loop" /\ HandlerFrame(m.ctx, m.id) \in Frame
           /\ frames' = [frames EXCEPT ![p] =
                IF listener[m.ctx]
                THEN Append(Append(Front(frames[p]), loop), HandlerFrame(m.ctx, m.id))
                ELSE Append(Front(frames[p]), loop)]
<1> DEFINE f == Top(p)
           m == FirstOf(Candidates(p, f))
           loop == [f EXCEPT !.it = Following(mq[p], m), !.ver = version[p] + 1]
<1>1. /\ ~Idle(p) /\ f.kind = "loop" /\ Candidates(p, f) # {}
      /\ frames' = [frames EXCEPT ![p] =
           IF listener[m.ctx] THEN Append(Append(Front(frames[p]), loop), HandlerFrame(m.ctx, m.id))
                              ELSE Append(Front(frames[p]), loop)]
  BY DEF DispatchMessage, TopIs, Top
<1>2. mq[p] \in SUBSET QueuedMessage /\ version[p] \in Nat
  BY DEF TypeOK, QueueTypeOK
<1>3. m \in mq[p]
  <2>1. Candidates(p, f) \subseteq mq[p]
    BY DEF Candidates, Ahead
  <2>2. Candidates(p, f) \in SUBSET QueuedMessage
    BY <1>2, <2>1
  <2>3. QED
    BY <1>1, <2>1, <2>2, FirstOfIn
<1>4. m \in QueuedMessage /\ m.ctx \in Ctx /\ m.id \in Ids
  BY <1>2, <1>3 DEF QueuedMessage
<1>5. Following(mq[p], m) \in Nat
  BY <1>2, <1>4, FollowingType
<1>6. f \in Frame
  BY <1>1, TopFrame
<1> HIDE DEF m
<1>7. loop \in Frame /\ loop.kind = "loop"
  <2>1. PICK g \in [kind : {"loop"}, ctx : Ctx, id : {0}, it : Nat, ver : Nat] : g = f
    BY <1>1, <1>6 DEF Frame
  <2>2. \A a, b \in Nat :
          /\ [g EXCEPT !.it = a, !.ver = b]
               \in [kind : {"loop"}, ctx : Ctx, id : {0}, it : Nat, ver : Nat]
          /\ [g EXCEPT !.it = a, !.ver = b].kind = "loop"
    OBVIOUS
  <2>3. /\ loop \in [kind : {"loop"}, ctx : Ctx, id : {0}, it : Nat, ver : Nat]
        /\ loop.kind = "loop"
    <3> DEFINE a == Following(mq[p], m)
               b == version[p] + 1
    <3>1. a \in Nat /\ b \in Nat /\ loop = [g EXCEPT !.it = a, !.ver = b]
      BY <1>2, <1>5, <2>1
    <3> HIDE DEF a, b, loop
    <3>2. QED
      BY <2>2, <3>1
  <2>4. QED
    BY <2>3 DEF Frame
<1>8. HandlerFrame(m.ctx, m.id) \in Frame
  BY <1>4 DEF HandlerFrame, Frame
<1> HIDE DEF loop
<1>9. QED
  BY <1>1, <1>3, <1>7, <1>8

LEMMA DispatchMessageSameCalls ==
  ASSUME TypeOK, NEW p \in Proc, DispatchMessage(p)
  PROVE  SameCalls
<1>1. PICK m \in mq[p], loop \in Frame :
        /\ loop.kind = "loop" /\ HandlerFrame(m.ctx, m.id) \in Frame
        /\ frames' = [frames EXCEPT ![p] =
             IF listener[m.ctx]
             THEN Append(Append(Front(frames[p]), loop), HandlerFrame(m.ctx, m.id))
             ELSE Append(Front(frames[p]), loop)]
  BY DispatchMessageFrames
<1> DEFINE s == frames[p]
           h == HandlerFrame(m.ctx, m.id)
<1>2. s \in Seq(Frame) /\ s # <<>> /\ Last(s).kind = "loop"
  BY DEF TypeOK, ProcTypeOK, DispatchMessage, TopIs, Idle
<1>3. Front(s) \in Seq(Frame) /\ SameSends(s, Front(s))
  BY <1>2, FrontType, FrontSameSends
<1>4. Append(Front(s), loop) \in Seq(Frame) /\ SameSends(Front(s), Append(Front(s), loop))
  BY <1>1, <1>3, AppendSameSends
<1>5. SameSends(Append(Front(s), loop), Append(Append(Front(s), loop), h))
  <2>1. h \in Frame /\ h.kind = "handler"
    BY <1>1 DEF HandlerFrame
  <2> HIDE DEF h, s
  <2>2. QED
    BY <1>4, <2>1, AppendSameSends
<1>6. /\ SameSends(s, Append(Front(s), loop))
      /\ SameSends(s, Append(Append(Front(s), loop), h))
  BY <1>3, <1>4, <1>5, SameSendsTrans
<1>7. \A q \in Proc : SameSends(frames[q], frames'[q])
  BY <1>1, <1>6, ChangeFrames
<1>8. QED
  BY <1>7, SameSendsRefl DEF SameCalls, DispatchMessage, ctxVars, history

LEMMA PumpMessagesSameCalls ==
  ASSUME TypeOK, NEW p \in Proc, PumpMessages(p)
  PROVE  SameCalls
<1> DEFINE s == frames[p]
           e == PumpFrame(Top(p).ctx, Top(p).id, sendWatch[p].id)
<1>1. /\ s \in Seq(Frame) /\ s # <<>> /\ Top(p) = s[Len(s)] /\ s[Len(s)].kind = "wait"
      /\ Len(s) \in DOMAIN s
  BY TopFrame DEF PumpMessages, TopIs, Top
<1>2. e.kind = "pump" /\ e.ctx = s[Len(s)].ctx /\ e.id = s[Len(s)].id
  BY <1>1 DEF PumpFrame
<1>3. frames' = [frames EXCEPT ![p] = Append(s, e)]
  BY DEF PumpMessages, Push
<1> HIDE DEF e
<1>4. SameSends(s, Append(s, e))
  <2>1. /\ DOMAIN Append(s, e) = 1..(Len(s) + 1) /\ DOMAIN s = 1..Len(s) /\ Len(s) \in Nat
        /\ \A k \in 1..Len(s) : Append(s, e)[k] = s[k]
        /\ Append(s, e)[Len(s) + 1] = e
    BY <1>1
  <2>2. WaitsIn(s, Append(s, e)) /\ WaitsIn(Append(s, e), s)
    BY <1>2, <2>1 DEF WaitsIn
  <2>3. ASSUME NEW k \in DOMAIN Append(s, e)
        PROVE  \/ k \in DOMAIN s /\ s[k] = Append(s, e)[k]
               \/ k - 1 = Len(s) /\ Append(s, e)[k] = e
    <3> DEFINE n == Len(s)
               t == Append(s, e)
    <3> HIDE DEF n, t
    <3>1. n \in Nat /\ k \in 1..(n + 1)
      BY <2>1 DEF n
    <3>2. k \in 1..n \/ k = n + 1
      BY <3>1
    <3>3. QED
      BY <2>1, <3>1, <3>2 DEF n, t
  <2>4. QED
    BY <1>1, <1>2, <2>2, <2>3 DEF SameSends
<1>5. \A q \in Proc : SameSends(frames[q], frames'[q])
  BY <1>3, <1>4, ChangeFrames
<1>6. QED
  BY <1>5, SameSendsRefl DEF SameCalls, PumpMessages, ctxVars, history

LEMMA CancelSameCalls ==
  ASSUME TypeOK,
         \/ \E p \in Proc, c \in Ctx : Destroy(p, c)
         \/ \E p \in Proc : OnSendMessage(p) \/ OnChannelClosed(p)
         \/ \E c \in Ctx : OnChannelError(c) \/ OnShutdownSignaled(c)
  PROVE  SameCalls
<1>1. nextId' = nextId /\ outcome' = outcome /\ alive' = alive /\ frames' = frames
  BY IpcTaskKeeps DEF Destroy, OnChannelError, OnShutdownSignaled, history, procVars
<1>2. deser' = deser \/ \E c \in Ctx : CancelPendingSends(c)
  BY IpcTaskCancels DEF Destroy, OnChannelError, OnShutdownSignaled
<1>3. \A d \in Ctx : SameIds(deser[d], deser'[d])
  BY <1>2, CancelSameIds, SameSendsRefl
<1>4. QED
  BY <1>1, <1>3, SameSendsRefl DEF SameCalls

LEMMA UnblockSameCalls ==
  ASSUME TypeOK,
         \/ \E p \in Proc : DispatchReplies(p)
         \/ \E c \in Ctx : ReceiveReply(c)
  PROVE  SameCalls
<1>1. nextId' = nextId /\ outcome' = outcome /\ alive' = alive /\ frames' = frames
  BY DEF DispatchReplies, ReceiveReply, history
<1>2. \/ deser' = deser
      \/ \E c \in Ctx, ok \in BOOLEAN : \E i : IsTopSend(c, i) /\ Unblock(c, ok)
  <2>1. ASSUME NEW p \in Proc, DispatchReplies(p), deser' # deser
        PROVE  \E c \in Ctx, ok \in BOOLEAN : \E i : IsTopSend(c, i) /\ Unblock(c, ok)
    <3>1. PICK k \in DOMAIN replies[p] :
            Unblocks(p, k) /\ Unblock(replies[p][k].ctx, replies[p][k].ok)
      BY <2>1 DEF DispatchReplies
    <3>2. replies[p][k] \in QueuedReply
      BY DEF TypeOK, QueueTypeOK
    <3>3. replies[p][k].ctx \in Ctx /\ replies[p][k].ok \in BOOLEAN
      BY <3>2 DEF QueuedReply
    <3>4. QED
      BY <3>1, <3>3 DEF Unblocks
  <2>2. ASSUME NEW c \in Ctx, ReceiveReply(c), deser' # deser
        PROVE  \E d \in Ctx, ok \in BOOLEAN : \E i : IsTopSend(d, i) /\ Unblock(d, ok)
    <3>1. Head(wire[c]).ok \in BOOLEAN
      BY <2>2, ReceiveType DEF ReceiveReply
    <3>2. QED
      BY <2>2, <3>1 DEF ReceiveReply
  <2>3. QED
    BY <2>1, <2>2
<1>3. \A d \in Ctx : SameIds(deser[d], deser'[d])
  BY <1>2, UnblockSameIds, SameSendsRefl
<1>4. QED
  BY <1>1, <1>3, SameSendsRefl DEF SameCalls

LEMMA OnSendTimeoutSameCalls ==
  ASSUME TypeOK, NEW c \in Ctx, NEW i \in Ids, OnSendTimeout(c, i)
  PROVE  SameCalls
<1> DEFINE s == deser[c]
<1>1. PICK k \in DOMAIN s :
        deser' = [deser EXCEPT ![c] = [s EXCEPT ![k] = [s[k] EXCEPT !.done = TRUE]]]
  BY DEF OnSendTimeout
<1>2. s[k] \in PendingSend
  BY DEF TypeOK, CtxTypeOK
<1>3. [s[k] EXCEPT !.done = TRUE].id = s[k].id
  BY <1>2 DEF PendingSend
<1>4. SameIds(s, [s EXCEPT ![k] = [s[k] EXCEPT !.done = TRUE]])
  BY <1>3 DEF SameIds
<1>5. \A d \in Ctx : SameIds(deser[d], deser'[d])
  BY <1>1, <1>4, ChangeDeser
<1>6. QED
  BY <1>5, SameSendsRefl DEF SameCalls, OnSendTimeout, procVars, history

LEMMA OthersSameCalls ==
  ASSUME TypeOK,
         \/ \E p \in Proc : Shutdown(p) \/ SignalDispatchEvent(p) \/ DeferredReplies(p)
         \/ \E c \in Ctx : QueueMessage(c) \/ PostMessage(c) \/ DoneWaiting(c)
                             \/ SendDoneWaiting(c)
         \/ UNCHANGED vars
  PROVE  SameCalls
<1> DEFINE Same == /\ nextId' = nextId /\ outcome' = outcome /\ alive' = alive
                   /\ frames' = frames /\ deser' = deser
<1> USE DEF ctxVars, history
<1>1. ASSUME NEW p \in Proc, Shutdown(p) \/ SignalDispatchEvent(p) PROVE Same
  BY <1>1 DEF Shutdown, SignalDispatchEvent
<1>2. ASSUME NEW p \in Proc, DeferredReplies(p) PROVE Same
  BY <1>2 DEF DeferredReplies, SendDeferredReply
<1>3. ASSUME NEW c \in Ctx, QueueMessage(c) \/ PostMessage(c) PROVE Same
  BY <1>3 DEF QueueMessage, PostMessage
<1>4. ASSUME NEW c \in Ctx, DoneWaiting(c) \/ SendDoneWaiting(c) PROVE Same
  BY <1>4 DEF DoneWaiting, SendDoneWaiting
<1>5. UNCHANGED vars => Same
  BY DEF vars, procVars
<1>6. Same
  BY <1>1, <1>2, <1>3, <1>4, <1>5
<1>7. QED
  BY <1>6, SameSendsRefl DEF SameCalls

\* A step that begins no Send and ends none leaves the calls as they are.
LEMMA QuietStep ==
  ASSUME TypeOK, [Next]_vars
  PROVE  \/ SameCalls
         \/ \E p \in Proc :
              \/ \E c \in Ctx, u \in UnblockFlags[p] : BeginSend(p, c, u)
              \/ \E c \in Ctx : SendAfterShutdown(p, c)
              \/ Crash(p) \/ SendReturns(p) \/ OnSendDone(p)
  BY FramesSameCalls, DispatchMessageSameCalls, PumpMessagesSameCalls, CancelSameCalls,
     UnblockSameCalls, OnSendTimeoutSameCalls, OthersSameCalls
  DEF Next, UserCode, HandlerReturns, ListenerStep, IpcTaskStep, ChannelStep

(***************************************************************************)
(* Steps that begin or end a Send.                                         *)
(***************************************************************************)
LEMMA FrameTypes ==
  ASSUME TypeOK, NEW p \in Proc, NEW k \in DOMAIN frames[p]
  PROVE  /\ frames[p] \in Seq(Frame) /\ k \in 1..Len(frames[p])
         /\ frames[p][k].ctx \in Ctx
         /\ frames[p][k].kind \in {"wait", "handler", "pump"} => frames[p][k].id \in Ids
<1>1. frames[p] \in Seq(Frame) /\ k \in 1..Len(frames[p])
  BY DEF TypeOK, ProcTypeOK
<1>2. frames[p][k] \in Frame
  BY <1>1
<1>3. QED
  BY <1>1, <1>2 DEF Frame

LEMMA DeserTypes ==
  ASSUME TypeOK, NEW c \in Ctx, NEW k \in DOMAIN deser[c]
  PROVE  /\ deser[c] \in Seq(PendingSend) /\ k \in 1..Len(deser[c])
         /\ deser[c][k].id \in Ids /\ deser[c][k].result \in BOOLEAN
<1>1. deser[c] \in Seq(PendingSend) /\ k \in 1..Len(deser[c])
  BY DEF TypeOK, CtxTypeOK
<1>2. deser[c][k] \in PendingSend
  BY <1>1
<1>3. QED
  BY <1>1, <1>2 DEF PendingSend

LEMMA BeginSendCallStack ==
  ASSUME TypeOK, CallStack, NEW p \in Proc, NEW c \in Ctx, NEW u \in UnblockFlags[p],
         BeginSend(p, c, u)
  PROVE  CallStack'
<1> USE DEF CallStack
<1> DEFINE i == nextId[p]
           f == frames[p]
           n == Len(f)
           d == deser[c]
           e == [id |-> i, done |-> FALSE, result |-> FALSE]
<1>1. /\ alive[p] /\ Owner[c] = p /\ i \in Ids /\ i \in Nat
  <2>1. i <= Budget[p] /\ alive[p] /\ Owner[c] = p
    BY DEF BeginSend, CanSend, RunsUserCode
  <2>2. i \in 1..(MaxSends + 1)
    BY DEF TypeOK, ProcTypeOK
  <2>3. QED
    BY <2>1, <2>2, ConstantsAssumption DEF Ids
<1>2. /\ frames' = [frames EXCEPT ![p] = Append(Append(f, WaitFrame(c, i)), LoopFrame(c))]
      /\ deser' = [deser EXCEPT ![c] = Append(d, e)]
      /\ nextId' = [nextId EXCEPT ![p] = i + 1]
      /\ outcome' = [outcome EXCEPT ![p][i] = "pending"]
      /\ alive' = alive
  BY DEF BeginSend
<1>3. /\ frames \in [Proc -> Seq(Frame)] /\ f \in Seq(Frame) /\ n \in Nat /\ DOMAIN f = 1..n
      /\ deser \in [Ctx -> Seq(PendingSend)] /\ d \in Seq(PendingSend)
      /\ nextId \in [Proc -> 1..(MaxSends + 1)] /\ outcome \in [Proc -> [Ids -> Outcome]]
  BY DEF TypeOK, ProcTypeOK, CtxTypeOK, HistoryTypeOK
<1>4. /\ frames'[p] = Append(Append(f, WaitFrame(c, i)), LoopFrame(c))
      /\ \A q \in Proc : q # p => frames'[q] = frames[q]
      /\ deser'[c] = Append(d, e) /\ \A b \in Ctx : b # c => deser'[b] = deser[b]
  BY <1>2, <1>3
<1>5. WaitFrame(c, i) \in Frame /\ LoopFrame(c) \in Frame
  BY <1>1 DEF WaitFrame, LoopFrame, Frame
<1>6. /\ DOMAIN frames'[p] = 1..(n + 2)
      /\ \A k \in 1..n : frames'[p][k] = f[k]
      /\ frames'[p][n + 1] = WaitFrame(c, i) /\ frames'[p][n + 2] = LoopFrame(c)
  <2>1. /\ Append(f, WaitFrame(c, i)) \in Seq(Frame) /\ Len(Append(f, WaitFrame(c, i))) = n + 1
        /\ \A k \in 1..n : Append(f, WaitFrame(c, i))[k] = f[k]
        /\ Append(f, WaitFrame(c, i))[n + 1] = WaitFrame(c, i)
    BY <1>3, <1>5
  <2> DEFINE g == Append(f, WaitFrame(c, i))
  <2> HIDE DEF g
  <2>2. /\ Len(Append(g, LoopFrame(c))) = n + 2
        /\ \A k \in 1..(n + 1) : Append(g, LoopFrame(c))[k] = g[k]
        /\ Append(g, LoopFrame(c))[n + 2] = LoopFrame(c)
        /\ DOMAIN Append(g, LoopFrame(c)) = 1..(n + 2)
    BY <1>3, <1>5, <2>1 DEF g
  <2>3. QED
    BY <1>3, <1>4, <2>1, <2>2 DEF g
<1>7. /\ WaitFrame(c, i).kind = "wait" /\ WaitFrame(c, i).ctx = c /\ WaitFrame(c, i).id = i
      /\ LoopFrame(c).kind = "loop"
  BY DEF WaitFrame, LoopFrame
<1>8. /\ DOMAIN deser'[c] = 1..(Len(d) + 1) /\ DOMAIN d = 1..Len(d) /\ Len(d) \in Nat
      /\ \A k \in 1..Len(d) : deser'[c][k] = d[k]
      /\ deser'[c][Len(d) + 1].id = i
  BY <1>3, <1>4
<1>9. ASSUME NEW k \in DOMAIN f, f[k].kind = "wait" PROVE f[k].id \in Ids /\ f[k].id < i
  <2>1. f[k].id \in Ids /\ outcome[p][f[k].id] = "pending"
    BY <1>1, <1>9, FrameTypes DEF PendingOnStack
  <2>2. ~(i <= f[k].id)
    BY <2>1 DEF Numbered
  <2>3. QED
    BY <1>1, <2>1, <2>2 DEF Ids
<1>10. ASSUME NEW k \in DOMAIN frames'[p]
       PROVE  \/ k \in DOMAIN f /\ k \in 1..n /\ frames'[p][k] = f[k]
              \/ k = n + 1 /\ frames'[p][k] = WaitFrame(c, i)
              \/ k = n + 2 /\ frames'[p][k].kind = "loop"
  <2>1. k \in 1..n \/ k = n + 1 \/ k = n + 2
    <3>1. n \in Nat /\ k \in 1..(n + 2)
      BY <1>3, <1>6
    <3> HIDE DEF n
    <3>2. QED
      BY <3>1
  <2>2. QED
    BY <1>3, <1>6, <1>7, <2>1
<1> HIDE DEF i, f, n, d, e
<1>11. Numbered'
  <2> SUFFICES ASSUME NEW q \in Proc, NEW j \in Ids
               PROVE  outcome'[q][j] = "none" <=> nextId'[q] <= j
    BY DEF Numbered
  <2>1. CASE q # p
    BY <1>2, <1>3, <2>1 DEF Numbered
  <2>2. CASE q = p
    <3>1. nextId'[q] = i + 1 /\ j \in Nat
      BY <1>2, <1>3, <2>2 DEF Ids
    <3>2. CASE j = i
      <4>1. outcome'[q][j] = "pending"
        BY <1>1, <1>2, <1>3, <2>2, <3>2
      <4>2. QED
        BY <1>1, <3>1, <3>2, <4>1
    <3>3. CASE j # i
      <4>1. outcome'[q][j] = outcome[q][j]
        BY <1>1, <1>2, <1>3, <2>2, <3>3
      <4>2. outcome[q][j] = "none" <=> i <= j
        BY <2>2 DEF Numbered, i
      <4>3. QED
        BY <1>1, <3>1, <3>3, <4>1, <4>2
    <3>4. QED
      BY <3>2, <3>3
  <2>3. QED
    BY <2>1, <2>2
<1>12. PendingOnStack'
  <2> SUFFICES ASSUME NEW q \in Proc, alive[q], NEW j \in Ids
               PROVE  outcome'[q][j] = "pending" <=>
                        \E k \in DOMAIN frames'[q] :
                          frames'[q][k].kind = "wait" /\ frames'[q][k].id = j
    BY <1>2 DEF PendingOnStack
  <2>1. CASE q # p
    BY <1>2, <1>3, <1>4, <2>1 DEF PendingOnStack
  <2>2. CASE q = p /\ j = i
    <3>1. outcome'[q][j] = "pending"
      BY <1>2, <1>3, <2>2
    <3>2. n + 1 \in DOMAIN frames'[p]
      BY <1>3, <1>6
    <3>3. QED
      BY <1>6, <1>7, <2>2, <3>1, <3>2
  <2>3. CASE q = p /\ j # i
    <3>1. outcome'[q][j] = outcome[q][j]
      BY <1>2, <1>3, <2>3
    <3>2. (\E k \in DOMAIN frames'[p] : frames'[p][k].kind = "wait" /\ frames'[p][k].id = j)
            <=> (\E k \in DOMAIN f : f[k].kind = "wait" /\ f[k].id = j)
      <4>1. ASSUME NEW k \in DOMAIN frames'[p], frames'[p][k].kind = "wait", frames'[p][k].id = j
            PROVE  \E l \in DOMAIN f : f[l].kind = "wait" /\ f[l].id = j
        BY <1>7, <1>10, <2>3, <4>1
      <4>2. ASSUME NEW k \in DOMAIN f, f[k].kind = "wait", f[k].id = j
            PROVE  k \in DOMAIN frames'[p] /\ frames'[p][k] = f[k]
        BY <1>3, <1>6
      <4>3. QED
        BY <4>1, <4>2
    <3>3. QED
      BY <2>3, <3>1, <3>2 DEF PendingOnStack, f
  <2>4. QED
    BY <2>1, <2>2, <2>3
<1>13. WaitsNested'
  <2> SUFFICES ASSUME NEW q \in Proc, NEW j \in DOMAIN frames'[q], NEW k \in DOMAIN frames'[q],
                      j < k, frames'[q][j].kind = "wait", frames'[q][k].kind = "wait"
               PROVE  frames'[q][j].id < frames'[q][k].id
    BY DEF WaitsNested
  <2>1. CASE q # p
    BY <1>4, <2>1 DEF WaitsNested
  <2>2. CASE q = p
    <3>1. \/ k \in DOMAIN f /\ k \in 1..n /\ frames'[p][k] = f[k]
          \/ k = n + 1 /\ frames'[p][k].id = i
      BY <1>7, <1>10, <2>2
    <3>2. j \in DOMAIN f /\ frames'[p][j] = f[j]
      BY <1>3, <1>6, <1>7, <1>10, <2>2, <3>1
    <3>3. CASE k \in DOMAIN f /\ frames'[p][k] = f[k]
      BY <2>2, <3>2, <3>3 DEF WaitsNested, f
    <3>4. CASE frames'[p][k].id = i
      BY <1>9, <2>2, <3>2, <3>4
    <3>5. QED
      BY <3>1, <3>3, <3>4
  <2>3. QED
    BY <2>1, <2>2
<1>14. WaitsOwned'
  <2> SUFFICES ASSUME NEW q \in Proc, NEW k \in DOMAIN frames'[q], frames'[q][k].kind = "wait"
               PROVE  Owner[frames'[q][k].ctx] = q
    BY DEF WaitsOwned
  <2>1. CASE q # p
    BY <1>4, <2>1 DEF WaitsOwned
  <2>2. CASE q = p
    BY <1>1, <1>7, <1>10, <2>2 DEF WaitsOwned, f
  <2>3. QED
    BY <2>1, <2>2
<1>15. PumpOnWait'
  <2> SUFFICES ASSUME NEW q \in Proc, NEW k \in DOMAIN frames'[q], frames'[q][k].kind = "pump"
               PROVE  /\ k - 1 \in DOMAIN frames'[q]
                      /\ frames'[q][k - 1].kind = "wait"
                      /\ frames'[q][k - 1].ctx = frames'[q][k].ctx
                      /\ frames'[q][k - 1].id = frames'[q][k].id
    BY DEF PumpOnWait
  <2>1. CASE q # p
    BY <1>4, <2>1 DEF PumpOnWait
  <2>2. CASE q = p
    <3>1. k \in DOMAIN f /\ frames'[p][k] = f[k]
      BY <1>7, <1>10, <2>2
    <3>2. /\ k - 1 \in DOMAIN f /\ f[k - 1].kind = "wait"
          /\ f[k - 1].ctx = f[k].ctx /\ f[k - 1].id = f[k].id
      BY <2>2, <3>1 DEF PumpOnWait, f
    <3>3. k - 1 \in DOMAIN frames'[p] /\ frames'[p][k - 1] = f[k - 1]
      BY <1>3, <1>6, <3>2
    <3>4. QED
      BY <2>2, <3>1, <3>2, <3>3
  <2>3. QED
    BY <2>1, <2>2
<1>16. ASSUME NEW k \in DOMAIN d PROVE d[k].id \in Ids /\ d[k].id < i
  <2>1. PICK j \in DOMAIN frames[Owner[c]] :
          frames[Owner[c]][j].kind = "wait" /\ frames[Owner[c]][j].id = d[k].id
    BY DEF DeserOnStack, d
  <2>2. QED
    BY <1>1, <1>9, <2>1 DEF f
<1>17. DeserNested'
  <2> SUFFICES ASSUME NEW b \in Ctx, NEW j \in DOMAIN deser'[b], NEW k \in DOMAIN deser'[b],
                      j < k
               PROVE  deser'[b][j].id < deser'[b][k].id
    BY DEF DeserNested
  <2>1. CASE b # c
    BY <1>4, <2>1 DEF DeserNested
  <2>2. CASE b = c
    <3>1. j \in 1..Len(d)
      BY <1>8, <2>2
    <3>2. CASE k \in 1..Len(d)
      BY <1>8, <2>2, <3>1, <3>2 DEF DeserNested, d
    <3>3. CASE k = Len(d) + 1
      BY <1>8, <1>16, <2>2, <3>1, <3>3
    <3>4. QED
      BY <1>8, <2>2, <3>2, <3>3
  <2>3. QED
    BY <2>1, <2>2
<1>18. DeserOnStack'
  <2> SUFFICES ASSUME NEW b \in Ctx, NEW k \in DOMAIN deser'[b]
               PROVE  \E j \in DOMAIN frames'[Owner[b]] :
                        /\ frames'[Owner[b]][j].kind = "wait" /\ frames'[Owner[b]][j].ctx = b
                        /\ frames'[Owner[b]][j].id = deser'[b][k].id
    BY DEF DeserOnStack
  <2>1. ASSUME NEW l \in DOMAIN deser[b], deser[b][l].id = deser'[b][k].id
        PROVE  \E j \in DOMAIN frames'[Owner[b]] :
                 /\ frames'[Owner[b]][j].kind = "wait" /\ frames'[Owner[b]][j].ctx = b
                 /\ frames'[Owner[b]][j].id = deser'[b][k].id
    <3>1. PICK j \in DOMAIN frames[Owner[b]] :
             /\ frames[Owner[b]][j].kind = "wait" /\ frames[Owner[b]][j].ctx = b
             /\ frames[Owner[b]][j].id = deser'[b][k].id
      BY <2>1 DEF DeserOnStack
    <3>2. Owner[b] \in Proc
      BY ConstantsAssumption
    <3>3. j \in DOMAIN frames'[Owner[b]] /\ frames'[Owner[b]][j] = frames[Owner[b]][j]
      <4>1. CASE Owner[b] # p
        BY <1>4, <3>2, <4>1
      <4>2. CASE Owner[b] = p
        BY <1>3, <1>6, <4>2 DEF f
      <4>3. QED
        BY <4>1, <4>2
    <3>4. QED
      BY <3>1, <3>3
  <2>2. CASE b # c
    BY <1>4, <2>1, <2>2
  <2>3. CASE b = c /\ k \in 1..Len(d)
    BY <1>8, <2>1, <2>3 DEF d
  <2>4. CASE b = c /\ k = Len(d) + 1
    <3>1. n + 1 \in DOMAIN frames'[p]
      BY <1>3, <1>6
    <3>2. /\ Owner[b] = p /\ deser'[b][k].id = i /\ frames'[p][n + 1].kind = "wait"
          /\ frames'[p][n + 1].ctx = b /\ frames'[p][n + 1].id = i
      BY <1>1, <1>6, <1>7, <1>8, <2>4
    <3>3. QED
      BY <3>1, <3>2
  <2>5. QED
    BY <1>8, <2>2, <2>3, <2>4
<1>19. StackInDeser'
  <2> SUFFICES ASSUME NEW b \in Ctx, NEW j \in DOMAIN frames'[Owner[b]],
                      frames'[Owner[b]][j].kind = "wait", frames'[Owner[b]][j].ctx = b
               PROVE  \E k \in DOMAIN deser'[b] : deser'[b][k].id = frames'[Owner[b]][j].id
    BY DEF StackInDeser
  <2>1. Owner[b] \in Proc
    BY ConstantsAssumption
  <2>2. \/ j \in DOMAIN frames[Owner[b]] /\ frames'[Owner[b]][j] = frames[Owner[b]][j]
        \/ Owner[b] = p /\ frames'[Owner[b]][j] = WaitFrame(c, i)
    <3>1. CASE Owner[b] # p
      BY <1>4, <2>1, <3>1
    <3>2. CASE Owner[b] = p
      BY <1>7, <1>10, <3>2 DEF f
    <3>3. QED
      BY <3>1, <3>2
  <2>3. CASE j \in DOMAIN frames[Owner[b]] /\ frames'[Owner[b]][j] = frames[Owner[b]][j]
    <3>1. PICK k \in DOMAIN deser[b] : deser[b][k].id = frames'[Owner[b]][j].id
      BY <2>3 DEF StackInDeser
    <3>2. k \in DOMAIN deser'[b] /\ deser'[b][k] = deser[b][k]
      <4>1. CASE b # c
        BY <1>4, <4>1
      <4>2. CASE b = c
        BY <1>8, <4>2 DEF d
      <4>3. QED
        BY <4>1, <4>2
    <3>3. QED
      BY <3>1, <3>2
  <2>4. CASE frames'[Owner[b]][j] = WaitFrame(c, i)
    <3>1. b = c /\ frames'[Owner[b]][j].id = i
      BY <1>7, <2>4
    <3>2. Len(d) + 1 \in DOMAIN deser'[c]
      BY <1>8
    <3>3. QED
      BY <1>8, <3>1, <3>2
  <2>5. QED
    BY <2>2, <2>3, <2>4
<1>20. QED
  BY <1>11, <1>12, <1>13, <1>14, <1>15, <1>17, <1>18, <1>19

\* The Send that is to end sits at place n of the call stack, the last wait.
EndsAt(p, stack, n) ==
  /\ n \in DOMAIN frames[p] /\ frames[p][n].kind = "wait"
  /\ frames[p][n].ctx = Top(p).ctx /\ frames[p][n].id = Top(p).id
  /\ \A k \in DOMAIN frames[p] : k > n => frames[p][k].kind # "wait"
  /\ stack \in Seq(Frame) /\ Len(stack) = n - 1
  /\ \A k \in 1..(n - 1) : stack[k] = frames[p][k]

LEMMA InnermostSend ==
  ASSUME TypeOK, CallStack, NEW p \in Proc, alive[p], NEW stack, NEW n, EndsAt(p, stack, n),
         deser[Top(p).ctx] # <<>>
  PROVE  /\ Top(p).ctx \in Ctx /\ Owner[Top(p).ctx] = p /\ Top(p).id \in Ids
         /\ outcome[p][Top(p).id] = "pending"
         /\ Last(deser[Top(p).ctx]).id = Top(p).id
         /\ \A j \in Ids : outcome[p][j] = "pending" => j <= Top(p).id
<1> USE DEF CallStack, EndsAt
<1> DEFINE f == frames[p]
           c == Top(p).ctx
           i == Top(p).id
           d == deser[c]
           l == Len(d)
<1>1. c \in Ctx /\ i \in Ids /\ Owner[c] = p
  BY FrameTypes DEF WaitsOwned
<1>2. outcome[p][i] = "pending"
  BY <1>1 DEF PendingOnStack
<1>3. ASSUME NEW k \in DOMAIN f, f[k].kind = "wait" PROVE k = n \/ f[k].id < i
  <2>1. k \in Nat /\ n \in Nat
    BY FrameTypes
  <2>2. k = n \/ k < n
    BY <1>3, <2>1
  <2>3. QED
    BY <1>3, <2>2 DEF WaitsNested
<1>4. ASSUME NEW j \in Ids, outcome[p][j] = "pending" PROVE j <= i
  <2>1. PICK k \in DOMAIN f : f[k].kind = "wait" /\ f[k].id = j
    BY <1>4 DEF PendingOnStack
  <2>2. j = i \/ j < i
    BY <1>3, <2>1
  <2>3. QED
    BY <1>1, <2>2 DEF Ids
<1>5. d \in Seq(PendingSend) /\ d # <<>> /\ DOMAIN d = 1..l /\ l \in Nat /\ l \in DOMAIN d
  BY <1>1 DEF TypeOK, CtxTypeOK
<1>6. d[l].id = i
  <2>1. PICK k \in DOMAIN d : d[k].id = i
    BY <1>1 DEF StackInDeser
  <2>2. PICK j \in DOMAIN f : f[j].kind = "wait" /\ f[j].id = d[l].id
    BY <1>1, <1>5 DEF DeserOnStack
  <2>3. d[l].id = i \/ d[l].id < i
    BY <1>3, <2>2
  <2>4. k # l => d[k].id < d[l].id
    <3>1. k \in 1..l
      BY <1>5, <2>1
    <3> HIDE DEF l
    <3>2. k # l => k < l
      BY <1>5, <3>1
    <3>3. QED
      BY <1>1, <1>5, <2>1, <3>2 DEF DeserNested
  <2>5. d[l].id \in Nat /\ i \in Nat
    BY <1>1, <1>5, DeserTypes DEF Ids
  <2>6. QED
    BY <2>1, <2>3, <2>4, <2>5
<1>7. QED
  BY <1>1, <1>2, <1>4, <1>6 DEF Last

LEMMA SendEndsCallStack ==
  ASSUME TypeOK, CallStack, NEW p \in Proc, alive[p], NEW stack, NEW n, EndsAt(p, stack, n),
         EndSend(p, stack), nextId' = nextId, alive' = alive
  PROVE  CallStack'
<1> DEFINE f == frames[p]
           c == Top(p).ctx
           i == Top(p).id
           d == deser[c]
           l == Len(d)
<1>1. /\ c \in Ctx /\ Owner[c] = p /\ i \in Ids /\ outcome[p][i] = "pending"
      /\ d # <<>> /\ Last(d).id = i
      /\ \A j \in Ids : outcome[p][j] = "pending" => j <= i
  BY InnermostSend DEF EndSend
<1> USE DEF CallStack, EndsAt
<1>2. /\ frames' = [frames EXCEPT ![p] = stack]
      /\ deser' = [deser EXCEPT ![c] = Front(d)]
      /\ \E r \in {"true", "false"} : outcome' = [outcome EXCEPT ![p][i] = r]
  BY DEF EndSend, Pop
<1>3. /\ frames \in [Proc -> Seq(Frame)] /\ deser \in [Ctx -> Seq(PendingSend)]
      /\ d \in Seq(PendingSend) /\ l \in Nat /\ DOMAIN d = 1..l /\ l \in DOMAIN d
      /\ outcome \in [Proc -> [Ids -> Outcome]] /\ n \in Nat
      /\ DOMAIN f = 1..Len(f) /\ Len(f) \in Nat
  <2>1. /\ frames \in [Proc -> Seq(Frame)] /\ deser \in [Ctx -> Seq(PendingSend)]
        /\ outcome \in [Proc -> [Ids -> Outcome]]
    BY DEF TypeOK, ProcTypeOK, CtxTypeOK, HistoryTypeOK
  <2>2. d \in Seq(PendingSend) /\ f \in Seq(Frame)
    BY <1>1, <2>1
  <2>3. l \in Nat /\ DOMAIN d = 1..l /\ l \in DOMAIN d
    BY <1>1, <2>2
  <2>4. DOMAIN f = 1..Len(f) /\ Len(f) \in Nat
    BY <2>2
  <2>5. n \in Nat
    BY <2>4
  <2>6. QED
    BY <2>1, <2>2, <2>3, <2>4, <2>5
<1>4. /\ frames'[p] = stack /\ \A q \in Proc : q # p => frames'[q] = frames[q]
      /\ deser'[c] = Front(d) /\ \A b \in Ctx : b # c => deser'[b] = deser[b]
      /\ outcome'[p][i] \in {"true", "false"}
      /\ \A q \in Proc, j \in Ids : q # p \/ j # i => outcome'[q][j] = outcome[q][j]
  BY <1>1, <1>2, <1>3
<1>5. /\ DOMAIN stack = 1..(n - 1)
      /\ \A k \in DOMAIN stack : k \in DOMAIN f /\ stack[k] = f[k] /\ k < n
      /\ \A k \in DOMAIN f : f[k].kind = "wait" /\ k # n => k \in DOMAIN stack
  <2>1. DOMAIN stack = 1..(n - 1) /\ n \in 1..Len(f)
    BY <1>3
  <2>2. ASSUME NEW k \in DOMAIN f, f[k].kind = "wait", k # n PROVE k \in 1..(n - 1)
    <3>1. k \in Nat /\ k >= 1 /\ ~(k > n)
      BY <1>3, <2>2
    <3>2. QED
      BY <1>3, <2>2, <3>1
  <2>3. QED
    BY <1>3, <2>1, <2>2
<1>6. /\ DOMAIN deser'[c] = 1..(l - 1)
      /\ \A k \in 1..(l - 1) : k \in DOMAIN d /\ deser'[c][k] = d[k] /\ k < l
      /\ d[l].id = i
  <2>1. Front(d) \in Seq(PendingSend) /\ Len(Front(d)) = l - 1
        /\ \A k \in 1..(l - 1) : Front(d)[k] = d[k]
    <3>1. d \in Seq(PendingSend) /\ d # <<>> /\ Len(d) = l
      BY <1>1, <1>3
    <3> HIDE DEF d, l, CallStack, EndsAt
    <3>2. QED
      BY <3>1, FrontType
  <2>2. DOMAIN Front(d) = 1..(l - 1)
    BY <2>1
  <2>3. d[l].id = i
    BY <1>1 DEF Last
  <2>4. QED
    BY <1>3, <1>4, <2>1, <2>2, <2>3
<1>7. ASSUME NEW k \in DOMAIN f, f[k].kind = "wait", f[k].id = i PROVE k = n
  <2>1. k \in Nat /\ (k = n \/ k < n)
    BY <1>3, <1>7
  <2>2. k < n => f[k].id < f[n].id
    BY <1>7 DEF WaitsNested
  <2>3. f[k].id \in Nat
    BY <1>1, <1>7 DEF Ids
  <2>4. QED
    BY <1>7, <2>1, <2>2, <2>3
<1>8. f[n].kind = "wait" /\ f[n].id = i /\ f[n].ctx = c /\ n \in DOMAIN f
  OBVIOUS
<1> HIDE DEF f, c, i, d, l, EndsAt
<1>9. Numbered'
  <2>1. ASSUME NEW q \in Proc, NEW j \in Ids
        PROVE  outcome'[q][j] = "none" <=> outcome[q][j] = "none"
    <3>1. CASE q = p /\ j = i
      BY <1>1, <1>4, <3>1
    <3>2. CASE q # p \/ j # i
      BY <1>4, <3>2
    <3>3. QED
      BY <3>1, <3>2
  <2>2. QED
    BY <2>1 DEF Numbered
<1>10. PendingOnStack'
  <2> SUFFICES ASSUME NEW q \in Proc, alive[q], NEW j \in Ids
               PROVE  outcome'[q][j] = "pending" <=>
                        \E k \in DOMAIN frames'[q] :
                          frames'[q][k].kind = "wait" /\ frames'[q][k].id = j
    BY DEF PendingOnStack
  <2>1. CASE q # p
    BY <1>4, <2>1 DEF PendingOnStack
  <2>2. CASE q = p /\ j = i
    <3>1. ASSUME NEW k \in DOMAIN stack, stack[k].kind = "wait" PROVE stack[k].id # i
      BY <1>3, <1>5, <1>7, <3>1
    <3>2. outcome'[q][j] # "pending"
      BY <1>4, <2>2
    <3>3. QED
      BY <1>4, <2>2, <3>1, <3>2
  <2>3. CASE q = p /\ j # i
    <3>1. outcome'[q][j] = outcome[q][j]
      BY <1>4, <2>3
    <3>2. ASSUME NEW k \in DOMAIN f, f[k].kind = "wait", f[k].id = j
          PROVE  k \in DOMAIN stack /\ stack[k] = f[k]
      BY <1>5, <1>8, <2>3, <3>2
    <3>3. outcome[q][j] = "pending" <=> \E k \in DOMAIN f : f[k].kind = "wait" /\ f[k].id = j
      BY <2>3 DEF PendingOnStack, f
    <3>4. ASSUME NEW k \in DOMAIN stack, stack[k].kind = "wait", stack[k].id = j
          PROVE  k \in DOMAIN f /\ f[k].kind = "wait" /\ f[k].id = j
      BY <1>5, <3>4
    <3>5. frames'[q] = stack
      BY <1>4, <2>3
    <3>6. QED
      BY <3>1, <3>2, <3>3, <3>4, <3>5
  <2>4. QED
    BY <2>1, <2>2, <2>3
<1>11. WaitsNested'
  <2> SUFFICES ASSUME NEW q \in Proc, NEW j \in DOMAIN frames'[q], NEW k \in DOMAIN frames'[q],
                      j < k, frames'[q][j].kind = "wait", frames'[q][k].kind = "wait"
               PROVE  frames'[q][j].id < frames'[q][k].id
    BY DEF WaitsNested
  <2>1. CASE q # p
    BY <1>4, <2>1 DEF WaitsNested
  <2>2. CASE q = p
    <3>1. /\ j \in DOMAIN f /\ frames'[q][j] = f[j]
          /\ k \in DOMAIN f /\ frames'[q][k] = f[k]
      BY <1>4, <1>5, <2>2
    <3> HIDE DEF CallStack, EndsAt
    <3>2. WaitsNested
      BY DEF CallStack
    <3>3. QED
      BY <3>1, <3>2 DEF WaitsNested, f
  <2>3. QED
    BY <2>1, <2>2
<1>12. WaitsOwned'
  <2> SUFFICES ASSUME NEW q \in Proc, NEW k \in DOMAIN frames'[q], frames'[q][k].kind = "wait"
               PROVE  Owner[frames'[q][k].ctx] = q
    BY DEF WaitsOwned
  <2>1. CASE q # p
    BY <1>4, <2>1 DEF WaitsOwned
  <2>2. CASE q = p
    <3>1. k \in DOMAIN f /\ frames'[q][k] = f[k]
      BY <1>4, <1>5, <2>2
    <3>2. QED
      BY <2>2, <3>1 DEF WaitsOwned, f
  <2>3. QED
    BY <2>1, <2>2
<1>13. PumpOnWait'
  <2> SUFFICES ASSUME NEW q \in Proc, NEW k \in DOMAIN frames'[q], frames'[q][k].kind = "pump"
               PROVE  /\ k - 1 \in DOMAIN frames'[q]
                      /\ frames'[q][k - 1].kind = "wait"
                      /\ frames'[q][k - 1].ctx = frames'[q][k].ctx
                      /\ frames'[q][k - 1].id = frames'[q][k].id
    BY DEF PumpOnWait
  <2>1. CASE q # p
    BY <1>4, <2>1 DEF PumpOnWait
  <2>2. CASE q = p
    <3>1. k \in DOMAIN f /\ stack[k] = f[k] /\ f[k].kind = "pump" /\ k \in 1..(n - 1)
      BY <1>4, <1>5, <2>2
    <3>2. /\ k - 1 \in DOMAIN f /\ f[k - 1].kind = "wait"
          /\ f[k - 1].ctx = f[k].ctx /\ f[k - 1].id = f[k].id
      BY <3>1 DEF PumpOnWait, f
    <3>3. k - 1 # n
      BY <1>3, <3>1
    <3>4. k - 1 \in DOMAIN stack /\ stack[k - 1] = f[k - 1]
      BY <1>5, <3>2, <3>3
    <3>5. QED
      BY <1>4, <2>2, <3>1, <3>2, <3>4
  <2>3. QED
    BY <2>1, <2>2
<1>14. DeserNested'
  <2> SUFFICES ASSUME NEW b \in Ctx, NEW j \in DOMAIN deser'[b], NEW k \in DOMAIN deser'[b],
                      j < k
               PROVE  deser'[b][j].id < deser'[b][k].id
    BY DEF DeserNested
  <2>1. CASE b # c
    BY <1>4, <2>1 DEF DeserNested
  <2>2. CASE b = c
    BY <1>6, <2>2 DEF DeserNested, d
  <2>3. QED
    BY <2>1, <2>2
<1>15. DeserOnStack'
  <2> SUFFICES ASSUME NEW b \in Ctx, NEW k \in DOMAIN deser'[b]
               PROVE  \E j \in DOMAIN frames'[Owner[b]] :
                        /\ frames'[Owner[b]][j].kind = "wait" /\ frames'[Owner[b]][j].ctx = b
                        /\ frames'[Owner[b]][j].id = deser'[b][k].id
    BY DEF DeserOnStack
  <2>1. /\ k \in DOMAIN deser[b] /\ deser'[b][k] = deser[b][k]
        /\ b = c => k < l
    <3>1. CASE b # c
      BY <1>4, <3>1
    <3>2. CASE b = c
      BY <1>6, <3>2 DEF d
    <3>3. QED
      BY <3>1, <3>2
  <2>2. PICK j \in DOMAIN frames[Owner[b]] :
           /\ frames[Owner[b]][j].kind = "wait" /\ frames[Owner[b]][j].ctx = b
           /\ frames[Owner[b]][j].id = deser[b][k].id
    BY <2>1 DEF DeserOnStack
  <2>3. Owner[b] = p => j # n
    <3>1. SUFFICES ASSUME Owner[b] = p, j = n PROVE FALSE
      OBVIOUS
    <3>2. b = c /\ deser[b][k].id = i
      BY <1>8, <2>2, <3>1 DEF f
    <3>3. d[k].id < d[l].id
      BY <1>1, <1>3, <2>1, <3>2 DEF DeserNested, d
    <3>4. QED
      BY <1>1, <1>6, <3>2, <3>3 DEF d, Ids
  <2>4. j \in DOMAIN frames'[Owner[b]] /\ frames'[Owner[b]][j] = frames[Owner[b]][j]
    <3>1. Owner[b] \in Proc
      BY ConstantsAssumption
    <3>2. CASE Owner[b] # p
      BY <1>4, <3>1, <3>2
    <3>3. CASE Owner[b] = p
      <4>1. frames'[Owner[b]] = stack /\ frames[Owner[b]] = f
        BY <1>4, <3>3 DEF f
      <4>2. j \in DOMAIN f /\ f[j].kind = "wait" /\ j # n
        BY <2>2, <2>3, <3>3, <4>1
      <4>3. j \in DOMAIN stack /\ stack[j] = f[j]
        BY <1>5, <4>2
      <4>4. QED
        BY <4>1, <4>3
    <3>4. QED
      BY <3>2, <3>3
  <2>5. QED
    BY <2>1, <2>2, <2>4
<1>16. StackInDeser'
  <2> SUFFICES ASSUME NEW b \in Ctx, NEW j \in DOMAIN frames'[Owner[b]],
                      frames'[Owner[b]][j].kind = "wait", frames'[Owner[b]][j].ctx = b
               PROVE  \E k \in DOMAIN deser'[b] : deser'[b][k].id = frames'[Owner[b]][j].id
    BY DEF StackInDeser
  <2>1. Owner[b] \in Proc
    BY ConstantsAssumption
  <2>2. /\ j \in DOMAIN frames[Owner[b]] /\ frames'[Owner[b]][j] = frames[Owner[b]][j]
        /\ Owner[b] = p => j < n
    <3>1. CASE Owner[b] # p
      BY <1>4, <2>1, <3>1
    <3>2. CASE Owner[b] = p
      <4>1. frames'[Owner[b]] = stack /\ frames[Owner[b]] = f
        BY <1>4, <3>2 DEF f
      <4>2. j \in DOMAIN f /\ stack[j] = f[j] /\ j < n
        BY <1>5, <4>1
      <4>3. QED
        BY <4>1, <4>2
    <3>3. QED
      BY <3>1, <3>2
  <2>3. PICK k \in DOMAIN deser[b] : deser[b][k].id = frames[Owner[b]][j].id
    BY <2>2 DEF StackInDeser
  <2>4. CASE b # c
    BY <1>4, <2>2, <2>3, <2>4
  <2>5. CASE b = c
    <3>1. j \in DOMAIN f /\ f[j].kind = "wait" /\ j < n
      BY <1>1, <2>2, <2>5 DEF f
    <3>2. f[j].id # i
      BY <1>3, <1>7, <3>1
    <3>3. k # l /\ k \in 1..l
      BY <1>1, <1>3, <1>6, <2>3, <2>5, <3>2, <2>2 DEF d, f
    <3>4. k \in 1..(l - 1)
      BY <1>3, <3>3
    <3>5. k \in DOMAIN deser'[c] /\ deser'[c][k] = d[k]
      BY <1>6, <3>4
    <3>6. d[k].id = frames'[Owner[b]][j].id
      BY <2>2, <2>3, <2>5 DEF d
    <3>7. QED
      BY <2>5, <3>5, <3>6
  <2>6. QED
    BY <2>4, <2>5
<1>17. QED
  BY <1>9, <1>10, <1>11, <1>12, <1>13, <1>14, <1>15, <1>16

LEMMA SendReturnsEnds ==
  ASSUME TypeOK, NEW p \in Proc, SendReturns(p)
  PROVE  EndsAt(p, Front(frames[p]), Len(frames[p]))
<1> DEFINE f == frames[p]
<1>1. /\ f \in Seq(Frame) /\ f # <<>> /\ Top(p) = f[Len(f)] /\ f[Len(f)].kind = "wait"
      /\ Len(f) \in DOMAIN f
  BY TopFrame DEF SendReturns, TopIs, Top
<1>2. Front(f) \in Seq(Frame) /\ Len(Front(f)) = Len(f) - 1
      /\ \A k \in 1..(Len(f) - 1) : Front(f)[k] = f[k]
  BY <1>1, FrontType
<1>3. \A k \in DOMAIN f : ~(k > Len(f))
  BY <1>1
<1>4. QED
  BY <1>1, <1>2, <1>3 DEF EndsAt

\* The task that ends a nested message loop, when it is not a stale one.
QuitsLoop(p) ==
  OnSendDone(p) /\ TopIs(p, "pump")
  /\ sendWatch[p] = [id |-> Head(ltasks[p]).id, posted |-> TRUE]

LEMMA QuitsLoopEnds ==
  ASSUME TypeOK, PumpOnWait, NEW p \in Proc, QuitsLoop(p)
  PROVE  EndsAt(p, SubSeq(frames[p], 1, Len(frames[p]) - 2), Len(frames[p]) - 1)
<1> DEFINE f == frames[p]
           n == Len(f)
           stack == SubSeq(f, 1, n - 2)
<1>1. /\ f \in Seq(Frame) /\ f # <<>> /\ Top(p) = f[n] /\ f[n].kind = "pump"
      /\ n \in DOMAIN f /\ n \in Nat /\ DOMAIN f = 1..n
  BY TopFrame DEF QuitsLoop, TopIs, Top
<1>2. /\ n - 1 \in DOMAIN f /\ f[n - 1].kind = "wait"
      /\ f[n - 1].ctx = f[n].ctx /\ f[n - 1].id = f[n].id
  BY <1>1 DEF PumpOnWait
<1>3. n - 2 \in 0..n
  BY <1>1, <1>2
<1>4. /\ stack \in Seq(Frame) /\ Len(stack) = n - 2
      /\ \A k \in 1..(n - 2) : stack[k] = f[k]
  BY <1>1, <1>3, PrefixType
<1>5. ASSUME NEW k \in DOMAIN f, k > n - 1 PROVE f[k].kind # "wait"
  <2>1. k = n
    BY <1>1, <1>5
  <2>2. QED
    BY <1>1, <2>1
<1>6. (n - 1) - 1 = n - 2
  BY <1>1
<1>7. QED
  BY <1>1, <1>2, <1>4, <1>5, <1>6 DEF EndsAt

\* Every step that ends a Send ends the innermost one.
LEMMA SendEnds ==
  ASSUME TypeOK, CallStack, NEW p \in Proc, SendReturns(p) \/ QuitsLoop(p)
  PROVE  \E stack, n : /\ EndsAt(p, stack, n) /\ EndSend(p, stack)
                       /\ alive[p] /\ nextId' = nextId /\ alive' = alive /\ answered' = answered
<1>1. CASE SendReturns(p)
  BY <1>1, SendReturnsEnds DEF SendReturns
<1>2. CASE QuitsLoop(p)
  <2>1. EndsAt(p, SubSeq(frames[p], 1, Len(frames[p]) - 2), Len(frames[p]) - 1)
    BY <1>2, QuitsLoopEnds DEF CallStack
  <2>2. /\ EndSend(p, SubSeq(frames[p], 1, Len(frames[p]) - 2))
        /\ alive[p] /\ nextId' = nextId /\ alive' = alive /\ answered' = answered
    BY <1>2 DEF QuitsLoop, OnSendDone, HeadTask
  <2>3. QED
    BY <2>1, <2>2
<1>3. QED
  BY <1>1, <1>2

LEMMA StaleSendDone ==
  ASSUME TypeOK, NEW p \in Proc, OnSendDone(p), ~QuitsLoop(p)
  PROVE  SameCalls
<1>1. /\ nextId' = nextId /\ outcome' = outcome /\ alive' = alive /\ frames' = frames
      /\ deser' = deser
  BY DEF OnSendDone, QuitsLoop
<1>2. QED
  BY <1>1, SameSendsRefl DEF SameCalls

LEMMA SendAfterShutdownCallStack ==
  ASSUME TypeOK, CallStack, NEW p \in Proc, NEW c \in Ctx, SendAfterShutdown(p, c)
  PROVE  CallStack'
<1> DEFINE i == nextId[p]
<1>1. /\ frames' = frames /\ deser' = deser /\ alive' = alive
      /\ nextId' = [nextId EXCEPT ![p] = i + 1]
      /\ outcome' = [outcome EXCEPT ![p][i] = "false"]
  BY DEF SendAfterShutdown, ctxVars
<1>2. /\ nextId \in [Proc -> 1..(MaxSends + 1)] /\ outcome \in [Proc -> [Ids -> Outcome]]
      /\ i \in Nat
  BY ConstantsAssumption DEF TypeOK, ProcTypeOK, HistoryTypeOK
<1>3. i \in Ids
  <2>1. i <= Budget[p] /\ i \in 1..(MaxSends + 1)
    BY <1>2 DEF SendAfterShutdown, CanSend
  <2>2. QED
    BY <2>1, ConstantsAssumption DEF Ids
<1>4. outcome[p][i] = "none"
  BY <1>2, <1>3 DEF CallStack, Numbered
<1> HIDE DEF i
<1>5. Numbered'
  <2> SUFFICES ASSUME NEW q \in Proc, NEW j \in Ids
               PROVE  outcome'[q][j] = "none" <=> nextId'[q] <= j
    BY DEF Numbered
  <2>1. CASE q # p
    BY <1>1, <1>2, <2>1 DEF CallStack, Numbered
  <2>2. CASE q = p /\ j = i
    BY <1>1, <1>2, <1>3, <2>2
  <2>3. CASE q = p /\ j # i
    <3>1. outcome'[q][j] = outcome[q][j] /\ nextId'[q] = i + 1 /\ j \in Nat
      BY <1>1, <1>2, <1>3, <2>3 DEF Ids
    <3>2. outcome[q][j] = "none" <=> i <= j
      BY <2>3 DEF CallStack, Numbered, i
    <3>3. QED
      BY <1>2, <2>3, <3>1, <3>2
  <2>4. QED
    BY <2>1, <2>2, <2>3
<1>6. PendingOnStack'
  <2>1. ASSUME NEW q \in Proc, NEW j \in Ids
        PROVE  outcome'[q][j] = "pending" <=> outcome[q][j] = "pending"
    <3>1. CASE q = p /\ j = i
      BY <1>1, <1>2, <1>3, <1>4, <3>1
    <3>2. CASE ~(q = p /\ j = i)
      BY <1>1, <1>2, <1>3, <3>2
    <3>3. QED
      BY <3>1, <3>2
  <2>2. QED
    BY <1>1, <2>1 DEF CallStack, PendingOnStack
<1>7. QED
  BY <1>1, <1>5, <1>6
  DEF CallStack, WaitsNested, WaitsOwned, PumpOnWait, DeserNested, DeserOnStack, StackInDeser

LEMMA CrashCallStack ==
  ASSUME TypeOK, CallStack, NEW p \in Proc, Crash(p)
  PROVE  CallStack'
<1> USE DEF CallStack
<1>1. /\ nextId' = nextId /\ outcome' = outcome
      /\ ~alive'[p] /\ \A q \in Proc : q # p => alive'[q] = alive[q]
      /\ frames'[p] = <<>> /\ \A q \in Proc : q # p => frames'[q] = frames[q]
      /\ \A c \in Ctx : deser'[c] = IF Owner[c] = p THEN <<>> ELSE deser[c]
  BY DEF Crash, history, TypeOK, ProcTypeOK
<1>2. \A c \in Ctx : Owner[c] \in Proc
  BY ConstantsAssumption
<1>3. \A k \in DOMAIN <<>> : FALSE
  OBVIOUS
<1>4. Numbered'
  BY <1>1 DEF Numbered
<1>5. PendingOnStack'
  BY <1>1 DEF PendingOnStack
<1>6. WaitsNested'
  BY <1>1, <1>3 DEF WaitsNested
<1>7. WaitsOwned'
  BY <1>1, <1>3 DEF WaitsOwned
<1>8. PumpOnWait'
  BY <1>1, <1>3 DEF PumpOnWait
<1>9. DeserNested'
  BY <1>1, <1>3 DEF DeserNested
<1>10. DeserOnStack'
  BY <1>1, <1>2, <1>3 DEF DeserOnStack
<1>11. StackInDeser'
  BY <1>1, <1>2, <1>3 DEF StackInDeser
<1>12. QED
  BY <1>4, <1>5, <1>6, <1>7, <1>8, <1>9, <1>10, <1>11

LEMMA InitCallStack == Init => CallStack
<1> SUFFICES ASSUME Init PROVE CallStack
  OBVIOUS
<1>1. \A p \in Proc : frames[p] = <<>> /\ nextId[p] = 1
  BY DEF Init
<1>2. \A c \in Ctx : deser[c] = <<>> /\ Owner[c] \in Proc
  BY ConstantsAssumption DEF Init
<1>3. \A p \in Proc, i \in Ids : outcome[p][i] = "none" /\ 1 <= i
  BY DEF Init, Ids
<1>4. \A k \in DOMAIN <<>> : FALSE
  OBVIOUS
<1>5. Numbered
  BY <1>1, <1>3 DEF Numbered
<1>6. PendingOnStack
  BY <1>1, <1>3, <1>4 DEF PendingOnStack
<1>7. WaitsNested /\ WaitsOwned /\ PumpOnWait
  BY <1>1, <1>4 DEF WaitsNested, WaitsOwned, PumpOnWait
<1>8. DeserNested /\ DeserOnStack /\ StackInDeser
  BY <1>1, <1>2, <1>4 DEF DeserNested, DeserOnStack, StackInDeser
<1>9. QED
  BY <1>5, <1>6, <1>7, <1>8 DEF CallStack

LEMMA NextCallStack ==
  ASSUME TypeOK, CallStack, [Next]_vars
  PROVE  CallStack'
<1>1. CASE SameCalls
  BY <1>1, SameCallsKeepCallStack
<1>2. ASSUME NEW p \in Proc, SendReturns(p) \/ OnSendDone(p) PROVE CallStack'
  <2>1. CASE SendReturns(p) \/ QuitsLoop(p)
    BY <2>1, SendEnds, SendEndsCallStack
  <2>2. CASE OnSendDone(p) /\ ~QuitsLoop(p)
    BY <2>2, StaleSendDone, <1>1
  <2>3. QED
    BY <1>2, <2>1, <2>2
<1>3. QED
  BY <1>1, <1>2, QuietStep, BeginSendCallStack, SendAfterShutdownCallStack, CrashCallStack

\* In terms of sets of numbers, as StackDiscipline has it.
LEMMA CallStackGives == CallStack => StackDiscipline
<1> SUFFICES ASSUME CallStack PROVE StackDiscipline
  OBVIOUS
<1>1. ASSUME NEW c \in Ctx
      PROVE  {s.id : s \in ToSet(deser[c])} =
               {f.id : f \in {g \in ToSet(frames[Owner[c]]) : g.kind = "wait" /\ g.ctx = c}}
  BY DEF CallStack, DeserOnStack, StackInDeser, ToSet
<1>2. QED
  BY <1>1 DEF CallStack, WaitsNested, DeserNested, StackDiscipline

(***************************************************************************)
(* Which steps change what.                                                *)
(***************************************************************************)
LEMMA WireChanges ==
  ASSUME [Next]_vars, wire' # wire
  PROVE  \/ \E p \in Proc : OnSendMessage(p) \/ OnChannelClosed(p) \/ Crash(p)
         \/ \E c \in Ctx : \/ OnChannelError(c) \/ ReceiveReply(c) \/ QueueMessage(c)
                           \/ PostMessage(c)
<1> USE DEF procVars
<1>1. ASSUME NEW p \in Proc, UserCode(p) PROVE Crash(p)
  BY <1>1 DEF UserCode, BeginSend, SendAfterShutdown, Destroy, Shutdown
<1>2. ASSUME NEW p \in Proc, HandlerReturns(p) \/ DeferredReplies(p) PROVE FALSE
  BY <1>2 DEF HandlerReturns, Reply, ReturnWithoutReply, DeferredReplies, SendDeferredReply
<1>3. ASSUME NEW p \in Proc, ListenerStep(p) \/ PumpMessages(p) PROVE FALSE
  BY <1>3 DEF ListenerStep, DispatchMessage, DispatchEnd, WaitDispatchEvent, SendReturns,
              DispatchMessagesTask, OnDispatchMessage, OnWaitableEventSignaled, OnSendDone,
              PumpMessages
<1>4. ASSUME NEW p \in Proc, IpcTaskStep(p) PROVE OnSendMessage(p) \/ OnChannelClosed(p)
  BY <1>4 DEF IpcTaskStep, DispatchReplies, SignalDispatchEvent
<1>5. ASSUME NEW c \in Ctx, OnShutdownSignaled(c) \/ DoneWaiting(c) \/ SendDoneWaiting(c)
      PROVE  FALSE
  BY <1>5 DEF OnShutdownSignaled, DoneWaiting, SendDoneWaiting
<1>6. ASSUME NEW c \in Ctx, NEW i \in Ids, OnSendTimeout(c, i) PROVE FALSE
  BY <1>6 DEF OnSendTimeout
<1>7. Next
  BY DEF vars
<1>8. QED
  BY <1>1, <1>2, <1>3, <1>4, <1>5, <1>6, <1>7 DEF Next, ChannelStep

LEMMA ItasksChanges ==
  ASSUME [Next]_vars, itasks' # itasks
  PROVE  \/ \E p \in Proc :
              \/ \E c \in Ctx, u \in UnblockFlags[p] : BeginSend(p, c, u)
              \/ \E c \in Ctx : Destroy(p, c)
              \/ \E ok \in ReplyResults : Reply(p, ok)
              \/ DeferredReplies(p)
              \/ Crash(p) \/ SendReturns(p) \/ OnSendDone(p)
              \/ OnSendMessage(p) \/ OnChannelClosed(p) \/ DispatchReplies(p)
<1> USE DEF procVars
<1>1. ASSUME NEW p \in Proc, UserCode(p)
      PROVE  Crash(p) \/ \E c \in Ctx : Destroy(p, c) \/ \E u \in UnblockFlags[p] : BeginSend(p, c, u)
  BY <1>1 DEF UserCode, SendAfterShutdown, Shutdown
<1>2. ASSUME NEW p \in Proc, HandlerReturns(p) PROVE \E ok \in ReplyResults : Reply(p, ok)
  BY <1>2 DEF HandlerReturns, ReturnWithoutReply
<1>3. ASSUME NEW p \in Proc, ListenerStep(p) \/ PumpMessages(p) PROVE SendReturns(p) \/ OnSendDone(p)
  BY <1>3 DEF ListenerStep, DispatchMessage, DispatchEnd, WaitDispatchEvent,
              DispatchMessagesTask, OnDispatchMessage, OnWaitableEventSignaled, PumpMessages
<1>4. ASSUME NEW p \in Proc, IpcTaskStep(p)
      PROVE  OnSendMessage(p) \/ OnChannelClosed(p) \/ DispatchReplies(p)
  BY <1>4 DEF IpcTaskStep, SignalDispatchEvent
<1>5. ASSUME NEW c \in Ctx, ChannelStep(c) \/ DoneWaiting(c) \/ SendDoneWaiting(c)
      PROVE  FALSE
  BY <1>5 DEF ChannelStep, ReceiveReply, QueueMessage, PostMessage, OnChannelError,
              OnShutdownSignaled, DoneWaiting, SendDoneWaiting
<1>6. ASSUME NEW c \in Ctx, NEW i \in Ids, OnSendTimeout(c, i) PROVE FALSE
  BY <1>6 DEF OnSendTimeout
<1>7. Next
  BY DEF vars
<1>8. QED
  BY <1>1, <1>2, <1>3, <1>4, <1>5, <1>6, <1>7 DEF Next

LEMMA DeserChanges ==
  ASSUME [Next]_vars, deser' # deser
  PROVE  \/ \E p \in Proc :
              \/ \E c \in Ctx, u \in UnblockFlags[p] : BeginSend(p, c, u)
              \/ \E c \in Ctx : Destroy(p, c)
              \/ Crash(p) \/ SendReturns(p) \/ OnSendDone(p)
              \/ OnSendMessage(p) \/ OnChannelClosed(p) \/ DispatchReplies(p)
         \/ \E c \in Ctx : \/ OnChannelError(c) \/ OnShutdownSignaled(c) \/ ReceiveReply(c)
                           \/ \E i \in Ids : OnSendTimeout(c, i)
<1> USE DEF ctxVars
<1>1. ASSUME NEW p \in Proc, UserCode(p)
      PROVE  Crash(p) \/ \E c \in Ctx : Destroy(p, c) \/ \E u \in UnblockFlags[p] : BeginSend(p, c, u)
  BY <1>1 DEF UserCode, SendAfterShutdown, Shutdown
<1>2. ASSUME NEW p \in Proc, HandlerReturns(p) \/ DeferredReplies(p) PROVE FALSE
  BY <1>2 DEF HandlerReturns, Reply, ReturnWithoutReply, DeferredReplies, SendDeferredReply
<1>3. ASSUME NEW p \in Proc, ListenerStep(p) \/ PumpMessages(p) PROVE SendReturns(p) \/ OnSendDone(p)
  BY <1>3 DEF ListenerStep, DispatchMessage, DispatchEnd, WaitDispatchEvent,
              DispatchMessagesTask, OnDispatchMessage, OnWaitableEventSignaled, PumpMessages
<1>4. ASSUME NEW p \in Proc, IpcTaskStep(p)
      PROVE  OnSendMessage(p) \/ OnChannelClosed(p) \/ DispatchReplies(p)
  BY <1>4 DEF IpcTaskStep, SignalDispatchEvent
<1>5. ASSUME NEW c \in Ctx, ChannelStep(c) \/ DoneWaiting(c) \/ SendDoneWaiting(c)
      PROVE  OnChannelError(c) \/ OnShutdownSignaled(c) \/ ReceiveReply(c)
  BY <1>5 DEF ChannelStep, QueueMessage, PostMessage, DoneWaiting, SendDoneWaiting
<1>6. Next
  BY DEF vars
<1>7. QED
  BY <1>1, <1>2, <1>3, <1>4, <1>5, <1>6 DEF Next

LEMMA HistoryChanges ==
  ASSUME [Next]_vars, ~UNCHANGED <<outcome, answered, nextId>>
  PROVE  \E p \in Proc :
           \/ \E c \in Ctx, u \in UnblockFlags[p] : BeginSend(p, c, u)
           \/ \E c \in Ctx : SendAfterShutdown(p, c)
           \/ \E ok \in ReplyResults : Reply(p, ok)
           \/ DeferredReplies(p)
           \/ SendReturns(p) \/ OnSendDone(p)
<1> USE DEF history, procVars
<1>1. ASSUME NEW p \in Proc, UserCode(p)
      PROVE  \E c \in Ctx : SendAfterShutdown(p, c) \/ \E u \in UnblockFlags[p] : BeginSend(p, c, u)
  BY <1>1 DEF UserCode, Shutdown, Destroy, Crash
<1>2. ASSUME NEW p \in Proc, HandlerReturns(p) PROVE \E ok \in ReplyResults : Reply(p, ok)
  BY <1>2 DEF HandlerReturns, ReturnWithoutReply
<1>3. ASSUME NEW p \in Proc, ListenerStep(p) \/ PumpMessages(p) PROVE SendReturns(p) \/ OnSendDone(p)
  BY <1>3 DEF ListenerStep, DispatchMessage, DispatchEnd, WaitDispatchEvent,
              DispatchMessagesTask, OnDispatchMessage, OnWaitableEventSignaled, PumpMessages
<1>4. ASSUME NEW p \in Proc, IpcTaskStep(p) PROVE FALSE
  BY <1>4, IpcTaskKeeps DEF IpcTaskStep, SignalDispatchEvent
<1>5. ASSUME NEW c \in Ctx, ChannelStep(c) \/ DoneWaiting(c) \/ SendDoneWaiting(c)
      PROVE  FALSE
  BY <1>5 DEF ChannelStep, ReceiveReply, QueueMessage, PostMessage, OnChannelError,
              OnShutdownSignaled, DoneWaiting, SendDoneWaiting
<1>6. ASSUME NEW c \in Ctx, NEW i \in Ids, OnSendTimeout(c, i) PROVE FALSE
  BY <1>6 DEF OnSendTimeout
<1>7. Next
  BY DEF vars
<1>8. QED
  BY <1>1, <1>2, <1>3, <1>4, <1>5, <1>6, <1>7 DEF Next

LEMMA RepliesChanges ==
  ASSUME [Next]_vars, replies' # replies
  PROVE  (\E p \in Proc : DispatchReplies(p) \/ Crash(p)) \/ \E c \in Ctx : ReceiveReply(c)
<1> USE DEF queueVars
<1>1. ASSUME NEW p \in Proc, UserCode(p) PROVE Crash(p)
  BY <1>1 DEF UserCode, BeginSend, SendAfterShutdown, Shutdown, Destroy
<1>2. ASSUME NEW p \in Proc, HandlerReturns(p) \/ DeferredReplies(p) PROVE FALSE
  BY <1>2 DEF HandlerReturns, Reply, ReturnWithoutReply, DeferredReplies, SendDeferredReply
<1>3. ASSUME NEW p \in Proc, ListenerStep(p) \/ PumpMessages(p) PROVE FALSE
  BY <1>3 DEF ListenerStep, DispatchMessage, DispatchEnd, WaitDispatchEvent, SendReturns,
              DispatchMessagesTask, OnDispatchMessage, OnWaitableEventSignaled, OnSendDone,
              PumpMessages
<1>4. ASSUME NEW p \in Proc, IpcTaskStep(p) PROVE DispatchReplies(p)
  BY <1>4, IpcTaskKeeps DEF IpcTaskStep, SignalDispatchEvent
<1>5. ASSUME NEW c \in Ctx, ChannelStep(c) \/ DoneWaiting(c) \/ SendDoneWaiting(c)
      PROVE  ReceiveReply(c)
  BY <1>5 DEF ChannelStep, QueueMessage, PostMessage, OnChannelError,
              OnShutdownSignaled, DoneWaiting, SendDoneWaiting
<1>6. ASSUME NEW c \in Ctx, NEW i \in Ids, OnSendTimeout(c, i) PROVE FALSE
  BY <1>6 DEF OnSendTimeout
<1>7. Next
  BY DEF vars
<1>8. QED
  BY <1>1, <1>2, <1>3, <1>4, <1>5, <1>6, <1>7 DEF Next

LEMMA MqChanges ==
  ASSUME [Next]_vars, mq' # mq
  PROVE  \/ \E p \in Proc : DispatchMessage(p) \/ Crash(p) \/ \E c \in Ctx : Destroy(p, c)
         \/ \E c \in Ctx : QueueMessage(c)
<1> USE DEF queueVars
<1>1. ASSUME NEW p \in Proc, UserCode(p) PROVE Crash(p) \/ \E c \in Ctx : Destroy(p, c)
  BY <1>1 DEF UserCode, BeginSend, SendAfterShutdown, Shutdown
<1>2. ASSUME NEW p \in Proc, HandlerReturns(p) \/ DeferredReplies(p) PROVE FALSE
  BY <1>2 DEF HandlerReturns, Reply, ReturnWithoutReply, DeferredReplies, SendDeferredReply
<1>3. ASSUME NEW p \in Proc, ListenerStep(p) \/ PumpMessages(p) PROVE DispatchMessage(p)
  BY <1>3 DEF ListenerStep, DispatchEnd, WaitDispatchEvent, SendReturns, DispatchMessagesTask,
              OnDispatchMessage, OnWaitableEventSignaled, OnSendDone, PumpMessages
<1>4. ASSUME NEW p \in Proc, IpcTaskStep(p) PROVE FALSE
  BY <1>4, IpcTaskKeeps DEF IpcTaskStep, SignalDispatchEvent
<1>5. ASSUME NEW c \in Ctx, ChannelStep(c) \/ DoneWaiting(c) \/ SendDoneWaiting(c)
      PROVE  QueueMessage(c)
  BY <1>5 DEF ChannelStep, ReceiveReply, PostMessage, OnChannelError, OnShutdownSignaled,
              DoneWaiting, SendDoneWaiting
<1>6. ASSUME NEW c \in Ctx, NEW i \in Ids, OnSendTimeout(c, i) PROVE FALSE
  BY <1>6 DEF OnSendTimeout
<1>7. Next
  BY DEF vars
<1>8. QED
  BY <1>1, <1>2, <1>3, <1>4, <1>5, <1>6, <1>7 DEF Next

LEMMA LtasksChanges ==
  ASSUME [Next]_vars, ltasks' # ltasks
  PROVE  \/ \E p \in Proc :
              \/ Crash(p) \/ DispatchMessagesTask(p) \/ OnDispatchMessage(p)
              \/ OnWaitableEventSignaled(p) \/ OnSendDone(p) \/ SignalDispatchEvent(p)
         \/ \E c \in Ctx : PostMessage(c) \/ DoneWaiting(c) \/ SendDoneWaiting(c)
<1> USE DEF procVars
<1>1. ASSUME NEW p \in Proc, UserCode(p) PROVE Crash(p)
  BY <1>1 DEF UserCode, BeginSend, SendAfterShutdown, Shutdown, Destroy
<1>2. ASSUME NEW p \in Proc, HandlerReturns(p) \/ DeferredReplies(p) PROVE FALSE
  BY <1>2 DEF HandlerReturns, Reply, ReturnWithoutReply, DeferredReplies, SendDeferredReply
<1>3. ASSUME NEW p \in Proc, ListenerStep(p) \/ PumpMessages(p)
      PROVE  \/ DispatchMessagesTask(p) \/ OnDispatchMessage(p) \/ OnWaitableEventSignaled(p)
             \/ OnSendDone(p)
  BY <1>3 DEF ListenerStep, DispatchMessage, DispatchEnd, WaitDispatchEvent, SendReturns,
              PumpMessages
<1>4. ASSUME NEW p \in Proc, IpcTaskStep(p) PROVE SignalDispatchEvent(p)
  BY <1>4, IpcTaskKeeps DEF IpcTaskStep
<1>5. ASSUME NEW c \in Ctx, ChannelStep(c) PROVE PostMessage(c)
  BY <1>5 DEF ChannelStep, ReceiveReply, QueueMessage, OnChannelError, OnShutdownSignaled
<1>6. ASSUME NEW c \in Ctx, NEW i \in Ids, OnSendTimeout(c, i) PROVE FALSE
  BY <1>6 DEF OnSendTimeout
<1>7. Next
  BY DEF vars
<1>8. QED
  BY <1>1, <1>2, <1>3, <1>4, <1>5, <1>6, <1>7 DEF Next

LEMMA FramesChanges ==
  ASSUME [Next]_vars, frames' # frames
  PROVE  \E p \in Proc :
           \/ \E c \in Ctx, u \in UnblockFlags[p] : BeginSend(p, c, u)
           \/ \E ok \in ReplyResults : Reply(p, ok)
           \/ ReturnWithoutReply(p) \/ Crash(p) \/ ListenerStep(p) \/ PumpMessages(p)
<1> USE DEF procVars
<1>1. ASSUME NEW p \in Proc, UserCode(p)
      PROVE  Crash(p) \/ \E c \in Ctx, u \in UnblockFlags[p] : BeginSend(p, c, u)
  BY <1>1 DEF UserCode, SendAfterShutdown, Shutdown, Destroy
<1>2. ASSUME NEW p \in Proc, DeferredReplies(p) PROVE FALSE
  BY <1>2 DEF DeferredReplies, SendDeferredReply
<1>3. ASSUME NEW p \in Proc, IpcTaskStep(p) PROVE FALSE
  BY <1>3, IpcTaskKeeps DEF IpcTaskStep, SignalDispatchEvent
<1>4. ASSUME NEW c \in Ctx, ChannelStep(c) \/ DoneWaiting(c) \/ SendDoneWaiting(c) PROVE FALSE
  BY <1>4 DEF ChannelStep, ReceiveReply, QueueMessage, PostMessage, OnChannelError,
              OnShutdownSignaled, DoneWaiting, SendDoneWaiting
<1>5. ASSUME NEW c \in Ctx, NEW i \in Ids, OnSendTimeout(c, i) PROVE FALSE
  BY <1>5 DEF OnSendTimeout
<1>6. Next
  BY DEF vars
<1>7. QED
  BY <1>1, <1>2, <1>3, <1>4, <1>5, <1>6 DEF Next, HandlerReturns

LEMMA OwedChanges ==
  ASSUME [Next]_vars, owed' # owed
  PROVE  \E p \in Proc : ReturnWithoutReply(p) \/ DeferredReplies(p) \/ Crash(p)
<1> USE DEF ctxVars
<1>1. ASSUME NEW p \in Proc, UserCode(p) PROVE Crash(p)
  BY <1>1 DEF UserCode, BeginSend, SendAfterShutdown, Shutdown, Destroy
<1>2. ASSUME NEW p \in Proc, HandlerReturns(p) PROVE ReturnWithoutReply(p)
  BY <1>2 DEF HandlerReturns, Reply
<1>3. ASSUME NEW p \in Proc, ListenerStep(p) \/ PumpMessages(p) PROVE FALSE
  BY <1>3 DEF ListenerStep, DispatchMessage, DispatchEnd, WaitDispatchEvent, SendReturns,
              DispatchMessagesTask, OnDispatchMessage, OnWaitableEventSignaled, OnSendDone,
              PumpMessages
<1>4. ASSUME NEW p \in Proc, IpcTaskStep(p) PROVE FALSE
  BY <1>4, IpcTaskKeeps DEF IpcTaskStep, SignalDispatchEvent
<1>5. ASSUME NEW c \in Ctx, ChannelStep(c) \/ DoneWaiting(c) \/ SendDoneWaiting(c) PROVE FALSE
  BY <1>5 DEF ChannelStep, ReceiveReply, QueueMessage, PostMessage, OnChannelError,
              OnShutdownSignaled, DoneWaiting, SendDoneWaiting
<1>6. ASSUME NEW c \in Ctx, NEW i \in Ids, OnSendTimeout(c, i) PROVE FALSE
  BY <1>6 DEF OnSendTimeout
<1>7. Next
  BY DEF vars
<1>8. QED
  BY <1>1, <1>2, <1>3, <1>4, <1>5, <1>6, <1>7 DEF Next

(***************************************************************************)
(* Where the messages in flight, the queued tasks and replies come from.   *)
(***************************************************************************)
LEMMA AppendedElement ==
  ASSUME NEW S, NEW s \in Seq(S), NEW e \in S, NEW k \in DOMAIN Append(s, e)
  PROVE  \/ k \in DOMAIN s /\ Append(s, e)[k] = s[k]
         \/ k = Len(s) + 1 /\ Append(s, e)[k] = e
<1> DEFINE n == Len(s)
           t == Append(s, e)
<1>1. /\ n \in Nat /\ DOMAIN s = 1..n /\ k \in 1..(n + 1)
      /\ \A i \in 1..n : t[i] = s[i]
      /\ t[n + 1] = e
  OBVIOUS
<1> HIDE DEF n, t
<1>2. k \in 1..n \/ k = n + 1
  BY <1>1
<1>3. QED
  BY <1>1, <1>2 DEF n, t

LEMMA TailElement ==
  ASSUME NEW S, NEW s \in Seq(S), s # <<>>, NEW k \in DOMAIN Tail(s)
  PROVE  k + 1 \in DOMAIN s /\ Tail(s)[k] = s[k + 1]
  OBVIOUS

LEMMA RemoveAtIs ==
  ASSUME NEW S, NEW s \in Seq(S), NEW j \in DOMAIN s
  PROVE  /\ DOMAIN RemoveAt(s, j) = 1..(Len(s) - 1)
         /\ \A k \in 1..(Len(s) - 1) : RemoveAt(s, j)[k] = IF k < j THEN s[k] ELSE s[k + 1]
<1> DEFINE n == Len(s)
           a == SubSeq(s, 1, j - 1)
           b == SubSeq(s, j + 1, n)
<1>1. n \in Nat /\ j \in 1..n /\ \A i \in 1..n : s[i] \in S
  OBVIOUS
<1>2. /\ a \in Seq(S) /\ Len(a) = j - 1 /\ \A i \in 1..(j - 1) : a[i] = s[i]
  <2>1. \A i \in 1..(j - 1) : s[i] \in S
    BY <1>1
  <2>2. /\ SubSeq(s, 1, j - 1) \in Seq(S)
        /\ Len(SubSeq(s, 1, j - 1)) = IF 1 <= j - 1 THEN (j - 1) - 1 + 1 ELSE 0
        /\ \A i \in 1..((j - 1) - 1 + 1) : SubSeq(s, 1, j - 1)[i] = s[1 + i - 1]
    BY <1>1, <2>1, SubSeqProperties
  <2>3. \A i \in 1..(j - 1) : i \in 1..((j - 1) - 1 + 1) /\ 1 + i - 1 = i
    BY <1>1
  <2>4. (IF 1 <= j - 1 THEN (j - 1) - 1 + 1 ELSE 0) = j - 1
    BY <1>1
  <2>5. QED
    BY <2>2, <2>3, <2>4
<1>3. /\ b \in Seq(S) /\ Len(b) = n - j /\ \A i \in 1..(n - j) : b[i] = s[j + i]
  <2>1. \A i \in (j + 1)..n : s[i] \in S
    BY <1>1
  <2>2. /\ SubSeq(s, j + 1, n) \in Seq(S)
        /\ Len(SubSeq(s, j + 1, n)) = IF j + 1 <= n THEN n - (j + 1) + 1 ELSE 0
        /\ \A i \in 1..(n - (j + 1) + 1) : SubSeq(s, j + 1, n)[i] = s[(j + 1) + i - 1]
    BY <1>1, <2>1, SubSeqProperties
  <2>3. \A i \in 1..(n - j) : i \in 1..(n - (j + 1) + 1) /\ (j + 1) + i - 1 = j + i
    BY <1>1
  <2>4. (IF j + 1 <= n THEN n - (j + 1) + 1 ELSE 0) = n - j
    BY <1>1
  <2>5. QED
    BY <2>2, <2>3, <2>4
<1>4. RemoveAt(s, j) = a \o b
  BY DEF RemoveAt
<1> HIDE DEF a, b
<1>5. DOMAIN (a \o b) = 1..(n - 1)
      /\ \A i \in 1..(n - 1) : (a \o b)[i] = IF i <= j - 1 THEN a[i] ELSE b[i - (j - 1)]
  <2>1. Len(a) + Len(b) = n - 1 /\ Len(a) = j - 1 /\ n - 1 \in Nat
    BY <1>1, <1>2, <1>3
  <2>2. /\ a \o b \in Seq(S) /\ Len(a \o b) = Len(a) + Len(b)
        /\ \A i \in 1..(Len(a) + Len(b)) :
             (a \o b)[i] = IF i <= Len(a) THEN a[i] ELSE b[i - Len(a)]
    BY <1>2, <1>3, ConcatProperties
  <2>3. DOMAIN (a \o b) = 1..Len(a \o b)
    BY <2>2
  <2>4. QED
    BY <2>1, <2>2, <2>3
<1>6. ASSUME NEW k \in 1..(n - 1), k < j PROVE (a \o b)[k] = s[k]
  <2>1. k \in 1..(j - 1) /\ k <= j - 1
    BY <1>1, <1>6
  <2>2. QED
    BY <1>2, <1>5, <2>1
<1>7. ASSUME NEW k \in 1..(n - 1), ~(k < j) PROVE (a \o b)[k] = s[k + 1]
  <2>1. k - (j - 1) \in 1..(n - j) /\ j + (k - (j - 1)) = k + 1 /\ ~(k <= j - 1)
    BY <1>1, <1>7
  <2>2. b[k - (j - 1)] = s[j + (k - (j - 1))]
    BY <1>3, <2>1
  <2>3. (a \o b)[k] = b[k - (j - 1)]
    BY <1>5, <2>1
  <2>4. QED
    BY <2>1, <2>2, <2>3
<1>8. QED
  BY <1>4, <1>5, <1>6, <1>7

LEMMA RemovedElement ==
  ASSUME NEW S, NEW s \in Seq(S), NEW j \in DOMAIN s, NEW k \in DOMAIN RemoveAt(s, j)
  PROVE  \E l \in DOMAIN s : RemoveAt(s, j)[k] = s[l]
<1>1. /\ k \in 1..(Len(s) - 1) /\ j \in 1..Len(s) /\ Len(s) \in Nat /\ DOMAIN s = 1..Len(s)
      /\ RemoveAt(s, j)[k] = IF k < j THEN s[k] ELSE s[k + 1]
  BY RemoveAtIs
<1>2. k \in DOMAIN s /\ k + 1 \in DOMAIN s
  BY <1>1
<1>3. QED
  BY <1>1, <1>2

LEMMA WireFrom ==
  ASSUME TypeOK, [Next]_vars, NEW c \in Ctx, NEW k \in DOMAIN wire'[c]
  PROVE  \/ \E j \in DOMAIN wire[c] : wire'[c][k] = wire[c][j]
         \/ \E p \in Proc : \E j \in DOMAIN itasks[p] :
              /\ itasks[p][j].kind = "send" /\ itasks[p][j].ctx \in Ctx
              /\ Peer[itasks[p][j].ctx] = c /\ wire'[c][k] = itasks[p][j].msg
<1> DEFINE Old == \E j \in DOMAIN wire[c] : wire'[c][k] = wire[c][j]
<1>1. wire \in [Ctx -> Seq(Message)] /\ wire[c] \in Seq(Message)
  BY DEF TypeOK, ProcTypeOK
<1>2. CASE wire' = wire
  BY <1>2
<1>3. ASSUME NEW p \in Proc, OnSendMessage(p), wire' # wire
      PROVE  \/ Old
             \/ \E j \in DOMAIN itasks[p] :
                  /\ itasks[p][j].kind = "send" /\ itasks[p][j].ctx \in Ctx
                  /\ Peer[itasks[p][j].ctx] = c /\ wire'[c][k] = itasks[p][j].msg
  <2> DEFINE t == Head(itasks[p])
  <2>1. itasks[p] \in Seq(IpcTask) /\ itasks[p] # <<>>
    BY <1>3 DEF OnSendMessage, HeadIpcTask, TypeOK, ProcTypeOK
  <2>2. 1 \in DOMAIN itasks[p] /\ t = itasks[p][1]
    BY <2>1
  <2>3. t.kind = "send" /\ t.ctx \in Ctx /\ t.msg \in Message
    BY <1>3, HeadIpcTaskType DEF OnSendMessage
  <2>4. wire' = [wire EXCEPT ![Peer[t.ctx]] = Append(@, t.msg)]
    BY <1>3 DEF OnSendMessage
  <2> HIDE DEF t
  <2>5. CASE Peer[t.ctx] # c
    <3>1. wire'[c] = wire[c]
      BY <1>1, <2>4, <2>5
    <3>2. QED
      BY <3>1
  <2>6. CASE Peer[t.ctx] = c
    <3>1. wire'[c] = Append(wire[c], t.msg)
      BY <1>1, <2>4, <2>6
    <3>2. \/ k \in DOMAIN wire[c] /\ wire'[c][k] = wire[c][k]
          \/ wire'[c][k] = t.msg
      BY <1>1, <2>3, <3>1, AppendedElement
    <3>3. QED
      BY <2>2, <2>3, <2>6, <3>2
  <2>7. QED
    BY <2>5, <2>6
<1>4. ASSUME NEW d \in Ctx, ReceiveReply(d) \/ QueueMessage(d) \/ PostMessage(d)
      PROVE  Old
  <2>1. wire[d] # <<>> /\ wire' = [wire EXCEPT ![d] = Tail(@)]
    BY <1>4 DEF ReceiveReply, QueueMessage, PostMessage, Receive
  <2>2. CASE d # c
    BY <1>1, <2>1, <2>2
  <2>3. CASE d = c
    <3>1. wire'[c] = Tail(wire[c])
      BY <1>1, <2>1, <2>3
    <3>2. k + 1 \in DOMAIN wire[c] /\ wire'[c][k] = wire[c][k + 1]
      BY <1>1, <2>1, <2>3, <3>1, TailElement
    <3>3. QED
      BY <3>2
  <2>4. QED
    BY <2>2, <2>3
<1>5. ASSUME \/ \E p \in Proc : OnChannelClosed(p) \/ Crash(p)
             \/ \E d \in Ctx : OnChannelError(d)
      PROVE  Old
  <2>1. wire'[c] = wire[c] \/ wire'[c] = <<>>
    BY <1>1, <1>5 DEF OnChannelClosed, Crash, OnChannelError
  <2>2. wire'[c] # <<>>
    OBVIOUS
  <2>3. QED
    BY <2>1, <2>2
<1>6. QED
  BY <1>2, <1>3, <1>4, <1>5, WireChanges

\* Requests a task may send are numbered, replies it may send are answers.
NewTask(t) ==
  \/ \E c \in Ctx, i \in Ids, u \in BOOLEAN :
       t = SendTask(c, SyncMsg(i, u)) /\ i < nextId'[Owner[c]]
  \/ \E c \in Ctx, i \in Ids, ok \in BOOLEAN :
       t = SendTask(c, ReplyMsg(i, ok)) /\ (ok => <<Owner[Peer[c]], i>> \in answered')

LEMMA ItasksFrom ==
  ASSUME TypeOK, [Next]_vars, NEW p \in Proc, NEW k \in DOMAIN itasks'[p],
         itasks'[p][k].kind = "send"
  PROVE  (\E j \in DOMAIN itasks[p] : itasks'[p][k] = itasks[p][j]) \/ NewTask(itasks'[p][k])
<1> DEFINE Old == \E j \in DOMAIN itasks[p] : itasks'[p][k] = itasks[p][j]
<1>1. itasks \in [Proc -> Seq(IpcTask)] /\ itasks[p] \in Seq(IpcTask)
  BY DEF TypeOK, ProcTypeOK
<1>2. CASE itasks' = itasks
  BY <1>2
<1>3. ASSUME NEW q \in Proc, NEW t \in IpcTask, itasks' = [itasks EXCEPT ![q] = Append(@, t)]
      PROVE  Old \/ itasks'[p][k] = t
  <2>1. CASE q # p
    BY <1>1, <1>3, <2>1
  <2>2. CASE q = p
    <3>1. itasks'[p] = Append(itasks[p], t)
      BY <1>1, <1>3, <2>2
    <3>2. \/ k \in DOMAIN itasks[p] /\ itasks'[p][k] = itasks[p][k]
          \/ itasks'[p][k] = t
      BY <1>1, <3>1, AppendedElement
    <3>3. QED
      BY <3>2
  <2>3. QED
    BY <2>1, <2>2
<1>4. ASSUME NEW q \in Proc, itasks[q] # <<>>, itasks' = [itasks EXCEPT ![q] = Tail(@)]
      PROVE  Old
  <2>1. CASE q # p
    BY <1>1, <1>4, <2>1
  <2>2. CASE q = p
    <3>1. itasks'[p] = Tail(itasks[p])
      BY <1>1, <1>4, <2>2
    <3>2. k + 1 \in DOMAIN itasks[p] /\ itasks'[p][k] = itasks[p][k + 1]
      BY <1>1, <1>4, <2>2, <3>1, TailElement
    <3>3. QED
      BY <3>2
  <2>3. QED
    BY <2>1, <2>2
<1>5. ASSUME NEW q \in Proc, NEW c \in Ctx, NEW u \in UnblockFlags[q], BeginSend(q, c, u)
      PROVE  Old \/ NewTask(itasks'[p][k])
  <2> DEFINE i == nextId[q]
  <2>1. i \in Ids /\ Owner[c] = q /\ nextId'[Owner[c]] = i + 1 /\ i \in Nat /\ u \in BOOLEAN
    <3>1. i <= Budget[q] /\ Owner[c] = q /\ nextId' = [nextId EXCEPT ![q] = i + 1]
      BY <1>5 DEF BeginSend, CanSend
    <3>2. nextId \in [Proc -> 1..(MaxSends + 1)]
      BY DEF TypeOK, ProcTypeOK
    <3>3. QED
      BY <3>1, <3>2, ConstantsAssumption DEF Ids
  <2>2. SendTask(c, SyncMsg(i, u)) \in IpcTask
    BY <2>1 DEF SendTask, SyncMsg, IpcTask, Message
  <2>3. itasks' = [itasks EXCEPT ![q] = Append(@, SendTask(c, SyncMsg(i, u)))]
    BY <1>5 DEF BeginSend, PostIpc
  <2>4. i < nextId'[Owner[c]]
    BY <2>1
  <2> HIDE DEF i
  <2>5. Old \/ itasks'[p][k] = SendTask(c, SyncMsg(i, u))
    BY <1>3, <2>2, <2>3
  <2>6. QED
    BY <2>1, <2>4, <2>5 DEF NewTask
<1>6. ASSUME NEW q \in Proc, NEW c \in Ctx, NEW i \in Ids, NEW ok \in BOOLEAN,
             PostIpc(q, SendTask(c, ReplyMsg(i, ok))),
             answered' = IF ok THEN answered \cup {<<Owner[Peer[c]], i>>} ELSE answered
      PROVE  Old \/ NewTask(itasks'[p][k])
  <2>1. SendTask(c, ReplyMsg(i, ok)) \in IpcTask
    BY DEF SendTask, ReplyMsg, IpcTask, Message
  <2>2. Old \/ itasks'[p][k] = SendTask(c, ReplyMsg(i, ok))
    BY <1>3, <1>6, <2>1 DEF PostIpc
  <2>3. QED
    BY <1>6, <2>2 DEF NewTask
<1>7. ASSUME NEW q \in Proc, NEW ok \in ReplyResults, Reply(q, ok)
      PROVE  Old \/ NewTask(itasks'[p][k])
  <2>1. Top(q).ctx \in Ctx /\ Top(q).id \in Ids
    BY <1>7, TopFrame DEF Reply, TopIs, Top
  <2>2. QED
    BY <1>6, <1>7, <2>1, ConstantsAssumption DEF Reply
<1>8. ASSUME NEW q \in Proc, DeferredReplies(q)
      PROVE  Old \/ NewTask(itasks'[p][k])
  BY <1>6, <1>8, ConstantsAssumption DEF DeferredReplies, SendDeferredReply
<1>9. ASSUME NEW q \in Proc, SendReturns(q) \/ QuitsLoop(q) \/ \E c \in Ctx : Destroy(q, c)
      PROVE  Old
  <2>1. PICK t \in IpcTask : PostIpc(q, t) /\ t.kind # "send"
    <3>1. RepliesTask \in IpcTask /\ RepliesTask.kind # "send"
      BY DEF RepliesTask, IpcTask
    <3>2. \A c \in Ctx : ClosedTask(c) \in IpcTask /\ ClosedTask(c).kind # "send"
      BY DEF ClosedTask, IpcTask
    <3>3. PostIpc(q, RepliesTask) \/ \E c \in Ctx : PostIpc(q, ClosedTask(c))
      BY <1>9 DEF SendReturns, QuitsLoop, OnSendDone, EndSend, Pop, Destroy
    <3>4. QED
      BY <3>1, <3>2, <3>3
  <2>2. QED
    BY <1>3, <2>1 DEF PostIpc
<1>10. ASSUME NEW q \in Proc, OnSendMessage(q) \/ OnChannelClosed(q) \/ DispatchReplies(q)
       PROVE  Old
  BY <1>4, <1>10, IpcTaskKeeps
<1>11. ASSUME NEW q \in Proc, Crash(q) PROVE Old
  <2>1. itasks' = [itasks EXCEPT ![q] = <<>>]
    BY <1>11 DEF Crash
  <2>2. q # p
    BY <1>1, <2>1
  <2>3. QED
    BY <1>1, <2>1, <2>2
<1>12. ASSUME NEW q \in Proc, OnSendDone(q), ~QuitsLoop(q) PROVE itasks' = itasks
  BY <1>12 DEF OnSendDone, QuitsLoop
<1>13. QED
  BY <1>2, <1>5, <1>7, <1>8, <1>9, <1>10, <1>11, <1>12, ItasksChanges

LEMMA ReceivedReply ==
  ASSUME TypeOK, NEW c \in Ctx, ReceiveReply(c)
  PROVE  \E j \in DOMAIN wire[c] : /\ wire[c][j] = Head(wire[c]) /\ wire[c][j].type = "reply"
                                   /\ Head(wire[c]).id \in Ids /\ Head(wire[c]).ok \in BOOLEAN
<1>1. wire[c] \in Seq(Message) /\ wire[c] # <<>>
  BY DEF ReceiveReply, Receive, TypeOK, ProcTypeOK
<1>2. 1 \in DOMAIN wire[c] /\ wire[c][1] = Head(wire[c])
  BY <1>1
<1>3. QED
  BY <1>2, ReceiveType DEF ReceiveReply

LEMMA RepliesFrom ==
  ASSUME TypeOK, [Next]_vars, NEW p \in Proc, NEW k \in DOMAIN replies'[p]
  PROVE  \/ \E j \in DOMAIN replies[p] : replies'[p][k] = replies[p][j]
         \/ \E c \in Ctx : \E j \in DOMAIN wire[c] :
              /\ wire[c][j].type = "reply"
              /\ replies'[p][k] = [ctx |-> c, id |-> wire[c][j].id, ok |-> wire[c][j].ok]
<1> DEFINE Old == \E j \in DOMAIN replies[p] : replies'[p][k] = replies[p][j]
<1>1. replies \in [Proc -> Seq(QueuedReply)] /\ replies[p] \in Seq(QueuedReply)
  BY DEF TypeOK, QueueTypeOK
<1>2. CASE replies' = replies
  BY <1>2
<1>3. ASSUME NEW q \in Proc, DispatchReplies(q), replies' # replies PROVE Old
  <2>1. PICK j \in DOMAIN replies[q] : replies' = [replies EXCEPT ![q] = RemoveAt(@, j)]
    BY <1>3 DEF DispatchReplies
  <2>2. CASE q # p
    BY <1>1, <2>1, <2>2
  <2>3. CASE q = p
    <3>1. replies'[p] = RemoveAt(replies[p], j)
      BY <1>1, <2>1, <2>3
    <3>2. QED
      BY <1>1, <2>1, <2>3, <3>1, RemovedElement
  <2>4. QED
    BY <2>2, <2>3
<1>4. ASSUME NEW c \in Ctx, ReceiveReply(c), replies' # replies
      PROVE  \/ Old
             \/ \E j \in DOMAIN wire[c] :
                  /\ wire[c][j].type = "reply"
                  /\ replies'[p][k] = [ctx |-> c, id |-> wire[c][j].id, ok |-> wire[c][j].ok]
  <2> DEFINE q == [ctx |-> c, id |-> Head(wire[c]).id, ok |-> Head(wire[c]).ok]
  <2>1. replies' = [replies EXCEPT ![Owner[c]] = Append(@, q)] /\ Owner[c] \in Proc
    BY <1>4, ConstantsAssumption DEF ReceiveReply
  <2>2. PICK j \in DOMAIN wire[c] : /\ wire[c][j] = Head(wire[c]) /\ wire[c][j].type = "reply"
                                   /\ Head(wire[c]).id \in Ids /\ Head(wire[c]).ok \in BOOLEAN
    BY <1>4, ReceivedReply
  <2>3. q \in QueuedReply
    BY <2>2 DEF QueuedReply
  <2>4. q = [ctx |-> c, id |-> wire[c][j].id, ok |-> wire[c][j].ok]
    BY <2>2
  <2> HIDE DEF q
  <2>5. CASE Owner[c] # p
    BY <1>1, <2>1, <2>5
  <2>6. CASE Owner[c] = p
    <3>1. replies'[p] = Append(replies[p], q)
      BY <1>1, <2>1, <2>6
    <3>2. \/ k \in DOMAIN replies[p] /\ replies'[p][k] = replies[p][k]
          \/ replies'[p][k] = q
      BY <1>1, <2>3, <3>1, AppendedElement
    <3>3. QED
      BY <2>2, <2>4, <3>2
  <2>7. QED
    BY <2>5, <2>6
<1>5. ASSUME NEW q \in Proc, Crash(q) PROVE Old
  <2>1. replies' = [replies EXCEPT ![q] = <<>>]
    BY <1>5 DEF Crash
  <2>2. q # p
    BY <1>1, <2>1
  <2>3. QED
    BY <1>1, <2>1, <2>2
<1>6. QED
  BY <1>2, <1>3, <1>4, <1>5, RepliesChanges

\* A good reply for Send i of context c has arrived.
GoodReplyFor(c, i) ==
  \/ \E j \in DOMAIN wire[c] : wire[c][j].type = "reply" /\ wire[c][j].ok /\ wire[c][j].id = i
  \/ \E p \in Proc : \E j \in DOMAIN replies[p] :
       replies[p][j].ctx = c /\ replies[p][j].ok /\ replies[p][j].id = i

\* The entries of s are those of t, with results that good replies may have set.
ResultsFrom(c, s, t) ==
  \A k \in DOMAIN s : s[k].result =>
    \/ \E j \in DOMAIN t : t[j].result /\ t[j].id = s[k].id
    \/ GoodReplyFor(c, s[k].id)

LEMMA ResultsFromEmpty == ASSUME NEW c, NEW t PROVE ResultsFrom(c, <<>>, t)
<1>1. \A k \in DOMAIN <<>> : FALSE
  OBVIOUS
<1>2. QED
  BY <1>1 DEF ResultsFrom

LEMMA CancelResults ==
  ASSUME TypeOK, NEW d \in Ctx, CancelPendingSends(d), NEW c \in Ctx
  PROVE  ResultsFrom(c, deser'[c], deser[c])
<1> DEFINE s == deser[d]
           t == [k \in DOMAIN s |-> [s[k] EXCEPT !.done = TRUE]]
<1>1. deser' = [deser EXCEPT ![d] = t] /\ deser \in [Ctx -> Seq(PendingSend)]
  BY DEF CancelPendingSends, TypeOK, CtxTypeOK
<1>2. ASSUME NEW k \in DOMAIN s PROVE t[k].result = s[k].result /\ t[k].id = s[k].id
  <2>1. s[k] \in PendingSend
    BY <1>1
  <2>2. t[k] = [s[k] EXCEPT !.done = TRUE]
    OBVIOUS
  <2>3. QED
    BY <2>1, <2>2 DEF PendingSend
<1>3. DOMAIN t = DOMAIN s
  OBVIOUS
<1> HIDE DEF t
<1>4. CASE c = d
  BY <1>1, <1>2, <1>3, <1>4 DEF ResultsFrom
<1>5. CASE c # d
  BY <1>1, <1>5 DEF ResultsFrom
<1>6. QED
  BY <1>4, <1>5

LEMMA UnblockResults ==
  ASSUME TypeOK, NEW d \in Ctx, NEW i, NEW ok \in BOOLEAN, IsTopSend(d, i), Unblock(d, ok),
         ok => GoodReplyFor(d, i), NEW c \in Ctx
  PROVE  ResultsFrom(c, deser'[c], deser[c])
<1> DEFINE s == deser[d]
           n == Len(s)
           e == [s[n] EXCEPT !.done = TRUE, !.result = ok]
<1>1. /\ deser \in [Ctx -> Seq(PendingSend)] /\ s \in Seq(PendingSend)
      /\ s # <<>> /\ n \in DOMAIN s /\ s[n] \in PendingSend /\ s[n].id = i
  BY DEF TypeOK, CtxTypeOK, IsTopSend, Last
<1>2. deser' = [deser EXCEPT ![d] = [s EXCEPT ![n] = e]]
  BY DEF Unblock, Last
<1>3. e.result = ok /\ e.id = i
  BY <1>1 DEF PendingSend
<1> HIDE DEF e
<1>4. CASE c # d
  BY <1>1, <1>2, <1>4 DEF ResultsFrom
<1>5. CASE c = d
  <2>1. deser'[c] = [s EXCEPT ![n] = e]
    BY <1>1, <1>2, <1>5
  <2>2. ASSUME NEW k \in DOMAIN deser'[c], deser'[c][k].result
        PROVE  \/ \E j \in DOMAIN s : s[j].result /\ s[j].id = deser'[c][k].id
               \/ GoodReplyFor(c, deser'[c][k].id)
    <3>1. k \in DOMAIN s /\ deser'[c][k] = IF k = n THEN e ELSE s[k]
      BY <1>1, <2>1
    <3>2. QED
      BY <1>3, <1>5, <2>2, <3>1
  <2>3. QED
    BY <1>5, <2>2 DEF ResultsFrom
<1>6. QED
  BY <1>4, <1>5

LEMMA DeserFrom ==
  ASSUME TypeOK, [Next]_vars, NEW c \in Ctx
  PROVE  ResultsFrom(c, deser'[c], deser[c])
<1>1. deser \in [Ctx -> Seq(PendingSend)] /\ deser[c] \in Seq(PendingSend)
  BY DEF TypeOK, CtxTypeOK
<1>2. CASE deser' = deser
  BY <1>2 DEF ResultsFrom
<1>3. ASSUME NEW d \in Ctx, CancelPendingSends(d) PROVE ResultsFrom(c, deser'[c], deser[c])
  BY <1>3, CancelResults
<1>4. ASSUME NEW p \in Proc, OnSendMessage(p) \/ OnChannelClosed(p), deser' # deser
      PROVE  ResultsFrom(c, deser'[c], deser[c])
  BY <1>3, <1>4, IpcTaskCancels
<1>5. ASSUME NEW d \in Ctx, OnChannelError(d) \/ OnShutdownSignaled(d) \/ \E p \in Proc : Destroy(p, d)
      PROVE  ResultsFrom(c, deser'[c], deser[c])
  BY <1>3, <1>5 DEF OnChannelError, OnShutdownSignaled, Destroy
<1>6. ASSUME NEW p \in Proc, NEW d \in Ctx, NEW u \in UnblockFlags[p], BeginSend(p, d, u)
      PROVE  ResultsFrom(c, deser'[c], deser[c])
  <2> DEFINE e == [id |-> nextId[p], done |-> FALSE, result |-> FALSE]
  <2>1. deser' = [deser EXCEPT ![d] = Append(@, e)] /\ ~e.result
    BY <1>6 DEF BeginSend
  <2>2. e \in PendingSend
    <3>1. nextId[p] <= Budget[p] /\ nextId[p] \in 1..(MaxSends + 1)
      BY <1>6 DEF BeginSend, CanSend, TypeOK, ProcTypeOK
    <3>2. nextId[p] \in Ids
      BY <3>1, ConstantsAssumption DEF Ids
    <3>3. QED
      BY <3>2 DEF PendingSend
  <2> HIDE DEF e
  <2>3. CASE c # d
    BY <1>1, <2>1, <2>3 DEF ResultsFrom
  <2>4. CASE c = d
    <3>1. deser'[c] = Append(deser[c], e)
      BY <1>1, <2>1, <2>4
    <3>2. ASSUME NEW k \in DOMAIN deser'[c], deser'[c][k].result
          PROVE  k \in DOMAIN deser[c] /\ deser'[c][k] = deser[c][k]
      BY <1>1, <2>1, <2>2, <3>1, <3>2, AppendedElement
    <3>3. QED
      BY <3>2 DEF ResultsFrom
  <2>5. QED
    BY <2>3, <2>4
<1>7. ASSUME NEW p \in Proc, OnSendDone(p) \/ SendReturns(p), deser' # deser
      PROVE  ResultsFrom(c, deser'[c], deser[c])
  <2> DEFINE d == Top(p).ctx
  <2>1. ~Idle(p) /\ deser[d] # <<>> /\ deser' = [deser EXCEPT ![d] = Front(@)]
    BY <1>7 DEF OnSendDone, SendReturns, EndSend, Pop, TopIs
  <2>2. d \in Ctx
    BY <2>1, TopFrame
  <2> HIDE DEF d
  <2>3. CASE c # d
    BY <1>1, <2>1, <2>2, <2>3 DEF ResultsFrom
  <2>4. CASE c = d
    <3>1. deser'[c] = Front(deser[c])
      BY <1>1, <2>1, <2>4
    <3>2. /\ Front(deser[c]) \in Seq(PendingSend) /\ Len(Front(deser[c])) = Len(deser[c]) - 1
          /\ \A k \in 1..(Len(deser[c]) - 1) : Front(deser[c])[k] = deser[c][k]
      BY <1>1, <2>1, <2>4, FrontType
    <3>3. ASSUME NEW k \in DOMAIN deser'[c] PROVE k \in DOMAIN deser[c] /\ deser'[c][k] = deser[c][k]
      BY <1>1, <3>1, <3>2
    <3>4. QED
      BY <3>3 DEF ResultsFrom
  <2>5. QED
    BY <2>3, <2>4
<1>8. ASSUME NEW p \in Proc, Crash(p) PROVE ResultsFrom(c, deser'[c], deser[c])
  <2>1. deser'[c] = <<>> \/ deser'[c] = deser[c]
    BY <1>8 DEF Crash
  <2>2. QED
    BY <2>1, ResultsFromEmpty DEF ResultsFrom
<1>9. ASSUME NEW d \in Ctx, NEW i \in Ids, OnSendTimeout(d, i)
      PROVE  ResultsFrom(c, deser'[c], deser[c])
  <2>1. PICK k \in DOMAIN deser[d] :
          deser' = [deser EXCEPT ![d] = [deser[d] EXCEPT ![k] = [deser[d][k] EXCEPT !.done = TRUE]]]
    BY <1>9 DEF OnSendTimeout
  <2> DEFINE e == [deser[d][k] EXCEPT !.done = TRUE]
  <2>2. deser[d][k] \in PendingSend
    BY <1>1
  <2>3. e.id = deser[d][k].id /\ e.result = deser[d][k].result
    BY <2>2 DEF PendingSend
  <2> HIDE DEF e
  <2>4. CASE c # d
    BY <1>1, <2>1, <2>4 DEF ResultsFrom
  <2>5. CASE c = d
    <3>1. deser'[c] = [deser[c] EXCEPT ![k] = e]
      BY <1>1, <2>1, <2>5 DEF e
    <3>2. ASSUME NEW l \in DOMAIN deser'[c]
          PROVE  /\ l \in DOMAIN deser[c] /\ deser'[c][l].id = deser[c][l].id
                 /\ deser'[c][l].result = deser[c][l].result
      BY <2>3, <2>5, <3>1
    <3>3. QED
      BY <3>2 DEF ResultsFrom
  <2>6. QED
    BY <2>4, <2>5
<1>10. ASSUME NEW d \in Ctx, ReceiveReply(d), deser' # deser
       PROVE  ResultsFrom(c, deser'[c], deser[c])
  <2>1. PICK j \in DOMAIN wire[d] : /\ wire[d][j] = Head(wire[d]) /\ wire[d][j].type = "reply"
                                   /\ Head(wire[d]).id \in Ids /\ Head(wire[d]).ok \in BOOLEAN
    BY <1>10, ReceivedReply
  <2>2. IsTopSend(d, wire[d][j].id) /\ Unblock(d, wire[d][j].ok)
    BY <1>10, <2>1 DEF ReceiveReply
  <2>3. wire[d][j].ok => GoodReplyFor(d, wire[d][j].id)
    BY <2>1 DEF GoodReplyFor
  <2>4. QED
    BY <2>1, <2>2, <2>3, UnblockResults
<1>11. ASSUME NEW p \in Proc, DispatchReplies(p), deser' # deser
       PROVE  ResultsFrom(c, deser'[c], deser[c])
  <2>1. PICK k \in DOMAIN replies[p] :
          Unblocks(p, k) /\ Unblock(replies[p][k].ctx, replies[p][k].ok)
    BY <1>11 DEF DispatchReplies
  <2>2. replies[p][k] \in QueuedReply
    BY DEF TypeOK, QueueTypeOK
  <2>3. replies[p][k].ctx \in Ctx /\ replies[p][k].ok \in BOOLEAN
    BY <2>2 DEF QueuedReply
  <2>4. replies[p][k].ok => GoodReplyFor(replies[p][k].ctx, replies[p][k].id)
    BY DEF GoodReplyFor
  <2>5. QED
    BY <2>1, <2>3, <2>4, UnblockResults DEF Unblocks
<1>12. QED
  BY <1>2, <1>4, <1>5, <1>6, <1>7, <1>8, <1>9, <1>10, <1>11, DeserChanges

(***************************************************************************)
(* What becomes of requests and replies.                                   *)
(***************************************************************************)
\* With next numbers n, the peer of c has handed out number i.
SentTo(n, c, i) == i < n[Owner[Peer[c]]]

Sent ==
  /\ \A c \in Ctx : \A k \in DOMAIN wire[c] :
       wire[c][k].type = "sync" => SentTo(nextId, c, wire[c][k].id)
  /\ \A p \in Proc : \A k \in DOMAIN itasks[p] :
       itasks[p][k].kind = "send" /\ itasks[p][k].msg.type = "sync" =>
         SentTo(nextId, Peer[itasks[p][k].ctx], itasks[p][k].msg.id)
  /\ \A p \in Proc : \A m \in mq[p] : SentTo(nextId, m.ctx, m.id)
  /\ \A p \in Proc : \A k \in DOMAIN ltasks[p] :
       ltasks[p][k].kind = "message" => SentTo(nextId, ltasks[p][k].ctx, ltasks[p][k].id)
  /\ \A p \in Proc : \A k \in DOMAIN frames[p] :
       frames[p][k].kind = "handler" => SentTo(nextId, frames[p][k].ctx, frames[p][k].id)
  /\ \A c \in Ctx : \A i \in owed[c] : SentTo(nextId, c, i)

\* The Send i on context c is among the answered ones.
AnsweredTo(a, c, i) == <<Owner[c], i>> \in a

Answered ==
  /\ \A c \in Ctx : \A k \in DOMAIN deser[c] :
       deser[c][k].result => AnsweredTo(answered, c, deser[c][k].id)
  /\ \A c \in Ctx : \A k \in DOMAIN wire[c] :
       wire[c][k].type = "reply" /\ wire[c][k].ok => AnsweredTo(answered, c, wire[c][k].id)
  /\ \A p \in Proc : \A k \in DOMAIN itasks[p] :
       LET t == itasks[p][k] IN
         t.kind = "send" /\ t.msg.type = "reply" /\ t.msg.ok =>
           AnsweredTo(answered, Peer[t.ctx], t.msg.id)
  /\ \A p \in Proc : \A k \in DOMAIN replies[p] :
       replies[p][k].ok => AnsweredTo(answered, replies[p][k].ctx, replies[p][k].id)
  /\ TrueMeansAnswered

IInv == TypeOK /\ CallStack /\ Sent /\ Answered /\ NoSendLeftBehind

(***************************************************************************)
(* Requests: whatever carries a number, its sender has handed it out.      *)
(***************************************************************************)
LEMMA NextIdGrows ==
  ASSUME TypeOK, [Next]_vars, NEW p \in Proc
  PROVE  nextId[p] \in Nat /\ nextId'[p] \in Nat /\ nextId[p] <= nextId'[p]
<1>1. nextId \in [Proc -> 1..(MaxSends + 1)] /\ nextId[p] \in Nat
  BY ConstantsAssumption DEF TypeOK, ProcTypeOK
<1>2. nextId' = nextId \/ \E q \in Proc : nextId' = [nextId EXCEPT ![q] = @ + 1]
  <2>1. CASE UNCHANGED <<outcome, answered, nextId>>
    BY <2>1
  <2>2. ASSUME NEW q \in Proc, NEW c \in Ctx,
               SendAfterShutdown(q, c) \/ \E u \in UnblockFlags[q] : BeginSend(q, c, u)
        PROVE  nextId' = [nextId EXCEPT ![q] = @ + 1]
    BY <2>2 DEF BeginSend, SendAfterShutdown
  <2>3. ASSUME NEW q \in Proc, SendReturns(q) \/ OnSendDone(q) PROVE nextId' = nextId
    BY <2>3 DEF SendReturns, OnSendDone
  <2>4. ASSUME NEW q \in Proc, (\E ok \in ReplyResults : Reply(q, ok)) \/ DeferredReplies(q)
        PROVE  nextId' = nextId
    BY <2>4 DEF Reply, DeferredReplies, SendDeferredReply
  <2>5. QED
    BY <2>1, <2>2, <2>3, <2>4, HistoryChanges
<1>3. QED
  BY <1>1, <1>2

LEMMA SentToGrows ==
  ASSUME TypeOK, [Next]_vars, NEW c \in Ctx, NEW i \in Nat, SentTo(nextId, c, i)
  PROVE  SentTo(nextId', c, i)
<1>1. Owner[Peer[c]] \in Proc
  BY ConstantsAssumption
<1>2. QED
  BY <1>1, NextIdGrows DEF SentTo

LEMMA MqSent ==
  ASSUME TypeOK, Sent, [Next]_vars, NEW p \in Proc, NEW m \in mq'[p]
  PROVE  SentTo(nextId', m.ctx, m.id)
<1>1. mq \in [Proc -> SUBSET QueuedMessage]
  BY DEF TypeOK, QueueTypeOK
<1>2. CASE m \in mq[p]
  <2>1. m.ctx \in Ctx /\ m.id \in Nat
    BY <1>1, <1>2 DEF QueuedMessage, Ids
  <2>2. QED
    BY <1>2, <2>1, SentToGrows DEF Sent
<1>3. CASE m \notin mq[p]
  <2>1. PICK c \in Ctx : QueueMessage(c)
    <3>1. ASSUME NEW q \in Proc, DispatchMessage(q) \/ Crash(q) \/ \E c \in Ctx : Destroy(q, c)
          PROVE  mq'[p] \subseteq mq[p]
      <4>1. \E S : mq' = [mq EXCEPT ![q] = @ \ S]
        <5>1. CASE Crash(q)
          <6>1. mq' = [mq EXCEPT ![q] = @ \ mq[q]]
            BY <5>1 DEF Crash
          <6>2. QED
            BY <6>1
        <5>2. CASE DispatchMessage(q)
          BY <5>2 DEF DispatchMessage
        <5>3. CASE \E c \in Ctx : Destroy(q, c)
          BY <5>3 DEF Destroy, RemoveContext
        <5>4. QED
          BY <3>1, <5>1, <5>2, <5>3
      <4>2. QED
        BY <1>1, <4>1
    <3>2. QED
      BY <1>3, <3>1, MqChanges
  <2>2. m = [ctx |-> c, id |-> Head(wire[c]).id, at |-> version[Owner[c]] + 1]
    BY <1>1, <1>3, <2>1 DEF QueueMessage
  <2>3. Head(wire[c]).type = "sync" /\ Head(wire[c]).id \in Ids
    BY <2>1, ReceiveType DEF QueueMessage
  <2>4. 1 \in DOMAIN wire[c] /\ wire[c][1] = Head(wire[c])
    BY <2>1 DEF QueueMessage, Receive, TypeOK, ProcTypeOK
  <2>5. SentTo(nextId, c, Head(wire[c]).id)
    BY <2>3, <2>4 DEF Sent
  <2>6. QED
    BY <2>2, <2>3, <2>5, SentToGrows DEF Ids
<1>4. QED
  BY <1>2, <1>3

LEMMA LtasksFrom ==
  ASSUME TypeOK, [Next]_vars, NEW p \in Proc, NEW k \in DOMAIN ltasks'[p],
         ltasks'[p][k].kind = "message"
  PROVE  \/ \E j \in DOMAIN ltasks[p] : ltasks'[p][k] = ltasks[p][j]
         \/ \E c \in Ctx : /\ ltasks'[p][k] = Task("message", c, Head(wire[c]).id)
                           /\ Receive(c, "sync")
<1> DEFINE Old == \E j \in DOMAIN ltasks[p] : ltasks'[p][k] = ltasks[p][j]
<1>1. ltasks \in [Proc -> Seq(ListenerTask)] /\ ltasks[p] \in Seq(ListenerTask)
  BY DEF TypeOK, ProcTypeOK
<1>2. CASE ltasks' = ltasks
  BY <1>2
<1>3. ASSUME NEW q \in Proc, NEW t \in ListenerTask, PostListener(q, t)
      PROVE  Old \/ ltasks'[p][k] = t
  <2>1. CASE q # p
    BY <1>1, <1>3, <2>1 DEF PostListener
  <2>2. CASE q = p
    <3>1. ltasks'[p] = Append(ltasks[p], t)
      BY <1>1, <1>3, <2>2 DEF PostListener
    <3>2. \/ k \in DOMAIN ltasks[p] /\ ltasks'[p][k] = ltasks[p][k]
          \/ ltasks'[p][k] = t
      BY <1>1, <3>1, AppendedElement
    <3>3. QED
      BY <3>2
  <2>3. QED
    BY <2>1, <2>2
<1>4. ASSUME NEW q \in Proc, NEW d, HeadTask(q, d) PROVE Old
  <2>1. ltasks[q] # <<>> /\ ltasks' = [ltasks EXCEPT ![q] = Tail(@)]
    BY <1>4 DEF HeadTask
  <2>2. CASE q # p
    BY <1>1, <2>1, <2>2
  <2>3. CASE q = p
    <3>1. ltasks'[p] = Tail(ltasks[p])
      BY <1>1, <2>1, <2>3
    <3>2. k + 1 \in DOMAIN ltasks[p] /\ ltasks'[p][k] = ltasks[p][k + 1]
      BY <1>1, <2>1, <2>3, <3>1, TailElement
    <3>3. QED
      BY <3>2
  <2>4. QED
    BY <2>2, <2>3
<1>5. ASSUME NEW q \in Proc, Crash(q) PROVE Old
  <2>1. ltasks' = [ltasks EXCEPT ![q] = <<>>]
    BY <1>5 DEF Crash
  <2>2. q # p
    BY <1>1, <2>1
  <2>3. QED
    BY <1>1, <2>1, <2>2
<1>6. ASSUME NEW q \in Proc,
             \/ DispatchMessagesTask(q) \/ OnDispatchMessage(q) \/ OnWaitableEventSignaled(q)
             \/ OnSendDone(q)
      PROVE  Old
  BY <1>4, <1>6
  DEF DispatchMessagesTask, OnDispatchMessage, OnWaitableEventSignaled, OnSendDone
<1>7. ASSUME NEW q \in Proc, SignalDispatchEvent(q), ltasks' # ltasks PROVE Old
  <2> DEFINE t == Task("dispatch", queueing[q].ctx, 0)
  <2>1. queueing[q].ctx \in Ctx /\ PostListener(q, t)
    BY <1>7 DEF SignalDispatchEvent, TypeOK, QueueTypeOK
  <2>2. t \in ListenerTask /\ t.kind = "dispatch"
    BY <2>1 DEF Task, ListenerTask
  <2>3. QED
    BY <1>3, <2>1, <2>2
<1>8. ASSUME NEW c \in Ctx, DoneWaiting(c) PROVE Old
  <2>1. Task("watch", c, 0) \in ListenerTask /\ Task("watch", c, 0).kind = "watch"
    BY DEF Task, ListenerTask
  <2>2. PostListener(Owner[c], Task("watch", c, 0)) /\ Owner[c] \in Proc
    BY <1>8, ConstantsAssumption DEF DoneWaiting
  <2>3. QED
    BY <1>3, <2>1, <2>2
<1>9. ASSUME NEW c \in Ctx, SendDoneWaiting(c) PROVE Old
  <2> DEFINE i == sendWatch[Owner[c]].id
  <2>1. PostListener(Owner[c], Task("sendDone", c, i)) /\ Owner[c] \in Proc
    BY <1>9, ConstantsAssumption DEF SendDoneWaiting
  <2>2. i \in Ids
    <3>1. PICK s \in ToSet(deser[c]) : s.id = i
      BY <1>9 DEF SendDoneWaiting
    <3>2. PICK l \in DOMAIN deser[c] : s = deser[c][l]
      BY DEF ToSet
    <3>3. QED
      BY <3>1, <3>2, DeserTypes
  <2>3. Task("sendDone", c, i) \in ListenerTask /\ Task("sendDone", c, i).kind = "sendDone"
    BY <2>2 DEF Task, ListenerTask
  <2>4. QED
    BY <1>3, <2>1, <2>3
<1>10. ASSUME NEW c \in Ctx, PostMessage(c)
       PROVE  \/ Old
              \/ ltasks'[p][k] = Task("message", c, Head(wire[c]).id) /\ Receive(c, "sync")
  <2>1. /\ Receive(c, "sync") /\ Head(wire[c]).id \in Ids /\ Owner[c] \in Proc
        /\ PostListener(Owner[c], Task("message", c, Head(wire[c]).id))
    BY <1>10, ReceiveType, ConstantsAssumption DEF PostMessage
  <2>2. Task("message", c, Head(wire[c]).id) \in ListenerTask
    BY <2>1 DEF Task, ListenerTask
  <2>3. QED
    BY <1>3, <2>1, <2>2
<1>11. QED
  BY <1>2, <1>5, <1>6, <1>7, <1>8, <1>9, <1>10, LtasksChanges

LEMMA LtasksSent ==
  ASSUME TypeOK, Sent, [Next]_vars, NEW p \in Proc, NEW k \in DOMAIN ltasks'[p],
         ltasks'[p][k].kind = "message"
  PROVE  SentTo(nextId', ltasks'[p][k].ctx, ltasks'[p][k].id)
<1>1. CASE \E j \in DOMAIN ltasks[p] : ltasks'[p][k] = ltasks[p][j]
  <2>1. PICK j \in DOMAIN ltasks[p] : ltasks'[p][k] = ltasks[p][j]
    BY <1>1
  <2>2. ltasks[p][j] \in ListenerTask
    BY DEF TypeOK, ProcTypeOK
  <2>3. ltasks[p][j].ctx \in Ctx /\ ltasks[p][j].id \in Nat
    BY <2>2 DEF ListenerTask, Ids
  <2>4. SentTo(nextId, ltasks[p][j].ctx, ltasks[p][j].id)
    BY <2>1 DEF Sent
  <2>5. QED
    BY <2>1, <2>3, <2>4, SentToGrows
<1>2. ASSUME NEW c \in Ctx, ltasks'[p][k] = Task("message", c, Head(wire[c]).id),
             Receive(c, "sync")
      PROVE  SentTo(nextId', ltasks'[p][k].ctx, ltasks'[p][k].id)
  <2>1. Head(wire[c]).type = "sync" /\ Head(wire[c]).id \in Nat
    BY <1>2, ReceiveType DEF Ids
  <2>2. 1 \in DOMAIN wire[c] /\ wire[c][1] = Head(wire[c])
    BY <1>2 DEF Receive, TypeOK, ProcTypeOK
  <2>3. SentTo(nextId, c, Head(wire[c]).id)
    BY <2>1, <2>2 DEF Sent
  <2>4. SentTo(nextId', c, Head(wire[c]).id)
    BY <2>1, <2>3, SentToGrows
  <2>5. ltasks'[p][k].ctx = c /\ ltasks'[p][k].id = Head(wire[c]).id
    BY <1>2 DEF Task
  <2>6. QED
    BY <2>4, <2>5
<1>3. QED
  BY <1>1, <1>2, LtasksFrom

\* The handlers on a call stack are old ones, or one that runs for a message just taken.
LEMMA FramesFrom ==
  ASSUME TypeOK, CallStack, [Next]_vars, NEW p \in Proc, NEW k \in DOMAIN frames'[p],
         frames'[p][k].kind = "handler"
  PROVE  \/ \E j \in DOMAIN frames[p] : frames'[p][k] = frames[p][j]
         \/ \E m \in mq[p] : frames'[p][k] = HandlerFrame(m.ctx, m.id)
         \/ /\ HeadTask(p, "message")
            /\ frames'[p][k] = HandlerFrame(Head(ltasks[p]).ctx, Head(ltasks[p]).id)
<1> DEFINE Old == \E j \in DOMAIN frames[p] : frames'[p][k] = frames[p][j]
<1>1. frames \in [Proc -> Seq(Frame)] /\ frames[p] \in Seq(Frame)
  BY DEF TypeOK, ProcTypeOK
<1>2. CASE frames' = frames
  BY <1>2
<1>3. ASSUME NEW q \in Proc, NEW f \in Frame, Push(q, f)
      PROVE  Old \/ (q = p /\ frames'[p][k] = f)
  <2>1. CASE q # p
    <3>1. frames'[p] = frames[p]
      BY <1>1, <1>3, <2>1 DEF Push
    <3>2. QED
      BY <3>1
  <2>2. CASE q = p
    <3>1. frames'[p] = Append(frames[p], f)
      BY <1>1, <1>3, <2>2 DEF Push
    <3>2. \/ k \in DOMAIN frames[p] /\ frames'[p][k] = frames[p][k]
          \/ frames'[p][k] = f
      BY <1>1, <3>1, AppendedElement
    <3>3. CASE k \in DOMAIN frames[p] /\ frames'[p][k] = frames[p][k]
      BY <3>3
    <3>4. CASE frames'[p][k] = f
      BY <2>2, <3>4
    <3>5. QED
      BY <3>2, <3>3, <3>4
  <2>3. QED
    BY <2>1, <2>2
<1>4. ASSUME NEW q \in Proc, ~Idle(q), PopFrame(q) PROVE Old
  <2>1. frames' = [frames EXCEPT ![q] = Front(@)] /\ frames[q] # <<>>
    BY <1>4 DEF PopFrame, Idle
  <2>2. CASE q # p
    BY <1>1, <2>1, <2>2
  <2>3. CASE q = p
    <3>1. frames'[p] = Front(frames[p])
      BY <1>1, <2>1, <2>3
    <3>2. /\ Front(frames[p]) \in Seq(Frame) /\ Len(Front(frames[p])) = Len(frames[p]) - 1
          /\ \A l \in 1..(Len(frames[p]) - 1) : Front(frames[p])[l] = frames[p][l]
      BY <1>1, <2>1, <2>3, FrontType
    <3>3. k \in DOMAIN frames[p] /\ frames'[p][k] = frames[p][k]
      BY <1>1, <3>1, <3>2
    <3>4. QED
      BY <3>3
  <2>4. QED
    BY <2>2, <2>3
<1>5. ASSUME NEW q \in Proc, NEW c \in Ctx, NEW u \in UnblockFlags[q], BeginSend(q, c, u)
      PROVE  Old
  <2> DEFINE i == nextId[q]
             s == frames[q]
             w == WaitFrame(c, i)
             l == LoopFrame(c)
  <2>1. i \in Ids
    <3>1. i <= Budget[q] /\ i \in 1..(MaxSends + 1)
      BY <1>5 DEF BeginSend, CanSend, TypeOK, ProcTypeOK
    <3>2. QED
      BY <3>1, ConstantsAssumption DEF Ids
  <2>2. /\ w \in Frame /\ w.kind = "wait" /\ l \in Frame /\ l.kind = "loop"
    BY <2>1 DEF WaitFrame, LoopFrame, Frame
  <2>3. frames' = [frames EXCEPT ![q] = Append(Append(s, w), l)] /\ s \in Seq(Frame)
    BY <1>1, <1>5 DEF BeginSend
  <2> HIDE DEF w, l
  <2>4. CASE q # p
    BY <1>1, <2>3, <2>4
  <2>5. CASE q = p
    <3>1. frames'[p] = Append(Append(s, w), l)
      BY <1>1, <2>3, <2>5
    <3> HIDE DEF s
    <3>2. Append(s, w) \in Seq(Frame)
      BY <2>2, <2>3
    <3>3. k \in DOMAIN Append(s, w) /\ frames'[p][k] = Append(s, w)[k]
      BY <2>2, <3>1, <3>2, AppendedElement
    <3>4. k \in DOMAIN s /\ frames'[p][k] = s[k]
      BY <2>2, <2>3, <3>3, AppendedElement
    <3>5. QED
      BY <2>5, <3>4 DEF s
  <2>6. QED
    BY <2>4, <2>5
<1>6. ASSUME NEW q \in Proc,
             (\E ok \in ReplyResults : Reply(q, ok)) \/ ReturnWithoutReply(q) \/ DispatchEnd(q)
      PROVE  Old
  BY <1>4, <1>6 DEF Reply, ReturnWithoutReply, DispatchEnd, TopIs
<1>7. ASSUME NEW q \in Proc, Crash(q) PROVE Old
  <2>1. frames' = [frames EXCEPT ![q] = <<>>]
    BY <1>7 DEF Crash
  <2>2. q # p
    BY <1>1, <2>1
  <2>3. QED
    BY <1>1, <2>1, <2>2
<1>8. ASSUME NEW q \in Proc, NEW c \in Ctx, Push(q, LoopFrame(c)) PROVE Old
  <2>1. LoopFrame(c) \in Frame /\ LoopFrame(c).kind = "loop"
    BY DEF LoopFrame, Frame
  <2>2. QED
    BY <1>3, <1>8, <2>1
<1>9. ASSUME NEW q \in Proc,
             WaitDispatchEvent(q) \/ DispatchMessagesTask(q) \/ OnWaitableEventSignaled(q)
      PROVE  Old
  <2>1. CASE WaitDispatchEvent(q)
    <3>1. Top(q).ctx \in Ctx
      BY <2>1, TopFrame DEF WaitDispatchEvent, TopIs
    <3>2. QED
      BY <1>8, <2>1, <3>1 DEF WaitDispatchEvent
  <2>2. CASE DispatchMessagesTask(q)
    <3>1. Head(ltasks[q]).ctx \in Ctx
      BY <2>2, HeadTaskType DEF DispatchMessagesTask
    <3>2. QED
      BY <1>8, <2>2, <3>1 DEF DispatchMessagesTask
  <2>3. CASE OnWaitableEventSignaled(q)
    <3>1. Head(ltasks[q]).ctx \in Ctx
      BY <2>3, HeadTaskType DEF OnWaitableEventSignaled
    <3>2. QED
      BY <1>2, <1>8, <2>3, <3>1 DEF OnWaitableEventSignaled
  <2>4. QED
    BY <1>9, <2>1, <2>2, <2>3
<1>10. ASSUME NEW q \in Proc, OnDispatchMessage(q)
       PROVE  \/ Old
              \/ q = p /\ frames'[p][k] = HandlerFrame(Head(ltasks[p]).ctx, Head(ltasks[p]).id)
  <2> DEFINE t == Head(ltasks[q])
  <2>1. t.ctx \in Ctx /\ t.id \in Ids
    BY <1>10, HeadTaskType DEF OnDispatchMessage
  <2>2. HandlerFrame(t.ctx, t.id) \in Frame
    BY <2>1 DEF HandlerFrame, Frame
  <2>3. Push(q, HandlerFrame(t.ctx, t.id)) \/ frames' = frames
    BY <1>10 DEF OnDispatchMessage
  <2>4. QED
    BY <1>2, <1>3, <2>2, <2>3
<1>11. ASSUME NEW q \in Proc, DispatchMessage(q)
       PROVE  Old \/ \E m \in mq[p] : frames'[p][k] = HandlerFrame(m.ctx, m.id)
  <2>1. PICK m \in mq[q], loop \in Frame :
          /\ loop.kind = "loop" /\ HandlerFrame(m.ctx, m.id) \in Frame
          /\ frames' = [frames EXCEPT ![q] =
               IF listener[m.ctx]
               THEN Append(Append(Front(frames[q]), loop), HandlerFrame(m.ctx, m.id))
               ELSE Append(Front(frames[q]), loop)]
    BY <1>11, DispatchMessageFrames
  <2> DEFINE s == Front(frames[q])
             h == HandlerFrame(m.ctx, m.id)
  <2>2. /\ s \in Seq(Frame) /\ Len(s) = Len(frames[q]) - 1 /\ Len(frames[q]) \in Nat
        /\ \A l \in 1..(Len(frames[q]) - 1) : s[l] = frames[q][l]
        /\ DOMAIN frames[q] = 1..Len(frames[q])
    <3>1. frames[q] \in Seq(Frame) /\ frames[q] # <<>>
      BY <1>1, <1>11 DEF DispatchMessage, TopIs, Idle
    <3>2. QED
      BY <3>1, FrontType
  <2> HIDE DEF h
  <2>3. CASE q # p
    BY <1>1, <2>1, <2>3
  <2>4. CASE q = p
    <3>1. frames'[p] = Append(s, loop) \/ frames'[p] = Append(Append(s, loop), h)
      BY <1>1, <2>1, <2>4 DEF h
    <3>2. Append(s, loop) \in Seq(Frame) /\ h \in Frame
      BY <2>1, <2>2 DEF h
    <3>3. \/ frames'[p][k] = h
          \/ k \in DOMAIN Append(s, loop) /\ frames'[p][k] = Append(s, loop)[k]
      <4>1. CASE frames'[p] = Append(s, loop)
        BY <4>1
      <4>2. CASE frames'[p] = Append(Append(s, loop), h)
        <5> DEFINE g == Append(s, loop)
        <5>1. g \in Seq(Frame) /\ k \in DOMAIN Append(g, h) /\ frames'[p] = Append(g, h)
          BY <3>2, <4>2
        <5> HIDE DEF g
        <5>2. \/ k \in DOMAIN g /\ Append(g, h)[k] = g[k]
              \/ k = Len(g) + 1 /\ Append(g, h)[k] = h
          BY <3>2, <5>1, AppendedElement
        <5>3. QED
          BY <5>1, <5>2 DEF g
      <4>3. QED
        BY <3>1, <4>1, <4>2
    <3>4. \/ frames'[p][k] = h
          \/ k \in DOMAIN s /\ frames'[p][k] = s[k]
      <4>1. CASE k \in DOMAIN Append(s, loop) /\ frames'[p][k] = Append(s, loop)[k]
        <5>1. \/ k \in DOMAIN s /\ Append(s, loop)[k] = s[k]
              \/ k = Len(s) + 1 /\ Append(s, loop)[k] = loop
          BY <2>1, <2>2, <4>1, AppendedElement
        <5>2. QED
          BY <2>1, <4>1, <5>1
      <4>2. QED
        BY <3>3, <4>1
    <3>5. k \in DOMAIN s => k \in DOMAIN frames[p] /\ s[k] = frames[p][k]
      BY <2>2, <2>4
    <3>6. QED
      BY <2>4, <3>4, <3>5 DEF h
  <2>5. QED
    BY <2>3, <2>4
<1>12. ASSUME NEW q \in Proc, NEW stack, NEW n, EndsAt(q, stack, n), frames' = [frames EXCEPT ![q] = stack]
       PROVE  Old
  <2>1. CASE q # p
    BY <1>1, <1>12, <2>1
  <2>2. CASE q = p
    <3>1. frames'[p] = stack
      BY <1>1, <1>12, <2>2
    <3>2. /\ DOMAIN stack = 1..(n - 1) /\ n \in DOMAIN frames[p]
          /\ \A l \in 1..(n - 1) : stack[l] = frames[p][l]
      BY <1>12, <2>2 DEF EndsAt
    <3>3. k \in DOMAIN frames[p]
      BY <1>1, <3>1, <3>2
    <3>4. QED
      BY <3>1, <3>2, <3>3
  <2>3. QED
    BY <2>1, <2>2
<1>13. ASSUME NEW q \in Proc, PumpMessages(q) PROVE Old
  <2> DEFINE e == PumpFrame(Top(q).ctx, Top(q).id, sendWatch[q].id)
  <2>1. Push(q, e) /\ e.kind = "pump"
    BY <1>13 DEF PumpMessages, PumpFrame
  <2>2. e \in Frame
    <3>1. Top(q).ctx \in Ctx /\ Top(q).id \in Ids
      BY <1>13, TopFrame DEF PumpMessages, TopIs, Top
    <3>2. sendWatch[q].id \in 0..MaxSends
      BY DEF TypeOK, QueueTypeOK
    <3>3. QED
      BY <3>1, <3>2 DEF PumpFrame, Frame
  <2> HIDE DEF e
  <2>3. QED
    BY <1>3, <2>1, <2>2
<1>14. ASSUME NEW q \in Proc, SendReturns(q) \/ OnSendDone(q) PROVE Old
  <2>1. CASE SendReturns(q) \/ QuitsLoop(q)
    BY <1>12, <2>1, SendEnds DEF EndSend
  <2>2. CASE OnSendDone(q) /\ ~QuitsLoop(q)
    BY <1>2, <2>2 DEF OnSendDone, QuitsLoop
  <2>3. QED
    BY <1>14, <2>1, <2>2
<1>15. ASSUME NEW q \in Proc, OnDispatchMessage(q) PROVE HeadTask(q, "message")
  BY <1>15 DEF OnDispatchMessage
<1>16. QED
  BY <1>2, <1>5, <1>6, <1>7, <1>9, <1>10, <1>11, <1>13, <1>14, <1>15, FramesChanges
  DEF ListenerStep

LEMMA FramesSent ==
  ASSUME TypeOK, CallStack, Sent, [Next]_vars, NEW p \in Proc, NEW k \in DOMAIN frames'[p],
         frames'[p][k].kind = "handler"
  PROVE  SentTo(nextId', frames'[p][k].ctx, frames'[p][k].id)
<1>1. CASE \E j \in DOMAIN frames[p] : frames'[p][k] = frames[p][j]
  <2>1. PICK j \in DOMAIN frames[p] : frames'[p][k] = frames[p][j]
    BY <1>1
  <2>2. frames[p][j] \in Frame
    BY DEF TypeOK, ProcTypeOK
  <2>3. frames[p][j].ctx \in Ctx /\ frames[p][j].id \in Nat
    BY <2>1, <2>2 DEF Frame, Ids
  <2>4. SentTo(nextId, frames[p][j].ctx, frames[p][j].id)
    BY <2>1 DEF Sent
  <2>5. QED
    BY <2>1, <2>3, <2>4, SentToGrows
<1>2. ASSUME NEW m \in mq[p], frames'[p][k] = HandlerFrame(m.ctx, m.id)
      PROVE  SentTo(nextId', frames'[p][k].ctx, frames'[p][k].id)
  <2>1. m.ctx \in Ctx /\ m.id \in Nat
    BY DEF TypeOK, QueueTypeOK, QueuedMessage, Ids
  <2>2. SentTo(nextId', m.ctx, m.id)
    BY <2>1, SentToGrows DEF Sent
  <2>3. QED
    BY <1>2, <2>2 DEF HandlerFrame
<1>3. ASSUME HeadTask(p, "message"),
             frames'[p][k] = HandlerFrame(Head(ltasks[p]).ctx, Head(ltasks[p]).id)
      PROVE  SentTo(nextId', frames'[p][k].ctx, frames'[p][k].id)
  <2> DEFINE t == Head(ltasks[p])
  <2>1. t.ctx \in Ctx /\ t.id \in Nat /\ t.kind = "message"
    BY <1>3, HeadTaskType DEF Ids
  <2>2. 1 \in DOMAIN ltasks[p] /\ ltasks[p][1] = t
    BY <1>3 DEF HeadTask, TypeOK, ProcTypeOK
  <2>3. SentTo(nextId, t.ctx, t.id)
    BY <2>1, <2>2 DEF Sent
  <2>4. SentTo(nextId', t.ctx, t.id)
    BY <2>1, <2>3, SentToGrows
  <2>5. QED
    BY <1>3, <2>4 DEF HandlerFrame
<1>4. QED
  BY <1>1, <1>2, <1>3, FramesFrom

LEMMA TopHandlerSent ==
  ASSUME TypeOK, Sent, NEW p \in Proc, TopIs(p, "handler")
  PROVE  /\ Top(p).ctx \in Ctx /\ Top(p).id \in Ids /\ Top(p).id \in Nat
         /\ SentTo(nextId, Top(p).ctx, Top(p).id)
<1>1. /\ Top(p) = frames[p][Len(frames[p])] /\ Len(frames[p]) \in DOMAIN frames[p]
      /\ Top(p).ctx \in Ctx /\ Top(p).kind = "handler" /\ Top(p).id \in Ids
  BY TopFrame DEF TopIs, Top
<1>2. QED
  BY <1>1 DEF Sent, Ids

LEMMA OwedSent ==
  ASSUME TypeOK, Sent, [Next]_vars, NEW c \in Ctx, NEW i \in owed'[c]
  PROVE  SentTo(nextId', c, i)
<1>1. owed \in [Ctx -> SUBSET Ids]
  BY DEF TypeOK, CtxTypeOK
<1>2. CASE i \in owed[c]
  <2>1. i \in Nat /\ SentTo(nextId, c, i)
    BY <1>1, <1>2 DEF Sent, Ids
  <2>2. QED
    BY <2>1, SentToGrows
<1>3. CASE i \notin owed[c]
  <2>1. PICK p \in Proc : ReturnWithoutReply(p)
    <3>1. ASSUME NEW q \in Proc, DeferredReplies(q) \/ Crash(q) PROVE owed'[c] \subseteq owed[c]
      BY <1>1, <3>1 DEF DeferredReplies, SendDeferredReply, Crash
    <3>2. QED
      BY <1>3, <3>1, OwedChanges
  <2>2. TopIs(p, "handler")
    BY <2>1 DEF ReturnWithoutReply
  <2>3. c = Top(p).ctx /\ i = Top(p).id
    <3>1. owed' = [owed EXCEPT ![Top(p).ctx] = @ \cup {Top(p).id}]
      BY <1>3, <2>1 DEF ReturnWithoutReply
    <3>2. QED
      BY <1>1, <1>3, <3>1
  <2>4. QED
    BY <2>2, <2>3, TopHandlerSent, SentToGrows
<1>4. QED
  BY <1>2, <1>3

LEMMA WireSent ==
  ASSUME TypeOK, Sent, [Next]_vars, NEW c \in Ctx, NEW k \in DOMAIN wire'[c],
         wire'[c][k].type = "sync"
  PROVE  SentTo(nextId', c, wire'[c][k].id)
<1>1. ASSUME NEW j \in DOMAIN wire[c], wire'[c][k] = wire[c][j]
      PROVE  SentTo(nextId', c, wire'[c][k].id)
  <2>1. wire[c][j] \in Message
    BY DEF TypeOK, ProcTypeOK
  <2>2. wire[c][j].id \in Nat
    BY <2>1 DEF Message, Ids
  <2>3. SentTo(nextId, c, wire[c][j].id)
    BY <1>1 DEF Sent
  <2>4. QED
    BY <1>1, <2>2, <2>3, SentToGrows
<1>2. ASSUME NEW p \in Proc, NEW j \in DOMAIN itasks[p], itasks[p][j].kind = "send",
             itasks[p][j].ctx \in Ctx, Peer[itasks[p][j].ctx] = c,
             wire'[c][k] = itasks[p][j].msg
      PROVE  SentTo(nextId', c, wire'[c][k].id)
  <2>1. itasks[p][j] \in IpcTask
    BY DEF TypeOK, ProcTypeOK
  <2>2. itasks[p][j].msg.id \in Nat
    BY <1>2, <2>1 DEF IpcTask, Message, Ids
  <2>3. SentTo(nextId, c, itasks[p][j].msg.id)
    BY <1>2 DEF Sent
  <2>4. QED
    BY <1>2, <2>2, <2>3, SentToGrows
<1>3. QED
  BY <1>1, <1>2, WireFrom

LEMMA ItasksSent ==
  ASSUME TypeOK, Sent, [Next]_vars, NEW p \in Proc, NEW k \in DOMAIN itasks'[p],
         itasks'[p][k].kind = "send", itasks'[p][k].msg.type = "sync"
  PROVE  SentTo(nextId', Peer[itasks'[p][k].ctx], itasks'[p][k].msg.id)
<1>1. ASSUME NEW j \in DOMAIN itasks[p], itasks'[p][k] = itasks[p][j]
      PROVE  SentTo(nextId', Peer[itasks'[p][k].ctx], itasks'[p][k].msg.id)
  <2>1. itasks[p][j] \in IpcTask
    BY DEF TypeOK, ProcTypeOK
  <2>2. itasks[p][j].msg.id \in Nat /\ itasks[p][j].ctx \in Ctx
    BY <1>1, <2>1 DEF IpcTask, Message, Ids
  <2>3. SentTo(nextId, Peer[itasks[p][j].ctx], itasks[p][j].msg.id)
    BY <1>1 DEF Sent
  <2>4. QED
    BY <1>1, <2>2, <2>3, SentToGrows, ConstantsAssumption
<1>2. ASSUME NewTask(itasks'[p][k])
      PROVE  SentTo(nextId', Peer[itasks'[p][k].ctx], itasks'[p][k].msg.id)
  <2>1. PICK c \in Ctx, i \in Ids, u \in BOOLEAN :
          itasks'[p][k] = SendTask(c, SyncMsg(i, u)) /\ i < nextId'[Owner[c]]
    <3>1. \A c \in Ctx, i \in Ids, ok \in BOOLEAN : SendTask(c, ReplyMsg(i, ok)).msg.type = "reply"
      BY DEF SendTask, ReplyMsg
    <3>2. QED
      BY <1>2, <3>1 DEF NewTask
  <2>2. itasks'[p][k].ctx = c /\ itasks'[p][k].msg.id = i
    BY <2>1 DEF SendTask, SyncMsg
  <2>3. QED
    BY <2>1, <2>2, ConstantsAssumption DEF SentTo
<1>3. QED
  BY <1>1, <1>2, ItasksFrom

LEMMA NextSent ==
  ASSUME TypeOK, CallStack, Sent, [Next]_vars
  PROVE  Sent'
<1>1. \A c \in Ctx : \A k \in DOMAIN wire'[c] :
        wire'[c][k].type = "sync" => SentTo(nextId', c, wire'[c][k].id)
  BY WireSent
<1>2. \A p \in Proc : \A k \in DOMAIN itasks'[p] :
        itasks'[p][k].kind = "send" /\ itasks'[p][k].msg.type = "sync" =>
          SentTo(nextId', Peer[itasks'[p][k].ctx], itasks'[p][k].msg.id)
  BY ItasksSent
<1>3. \A p \in Proc : \A m \in mq'[p] : SentTo(nextId', m.ctx, m.id)
  BY MqSent
<1>4. \A p \in Proc : \A k \in DOMAIN ltasks'[p] :
        ltasks'[p][k].kind = "message" => SentTo(nextId', ltasks'[p][k].ctx, ltasks'[p][k].id)
  BY LtasksSent
<1>5. \A p \in Proc : \A k \in DOMAIN frames'[p] :
        frames'[p][k].kind = "handler" => SentTo(nextId', frames'[p][k].ctx, frames'[p][k].id)
  BY FramesSent
<1>6. \A c \in Ctx : \A i \in owed'[c] : SentTo(nextId', c, i)
  BY OwedSent
<1>7. QED
  BY <1>1, <1>2, <1>3, <1>4, <1>5, <1>6 DEF Sent, SentTo

LEMMA InitSent == Init => Sent
<1>1. \A k \in DOMAIN <<>> : FALSE
  OBVIOUS
<1>2. QED
  BY <1>1, ConstantsAssumption DEF Init, Sent

(***************************************************************************)
(* Replies: whatever carries a good reply, its request has been answered.  *)
(***************************************************************************)
LEMMA AnsweredGrows == ASSUME [Next]_vars PROVE answered \subseteq answered'
<1>1. CASE UNCHANGED <<outcome, answered, nextId>>
  BY <1>1
<1>2. ASSUME NEW p \in Proc, NEW c \in Ctx,
             SendAfterShutdown(p, c) \/ \E u \in UnblockFlags[p] : BeginSend(p, c, u)
      PROVE  answered' = answered
  BY <1>2 DEF BeginSend, SendAfterShutdown
<1>3. ASSUME NEW p \in Proc, SendReturns(p) \/ OnSendDone(p) PROVE answered' = answered
  BY <1>3 DEF SendReturns, OnSendDone, EndSend
<1>4. ASSUME NEW p \in Proc, (\E ok \in ReplyResults : Reply(p, ok)) \/ DeferredReplies(p)
      PROVE  answered \subseteq answered'
  BY <1>4 DEF Reply, DeferredReplies, SendDeferredReply
<1>5. QED
  BY <1>1, <1>2, <1>3, <1>4, HistoryChanges

LEMMA GoodReplyAnswered ==
  ASSUME Answered, NEW c \in Ctx, NEW i, GoodReplyFor(c, i)
  PROVE  AnsweredTo(answered, c, i)
  BY DEF GoodReplyFor, Answered

LEMMA DeserAnswered ==
  ASSUME TypeOK, Answered, [Next]_vars, NEW c \in Ctx, NEW k \in DOMAIN deser'[c],
         deser'[c][k].result
  PROVE  AnsweredTo(answered', c, deser'[c][k].id)
<1>1. \/ \E j \in DOMAIN deser[c] : deser[c][j].result /\ deser[c][j].id = deser'[c][k].id
      \/ GoodReplyFor(c, deser'[c][k].id)
  BY DeserFrom DEF ResultsFrom
<1>2. AnsweredTo(answered, c, deser'[c][k].id)
  BY <1>1, GoodReplyAnswered DEF Answered
<1>3. QED
  BY <1>2, AnsweredGrows DEF AnsweredTo

LEMMA WireAnswered ==
  ASSUME TypeOK, Answered, [Next]_vars, NEW c \in Ctx, NEW k \in DOMAIN wire'[c],
         wire'[c][k].type = "reply", wire'[c][k].ok
  PROVE  AnsweredTo(answered', c, wire'[c][k].id)
<1>1. AnsweredTo(answered, c, wire'[c][k].id)
  BY WireFrom DEF Answered
<1>2. QED
  BY <1>1, AnsweredGrows DEF AnsweredTo

LEMMA ItasksAnswered ==
  ASSUME TypeOK, Answered, [Next]_vars, NEW p \in Proc, NEW k \in DOMAIN itasks'[p],
         itasks'[p][k].kind = "send", itasks'[p][k].msg.type = "reply", itasks'[p][k].msg.ok
  PROVE  AnsweredTo(answered', Peer[itasks'[p][k].ctx], itasks'[p][k].msg.id)
<1>1. ASSUME NEW j \in DOMAIN itasks[p], itasks'[p][k] = itasks[p][j]
      PROVE  AnsweredTo(answered', Peer[itasks'[p][k].ctx], itasks'[p][k].msg.id)
  BY <1>1, AnsweredGrows DEF Answered, AnsweredTo
<1>2. ASSUME NewTask(itasks'[p][k])
      PROVE  AnsweredTo(answered', Peer[itasks'[p][k].ctx], itasks'[p][k].msg.id)
  <2>1. PICK c \in Ctx, i \in Ids, ok \in BOOLEAN :
          /\ itasks'[p][k] = SendTask(c, ReplyMsg(i, ok))
          /\ ok => <<Owner[Peer[c]], i>> \in answered'
    <3>1. \A c \in Ctx, i \in Ids, u \in BOOLEAN : SendTask(c, SyncMsg(i, u)).msg.type = "sync"
      BY DEF SendTask, SyncMsg
    <3>2. QED
      BY <1>2, <3>1 DEF NewTask
  <2>2. /\ itasks'[p][k].ctx = c /\ itasks'[p][k].msg.id = i /\ itasks'[p][k].msg.ok = ok
    <3>1. itasks'[p][k].ctx = c /\ itasks'[p][k].msg = ReplyMsg(i, ok)
      BY <2>1 DEF SendTask
    <3>2. ReplyMsg(i, ok).id = i /\ ReplyMsg(i, ok).ok = ok
      BY DEF ReplyMsg
    <3>3. QED
      BY <3>1, <3>2
  <2>3. QED
    BY <2>1, <2>2 DEF AnsweredTo
<1>3. QED
  BY <1>1, <1>2, ItasksFrom

LEMMA RepliesAnswered ==
  ASSUME TypeOK, Answered, [Next]_vars, NEW p \in Proc, NEW k \in DOMAIN replies'[p],
         replies'[p][k].ok
  PROVE  AnsweredTo(answered', replies'[p][k].ctx, replies'[p][k].id)
<1>1. ASSUME NEW j \in DOMAIN replies[p], replies'[p][k] = replies[p][j]
      PROVE  AnsweredTo(answered, replies'[p][k].ctx, replies'[p][k].id)
  BY <1>1 DEF Answered
<1>2. ASSUME NEW c \in Ctx, NEW j \in DOMAIN wire[c], wire[c][j].type = "reply",
             replies'[p][k] = [ctx |-> c, id |-> wire[c][j].id, ok |-> wire[c][j].ok]
      PROVE  AnsweredTo(answered, replies'[p][k].ctx, replies'[p][k].id)
  <2>1. /\ replies'[p][k].ctx = c /\ replies'[p][k].id = wire[c][j].id /\ wire[c][j].ok
    BY <1>2
  <2>2. AnsweredTo(answered, c, wire[c][j].id)
    BY <1>2, <2>1 DEF Answered
  <2>3. QED
    BY <2>1, <2>2
<1>3. CASE \E j \in DOMAIN replies[p] : replies'[p][k] = replies[p][j]
  BY <1>1, <1>3, AnsweredGrows DEF AnsweredTo
<1>4. CASE \E c \in Ctx : \E j \in DOMAIN wire[c] :
             /\ wire[c][j].type = "reply"
             /\ replies'[p][k] = [ctx |-> c, id |-> wire[c][j].id, ok |-> wire[c][j].ok]
  BY <1>2, <1>4, AnsweredGrows DEF AnsweredTo
<1>5. QED
  BY <1>3, <1>4, RepliesFrom

\* The result of a Send that returns is in its own entry: it is the top one.
LEMMA ReturnAnswered ==
  ASSUME TypeOK, CallStack, Answered, NEW p \in Proc, SendReturns(p) \/ QuitsLoop(p)
  PROVE  /\ Top(p).id \in Ids /\ outcome[p][Top(p).id] = "pending"
         /\ \A j \in Ids : outcome[p][j] = "pending" => j <= Top(p).id
         /\ answered' = answered
         /\ \/ outcome' = [outcome EXCEPT ![p][Top(p).id] = "false"]
            \/ /\ outcome' = [outcome EXCEPT ![p][Top(p).id] = "true"]
               /\ <<p, Top(p).id>> \in answered
<1> DEFINE c == Top(p).ctx
           i == Top(p).id
           s == Last(deser[c])
<1>1. PICK stack, n : EndsAt(p, stack, n) /\ EndSend(p, stack) /\ alive[p] /\ answered' = answered
  BY SendEnds
<1>2. deser[c] # <<>>
  BY <1>1 DEF EndSend
<1>3. /\ c \in Ctx /\ Owner[c] = p /\ i \in Ids /\ outcome[p][i] = "pending" /\ s.id = i
      /\ \A j \in Ids : outcome[p][j] = "pending" => j <= i
  BY <1>1, <1>2, InnermostSend
<1>4. Len(deser[c]) \in DOMAIN deser[c] /\ s = deser[c][Len(deser[c])]
  BY <1>2, <1>3 DEF TypeOK, CtxTypeOK, Last
<1>5. s.result => <<p, i>> \in answered
  BY <1>3, <1>4 DEF Answered, AnsweredTo
<1>6. outcome' = [outcome EXCEPT ![p][i] = IF s.result THEN "true" ELSE "false"]
  BY <1>1 DEF EndSend
<1>7. QED
  BY <1>1, <1>3, <1>5, <1>6

LEMMA TrueAnswered ==
  ASSUME TypeOK, CallStack, Answered, [Next]_vars
  PROVE  TrueMeansAnswered'
<1>1. outcome \in [Proc -> [Ids -> Outcome]]
  BY DEF TypeOK, HistoryTypeOK
<1>2. ASSUME NEW p \in Proc, NEW i \in Ids, NEW r, outcome' = [outcome EXCEPT ![p][i] = r],
             r = "true" => <<p, i>> \in answered
      PROVE  TrueMeansAnswered'
  <2>1. ASSUME NEW q \in Proc, NEW j \in Ids, outcome'[q][j] = "true"
        PROVE  <<q, j>> \in answered
    <3>1. outcome'[q][j] = outcome[q][j] \/ (q = p /\ j = i /\ r = "true")
      BY <1>1, <1>2, <2>1
    <3>2. QED
      BY <1>2, <2>1, <3>1 DEF Answered, TrueMeansAnswered
  <2>2. QED
    BY <2>1, AnsweredGrows DEF TrueMeansAnswered
<1>3. CASE outcome' = outcome
  BY <1>3, AnsweredGrows DEF Answered, TrueMeansAnswered
<1>4. ASSUME NEW p \in Proc, NEW c \in Ctx,
             SendAfterShutdown(p, c) \/ \E u \in UnblockFlags[p] : BeginSend(p, c, u)
      PROVE  TrueMeansAnswered'
  <2>1. nextId[p] \in Ids
    <3>1. nextId[p] <= Budget[p] /\ nextId[p] \in 1..(MaxSends + 1)
      BY <1>4 DEF BeginSend, SendAfterShutdown, CanSend, TypeOK, ProcTypeOK
    <3>2. QED
      BY <3>1, ConstantsAssumption DEF Ids
  <2>2. \E r \in {"pending", "false"} : outcome' = [outcome EXCEPT ![p][nextId[p]] = r]
    BY <1>4 DEF BeginSend, SendAfterShutdown
  <2>3. QED
    BY <1>2, <2>1, <2>2
<1>5. ASSUME NEW p \in Proc, SendReturns(p) \/ QuitsLoop(p) PROVE TrueMeansAnswered'
  <2> DEFINE i == Top(p).id
  <2>1. /\ i \in Ids
        /\ \/ outcome' = [outcome EXCEPT ![p][i] = "false"]
           \/ outcome' = [outcome EXCEPT ![p][i] = "true"] /\ <<p, i>> \in answered
    BY <1>5, ReturnAnswered
  <2> HIDE DEF i
  <2>2. CASE outcome' = [outcome EXCEPT ![p][i] = "false"]
    <3>1. "false" = "true" => <<p, i>> \in answered
      OBVIOUS
    <3>2. QED
      BY <1>2, <2>1, <2>2, <3>1
  <2>3. CASE outcome' = [outcome EXCEPT ![p][i] = "true"] /\ <<p, i>> \in answered
    BY <1>2, <2>1, <2>3
  <2>4. QED
    BY <2>1, <2>2, <2>3
<1>6. ASSUME NEW p \in Proc, OnSendDone(p), ~QuitsLoop(p) PROVE outcome' = outcome
  BY <1>6 DEF OnSendDone, QuitsLoop
<1>7. ASSUME NEW p \in Proc, DeferredReplies(p) \/ \E ok \in ReplyResults : Reply(p, ok)
      PROVE  outcome' = outcome
  BY <1>7 DEF DeferredReplies, SendDeferredReply, Reply
<1>8. QED
  BY <1>3, <1>4, <1>5, <1>6, <1>7, HistoryChanges

LEMMA NextAnswered ==
  ASSUME TypeOK, CallStack, Answered, [Next]_vars
  PROVE  Answered'
<1>1. \A c \in Ctx : \A k \in DOMAIN deser'[c] :
        deser'[c][k].result => AnsweredTo(answered', c, deser'[c][k].id)
  BY DeserAnswered
<1>2. \A c \in Ctx : \A k \in DOMAIN wire'[c] :
        wire'[c][k].type = "reply" /\ wire'[c][k].ok => AnsweredTo(answered', c, wire'[c][k].id)
  BY WireAnswered
<1>3. \A p \in Proc : \A k \in DOMAIN itasks'[p] :
        LET t == itasks'[p][k] IN
          t.kind = "send" /\ t.msg.type = "reply" /\ t.msg.ok =>
            AnsweredTo(answered', Peer[t.ctx], t.msg.id)
  BY ItasksAnswered
<1>4. \A p \in Proc : \A k \in DOMAIN replies'[p] :
        replies'[p][k].ok => AnsweredTo(answered', replies'[p][k].ctx, replies'[p][k].id)
  BY RepliesAnswered
<1>5. QED
  BY <1>1, <1>2, <1>3, <1>4, TrueAnswered DEF Answered, AnsweredTo

LEMMA InitAnswered == Init => Answered
<1>1. \A k \in DOMAIN <<>> : FALSE
  OBVIOUS
<1>2. QED
  BY <1>1, ConstantsAssumption DEF Init, Answered, TrueMeansAnswered

(***************************************************************************)
(* Canceled Sends: the message of a Send that nobody canceled is queued    *)
(* for a channel that is gone.                                             *)
(***************************************************************************)
\* The message of Send i of context c is among the tasks of s.
QueuedIn(s, c, i) ==
  \E n \in DOMAIN s : /\ s[n].kind = "send" /\ s[n].ctx = c
                      /\ s[n].msg = SyncMsg(i, s[n].msg.unblock)

\* The waiting Sends of s are among those of t.
WaitingFrom(s, t) ==
  \A k \in DOMAIN s : ~s[k].done => \E j \in DOMAIN t : ~t[j].done /\ t[j].id = s[k].id

LEMMA WaitingFromSelf ==
  ASSUME NEW s PROVE WaitingFrom(s, s) /\ WaitingFrom(<<>>, s)
<1>1. \A k \in DOMAIN <<>> : FALSE
  OBVIOUS
<1>2. QED
  BY <1>1 DEF WaitingFrom

LEMMA CancelEnds ==
  ASSUME TypeOK, NEW d \in Ctx, CancelPendingSends(d)
  PROVE  /\ \A k \in DOMAIN deser'[d] : deser'[d][k].done
         /\ \A c \in Ctx : WaitingFrom(deser'[c], deser[c])
<1> DEFINE s == deser[d]
           t == [k \in DOMAIN s |-> [s[k] EXCEPT !.done = TRUE]]
<1>1. deser' = [deser EXCEPT ![d] = t] /\ deser \in [Ctx -> Seq(PendingSend)]
  BY DEF CancelPendingSends, TypeOK, CtxTypeOK
<1>2. ASSUME NEW k \in DOMAIN s PROVE t[k].done
  <2>1. s[k] \in PendingSend
    BY <1>1
  <2>2. t[k] = [s[k] EXCEPT !.done = TRUE]
    OBVIOUS
  <2>3. QED
    BY <2>1, <2>2 DEF PendingSend
<1>3. DOMAIN t = DOMAIN s
  OBVIOUS
<1> HIDE DEF t
<1>4. \A k \in DOMAIN deser'[d] : deser'[d][k].done
  BY <1>1, <1>2, <1>3
<1>5. ASSUME NEW c \in Ctx PROVE WaitingFrom(deser'[c], deser[c])
  <2>1. CASE c = d
    BY <1>4, <2>1 DEF WaitingFrom
  <2>2. CASE c # d
    BY <1>1, <2>2, WaitingFromSelf
  <2>3. QED
    BY <2>1, <2>2
<1>6. QED
  BY <1>4, <1>5

LEMMA UnblockWaiting ==
  ASSUME TypeOK, NEW d \in Ctx, NEW i, NEW ok \in BOOLEAN, IsTopSend(d, i), Unblock(d, ok),
         NEW c \in Ctx
  PROVE  WaitingFrom(deser'[c], deser[c])
<1> DEFINE s == deser[d]
           n == Len(s)
           e == [s[n] EXCEPT !.done = TRUE, !.result = ok]
<1>1. /\ deser \in [Ctx -> Seq(PendingSend)] /\ s \in Seq(PendingSend)
      /\ s # <<>> /\ n \in DOMAIN s /\ s[n] \in PendingSend
  BY DEF TypeOK, CtxTypeOK, IsTopSend, Last
<1>2. deser' = [deser EXCEPT ![d] = [s EXCEPT ![n] = e]]
  BY DEF Unblock, Last
<1>3. e.done
  BY <1>1 DEF PendingSend
<1> HIDE DEF e
<1>4. CASE c # d
  BY <1>1, <1>2, <1>4, WaitingFromSelf
<1>5. CASE c = d
  <2>1. deser'[c] = [s EXCEPT ![n] = e]
    BY <1>1, <1>2, <1>5
  <2>2. ASSUME NEW k \in DOMAIN deser'[c], ~deser'[c][k].done
        PROVE  k \in DOMAIN s /\ deser'[c][k] = s[k]
    BY <1>3, <2>1, <2>2
  <2>3. QED
    BY <1>5, <2>2 DEF WaitingFrom
<1>6. QED
  BY <1>4, <1>5

\* A new waiting Send is one whose message has just been queued.
LEMMA DeserWaiting ==
  ASSUME TypeOK, [Next]_vars, NEW c \in Ctx
  PROVE  \/ WaitingFrom(deser'[c], deser[c])
         \/ \A k \in DOMAIN deser'[c] : ~deser'[c][k].done =>
              \/ \E j \in DOMAIN deser[c] : ~deser[c][j].done /\ deser[c][j].id = deser'[c][k].id
              \/ QueuedIn(itasks'[Owner[c]], c, deser'[c][k].id)
<1> DEFINE Kept == WaitingFrom(deser'[c], deser[c])
           New  == \A k \in DOMAIN deser'[c] : ~deser'[c][k].done =>
                     \/ \E j \in DOMAIN deser[c] :
                          ~deser[c][j].done /\ deser[c][j].id = deser'[c][k].id
                     \/ QueuedIn(itasks'[Owner[c]], c, deser'[c][k].id)
<1>1. deser \in [Ctx -> Seq(PendingSend)] /\ deser[c] \in Seq(PendingSend)
  BY DEF TypeOK, CtxTypeOK
<1>2. CASE deser' = deser
  BY <1>2, WaitingFromSelf
<1>3. ASSUME NEW p \in Proc, OnSendMessage(p) \/ OnChannelClosed(p), deser' # deser PROVE Kept
  BY <1>3, IpcTaskCancels, CancelEnds
<1>4. ASSUME NEW d \in Ctx, OnChannelError(d) \/ OnShutdownSignaled(d) \/ \E p \in Proc : Destroy(p, d)
      PROVE  Kept
  BY <1>4, CancelEnds DEF OnChannelError, OnShutdownSignaled, Destroy
<1>5. ASSUME NEW p \in Proc, NEW d \in Ctx, NEW u \in UnblockFlags[p], BeginSend(p, d, u)
      PROVE  Kept \/ New
  <2> DEFINE i == nextId[p]
             e == [id |-> i, done |-> FALSE, result |-> FALSE]
             t == SendTask(d, SyncMsg(i, u))
  <2>1. i \in Ids /\ Owner[d] = p /\ u \in BOOLEAN
    <3>1. i <= Budget[p] /\ i \in 1..(MaxSends + 1) /\ Owner[d] = p
      BY <1>5 DEF BeginSend, CanSend, TypeOK, ProcTypeOK
    <3>2. QED
      BY <3>1, ConstantsAssumption DEF Ids
  <2>2. deser' = [deser EXCEPT ![d] = Append(@, e)] /\ e.id = i
    BY <1>5 DEF BeginSend
  <2>3. e \in PendingSend
    BY <2>1 DEF PendingSend
  <2>4. QueuedIn(itasks'[p], d, i)
    <3>1. itasks' = [itasks EXCEPT ![p] = Append(@, t)]
      BY <1>5 DEF BeginSend, PostIpc
    <3>2. t \in IpcTask
      BY <2>1 DEF SendTask, SyncMsg, IpcTask, Message
    <3>3. t.kind = "send" /\ t.ctx = d /\ t.msg = SyncMsg(i, t.msg.unblock)
      <4>1. t.kind = "send" /\ t.ctx = d /\ t.msg = SyncMsg(i, u)
        BY DEF SendTask
      <4>2. SyncMsg(i, u).unblock = u
        BY DEF SyncMsg
      <4>3. QED
        BY <4>1, <4>2
    <3> HIDE DEF t, i
    <3>4. itasks[p] \in Seq(IpcTask) /\ itasks'[p] = Append(itasks[p], t)
      BY <3>1 DEF TypeOK, ProcTypeOK
    <3>5. Len(itasks[p]) + 1 \in DOMAIN itasks'[p] /\ itasks'[p][Len(itasks[p]) + 1] = t
      BY <3>2, <3>4
    <3>6. QED
      BY <3>3, <3>5 DEF QueuedIn
  <2> HIDE DEF e
  <2>5. CASE c # d
    BY <1>1, <2>2, <2>5, WaitingFromSelf
  <2>6. CASE c = d
    <3>1. deser'[c] = Append(deser[c], e)
      BY <1>1, <2>2, <2>6
    <3>2. ASSUME NEW k \in DOMAIN deser'[c]
          PROVE  (k \in DOMAIN deser[c] /\ deser'[c][k] = deser[c][k]) \/ deser'[c][k] = e
      BY <1>1, <2>3, <3>1, AppendedElement
    <3>3. QED
      BY <2>1, <2>2, <2>4, <2>6, <3>2
  <2>7. QED
    BY <2>5, <2>6
<1>6. ASSUME NEW p \in Proc, OnSendDone(p) \/ SendReturns(p), deser' # deser PROVE Kept
  <2> DEFINE d == Top(p).ctx
  <2>1. ~Idle(p) /\ deser[d] # <<>> /\ deser' = [deser EXCEPT ![d] = Front(@)]
    BY <1>6 DEF OnSendDone, SendReturns, EndSend, Pop, TopIs
  <2>2. d \in Ctx
    BY <2>1, TopFrame
  <2> HIDE DEF d
  <2>3. CASE c # d
    BY <1>1, <2>1, <2>2, <2>3, WaitingFromSelf
  <2>4. CASE c = d
    <3>1. deser'[c] = Front(deser[c])
      BY <1>1, <2>1, <2>4
    <3>2. /\ Front(deser[c]) \in Seq(PendingSend) /\ Len(Front(deser[c])) = Len(deser[c]) - 1
          /\ \A k \in 1..(Len(deser[c]) - 1) : Front(deser[c])[k] = deser[c][k]
      BY <1>1, <2>1, <2>4, FrontType
    <3>3. ASSUME NEW k \in DOMAIN deser'[c] PROVE k \in DOMAIN deser[c] /\ deser'[c][k] = deser[c][k]
      BY <1>1, <3>1, <3>2
    <3>4. QED
      BY <3>3 DEF WaitingFrom
  <2>5. QED
    BY <2>3, <2>4
<1>7. ASSUME NEW p \in Proc, Crash(p) PROVE Kept
  <2>1. deser'[c] = <<>> \/ deser'[c] = deser[c]
    BY <1>7 DEF Crash
  <2>2. QED
    BY <2>1, WaitingFromSelf
<1>8. ASSUME NEW d \in Ctx, NEW i \in Ids, OnSendTimeout(d, i) PROVE Kept
  <2>1. PICK k \in DOMAIN deser[d] :
          deser' = [deser EXCEPT ![d] = [deser[d] EXCEPT ![k] = [deser[d][k] EXCEPT !.done = TRUE]]]
    BY <1>8 DEF OnSendTimeout
  <2> DEFINE e == [deser[d][k] EXCEPT !.done = TRUE]
  <2>2. deser[d][k] \in PendingSend
    BY <1>1
  <2>3. e.done
    BY <2>2 DEF PendingSend
  <2> HIDE DEF e
  <2>4. CASE c # d
    BY <1>1, <2>1, <2>4, WaitingFromSelf
  <2>5. CASE c = d
    <3>1. deser'[c] = [deser[c] EXCEPT ![k] = e]
      BY <1>1, <2>1, <2>5 DEF e
    <3>2. ASSUME NEW l \in DOMAIN deser'[c], ~deser'[c][l].done
          PROVE  l \in DOMAIN deser[c] /\ deser'[c][l] = deser[c][l]
      BY <2>3, <2>5, <3>1, <3>2
    <3>3. QED
      BY <3>2 DEF WaitingFrom
  <2>6. QED
    BY <2>4, <2>5
<1>9. ASSUME NEW d \in Ctx, ReceiveReply(d), deser' # deser PROVE Kept
  <2>1. Head(wire[d]).ok \in BOOLEAN
    BY <1>9, ReceiveType DEF ReceiveReply
  <2>2. QED
    BY <1>9, <2>1, UnblockWaiting DEF ReceiveReply
<1>10. ASSUME NEW p \in Proc, DispatchReplies(p), deser' # deser PROVE Kept
  <2>1. PICK k \in DOMAIN replies[p] :
          Unblocks(p, k) /\ Unblock(replies[p][k].ctx, replies[p][k].ok)
    BY <1>10 DEF DispatchReplies
  <2>2. replies[p][k] \in QueuedReply
    BY DEF TypeOK, QueueTypeOK
  <2>3. replies[p][k].ctx \in Ctx /\ replies[p][k].ok \in BOOLEAN
    BY <2>2 DEF QueuedReply
  <2>4. QED
    BY <2>1, <2>3, UnblockWaiting DEF Unblocks
<1>11. QED
  BY <1>2, <1>3, <1>4, <1>5, <1>6, <1>7, <1>8, <1>9, <1>10, DeserChanges

LEMMA ChannelChanges ==
  ASSUME TypeOK, [Next]_vars, NEW c \in Ctx, channel'[c] # channel[c]
  PROVE  CancelPendingSends(c) \/ ~alive'[Owner[c]]
<1> USE DEF ctxVars
<1>1. channel \in [Ctx -> {"open", "error", "closed"}] /\ alive \in [Proc -> BOOLEAN]
  BY DEF TypeOK, CtxTypeOK, ProcTypeOK
<1>2. ASSUME NEW p \in Proc, Crash(p) PROVE ~alive'[Owner[c]]
  <2>1. Owner[c] = p /\ alive' = [alive EXCEPT ![p] = FALSE]
    BY <1>2 DEF Crash
  <2>2. QED
    BY <1>1, <2>1
<1>3. ASSUME NEW p \in Proc, UserCode(p) PROVE Crash(p)
  BY <1>3 DEF UserCode, BeginSend, SendAfterShutdown, Shutdown, Destroy
<1>4. ASSUME NEW p \in Proc, HandlerReturns(p) \/ DeferredReplies(p) PROVE FALSE
  BY <1>4 DEF HandlerReturns, Reply, ReturnWithoutReply, DeferredReplies, SendDeferredReply
<1>5. ASSUME NEW p \in Proc, ListenerStep(p) \/ PumpMessages(p) PROVE FALSE
  BY <1>5 DEF ListenerStep, DispatchMessage, DispatchEnd, WaitDispatchEvent, SendReturns,
              DispatchMessagesTask, OnDispatchMessage, OnWaitableEventSignaled, OnSendDone,
              PumpMessages
<1>6. ASSUME NEW p \in Proc, IpcTaskStep(p) PROVE CancelPendingSends(c)
  <2>1. OnChannelClosed(p)
    <3>1. ~OnSendMessage(p)
      BY DEF OnSendMessage
    <3>2. ~DispatchReplies(p) /\ ~SignalDispatchEvent(p)
      BY DEF DispatchReplies, SignalDispatchEvent, ctxVars
    <3>3. QED
      BY <1>6, <3>1, <3>2 DEF IpcTaskStep
  <2>2. c = Head(itasks[p]).ctx
    BY <1>1, <2>1 DEF OnChannelClosed
  <2>3. QED
    BY <2>1, <2>2 DEF OnChannelClosed
<1>7. ASSUME NEW d \in Ctx, ChannelStep(d) \/ DoneWaiting(d) \/ SendDoneWaiting(d)
      PROVE  CancelPendingSends(c)
  <2>1. OnChannelError(d)
    BY <1>7 DEF ChannelStep, ReceiveReply, QueueMessage, PostMessage,
                OnShutdownSignaled, DoneWaiting, SendDoneWaiting
  <2>2. c = d
    BY <1>1, <2>1 DEF OnChannelError
  <2>3. QED
    BY <2>1, <2>2 DEF OnChannelError
<1>8. ASSUME NEW d \in Ctx, NEW i \in Ids, OnSendTimeout(d, i) PROVE FALSE
  BY <1>8 DEF OnSendTimeout
<1>9. Next
  BY DEF vars
<1>10. QED
  BY <1>2, <1>3, <1>4, <1>5, <1>6, <1>7, <1>8, <1>9 DEF Next

LEMMA DeadStaysDead ==
  ASSUME TypeOK, [Next]_vars, NEW p \in Proc, alive'[p]
  PROVE  alive[p]
<1>1. alive \in [Proc -> BOOLEAN]
  BY DEF TypeOK, ProcTypeOK
<1>2. alive' = alive \/ \E q \in Proc : alive' = [alive EXCEPT ![q] = FALSE]
  <2>1. SameCalls => alive' = alive
    BY DEF SameCalls
  <2>2. ASSUME NEW q \in Proc, SendReturns(q) \/ OnSendDone(q)
        PROVE  alive' = alive
    BY <2>2 DEF SendReturns, OnSendDone
  <2>3. ASSUME NEW q \in Proc, NEW c \in Ctx,
               SendAfterShutdown(q, c) \/ \E u \in UnblockFlags[q] : BeginSend(q, c, u)
        PROVE  alive' = alive
    BY <2>3 DEF BeginSend, SendAfterShutdown
  <2>4. QED
    BY <2>1, <2>2, <2>3, QuietStep DEF Crash
<1>3. QED
  BY <1>1, <1>2

\* A queued message stays queued until the IPC thread tries to send it.
LEMMA MessageStaysQueued ==
  ASSUME TypeOK, [Next]_vars, NEW c \in Ctx, NEW i, QueuedIn(itasks[Owner[c]], c, i),
         alive'[Owner[c]]
  PROVE  \/ QueuedIn(itasks'[Owner[c]], c, i)
         \/ OnSendMessage(Owner[c]) /\ Head(itasks[Owner[c]]).ctx = c
<1> DEFINE p == Owner[c]
<1>1. p \in Proc /\ itasks \in [Proc -> Seq(IpcTask)] /\ itasks[p] \in Seq(IpcTask)
  BY ConstantsAssumption DEF TypeOK, ProcTypeOK
<1>2. PICK n \in DOMAIN itasks[p] :
        /\ itasks[p][n].kind = "send" /\ itasks[p][n].ctx = c
        /\ itasks[p][n].msg = SyncMsg(i, itasks[p][n].msg.unblock)
  BY DEF QueuedIn
<1> HIDE DEF p
<1>3. ASSUME NEW m \in DOMAIN itasks'[p], itasks'[p][m] = itasks[p][n]
      PROVE  QueuedIn(itasks'[p], c, i)
  BY <1>2, <1>3 DEF QueuedIn
<1>4. ASSUME itasks'[p] = itasks[p] PROVE QueuedIn(itasks'[p], c, i)
  <2>1. n \in DOMAIN itasks'[p] /\ itasks'[p][n] = itasks[p][n]
    BY <1>4
  <2>2. QED
    BY <1>3, <2>1
<1>5. ASSUME NEW q \in Proc, NEW t \in IpcTask, PostIpc(q, t)
      PROVE  QueuedIn(itasks'[p], c, i)
  <2>1. CASE q # p
    <3>1. itasks'[p] = itasks[p]
      BY <1>1, <1>5, <2>1 DEF PostIpc
    <3>2. QED
      BY <1>4, <3>1
  <2>2. CASE q = p
    <3>1. itasks'[p] = Append(itasks[p], t)
      BY <1>1, <1>5, <2>2 DEF PostIpc
    <3>2. n \in DOMAIN itasks'[p] /\ itasks'[p][n] = itasks[p][n]
      BY <1>1, <3>1
    <3>3. QED
      BY <1>3, <3>2
  <2>3. QED
    BY <2>1, <2>2
<1>6. ASSUME NEW q \in Proc, NEW k, HeadIpcTask(q, k), q # p \/ k # "send"
      PROVE  QueuedIn(itasks'[p], c, i)
  <2>1. CASE q # p
    <3>1. itasks'[p] = itasks[p]
      BY <1>1, <1>6, <2>1 DEF HeadIpcTask
    <3>2. QED
      BY <1>4, <3>1
  <2>2. CASE q = p
    <3>1. /\ itasks[p] # <<>> /\ Head(itasks[p]).kind # "send" /\ itasks'[p] = Tail(itasks[p])
      BY <1>1, <1>6, <2>2 DEF HeadIpcTask
    <3>2. n # 1
      BY <1>1, <1>2, <3>1
    <3>3. n - 1 \in DOMAIN itasks'[p] /\ itasks'[p][n - 1] = itasks[p][n]
      BY <1>1, <3>1, <3>2
    <3>4. QED
      BY <1>3, <3>3
  <2>3. QED
    BY <2>1, <2>2
<1>7. ASSUME OnSendMessage(p), Head(itasks[p]).ctx # c
      PROVE  QueuedIn(itasks'[p], c, i)
  <2>1. itasks[p] # <<>> /\ itasks'[p] = Tail(itasks[p])
    BY <1>1, <1>7 DEF OnSendMessage, HeadIpcTask
  <2>2. n # 1
    BY <1>1, <1>2, <1>7, <2>1
  <2>3. n - 1 \in DOMAIN itasks'[p] /\ itasks'[p][n - 1] = itasks[p][n]
    BY <1>1, <2>1, <2>2
  <2>4. QED
    BY <1>3, <2>3
<1>8. ASSUME NEW q \in Proc, Crash(q) PROVE QueuedIn(itasks'[p], c, i)
  <2>1. /\ itasks' = [itasks EXCEPT ![q] = <<>>] /\ alive' = [alive EXCEPT ![q] = FALSE]
        /\ alive \in [Proc -> BOOLEAN]
    BY <1>8 DEF Crash, TypeOK, ProcTypeOK
  <2>2. q # p
    BY <1>1, <2>1 DEF p
  <2>3. itasks'[p] = itasks[p]
    BY <1>1, <2>1, <2>2
  <2>4. QED
    BY <1>4, <2>3
<1>9. ASSUME NEW q \in Proc,
             \/ \E d \in Ctx, u \in UnblockFlags[q] : BeginSend(q, d, u)
             \/ \E d \in Ctx : Destroy(q, d)
             \/ \E ok \in ReplyResults : Reply(q, ok)
             \/ DeferredReplies(q)
             \/ SendReturns(q) \/ QuitsLoop(q)
      PROVE  \E t \in IpcTask : PostIpc(q, t)
  <2>1. ASSUME NEW d \in Ctx, NEW u \in UnblockFlags[q], BeginSend(q, d, u)
        PROVE  \E t \in IpcTask : PostIpc(q, t)
    <3>1. nextId[q] <= Budget[q] /\ nextId[q] \in 1..(MaxSends + 1)
      BY <2>1 DEF BeginSend, CanSend, TypeOK, ProcTypeOK
    <3>2. nextId[q] \in Ids /\ u \in BOOLEAN
      BY <3>1, ConstantsAssumption DEF Ids
    <3>3. SendTask(d, SyncMsg(nextId[q], u)) \in IpcTask
      BY <3>2 DEF SendTask, SyncMsg, IpcTask, Message
    <3>4. QED
      BY <2>1, <3>3 DEF BeginSend
  <2>2. ASSUME NEW d \in Ctx, NEW j \in Ids, NEW ok \in BOOLEAN
        PROVE  SendTask(d, ReplyMsg(j, ok)) \in IpcTask
    BY DEF SendTask, ReplyMsg, IpcTask, Message
  <2>3. ASSUME NEW ok \in ReplyResults, Reply(q, ok) PROVE \E t \in IpcTask : PostIpc(q, t)
    <3>1. Top(q).ctx \in Ctx /\ Top(q).id \in Ids
      BY <2>3, TopFrame DEF Reply, TopIs, Top
    <3>2. QED
      BY <2>2, <2>3, <3>1, ConstantsAssumption DEF Reply
  <2>4. CASE DeferredReplies(q)
    BY <2>2, <2>4, ConstantsAssumption DEF DeferredReplies, SendDeferredReply
  <2>5. RepliesTask \in IpcTask /\ \A d \in Ctx : ClosedTask(d) \in IpcTask
    BY DEF RepliesTask, ClosedTask, IpcTask
  <2>6. CASE SendReturns(q) \/ QuitsLoop(q) \/ \E d \in Ctx : Destroy(q, d)
    BY <2>5, <2>6 DEF SendReturns, QuitsLoop, OnSendDone, EndSend, Pop, Destroy
  <2>7. QED
    BY <1>9, <2>1, <2>3, <2>4, <2>6
<1>10. ASSUME NEW q \in Proc, OnSendDone(q), ~QuitsLoop(q) PROVE itasks' = itasks
  BY <1>10 DEF OnSendDone, QuitsLoop
<1>11. ASSUME NEW q \in Proc,
              OnChannelClosed(q) \/ DispatchReplies(q) \/ (OnSendMessage(q) /\ q # p)
       PROVE  QueuedIn(itasks'[p], c, i)
  <2>1. CASE OnChannelClosed(q)
    BY <1>6, <2>1 DEF OnChannelClosed
  <2>2. CASE DispatchReplies(q)
    BY <1>6, <2>2 DEF DispatchReplies
  <2>3. CASE OnSendMessage(q) /\ q # p
    BY <1>6, <2>3 DEF OnSendMessage
  <2>4. QED
    BY <1>11, <2>1, <2>2, <2>3
<1>12. CASE itasks' # itasks
  <2>1. PICK q \in Proc :
          \/ \E d \in Ctx, u \in UnblockFlags[q] : BeginSend(q, d, u)
          \/ \E d \in Ctx : Destroy(q, d)
          \/ \E ok \in ReplyResults : Reply(q, ok)
          \/ DeferredReplies(q)
          \/ Crash(q) \/ SendReturns(q) \/ OnSendDone(q)
          \/ OnSendMessage(q) \/ OnChannelClosed(q) \/ DispatchReplies(q)
    BY <1>12, ItasksChanges
  <2>2. CASE \E t \in IpcTask : PostIpc(q, t)
    BY <1>5, <2>2 DEF p
  <2>3. CASE OnSendMessage(q) /\ q = p
    BY <1>7, <2>3 DEF p
  <2>4. CASE Crash(q) \/ OnChannelClosed(q) \/ DispatchReplies(q) \/ (OnSendMessage(q) /\ q # p)
    <3>1. QueuedIn(itasks'[p], c, i)
      BY <1>8, <1>11, <2>4
    <3>2. QED
      BY <3>1 DEF p
  <2>5. QED
    BY <1>9, <1>10, <1>12, <2>1, <2>2, <2>3, <2>4
<1>13. QED
  BY <1>4, <1>12 DEF p

LEMMA NextNoSendLeftBehind ==
  ASSUME TypeOK, NoSendLeftBehind, [Next]_vars
  PROVE  NoSendLeftBehind'
<1> SUFFICES ASSUME NEW c \in Ctx, channel'[c] # "open", alive'[Owner[c]],
                    NEW k \in DOMAIN deser'[c], ~deser'[c][k].done
             PROVE  QueuedIn(itasks'[Owner[c]], c, deser'[c][k].id)
  BY DEF NoSendLeftBehind, QueuedIn
<1> DEFINE p == Owner[c]
           i == deser'[c][k].id
<1>1. p \in Proc /\ alive[p]
  BY ConstantsAssumption, DeadStaysDead
<1>2. ~CancelPendingSends(c)
  BY CancelEnds
<1>3. channel[c] # "open"
  BY <1>2, ChannelChanges
<1>4. CASE \E j \in DOMAIN deser[c] : ~deser[c][j].done /\ deser[c][j].id = i
  <2>1. QueuedIn(itasks[p], c, i)
    BY <1>1, <1>3, <1>4 DEF NoSendLeftBehind, QueuedIn
  <2>2. ASSUME OnSendMessage(p), Head(itasks[p]).ctx = c PROVE FALSE
    BY <1>2, <1>3, <2>2 DEF OnSendMessage
  <2>3. QED
    BY <2>1, <2>2, MessageStaysQueued
<1>5. QED
  BY <1>4, DeserWaiting DEF WaitingFrom

LEMMA InitNoSendLeftBehind == Init => NoSendLeftBehind
  BY DEF Init, NoSendLeftBehind

(***************************************************************************)
(* Theorems.                                                               *)
(***************************************************************************)
\* The inductive invariant holds in every reachable state.
LEMMA InitIInv == Init => IInv
  BY InitType, InitCallStack, InitSent, InitAnswered, InitNoSendLeftBehind DEF IInv

LEMMA NextIInv == IInv /\ [Next]_vars => IInv'
  BY NextType, NextCallStack, NextSent, NextAnswered, NextNoSendLeftBehind DEF IInv

THEOREM AlwaysIInv == Spec => []IInv
  BY InitIInv, NextIInv, PTL DEF Spec

\* Whatever handlers, nested message loops, timeouts, closed channels and crashes
\* come in between, Pop removes the entry of the very Send that returns, and when a
\* channel is gone no Send on it is left waiting (Pop, CancelPendingSends,
\* OnSendMessage).
THEOREM CallsAccounted == Spec => []SendsAccounted
<1>1. IInv => SendsAccounted
  BY CallStackGives DEF IInv, SendsAccounted
<1>2. QED
  BY <1>1, AlwaysIInv, PTL

\* A Send returns true only if the peer's handler has sent a good reply to that very
\* request: no reply is taken for another Send of the call stack, though replies come
\* in any order and are queued in received_replies_ (TryToUnblockListener, QueueReply,
\* DispatchReplies).
THEOREM TrueCallsAnswered == Spec => []TrueMeansAnswered
<1>1. IInv => TrueMeansAnswered
  BY DEF IInv, Answered
<1>2. QED
  BY <1>1, AlwaysIInv, PTL

\* Begin or Refuse: the next number is fresh.
LEMMA BeginRefines ==
  ASSUME IInv, NEW p \in Proc, NEW c \in Ctx,
         SendAfterShutdown(p, c) \/ \E u \in UnblockFlags[p] : BeginSend(p, c, u)
  PROVE  Calls!CallNext
<1> DEFINE i == nextId[p]
<1>1. i \in Ids /\ i \in Nat
  <2>1. i <= Budget[p] /\ i \in 1..(MaxSends + 1)
    BY DEF BeginSend, SendAfterShutdown, CanSend, IInv, TypeOK, ProcTypeOK
  <2>2. QED
    BY <2>1, ConstantsAssumption DEF Ids
<1>2. outcome[p][i] = "none" /\ \A j \in Ids : outcome[p][j] = "none" => i <= j
  BY <1>1 DEF IInv, CallStack, Numbered
<1>3. Calls!Fresh(p, i)
  BY <1>2 DEF Calls!Fresh, Calls!CallIds, Ids
<1>4. CASE SendAfterShutdown(p, c)
  <2>1. Calls!Refuse(p, i)
    BY <1>3, <1>4 DEF SendAfterShutdown, Calls!Refuse
  <2>2. QED
    BY <1>1, <2>1 DEF Calls!CallNext, Calls!CallIds, Ids
<1>5. CASE \E u \in UnblockFlags[p] : BeginSend(p, c, u)
  <2>1. Calls!Begin(p, i)
    BY <1>3, <1>5 DEF BeginSend, Calls!Begin
  <2>2. QED
    BY <1>1, <2>1 DEF Calls!CallNext, Calls!CallIds, Ids
<1>6. QED
  BY <1>4, <1>5

\* Answer: only a request that was sent reaches a handler.
LEMMA AnswerRefines ==
  ASSUME IInv, NEW c \in Ctx, NEW i \in Ids, SentTo(nextId, c, i), outcome' = outcome,
         answered' = answered \cup {<<Owner[Peer[c]], i>>}, answered' # answered
  PROVE  Calls!CallNext
<1> DEFINE q == Owner[Peer[c]]
<1>1. q \in Proc /\ i \in Nat /\ nextId[q] \in Nat
  BY ConstantsAssumption DEF IInv, TypeOK, ProcTypeOK, Ids
<1>2. outcome[q][i] # "none"
  <2>1. ~(nextId[q] <= i)
    BY <1>1 DEF SentTo
  <2>2. QED
    BY <1>1, <2>1 DEF IInv, CallStack, Numbered
<1>3. <<q, i>> \notin answered
  OBVIOUS
<1>4. Calls!Answer(q, i)
  BY <1>2, <1>3 DEF Calls!Answer
<1>5. QED
  BY <1>1, <1>4 DEF Calls!CallNext, Calls!CallIds, Ids

LEMMA ReturnRefines ==
  ASSUME IInv, NEW p \in Proc, SendReturns(p) \/ QuitsLoop(p)
  PROVE  Calls!CallNext
<1> DEFINE i == Top(p).id
<1>1. /\ i \in Ids /\ outcome[p][i] = "pending"
      /\ \A j \in Ids : outcome[p][j] = "pending" => j <= i
      /\ answered' = answered
      /\ \/ outcome' = [outcome EXCEPT ![p][i] = "false"]
         \/ outcome' = [outcome EXCEPT ![p][i] = "true"] /\ <<p, i>> \in answered
  BY ReturnAnswered DEF IInv
<1> HIDE DEF i
<1>2. Calls!Innermost(p, i)
  BY <1>1 DEF Calls!Innermost, Calls!CallIds, Ids
<1>3. Calls!ReturnTrue(p, i) \/ Calls!ReturnFalse(p, i)
  BY <1>1, <1>2 DEF Calls!ReturnTrue, Calls!ReturnFalse
<1>4. QED
  BY <1>1, <1>3 DEF Calls!CallNext, Calls!CallIds, Ids

\* A step of the channels is a step of a call, or none.
LEMMA StepRefines == IInv /\ [Next]_vars => [Calls!CallNext]_(Calls!callVars)
<1> SUFFICES ASSUME IInv, [Next]_vars, ~UNCHANGED <<outcome, answered>> PROVE Calls!CallNext
  BY DEF Calls!callVars
<1>1. ASSUME NEW p \in Proc, NEW ok \in ReplyResults, Reply(p, ok) PROVE Calls!CallNext
  <2>1. Top(p).ctx \in Ctx /\ Top(p).id \in Ids /\ SentTo(nextId, Top(p).ctx, Top(p).id)
    BY <1>1, TopHandlerSent DEF Reply, IInv
  <2>2. outcome' = outcome /\ answered' # answered
    BY <1>1 DEF Reply
  <2>3. answered' = answered \cup {<<Owner[Peer[Top(p).ctx]], Top(p).id>>}
    BY <1>1, <2>2 DEF Reply
  <2>4. QED
    BY <2>1, <2>2, <2>3, AnswerRefines
<1>2. ASSUME NEW p \in Proc, DeferredReplies(p) PROVE Calls!CallNext
  <2>1. PICK c \in Ctx, i \in Ids, ok \in ReplyResults : SendDeferredReply(p, c, i, ok)
    BY <1>2 DEF DeferredReplies
  <2>2. SentTo(nextId, c, i)
    BY <2>1 DEF SendDeferredReply, IInv, Sent
  <2>3. outcome' = outcome /\ answered' # answered
    BY <2>1 DEF SendDeferredReply
  <2>4. answered' = answered \cup {<<Owner[Peer[c]], i>>}
    BY <2>1, <2>3 DEF SendDeferredReply
  <2>5. QED
    BY <2>2, <2>3, <2>4, AnswerRefines
<1>3. ASSUME NEW p \in Proc, OnSendDone(p) PROVE QuitsLoop(p)
  BY <1>3 DEF OnSendDone, QuitsLoop
<1>4. QED
  BY <1>1, <1>2, <1>3, BeginRefines, ReturnRefines, HistoryChanges

\* SyncChannel implements SyncCall for every topology: seen from the callers, each
\* process makes nested calls that return innermost first, and true only if answered.
THEOREM ChannelImplementsCalls == Spec => ImplementsSyncCall
<1>1. Init => Calls!CallInit
  BY DEF Init, Calls!CallInit, Calls!CallIds, Ids
<1>2. QED
  BY <1>1, StepRefines, AlwaysIInv, PTL DEF Spec, ImplementsSyncCall, Calls!CallSpec
=============================================================================
