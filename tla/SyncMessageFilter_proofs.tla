------------------------ MODULE SyncMessageFilter_proofs ------------------------
(***************************************************************************)
(* Proofs about SyncMessageFilter, for any workers and any numbers of      *)
(* messages: types, the soundness of the filter's pointers, and that the   *)
(* filter implements SyncCall and fails a call for a reason only.          *)
(*                                                                         *)
(* The argument is about the one task that adds the filter: before it runs *)
(* there is no call, after it the filter loses its channel at most once,   *)
(* and in that moment signals every call that is registered.  A call that  *)
(* registers later has a message that is still to be tried.                *)
(***************************************************************************)
EXTENDS SyncMessageFilter, TLAPS

(***************************************************************************)
(* The inductive invariant.                                                *)
(***************************************************************************)

\* At most one task of a queue adds the filter.
OneAdd(q) == \A j, k \in 1..Len(q) : q[j].kind = "add" /\ q[k].kind = "add" => j = k

\* Nothing is registered before the filter has its loop, and it gets it once.
Adding ==
  /\ OneAdd(tasks)
  /\ ioLoop => \A t \in ToSet(tasks) : t.kind # "add"
  /\ pending # {} => ioLoop
  /\ channelPtr => added

\* The calls of a worker come one after the other.
Numbers ==
  \A w \in Worker :
    /\ pc[w] # "idle" => nextId[w] \in Ids /\ outcome[w][nextId[w]] = "pending"
    /\ pc[w] = "idle" /\ nextId[w] \in Ids => outcome[w][nextId[w]] = "none"
    /\ \A i \in Ids : (i < nextId[w] => outcome[w][i] \in {"true", "false"})
                      /\ (i > nextId[w] => outcome[w][i] = "none")

\* A worker is woken for a reason, and a result of true is its peer's.
Told ==
  \A w \in Worker :
    /\ pc[w] = "woken" => done[w] \/ shutdown
    /\ done[w] /\ ~result[w] => ~channelPtr \/ <<w, nextId[w]>> \in rejected
    /\ result[w] => <<w, nextId[w]>> \in answered

\* What is on its way was sent, and what comes back was answered.
Messages ==
  /\ \A t \in ToSet(tasks) : t.kind = "sync" => outcome[t.msg[1]][t.msg[2]] # "none"
  /\ \A m \in requests : outcome[m[1]][m[2]] # "none"
  /\ \A r \in replies : IF r.ok THEN r.to \in answered ELSE r.to \in rejected

IInv == TypeOK /\ PointersSound /\ Adding /\ Numbers /\ Told /\ Messages

(***************************************************************************)
(* The queue of the IPC thread.                                            *)
(***************************************************************************)

\* PostTask adds its task, if the loop runs, and nothing else.
LEMMA PostTaskAdds ==
  ASSUME tasks \in Seq(Task), NEW t \in Task, PostTask(t)
  PROVE  /\ tasks' \in Seq(Task)
         /\ ToSet(tasks) \subseteq ToSet(tasks')
         /\ ToSet(tasks') \subseteq ToSet(tasks) \cup {t}
         /\ running => t \in ToSet(tasks')
         /\ OneAdd(tasks) /\ t.kind # "add" => OneAdd(tasks')
<1>1. CASE running
  <2>1. tasks' = Append(tasks, t)
    BY <1>1 DEF PostTask
  <2>2. tasks' \in Seq(Task) /\ Len(tasks') = Len(tasks) + 1 /\ tasks'[Len(tasks) + 1] = t
        /\ \A k \in 1..Len(tasks) : tasks'[k] = tasks[k]
    BY <2>1
  <2>3. Len(tasks) \in Nat /\ DOMAIN tasks = 1..Len(tasks) /\ DOMAIN tasks' = 1..Len(tasks')
    BY <2>2
  <2>4. QED
    BY <2>2, <2>3 DEF ToSet, OneAdd
<1>2. CASE ~running
  BY <1>2 DEF PostTask
<1>3. QED
  BY <1>1, <1>2

\* Running a task takes it from the head; there is no second one that adds the filter.
LEMMA HeadTaskTakes ==
  ASSUME tasks \in Seq(Task), NEW kind, HeadTask(kind)
  PROVE  /\ tasks' \in Seq(Task)
         /\ Head(tasks) \in Task /\ Head(tasks) \in ToSet(tasks) /\ Head(tasks).kind = kind
         /\ ToSet(tasks') \subseteq ToSet(tasks)
         /\ ToSet(tasks) \subseteq ToSet(tasks') \cup {Head(tasks)}
         /\ OneAdd(tasks) => OneAdd(tasks')
         /\ OneAdd(tasks) /\ kind = "add" => \A t \in ToSet(tasks') : t.kind # "add"
<1>1. tasks # <<>> /\ Head(tasks).kind = kind /\ tasks' = Tail(tasks)
  BY DEF HeadTask
<1>2. /\ Len(tasks) \in Nat /\ Len(tasks) >= 1 /\ DOMAIN tasks = 1..Len(tasks)
      /\ Head(tasks) = tasks[1] /\ tasks' \in Seq(Task)
      /\ DOMAIN tasks' = 1..(Len(tasks) - 1) /\ Len(tasks') = Len(tasks) - 1
      /\ \A k \in 1..(Len(tasks) - 1) : tasks'[k] = tasks[k + 1]
  BY <1>1
<1>3. Head(tasks) \in Task /\ Head(tasks) \in ToSet(tasks)
  BY <1>2 DEF ToSet
<1>4. ToSet(tasks') \subseteq ToSet(tasks)
  BY SMTT(30), <1>2 DEF ToSet
<1>5. ToSet(tasks) \subseteq ToSet(tasks') \cup {Head(tasks)}
  <2> SUFFICES ASSUME NEW k \in 1..Len(tasks), k # 1 PROVE tasks[k] \in ToSet(tasks')
    BY <1>2 DEF ToSet
  <2>1. k - 1 \in 1..(Len(tasks) - 1) /\ tasks'[k - 1] = tasks[k]
    BY <1>2
  <2>2. QED
    BY <1>2, <2>1 DEF ToSet
<1>6. OneAdd(tasks) => OneAdd(tasks')
  <2> SUFFICES ASSUME OneAdd(tasks), NEW j \in 1..(Len(tasks) - 1), NEW k \in 1..(Len(tasks) - 1),
                      tasks'[j].kind = "add", tasks'[k].kind = "add"
               PROVE  j = k
    BY <1>2 DEF OneAdd
  <2>1. tasks[j + 1].kind = "add" /\ tasks[k + 1].kind = "add"
        /\ j + 1 \in 1..Len(tasks) /\ k + 1 \in 1..Len(tasks)
    BY <1>2
  <2>2. j + 1 = k + 1
    BY <2>1 DEF OneAdd
  <2>3. QED
    BY <2>2
<1>7. OneAdd(tasks) /\ kind = "add" => \A t \in ToSet(tasks') : t.kind # "add"
  <2> SUFFICES ASSUME OneAdd(tasks), kind = "add", NEW k \in 1..(Len(tasks) - 1),
                      tasks'[k].kind = "add"
               PROVE  FALSE
    BY <1>2 DEF ToSet
  <2>1. tasks[k + 1].kind = "add" /\ tasks[1].kind = "add"
        /\ k + 1 \in 1..Len(tasks) /\ 1 \in 1..Len(tasks)
    BY <1>1, <1>2
  <2>2. k + 1 = 1
    BY <2>1 DEF OneAdd
  <2>3. QED
    BY <2>2
<1>8. QED
  BY <1>1, <1>2, <1>3, <1>4, <1>5, <1>6, <1>7

\* A task of each kind is a task.
LEMMA TaskTypes ==
  /\ \A k \in {"open", "add", "close", "async"} : Control(k) \in Task /\ Control(k).kind = k
  /\ \A w \in Worker : nextId[w] \in Ids => SendTask(w) \in Task /\ SendTask(w).kind = "sync"
                                            /\ SendTask(w).msg = <<w, nextId[w]>>
  /\ \A t \in Task : t.kind = "sync" => t.msg \in Request
  BY DEF Control, SendTask, Task, Request

(***************************************************************************)
(* Every action keeps the invariant.                                       *)
(***************************************************************************)

\* A Send is refused before there is a loop to post to.
LEMMA SendRefusedKeeps ==
  ASSUME IInv, NEW w \in Worker, SendRefused(w)
  PROVE  IInv'
<1> USE ConstantsAssumption DEF IInv, PointersSound,
         workerVars, filterVars, channelVars, history
<1>1. TypeOK'
  <2>1. nextId[w] \in Ids
    BY DEF SendRefused, CanSend, TypeOK, Numbers, Ids
  <2>2. nextId' \in [Worker -> 1..(MaxSends + 1)]
    BY <2>1 DEF SendRefused, CanSend, TypeOK, Ids
  <2>3. outcome' \in [Worker -> [Ids -> {"none", "pending", "true", "false"}]]
    BY <2>1 DEF SendRefused, CanSend, TypeOK
  <2>4. QED
    BY <2>2, <2>3 DEF SendRefused, CanSend, TypeOK
<1>2. NoDanglingSend'
  BY DEF SendRefused, CanSend, NoDanglingSend, TypeOK
<1>3. ChannelPointerLive'
  BY DEF SendRefused, CanSend, ChannelPointerLive
<1>4. NoWorkerLeftBehind'
  BY DEF SendRefused, CanSend, NoWorkerLeftBehind, NoDanglingSend, TypeOK,
     SendTask, Adding
<1>5. Adding'
  BY DEF SendRefused, CanSend, Adding, NoDanglingSend, TypeOK
<1>6. Numbers'
  BY DEF SendRefused, CanSend, Numbers, TypeOK, Ids
<1>7. Told'
  BY DEF SendRefused, CanSend, Told, TypeOK, Messages, Adding, NoDanglingSend, Reply
<1>8. Messages'
  BY DEF SendRefused, CanSend, Messages, TypeOK, Numbers, Request, Reply
<1>9. QED
  BY <1>1, <1>2, <1>3, <1>4, <1>5, <1>6, <1>7, <1>8 DEF IInv, PointersSound

\* An asynchronous message registers nothing.
LEMMA SendAsyncKeeps ==
  ASSUME IInv, NEW w \in Worker, SendAsync(w)
  PROVE  IInv'
<1>1. Control("async") \in Task /\ Control("async").kind = "async"
  BY TaskTypes DEF SendAsync, IInv, Numbers
<1>2. /\ tasks' \in Seq(Task)
      /\ ToSet(tasks) \subseteq ToSet(tasks')
      /\ ToSet(tasks') \subseteq ToSet(tasks) \cup {Control("async")}
      /\ running => Control("async") \in ToSet(tasks')
      /\ OneAdd(tasks')
  BY <1>1, PostTaskAdds DEF SendAsync, IInv, TypeOK, Adding
<1> USE ConstantsAssumption, <1>1, <1>2 DEF IInv, PointersSound,
         workerVars, filterVars, channelVars, history
<1>3. TypeOK'
  BY DEF SendAsync, TypeOK, Request, Reply, NoDanglingSend
<1>4. NoDanglingSend'
  BY DEF SendAsync, NoDanglingSend, TypeOK
<1>5. ChannelPointerLive'
  BY DEF SendAsync, ChannelPointerLive
<1>6. NoWorkerLeftBehind'
  BY DEF SendAsync, NoWorkerLeftBehind, NoDanglingSend, TypeOK,
     SendTask, Adding
<1>7. Adding'
  BY DEF SendAsync, Adding, NoDanglingSend, TypeOK
<1>8. Numbers'
  BY DEF SendAsync, Numbers, TypeOK, Ids
<1>9. Told'
  BY DEF SendAsync, Told, TypeOK, Messages, Adding, NoDanglingSend, Reply
<1>10. Messages'
  BY DEF SendAsync, Messages, TypeOK, Numbers, Request, Reply
<1>11. QED
  BY <1>3, <1>4, <1>5, <1>6, <1>7, <1>8, <1>9, <1>10 DEF IInv, PointersSound

\* The entry is registered before its message is posted.
LEMMA InsertKeeps ==
  ASSUME IInv, NEW w \in Worker, Insert(w)
  PROVE  IInv'
<1> USE ConstantsAssumption DEF IInv, PointersSound,
         workerVars, filterVars, channelVars, history
<1>1. TypeOK'
  BY DEF Insert, CanSend, TypeOK, Request, Reply, NoDanglingSend
<1>2. NoDanglingSend'
  BY DEF Insert, CanSend, NoDanglingSend, TypeOK
<1>3. ChannelPointerLive'
  BY DEF Insert, CanSend, ChannelPointerLive
<1>4. NoWorkerLeftBehind'
  BY DEF Insert, CanSend, NoWorkerLeftBehind, NoDanglingSend, TypeOK,
     SendTask, Adding
<1>5. Adding'
  BY DEF Insert, CanSend, Adding, NoDanglingSend, TypeOK
<1>6. Numbers'
  BY DEF Insert, CanSend, Numbers, TypeOK, Ids
<1>7. Told'
  BY DEF Insert, CanSend, Told, TypeOK, Messages, Adding, NoDanglingSend, Reply
<1>8. Messages'
  BY DEF Insert, CanSend, Messages, TypeOK, Numbers, Request, Reply
<1>9. QED
  BY <1>1, <1>2, <1>3, <1>4, <1>5, <1>6, <1>7, <1>8 DEF IInv, PointersSound

\* From here a worker waits with its message in the queue.
LEMMA PostKeeps ==
  ASSUME IInv, NEW w \in Worker, Post(w)
  PROVE  IInv'
<1>1. SendTask(w) \in Task /\ SendTask(w).kind = "sync" /\ SendTask(w).msg = <<w, nextId[w]>>
  BY TaskTypes DEF Post, IInv, Numbers
<1>2. /\ tasks' \in Seq(Task)
      /\ ToSet(tasks) \subseteq ToSet(tasks')
      /\ ToSet(tasks') \subseteq ToSet(tasks) \cup {SendTask(w)}
      /\ running => SendTask(w) \in ToSet(tasks')
      /\ OneAdd(tasks')
  BY <1>1, PostTaskAdds DEF Post, IInv, TypeOK, Adding
<1> USE ConstantsAssumption, <1>1, <1>2 DEF IInv, PointersSound,
         workerVars, filterVars, channelVars, history
<1>3. TypeOK'
  BY DEF Post, TypeOK, Request, Reply, NoDanglingSend
<1>4. NoDanglingSend'
  BY DEF Post, NoDanglingSend, TypeOK
<1>5. ChannelPointerLive'
  BY DEF Post, ChannelPointerLive
<1>6. NoWorkerLeftBehind'
  BY DEF Post, NoWorkerLeftBehind, NoDanglingSend, TypeOK,
     SendTask, Adding
<1>7. Adding'
  BY DEF Post, Adding, NoDanglingSend, TypeOK
<1>8. Numbers'
  BY DEF Post, Numbers, TypeOK, Ids
<1>9. Told'
  BY DEF Post, Told, TypeOK, Messages, Adding, NoDanglingSend, Reply
<1>10. Messages'
  <2>1. outcome[w][nextId[w]] = "pending"
    BY DEF Post, Numbers
  <2>2. \A t \in ToSet(tasks') : t.kind = "sync" => outcome[t.msg[1]][t.msg[2]] # "none"
    <3>1. ASSUME NEW t \in ToSet(tasks'), t.kind = "sync"
          PROVE  outcome[t.msg[1]][t.msg[2]] # "none"
      <4>1. CASE t \in ToSet(tasks)
        BY <3>1, <4>1 DEF Messages
      <4>2. CASE t = SendTask(w)
        BY <2>1, <4>2
      <4>3. QED
        BY <4>1, <4>2
    <3>2. QED
      BY <3>1
  <2>3. QED
    BY <2>2 DEF Post, Messages
<1>11. QED
  BY <1>3, <1>4, <1>5, <1>6, <1>7, <1>8, <1>9, <1>10 DEF IInv, PointersSound

\* A worker that wakes no longer waits.
LEMMA WaitManyReturnsKeeps ==
  ASSUME IInv, NEW w \in Worker, WaitManyReturns(w)
  PROVE  IInv'
<1> USE ConstantsAssumption DEF IInv, PointersSound,
         workerVars, filterVars, channelVars, history
<1>1. TypeOK'
  BY DEF WaitManyReturns, TypeOK, Request, Reply, NoDanglingSend
<1>2. NoDanglingSend'
  BY DEF WaitManyReturns, NoDanglingSend, TypeOK
<1>3. ChannelPointerLive'
  BY DEF WaitManyReturns, ChannelPointerLive
<1>4. NoWorkerLeftBehind'
  BY DEF WaitManyReturns, NoWorkerLeftBehind, NoDanglingSend, TypeOK,
     SendTask, Adding
<1>5. Adding'
  BY DEF WaitManyReturns, Adding, NoDanglingSend, TypeOK
<1>6. Numbers'
  BY DEF WaitManyReturns, Numbers, TypeOK, Ids
<1>7. Told'
  BY DEF WaitManyReturns, Told, TypeOK, Messages, Adding, NoDanglingSend, Reply
<1>8. Messages'
  BY DEF WaitManyReturns, Messages, TypeOK, Numbers, Request, Reply
<1>9. QED
  BY <1>1, <1>2, <1>3, <1>4, <1>5, <1>6, <1>7, <1>8 DEF IInv, PointersSound

\* The entry goes with the stack it is on.
LEMMA SendReturnsKeeps ==
  ASSUME IInv, NEW w \in Worker, SendReturns(w)
  PROVE  IInv'
<1> USE ConstantsAssumption DEF IInv, PointersSound,
         workerVars, filterVars, channelVars, history
<1>1. TypeOK'
  <2>1. nextId[w] \in Ids
    BY DEF SendReturns, TypeOK, Numbers, Ids
  <2>2. nextId' \in [Worker -> 1..(MaxSends + 1)]
    BY <2>1 DEF SendReturns, TypeOK, Ids
  <2>3. outcome' \in [Worker -> [Ids -> {"none", "pending", "true", "false"}]]
    BY <2>1 DEF SendReturns, TypeOK
  <2>4. /\ pc' \in [Worker -> {"idle", "inserted", "waiting", "woken"}]
        /\ done' \in [Worker -> BOOLEAN] /\ result' \in [Worker -> BOOLEAN]
        /\ pending' \subseteq Worker
        /\ \A v \in Worker : pc'[v] = "idle" => ~done'[v] /\ ~result'[v]
    BY DEF SendReturns, TypeOK
  <2>5. QED
    BY <2>2, <2>3, <2>4 DEF SendReturns, TypeOK
<1>2. NoDanglingSend'
  BY DEF SendReturns, NoDanglingSend, TypeOK
<1>3. ChannelPointerLive'
  BY DEF SendReturns, ChannelPointerLive
<1>4. NoWorkerLeftBehind'
  BY DEF SendReturns, NoWorkerLeftBehind, NoDanglingSend, TypeOK,
     SendTask, Adding
<1>5. Adding'
  BY DEF SendReturns, Adding, NoDanglingSend, TypeOK
<1>6. Numbers'
  BY DEF SendReturns, Numbers, TypeOK, Ids
<1>7. Told'
  BY DEF SendReturns, Told, TypeOK, Messages, Adding, NoDanglingSend, Reply
<1>8. Messages'
  BY DEF SendReturns, Messages, TypeOK, Numbers, Request, Reply
<1>9. QED
  BY <1>1, <1>2, <1>3, <1>4, <1>5, <1>6, <1>7, <1>8 DEF IInv, PointersSound

\* Opening a channel, or failing to, tells nobody.
LEMMA OpenChannelKeeps ==
  ASSUME IInv, OpenChannel
  PROVE  IInv'
<1>1. /\ tasks' \in Seq(Task)
      /\ Head(tasks) \in Task /\ Head(tasks) \in ToSet(tasks) /\ Head(tasks).kind = "open"
      /\ ToSet(tasks') \subseteq ToSet(tasks)
      /\ ToSet(tasks) \subseteq ToSet(tasks') \cup {Head(tasks)}
      /\ OneAdd(tasks')
  BY HeadTaskTakes DEF OpenChannel, IInv, TypeOK, Adding
<1> USE ConstantsAssumption, <1>1 DEF IInv, PointersSound,
         workerVars, filterVars, channelVars, history
<1>2. TypeOK'
  BY DEF OpenChannel, TypeOK, Request, Reply, NoDanglingSend
<1>3. NoDanglingSend'
  BY DEF OpenChannel, NoDanglingSend, TypeOK
<1>4. ChannelPointerLive'
  BY DEF OpenChannel, ChannelPointerLive
<1>5. NoWorkerLeftBehind'
  BY DEF OpenChannel, NoWorkerLeftBehind, NoDanglingSend, TypeOK,
     SendTask, Adding
<1>6. Adding'
  BY DEF OpenChannel, Adding, NoDanglingSend, TypeOK
<1>7. Numbers'
  BY DEF OpenChannel, Numbers, TypeOK, Ids
<1>8. Told'
  BY DEF OpenChannel, Told, TypeOK, Messages, Adding, NoDanglingSend, Reply
<1>9. Messages'
  BY DEF OpenChannel, Messages, TypeOK, Numbers, Request, Reply
<1>10. QED
  BY <1>2, <1>3, <1>4, <1>5, <1>6, <1>7, <1>8, <1>9 DEF IInv, PointersSound

\* The one task that adds the filter, before there is any call.
LEMMA OnFilterAddedKeeps ==
  ASSUME IInv, OnFilterAdded
  PROVE  IInv'
<1>1. /\ tasks' \in Seq(Task)
      /\ Head(tasks) \in Task /\ Head(tasks) \in ToSet(tasks) /\ Head(tasks).kind = "add"
      /\ ToSet(tasks') \subseteq ToSet(tasks)
      /\ ToSet(tasks) \subseteq ToSet(tasks') \cup {Head(tasks)}
      /\ OneAdd(tasks')
      /\ \A t \in ToSet(tasks') : t.kind # "add"
  BY HeadTaskTakes DEF OnFilterAdded, IInv, TypeOK, Adding
<1> USE ConstantsAssumption, <1>1 DEF IInv, PointersSound,
         workerVars, filterVars, channelVars, history
<1>2. TypeOK'
  BY DEF OnFilterAdded, TypeOK, Request, Reply, NoDanglingSend
<1>3. NoDanglingSend'
  BY DEF OnFilterAdded, NoDanglingSend, TypeOK
<1>4. ChannelPointerLive'
  BY DEF OnFilterAdded, ChannelPointerLive
<1>5. NoWorkerLeftBehind'
  BY DEF OnFilterAdded, NoWorkerLeftBehind, NoDanglingSend, TypeOK,
     SendTask, Adding
<1>6. Adding'
  BY DEF OnFilterAdded, Adding, NoDanglingSend, TypeOK
<1>7. Numbers'
  BY DEF OnFilterAdded, Numbers, TypeOK, Ids
<1>8. Told'
  BY DEF OnFilterAdded, Told, TypeOK, Messages, Adding, NoDanglingSend, Reply
<1>9. Messages'
  BY DEF OnFilterAdded, Messages, TypeOK, Numbers, Request, Reply
<1>10. QED
  BY <1>2, <1>3, <1>4, <1>5, <1>6, <1>7, <1>8, <1>9 DEF IInv, PointersSound

\* A message that finds no channel signals every call that is registered.
LEMMA SendOnIOThreadKeeps ==
  ASSUME IInv, SendOnIOThread
  PROVE  IInv'
<1>1. /\ tasks' \in Seq(Task)
      /\ Head(tasks) \in Task /\ Head(tasks) \in ToSet(tasks) /\ Head(tasks).kind = "sync"
      /\ ToSet(tasks') \subseteq ToSet(tasks)
      /\ ToSet(tasks) \subseteq ToSet(tasks') \cup {Head(tasks)}
      /\ OneAdd(tasks')
  BY HeadTaskTakes DEF SendOnIOThread, IInv, TypeOK, Adding
<1> USE ConstantsAssumption, <1>1 DEF IInv, PointersSound,
         workerVars, filterVars, channelVars, history
<1>2. TypeOK'
  <2>1. Head(tasks).msg \in Request
    BY TaskTypes
  <2>2. requests' \subseteq Request
    BY <2>1 DEF SendOnIOThread, TypeOK
  <2>3. done' \in [Worker -> BOOLEAN] /\ \A w \in Worker : done'[w] => done[w] \/ w \in pending
    BY DEF SendOnIOThread, SignalAllEvents, TypeOK
  <2>4. QED
    BY <2>2, <2>3 DEF SendOnIOThread, TypeOK, NoDanglingSend
<1>3. NoDanglingSend'
  BY DEF SendOnIOThread, SignalAllEvents, NoDanglingSend, TypeOK
<1>4. ChannelPointerLive'
  BY DEF SendOnIOThread, SignalAllEvents, ChannelPointerLive
<1>5. NoWorkerLeftBehind'
  BY DEF SendOnIOThread, SignalAllEvents, NoWorkerLeftBehind, NoDanglingSend, TypeOK,
     SendTask, Adding
<1>6. Adding'
  BY DEF SendOnIOThread, SignalAllEvents, Adding, NoDanglingSend, TypeOK
<1>7. Numbers'
  BY DEF SendOnIOThread, SignalAllEvents, Numbers, TypeOK, Ids
<1>8. Told'
  BY DEF SendOnIOThread, SignalAllEvents, Told, TypeOK, Messages, Adding, NoDanglingSend, Reply
<1>9. Messages'
  BY DEF SendOnIOThread, SignalAllEvents, Messages, TypeOK, Numbers, Request, Reply
<1>10. QED
  BY <1>2, <1>3, <1>4, <1>5, <1>6, <1>7, <1>8, <1>9 DEF IInv, PointersSound

\* An asynchronous message changes nothing of the calls.
LEMMA SendAsyncOnIOThreadKeeps ==
  ASSUME IInv, SendAsyncOnIOThread
  PROVE  IInv'
<1>1. /\ tasks' \in Seq(Task)
      /\ Head(tasks) \in Task /\ Head(tasks) \in ToSet(tasks) /\ Head(tasks).kind = "async"
      /\ ToSet(tasks') \subseteq ToSet(tasks)
      /\ ToSet(tasks) \subseteq ToSet(tasks') \cup {Head(tasks)}
      /\ OneAdd(tasks')
  BY HeadTaskTakes DEF SendAsyncOnIOThread, IInv, TypeOK, Adding
<1> USE ConstantsAssumption, <1>1 DEF IInv, PointersSound,
         workerVars, filterVars, channelVars, history
<1>2. TypeOK'
  BY DEF SendAsyncOnIOThread, TypeOK, Request, Reply, NoDanglingSend
<1>3. NoDanglingSend'
  BY DEF SendAsyncOnIOThread, NoDanglingSend, TypeOK
<1>4. ChannelPointerLive'
  BY DEF SendAsyncOnIOThread, ChannelPointerLive
<1>5. NoWorkerLeftBehind'
  BY DEF SendAsyncOnIOThread, NoWorkerLeftBehind, NoDanglingSend, TypeOK,
     SendTask, Adding
<1>6. Adding'
  BY DEF SendAsyncOnIOThread, Adding, NoDanglingSend, TypeOK
<1>7. Numbers'
  BY DEF SendAsyncOnIOThread, Numbers, TypeOK, Ids
<1>8. Told'
  BY DEF SendAsyncOnIOThread, Told, TypeOK, Messages, Adding, NoDanglingSend, Reply
<1>9. Messages'
  BY DEF SendAsyncOnIOThread, Messages, TypeOK, Numbers, Request, Reply
<1>10. QED
  BY <1>2, <1>3, <1>4, <1>5, <1>6, <1>7, <1>8, <1>9 DEF IInv, PointersSound

\* Closing signals every call that is registered.
LEMMA OnChannelClosingKeeps ==
  ASSUME IInv, OnChannelClosing
  PROVE  IInv'
<1>1. /\ tasks' \in Seq(Task)
      /\ Head(tasks) \in Task /\ Head(tasks) \in ToSet(tasks) /\ Head(tasks).kind = "close"
      /\ ToSet(tasks') \subseteq ToSet(tasks)
      /\ ToSet(tasks) \subseteq ToSet(tasks') \cup {Head(tasks)}
      /\ OneAdd(tasks')
  BY HeadTaskTakes DEF OnChannelClosing, IInv, TypeOK, Adding
<1> USE ConstantsAssumption, <1>1 DEF IInv, PointersSound,
         workerVars, filterVars, channelVars, history
<1>2. TypeOK'
  BY DEF OnChannelClosing, SignalAllEvents, TypeOK, Request, Reply, NoDanglingSend
<1>3. NoDanglingSend'
  BY DEF OnChannelClosing, SignalAllEvents, NoDanglingSend, TypeOK
<1>4. ChannelPointerLive'
  BY DEF OnChannelClosing, SignalAllEvents, ChannelPointerLive
<1>5. NoWorkerLeftBehind'
  BY SMTT(30) DEF OnChannelClosing, SignalAllEvents, NoWorkerLeftBehind, NoDanglingSend, TypeOK,
     SendTask, Adding
<1>6. Adding'
  BY DEF OnChannelClosing, SignalAllEvents, Adding, NoDanglingSend, TypeOK
<1>7. Numbers'
  BY DEF OnChannelClosing, SignalAllEvents, Numbers, TypeOK, Ids
<1>8. Told'
  BY DEF OnChannelClosing, SignalAllEvents, Told, TypeOK, Messages, Adding, NoDanglingSend, Reply
<1>9. Messages'
  BY DEF OnChannelClosing, SignalAllEvents, Messages, TypeOK, Numbers, Request, Reply
<1>10. QED
  BY <1>2, <1>3, <1>4, <1>5, <1>6, <1>7, <1>8, <1>9 DEF IInv, PointersSound

\* So does an error, for a filter that has been added.
LEMMA OnChannelErrorKeeps ==
  ASSUME IInv, NEW c \in {"open", "broken"}, OnChannelError(c)
  PROVE  IInv'
<1> USE ConstantsAssumption DEF IInv, PointersSound,
         workerVars, filterVars, channelVars, history
<1>1. TypeOK'
  BY DEF OnChannelError, SignalAllEvents, TypeOK, Request, Reply, NoDanglingSend
<1>2. NoDanglingSend'
  BY DEF OnChannelError, SignalAllEvents, NoDanglingSend, TypeOK
<1>3. ChannelPointerLive'
  BY DEF OnChannelError, SignalAllEvents, ChannelPointerLive
<1>4. NoWorkerLeftBehind'
  BY DEF OnChannelError, SignalAllEvents, NoWorkerLeftBehind, NoDanglingSend, TypeOK,
     SendTask, Adding
<1>5. Adding'
  BY DEF OnChannelError, SignalAllEvents, Adding, NoDanglingSend, TypeOK
<1>6. Numbers'
  BY DEF OnChannelError, SignalAllEvents, Numbers, TypeOK, Ids
<1>7. Told'
  BY DEF OnChannelError, SignalAllEvents, Told, TypeOK, Messages, Adding, NoDanglingSend, Reply
<1>8. Messages'
  BY DEF OnChannelError, SignalAllEvents, Messages, TypeOK, Numbers, Request, Reply
<1>9. QED
  BY <1>1, <1>2, <1>3, <1>4, <1>5, <1>6, <1>7, <1>8 DEF IInv, PointersSound

\* A reply ends the call it is for, if that is still registered.
LEMMA OnMessageReceivedKeeps ==
  ASSUME IInv, NEW r \in replies, OnMessageReceived(r)
  PROVE  IInv'
<1> USE ConstantsAssumption DEF IInv, PointersSound,
         workerVars, filterVars, channelVars, history
<1>1. TypeOK'
  BY DEF OnMessageReceived, Takes, TypeOK, Request, Reply, NoDanglingSend
<1>2. NoDanglingSend'
  BY DEF OnMessageReceived, Takes, NoDanglingSend, TypeOK
<1>3. ChannelPointerLive'
  BY DEF OnMessageReceived, Takes, ChannelPointerLive
<1>4. NoWorkerLeftBehind'
  BY DEF OnMessageReceived, Takes, NoWorkerLeftBehind, NoDanglingSend, TypeOK,
     SendTask, Adding
<1>5. Adding'
  BY DEF OnMessageReceived, Takes, Adding, NoDanglingSend, TypeOK
<1>6. Numbers'
  BY DEF OnMessageReceived, Takes, Numbers, TypeOK, Ids
<1>7. Told'
  <2>1. r \in Reply /\ r.to \in Request
    BY DEF TypeOK, Reply
  <2>2. PICK v \in Worker, i \in Ids : r.to = <<v, i>>
    BY <2>1 DEF Request
  <2>3. IF r.ok THEN <<v, i>> \in answered ELSE <<v, i>> \in rejected
    BY <2>2 DEF Messages
  <2>4. CASE Takes(r)
    <3>1. nextId[v] = i /\ result' = [result EXCEPT ![v] = @ \/ r.ok]
          /\ done' = [done EXCEPT ![v] = TRUE]
      BY <2>2, <2>4 DEF OnMessageReceived, Takes
    <3>2. r.ok \in BOOLEAN
      BY <2>1 DEF Reply
    <3>3. result'[v] = (result[v] \/ r.ok) /\ done'[v]
      BY <3>1 DEF TypeOK
    <3>4. \A w \in Worker : w # v => result'[w] = result[w] /\ done'[w] = done[w]
      BY <3>1 DEF TypeOK
    <3>5. UNCHANGED <<pc, shutdown, channelPtr, rejected, nextId, answered>>
      BY DEF OnMessageReceived
    <3>6. QED
      BY <2>3, <3>1, <3>2, <3>3, <3>4, <3>5 DEF Told
  <2>5. CASE ~Takes(r)
    BY <2>5 DEF OnMessageReceived, Told
  <2>6. QED
    BY <2>4, <2>5
<1>8. Messages'
  BY DEF OnMessageReceived, Takes, Messages, TypeOK, Numbers, Request, Reply
<1>9. QED
  BY <1>1, <1>2, <1>3, <1>4, <1>5, <1>6, <1>7, <1>8 DEF IInv, PointersSound

\* Close only posts a task.
LEMMA CloseKeeps ==
  ASSUME IInv, Close
  PROVE  IInv'
<1>1. Control("close") \in Task /\ Control("close").kind = "close"
  BY TaskTypes DEF Close, IInv, Numbers
<1>2. /\ tasks' \in Seq(Task)
      /\ ToSet(tasks) \subseteq ToSet(tasks')
      /\ ToSet(tasks') \subseteq ToSet(tasks) \cup {Control("close")}
      /\ running => Control("close") \in ToSet(tasks')
      /\ OneAdd(tasks')
  BY <1>1, PostTaskAdds DEF Close, IInv, TypeOK, Adding
<1> USE ConstantsAssumption, <1>1, <1>2 DEF IInv, PointersSound,
         workerVars, filterVars, channelVars, history
<1>3. TypeOK'
  BY DEF Close, TypeOK, Request, Reply, NoDanglingSend
<1>4. NoDanglingSend'
  BY DEF Close, NoDanglingSend, TypeOK
<1>5. ChannelPointerLive'
  BY DEF Close, ChannelPointerLive
<1>6. NoWorkerLeftBehind'
  BY DEF Close, NoWorkerLeftBehind, NoDanglingSend, TypeOK,
     SendTask, Adding
<1>7. Adding'
  BY DEF Close, Adding, NoDanglingSend, TypeOK
<1>8. Numbers'
  BY DEF Close, Numbers, TypeOK, Ids
<1>9. Told'
  BY DEF Close, Told, TypeOK, Messages, Adding, NoDanglingSend, Reply
<1>10. Messages'
  BY DEF Close, Messages, TypeOK, Numbers, Request, Reply
<1>11. QED
  BY <1>3, <1>4, <1>5, <1>6, <1>7, <1>8, <1>9, <1>10 DEF IInv, PointersSound

\* The shutdown event wakes, and says so.
LEMMA ShutdownKeeps ==
  ASSUME IInv, Shutdown
  PROVE  IInv'
<1> USE ConstantsAssumption DEF IInv, PointersSound,
         workerVars, filterVars, channelVars, history
<1>1. TypeOK'
  BY DEF Shutdown, TypeOK, Request, Reply, NoDanglingSend
<1>2. NoDanglingSend'
  BY DEF Shutdown, NoDanglingSend, TypeOK
<1>3. ChannelPointerLive'
  BY DEF Shutdown, ChannelPointerLive
<1>4. NoWorkerLeftBehind'
  BY DEF Shutdown, NoWorkerLeftBehind, NoDanglingSend, TypeOK,
     SendTask, Adding
<1>5. Adding'
  BY DEF Shutdown, Adding, NoDanglingSend, TypeOK
<1>6. Numbers'
  BY DEF Shutdown, Numbers, TypeOK, Ids
<1>7. Told'
  BY DEF Shutdown, Told, TypeOK, Messages, Adding, NoDanglingSend, Reply
<1>8. Messages'
  BY DEF Shutdown, Messages, TypeOK, Numbers, Request, Reply
<1>9. QED
  BY <1>1, <1>2, <1>3, <1>4, <1>5, <1>6, <1>7, <1>8 DEF IInv, PointersSound

\* The tasks left are deleted with the loop.
LEMMA StopIOThreadKeeps ==
  ASSUME IInv, StopIOThread
  PROVE  IInv'
<1>1. tasks' = <<>> /\ tasks' \in Seq(Task) /\ ToSet(tasks') = {} /\ OneAdd(tasks')
  BY DEF StopIOThread, ToSet, OneAdd
<1> USE ConstantsAssumption, <1>1 DEF IInv, PointersSound,
         workerVars, filterVars, channelVars, history
<1>2. TypeOK'
  BY DEF StopIOThread, TypeOK, Request, Reply, NoDanglingSend
<1>3. NoDanglingSend'
  BY DEF StopIOThread, NoDanglingSend, TypeOK
<1>4. ChannelPointerLive'
  BY DEF StopIOThread, ChannelPointerLive
<1>5. NoWorkerLeftBehind'
  BY DEF StopIOThread, NoWorkerLeftBehind, NoDanglingSend, TypeOK,
     SendTask, Adding
<1>6. Adding'
  BY DEF StopIOThread, Adding, NoDanglingSend, TypeOK
<1>7. Numbers'
  BY DEF StopIOThread, Numbers, TypeOK, Ids
<1>8. Told'
  BY DEF StopIOThread, Told, TypeOK, Messages, Adding, NoDanglingSend, Reply
<1>9. Messages'
  BY DEF StopIOThread, Messages, TypeOK, Numbers, Request, Reply
<1>10. QED
  BY <1>2, <1>3, <1>4, <1>5, <1>6, <1>7, <1>8, <1>9 DEF IInv, PointersSound

\* The peer answers what it was sent.
LEMMA PeerRepliesKeeps ==
  ASSUME IInv, NEW m \in requests, NEW ok \in BOOLEAN, PeerReplies(m, ok)
  PROVE  IInv'
<1> USE ConstantsAssumption DEF IInv, PointersSound,
         workerVars, filterVars, channelVars, history
<1>1. TypeOK'
  BY DEF PeerReplies, TypeOK, Request, Reply, NoDanglingSend
<1>2. NoDanglingSend'
  BY DEF PeerReplies, NoDanglingSend, TypeOK
<1>3. ChannelPointerLive'
  BY DEF PeerReplies, ChannelPointerLive
<1>4. NoWorkerLeftBehind'
  BY DEF PeerReplies, NoWorkerLeftBehind, NoDanglingSend, TypeOK,
     SendTask, Adding
<1>5. Adding'
  BY DEF PeerReplies, Adding, NoDanglingSend, TypeOK
<1>6. Numbers'
  BY DEF PeerReplies, Numbers, TypeOK, Ids
<1>7. Told'
  BY DEF PeerReplies, Told, TypeOK, Messages, Adding, NoDanglingSend, Reply
<1>8. Messages'
  BY DEF PeerReplies, Messages, TypeOK, Numbers, Request, Reply
<1>9. QED
  BY <1>1, <1>2, <1>3, <1>4, <1>5, <1>6, <1>7, <1>8 DEF IInv, PointersSound

\* A dead peer has changed nothing yet.
LEMMA PeerDiesKeeps ==
  ASSUME IInv, PeerDies
  PROVE  IInv'
<1> USE ConstantsAssumption DEF IInv, PointersSound,
         workerVars, filterVars, channelVars, history
<1>1. TypeOK'
  BY DEF PeerDies, TypeOK, Request, Reply, NoDanglingSend
<1>2. NoDanglingSend'
  BY DEF PeerDies, NoDanglingSend, TypeOK
<1>3. ChannelPointerLive'
  BY DEF PeerDies, ChannelPointerLive
<1>4. NoWorkerLeftBehind'
  BY DEF PeerDies, NoWorkerLeftBehind, NoDanglingSend, TypeOK,
     SendTask, Adding
<1>5. Adding'
  BY DEF PeerDies, Adding, NoDanglingSend, TypeOK
<1>6. Numbers'
  BY DEF PeerDies, Numbers, TypeOK, Ids
<1>7. Told'
  BY DEF PeerDies, Told, TypeOK, Messages, Adding, NoDanglingSend, Reply
<1>8. Messages'
  BY DEF PeerDies, Messages, TypeOK, Numbers, Request, Reply
<1>9. QED
  BY <1>1, <1>2, <1>3, <1>4, <1>5, <1>6, <1>7, <1>8 DEF IInv, PointersSound

\* Nothing happens.
LEMMA StutterKeeps ==
  ASSUME IInv, UNCHANGED vars
  PROVE  IInv'
<1> USE ConstantsAssumption DEF IInv, PointersSound,
         workerVars, filterVars, channelVars, history
<1>1. TypeOK'
  BY DEF vars, TypeOK, Request, Reply, NoDanglingSend
<1>2. NoDanglingSend'
  BY DEF vars, NoDanglingSend, TypeOK
<1>3. ChannelPointerLive'
  BY DEF vars, ChannelPointerLive
<1>4. NoWorkerLeftBehind'
  BY DEF vars, NoWorkerLeftBehind, NoDanglingSend, TypeOK,
     SendTask, Adding
<1>5. Adding'
  BY DEF vars, Adding, NoDanglingSend, TypeOK
<1>6. Numbers'
  BY DEF vars, Numbers, TypeOK, Ids
<1>7. Told'
  BY DEF vars, Told, TypeOK, Messages, Adding, NoDanglingSend, Reply
<1>8. Messages'
  BY DEF vars, Messages, TypeOK, Numbers, Request, Reply
<1>9. QED
  BY <1>1, <1>2, <1>3, <1>4, <1>5, <1>6, <1>7, <1>8 DEF IInv, PointersSound

(***************************************************************************)
(* The theorems.                                                           *)
(***************************************************************************)

\* At first there is the task that adds the filter, and no call.
LEMMA InitHolds == Init => IInv
<1> SUFFICES ASSUME Init PROVE IInv
  OBVIOUS
<1> USE ConstantsAssumption DEF Init
<1>1. tasks = <<Control("open"), Control("add")>> /\ tasks \in Seq(Task)
  BY TaskTypes
<1>2. TypeOK
  <2>1. nextId \in [Worker -> 1..(MaxSends + 1)] /\ asyncs \in 0..MaxAsync
    OBVIOUS
  <2>2. outcome \in [Worker -> [Ids -> {"none", "pending", "true", "false"}]]
    OBVIOUS
  <2>3. QED
    BY <1>1, <2>1, <2>2 DEF TypeOK
<1>3. PointersSound
  BY DEF PointersSound, NoDanglingSend, NoWorkerLeftBehind, ChannelPointerLive
<1>4. Len(tasks) = 2 /\ tasks[1].kind = "open" /\ tasks[2].kind = "add"
  BY <1>1, TaskTypes
<1>5. Adding
  BY <1>4 DEF Adding, OneAdd
<1>6. Numbers /\ Told
  BY DEF Numbers, Told, Ids
<1>7. Messages
  BY <1>4 DEF Messages, ToSet
<1>8. QED
  BY <1>2, <1>3, <1>5, <1>6, <1>7 DEF IInv

\* Every step keeps the invariant.
LEMMA StepKeeps == IInv /\ [Next]_vars => IInv'
<1> SUFFICES ASSUME IInv, [Next]_vars PROVE IInv'
  OBVIOUS
<1>1. CASE \E w \in Worker : SendRefused(w) \/ SendAsync(w) \/ Insert(w) \/ WorkerStep(w)
  BY <1>1, SendRefusedKeeps, SendAsyncKeeps, InsertKeeps, PostKeeps, WaitManyReturnsKeeps,
     SendReturnsKeeps DEF WorkerStep
<1>2. CASE IPCTask
  BY <1>2, OpenChannelKeeps, OnFilterAddedKeeps, SendOnIOThreadKeeps,
     SendAsyncOnIOThreadKeeps, OnChannelClosingKeeps DEF IPCTask
<1>3. CASE \E c \in {"open", "broken"} : OnChannelError(c)
  BY <1>3, OnChannelErrorKeeps
<1>4. CASE \E r \in replies : OnMessageReceived(r)
  BY <1>4, OnMessageReceivedKeeps
<1>5. CASE Close \/ Shutdown \/ StopIOThread
  BY <1>5, CloseKeeps, ShutdownKeeps, StopIOThreadKeeps
<1>6. CASE Answer \/ PeerDies
  BY <1>6, PeerRepliesKeeps, PeerDiesKeeps DEF Answer
<1>7. CASE UNCHANGED vars
  BY <1>7, StutterKeeps
<1>8. QED
  BY <1>1, <1>2, <1>3, <1>4, <1>5, <1>6, <1>7 DEF Next

\* The invariant holds throughout.
LEMMA AlwaysIInv == Spec => []IInv
<1>1. QED
  BY InitHolds, StepKeeps, PTL DEF Spec

\* Every variable keeps its type, for any workers and numbers of messages.
THEOREM TypeCorrect == Spec => []TypeOK
<1>1. IInv => TypeOK
  BY DEF IInv
<1>2. QED
  BY <1>1, AlwaysIInv, PTL

\* pending_sync_messages_ has a pointer for every Send under way and for no other,
\* nobody waits whom nobody will wake once the channel is lost, and channel_ does
\* not outlive its channel.
THEOREM PointersCorrect == Spec => []PointersSound
<1>1. IInv => PointersSound
  BY DEF IInv
<1>2. QED
  BY <1>1, AlwaysIInv, PTL

(***************************************************************************)
(* Refinement.                                                             *)
(***************************************************************************)

\* The outcome of a call changes when it is refused, begins or returns, and nothing
\* but an answer of the peer adds to the calls it has answered.
LEMMA HistoryChanges ==
  ASSUME IInv, [Next]_vars, ~UNCHANGED <<outcome, answered>>
  PROVE  \/ \E w \in Worker : SendRefused(w) \/ Insert(w) \/ SendReturns(w)
         \/ \E m \in requests, ok \in BOOLEAN : PeerReplies(m, ok)
<1> USE DEF workerVars, filterVars, channelVars, history
<1>1. CASE \E w \in Worker : SendRefused(w) \/ SendAsync(w) \/ Insert(w) \/ WorkerStep(w)
  BY <1>1 DEF WorkerStep, SendAsync, Post, WaitManyReturns
<1>2. CASE IPCTask
  BY <1>2 DEF IPCTask, OpenChannel, OnFilterAdded, SendOnIOThread, SendAsyncOnIOThread,
          OnChannelClosing
<1>3. CASE \E c \in {"open", "broken"} : OnChannelError(c)
  BY <1>3 DEF OnChannelError
<1>4. CASE \E r \in replies : OnMessageReceived(r)
  BY <1>4 DEF OnMessageReceived
<1>5. CASE Close \/ Shutdown \/ StopIOThread
  BY <1>5 DEF Close, Shutdown, StopIOThread
<1>6. CASE Answer \/ PeerDies
  BY <1>6 DEF Answer, PeerDies
<1>7. CASE UNCHANGED vars
  BY <1>7 DEF vars
<1>8. QED
  BY <1>1, <1>2, <1>3, <1>4, <1>5, <1>6, <1>7 DEF Next

\* A step of the filter is a step of a call, or none.
LEMMA StepRefines == IInv /\ [Next]_vars => [Calls!CallNext]_(Calls!callVars)
<1> SUFFICES ASSUME IInv, [Next]_vars, ~UNCHANGED <<outcome, answered>> PROVE Calls!CallNext
  BY DEF Calls!callVars
<1> USE ConstantsAssumption DEF workerVars, filterVars, channelVars, history
<1>1. ASSUME NEW w \in Worker, SendRefused(w) \/ Insert(w) PROVE Calls!CallNext
  <2>1. nextId[w] \in Ids /\ outcome[w][nextId[w]] = "none"
    BY <1>1 DEF SendRefused, Insert, CanSend, IInv, TypeOK, Numbers, Ids
  <2>2. ASSUME NEW j \in Ids, outcome[w][j] = "none" PROVE nextId[w] <= j
    <3>1. j \in Nat /\ nextId[w] \in Nat
      BY <2>1 DEF Ids
    <3>2. ~(j < nextId[w])
      BY <2>2 DEF IInv, Numbers
    <3>3. QED
      BY <3>1, <3>2
  <2>3. Calls!Fresh(w, nextId[w])
    BY <2>1, <2>2 DEF Calls!Fresh, Calls!CallIds, Ids
  <2>4. Calls!Refuse(w, nextId[w]) \/ Calls!Begin(w, nextId[w])
    BY <1>1, <2>3 DEF SendRefused, Insert, Calls!Refuse, Calls!Begin
  <2>5. QED
    BY <2>1, <2>4 DEF Calls!CallNext, Calls!CallIds, Ids
<1>2. ASSUME NEW w \in Worker, SendReturns(w) PROVE Calls!CallNext
  <2>1. nextId[w] \in Ids /\ outcome[w][nextId[w]] = "pending"
    BY <1>2 DEF SendReturns, IInv, Numbers
  <2>2. ASSUME NEW j \in Ids, outcome[w][j] = "pending" PROVE j <= nextId[w]
    <3>1. j \in Nat /\ nextId[w] \in Nat
      BY <2>1 DEF Ids
    <3>2. ~(j > nextId[w])
      BY <2>2 DEF IInv, Numbers
    <3>3. QED
      BY <3>1, <3>2
  <2>3. Calls!Innermost(w, nextId[w])
    BY <2>1, <2>2 DEF Calls!Innermost, Calls!CallIds, Ids
  <2>4. result[w] => <<w, nextId[w]>> \in answered
    BY DEF IInv, Told
  <2>5. Calls!ReturnTrue(w, nextId[w]) \/ Calls!ReturnFalse(w, nextId[w])
    BY <1>2, <2>3, <2>4 DEF SendReturns, Calls!ReturnTrue, Calls!ReturnFalse
  <2>6. QED
    BY <2>1, <2>5 DEF Calls!CallNext, Calls!CallIds, Ids
<1>3. ASSUME NEW m \in requests, NEW ok \in BOOLEAN, PeerReplies(m, ok) PROVE Calls!CallNext
  <2>1. PICK w \in Worker, i \in Ids : m = <<w, i>>
    BY DEF IInv, TypeOK, Request
  <2>2. outcome[w][i] # "none"
    BY <2>1 DEF IInv, Messages
  <2>3. outcome' = outcome /\ answered' = answered \cup {<<w, i>>} /\ <<w, i>> \notin answered
    BY <1>3, <2>1 DEF PeerReplies
  <2>4. Calls!Answer(w, i)
    BY <2>2, <2>3 DEF Calls!Answer
  <2>5. QED
    BY <2>4 DEF Calls!CallNext, Calls!CallIds, Ids
<1>4. QED
  BY <1>1, <1>2, <1>3, HistoryChanges

\* A call that fails was not answered, or with an error, or its channel was lost.
LEMMA FailsForAReason ==
  ASSUME IInv, [Next]_vars, NEW w \in Worker, NEW i \in Ids,
         outcome[w][i] = "pending", outcome'[w][i] = "false"
  PROVE  shutdown \/ ~channelPtr \/ <<w, i>> \in rejected
<1> USE DEF workerVars, filterVars, channelVars, history
<1>1. PICK v \in Worker : SendRefused(v) \/ Insert(v) \/ SendReturns(v)
  BY HistoryChanges DEF PeerReplies
<1>2. nextId[v] \in Ids
  BY <1>1, ConstantsAssumption DEF SendRefused, Insert, SendReturns, CanSend, IInv, TypeOK,
     Numbers, Ids
<1>3. outcome[v][nextId[v]] = "none" => ~SendReturns(v)
  BY DEF SendReturns, IInv, Numbers
<1>4. v = w /\ i = nextId[w] /\ SendReturns(w)
  <2>1. ~(v = w /\ i = nextId[w]) => outcome'[w][i] = outcome[w][i]
    BY <1>1, <1>2 DEF SendRefused, Insert, SendReturns, IInv, TypeOK
  <2>2. v = w /\ i = nextId[w]
    BY <2>1
  <2>3. ~SendRefused(w) /\ ~Insert(w)
    BY <1>2, <2>2 DEF SendRefused, Insert, CanSend, IInv, Numbers
  <2>4. QED
    BY <1>1, <2>2, <2>3
<1>5. ~result[w]
  BY <1>2, <1>4 DEF SendReturns, IInv, TypeOK
<1>6. done[w] \/ shutdown
  BY <1>4 DEF SendReturns, IInv, Told
<1>7. QED
  BY <1>4, <1>5, <1>6 DEF IInv, Told

\* The filter implements SyncCall for simultaneous calls of any number of workers,
\* each true only if its peer has answered that very call, and none fails while it
\* could still be answered.
THEOREM CallsCorrect == Spec => SimultaneousCalls
<1>1. Init => Calls!CallInit
  BY DEF Init, Calls!CallInit, Calls!CallIds, Ids
<1>2. IInv /\ [Next]_vars => [Calls!CallNext]_(Calls!callVars)
  BY StepRefines
<1>3. Spec => ImplementsSyncCall
  BY <1>1, <1>2, AlwaysIInv, PTL DEF Spec, ImplementsSyncCall, Calls!CallSpec
<1>4. IInv /\ [Next]_vars =>
        [\A w \in Worker, i \in Ids :
           outcome[w][i] = "pending" /\ outcome'[w][i] = "false" =>
             shutdown \/ ~channelPtr \/ <<w, i>> \in rejected]_vars
  BY FailsForAReason
<1>5. Spec => NoSpuriousFailure
  BY <1>4, AlwaysIInv, PTL DEF Spec, NoSpuriousFailure
<1>6. QED
  BY <1>3, <1>5 DEF SimultaneousCalls
=============================================================================
