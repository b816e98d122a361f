----------------------------- MODULE ChannelProxy -----------------------------
(***************************************************************************)
(* IPC::ChannelProxy: one channel operated on the IPC thread for a         *)
(* listener on another thread.                                             *)
(*                                                                         *)
(* The owner calls the proxy on the listener thread, and each call becomes *)
(* a task of the IPC thread; what the channel hands to Context goes        *)
(* through the filters and then, as a task, to the listener.  Both task    *)
(* queues are first in, first out.  Each handler is one step: the threads  *)
(* share only the queues, pending_filters_ (under a lock), peer_pid_       *)
(* (written before the task that reads it is posted) and channel_ (written *)
(* by the listener thread only in Init with create_pipe_now).              *)
(*                                                                         *)
(* The channel itself is ChannelWin; here it hands over any sequence of    *)
(* hello, messages and error that it may.  Urgent messages are those that  *)
(* SyncContext keeps apart and dispatches ahead of the other tasks.        *)
(***************************************************************************)
EXTENDS Integers, FiniteSets, Sequences, SequencesExt

CONSTANTS
  MaxFilters,   \* bound: message filters
  MaxReceived,  \* bound: messages of the peer
  MaxSends,     \* bound: calls of Send
  MaxCalls,     \* bound: calls of Send and AddFilter together
  MaxCloses,    \* bound: calls of Close
  CreateNow,    \* the values of create_pipe_now
  Urgent        \* messages that SyncContext dispatches early

ASSUME ProxyAssumption ==
  /\ MaxFilters \in Nat /\ MaxReceived \in Nat /\ MaxSends \in Nat /\ MaxCalls \in Nat
  /\ MaxCloses \in Nat
  /\ CreateNow \subseteq BOOLEAN /\ Urgent \subseteq Nat

\* Filters are numbered in the order they are added.
Filter   == 1..MaxFilters
NoFilter == 0

VARIABLES
  proxy,    \* the owner's side, on the listener thread
  ctx,      \* Context, on the IPC thread
  tasks,    \* tasks of the IPC thread
  posted,   \* tasks of the listener thread
  urgent,   \* messages SyncContext keeps for the listener thread
  arrived,  \* history: what the channel handed to Context, and the failures of Send
  told,     \* history: the calls of each filter
  heard     \* history: the calls of the listener

vars == <<proxy, ctx, tasks, posted, urgent, arrived, told, heard>>

Call  == [op : {"added", "connected", "message", "error", "closing", "removed"},
          n : {0, 1} \cup 1..MaxReceived]
Event == [op : {"message", "error"}, n : 0..MaxReceived, by : Filter \cup {NoFilter}]
Task  == [op : {"create", "open", "close", "send", "add", "remove"},
          f : Filter \cup {NoFilter}]

\* The calls of Listener and MessageFilter.
Says(op)   == [op |-> op, n |-> 0]
Message(n) == [op |-> "message", n |-> n]
Do(op)     == [op |-> op, f |-> NoFilter]

HasChannel(c) == c.channel \notin {"none", "destroyed"}

\* Where in a history op happens, and what of a history is in S, in its order.
At(log, op) == {k \in DOMAIN log : log[k].op = op}
Only(q, S) ==
  LET first[k \in 0..Len(q)] ==
        IF k = 0 THEN <<>>
        ELSE IF q[k] \in S THEN Append(first[k - 1], q[k]) ELSE first[k - 1]
  IN first[Len(q)]

(***************************************************************************)
(* The owner, on the listener thread.                                      *)
(***************************************************************************)
PostTask(t) == tasks' = Append(tasks, t)

InitProxy(now) ==
  /\ ~proxy.init /\ proxy.closes = 0 /\ proxy.runner
  /\ proxy' = [proxy EXCEPT !.init = TRUE]
  /\ ctx' = [ctx EXCEPT !.channel = IF now THEN "created" ELSE @]
  /\ tasks' = tasks \o (IF now THEN <<>> ELSE <<Do("create")>>) \o <<Do("open")>>
  /\ UNCHANGED <<posted, urgent, arrived, told, heard>>

MoreCalls == proxy.added + proxy.sends < MaxCalls

AddFilter(f) ==
  /\ f = proxy.added + 1 /\ proxy.runner /\ MoreCalls
  /\ proxy' = [proxy EXCEPT !.added = f,
                            !.early = IF ctx.pid THEN @ ELSE @ \cup {f}]
  /\ ctx' = [ctx EXCEPT !.pending = Append(@, f)]
  /\ PostTask(Do("add"))
  /\ UNCHANGED <<posted, urgent, arrived, told, heard>>

\* The owner removes a filter that it added, once, and not after Close.
RemoveFilter(f) ==
  /\ f \in 1..proxy.added \ proxy.removing /\ proxy.closes = 0 /\ proxy.runner
  /\ proxy' = [proxy EXCEPT !.removing = @ \cup {f}]
  /\ PostTask([op |-> "remove", f |-> f])
  /\ UNCHANGED <<ctx, posted, urgent, arrived, told, heard>>

Send ==
  /\ proxy.init /\ proxy.runner /\ proxy.sends < MaxSends /\ MoreCalls
  /\ proxy' = [proxy EXCEPT !.sends = @ + 1]
  /\ PostTask(Do("send"))
  /\ UNCHANGED <<ctx, posted, urgent, arrived, told, heard>>

Close ==
  /\ proxy.closes < MaxCloses
  /\ proxy' = [proxy EXCEPT !.closes = @ + 1, !.listener = FALSE]
  /\ IF proxy.runner THEN PostTask(Do("close")) ELSE UNCHANGED tasks
  /\ UNCHANGED <<ctx, posted, urgent, arrived, told, heard>>

ClearIPCTaskRunner ==
  /\ proxy.runner
  /\ proxy' = [proxy EXCEPT !.runner = FALSE]
  /\ UNCHANGED <<ctx, tasks, posted, urgent, arrived, told, heard>>

(***************************************************************************)
(* The listener thread's tasks.                                            *)
(***************************************************************************)

\* The call OnDispatchConnected makes: n = 1 if peer_pid_ is known by then.
ConnectedCall == [op |-> "connected", n |-> IF ctx.pid THEN 1 ELSE 0]

OnDispatchConnected ==
  /\ proxy' = [proxy EXCEPT !.told = TRUE]
  /\ heard' = IF proxy.listener /\ ~proxy.told THEN Append(heard, ConnectedCall) ELSE heard

\* Wrong: a message that comes before the connected task is dropped.
OnDispatchMessage_Drops(n) ==
  /\ heard' = IF proxy.listener /\ proxy.told THEN Append(heard, Message(n)) ELSE heard
  /\ UNCHANGED proxy

OnDispatchMessage(n) ==
  IF ~proxy.listener THEN UNCHANGED <<proxy, heard>>
  ELSE /\ proxy' = [proxy EXCEPT !.told = TRUE]
       /\ heard' = heard \o (IF proxy.told THEN <<>> ELSE <<ConnectedCall>>) \o <<Message(n)>>

OnDispatchError ==
  /\ heard' = IF proxy.listener THEN Append(heard, Says("error")) ELSE heard
  /\ UNCHANGED proxy

ListenerTask ==
  /\ posted # <<>> /\ posted' = Tail(posted)
  /\ CASE Head(posted).op = "connected" -> OnDispatchConnected
       [] Head(posted).op = "message"   -> OnDispatchMessage(Head(posted).n)
       [] Head(posted).op = "error"     -> OnDispatchError
  /\ UNCHANGED <<ctx, tasks, urgent, arrived, told>>

\* SyncContext dispatches a message that it kept, in its task or while the thread is
\* blocked in Send.
DispatchUrgent ==
  /\ urgent # <<>> /\ urgent' = Tail(urgent)
  /\ OnDispatchMessage(Head(urgent))
  /\ UNCHANGED <<ctx, tasks, posted, arrived, told>>

(***************************************************************************)
(* The IPC thread: what the channel hands over.                            *)
(***************************************************************************)

\* The logs when each filter of fs gets a call.
Tell(log, fs, call) ==
  [f \in Filter |-> IF f \in ToSet(fs) THEN Append(log[f], call) ELSE log[f]]

\* OnAddFilter: the pending filters, and the calls they get.
Adopt(c) == [c EXCEPT !.filters = @ \o c.pending, !.pending = <<>>]
AdoptCalls(c, log) ==
  LET a == IF HasChannel(c) THEN Tell(log, c.pending, Says("added")) ELSE log
  IN IF c.pid THEN Tell(a, c.pending, Says("connected")) ELSE a

\* Wrong: pending filters wait for their task.
OnChannelConnected_NoPending ==
  /\ ctx.channel = "open"
  /\ ctx' = [ctx EXCEPT !.channel = "connected", !.pid = TRUE]
  /\ told' = Tell(told, ctx.filters, Says("connected"))
  /\ posted' = Append(posted, Says("connected"))
  /\ UNCHANGED <<proxy, tasks, urgent, arrived, heard>>

\* The hello: pending filters are added first.
OnChannelConnected ==
  /\ ctx.channel = "open"
  /\ LET c == Adopt(ctx) IN
       /\ ctx' = [c EXCEPT !.channel = "connected", !.pid = TRUE]
       /\ told' = Tell(AdoptCalls(ctx, told), c.filters, Says("connected"))
  /\ posted' = Append(posted, Says("connected"))
  /\ UNCHANGED <<proxy, tasks, urgent, arrived, heard>>

\* Wrong: what a filter has handled goes to the listener, too.
Forward_Handled(n, k) ==
  IF n \in Urgent THEN urgent' = Append(urgent, n) /\ UNCHANGED posted
  ELSE posted' = Append(posted, Message(n)) /\ UNCHANGED urgent

\* OnMessageReceived after TryFilters: k is the filter that handled message n, or 0.
Forward(n, k) ==
  IF k > 0 THEN UNCHANGED <<posted, urgent>>
  ELSE IF n \in Urgent THEN urgent' = Append(urgent, n) /\ UNCHANGED posted
  ELSE posted' = Append(posted, Message(n)) /\ UNCHANGED urgent

Received == Cardinality(At(arrived, "message"))

\* Filters see the message in turn until the k-th of them handles it.
OnMessageReceived(k) ==
  LET n    == Received + 1
      asks == IF k = 0 THEN ctx.filters ELSE SubSeq(ctx.filters, 1, k)
      by   == IF k = 0 THEN NoFilter ELSE ctx.filters[k]
  IN /\ ctx.channel = "connected" /\ n <= MaxReceived
     /\ arrived' = Append(arrived, [op |-> "message", n |-> n, by |-> by])
     /\ told' = Tell(told, asks, Message(n))
     /\ Forward(n, k)
     /\ UNCHANGED <<proxy, ctx, tasks, heard>>

\* Context::OnChannelError, and the event in the history.
OnChannelError(c) ==
  /\ told' = Tell(told, c.filters, Says("error"))
  /\ posted' = Append(posted, Says("error"))
  /\ arrived' = Append(arrived, [op |-> "error", n |-> 0, by |-> NoFilter])

\* The channel has closed itself.
ChannelLost ==
  /\ ctx.channel \in {"open", "connected"}
  /\ ctx' = [ctx EXCEPT !.channel = "lost"]
  /\ OnChannelError(ctx)
  /\ UNCHANGED <<proxy, tasks, urgent, heard>>

(***************************************************************************)
(* The IPC thread's tasks.                                                 *)
(***************************************************************************)
Runs(op) == tasks # <<>> /\ Head(tasks).op = op /\ tasks' = Tail(tasks)

CreateChannel ==
  /\ Runs("create")
  /\ ctx' = [ctx EXCEPT !.channel = "created"]
  /\ UNCHANGED <<proxy, posted, urgent, arrived, told, heard>>

\* Wrong: the reference is taken only when Connect succeeds.
OnChannelOpened_LateRef(ok) ==
  /\ Runs("open")
  /\ ctx' = [ctx EXCEPT !.refs = IF ok THEN @ + 1 ELSE @,
                        !.channel = IF ok THEN "open" ELSE "failed"]
  /\ IF ok THEN told' = Tell(told, ctx.filters, Says("added")) /\ UNCHANGED <<posted, arrived>>
           ELSE OnChannelError(ctx)
  /\ UNCHANGED <<proxy, urgent, heard>>

\* ok: what Channel::Connect returns.
OnChannelOpened(ok) ==
  /\ Runs("open")
  /\ ctx' = [ctx EXCEPT !.refs = @ + 1, !.channel = IF ok THEN "open" ELSE "failed"]
  /\ IF ok THEN told' = Tell(told, ctx.filters, Says("added")) /\ UNCHANGED <<posted, arrived>>
           ELSE OnChannelError(ctx)
  /\ UNCHANGED <<proxy, urgent, heard>>

\* Wrong: a channel that has failed counts as closed.
OnChannelClosed_Failed ==
  /\ Runs("close")
  /\ IF ctx.channel \notin {"open", "connected"} THEN UNCHANGED <<ctx, told>>
     ELSE /\ ctx' = [ctx EXCEPT !.filters = <<>>, !.channel = "destroyed", !.refs = @ - 1]
          /\ told' = Tell(Tell(told, ctx.filters, Says("closing")),
                          ctx.filters, Says("removed"))
  /\ UNCHANGED <<proxy, posted, urgent, arrived, heard>>

OnChannelClosed ==
  /\ Runs("close")
  /\ IF ~HasChannel(ctx) THEN UNCHANGED <<ctx, told>>
     ELSE /\ ctx' = [ctx EXCEPT !.filters = <<>>, !.channel = "destroyed", !.refs = @ - 1]
          /\ told' = Tell(Tell(told, ctx.filters, Says("closing")),
                          ctx.filters, Says("removed"))
  /\ UNCHANGED <<proxy, posted, urgent, arrived, heard>>

\* ok: what Channel::Send returns.  It is false once the pipe is closed, and may be
\* false before: the peer is gone, but what it wrote is still being read.
OnSendMessage(ok) ==
  /\ Runs("send")
  /\ ok => ctx.channel \notin {"failed", "lost"}
  /\ IF ~HasChannel(ctx) \/ ok THEN UNCHANGED <<posted, arrived, told>>
     ELSE OnChannelError(ctx)
  /\ UNCHANGED <<proxy, ctx, urgent, heard>>

OnAddFilter ==
  /\ Runs("add")
  /\ ctx' = Adopt(ctx) /\ told' = AdoptCalls(ctx, told)
  /\ UNCHANGED <<proxy, posted, urgent, arrived, heard>>

\* Wrong: the filter stays among the filters.
OnRemoveFilter_Stays(f) ==
  /\ told' = [told EXCEPT ![f] = Append(@, Says("removed"))]
  /\ UNCHANGED ctx

\* lost: the filter was not found (NOTREACHED).
OnRemoveFilter(f) ==
  IF f \in ToSet(ctx.filters)
  THEN /\ ctx' = [ctx EXCEPT !.filters = RemoveFirst(@, f)]
       /\ told' = [told EXCEPT ![f] = Append(@, Says("removed"))]
  ELSE ctx' = [ctx EXCEPT !.lost = TRUE] /\ UNCHANGED told

RemoveTask ==
  /\ Runs("remove") /\ OnRemoveFilter(Head(tasks).f)
  /\ UNCHANGED <<proxy, posted, urgent, arrived, heard>>

(***************************************************************************)
(* Specification.                                                          *)
(***************************************************************************)
Init ==
  /\ proxy = [init |-> FALSE, listener |-> TRUE, told |-> FALSE, runner |-> TRUE,
              closes |-> 0, sends |-> 0, added |-> 0, early |-> {}, removing |-> {}]
  /\ ctx = [channel |-> "none", filters |-> <<>>, pending |-> <<>>, pid |-> FALSE,
            refs |-> 0, lost |-> FALSE]
  /\ tasks = <<>> /\ posted = <<>> /\ urgent = <<>> /\ arrived = <<>> /\ heard = <<>>
  /\ told = [f \in Filter |-> <<>>]

Owner ==
  \/ \E now \in CreateNow : InitProxy(now)
  \/ \E f \in Filter : AddFilter(f) \/ RemoveFilter(f)
  \/ Send \/ Close \/ ClearIPCTaskRunner

ChannelEvent ==
  \/ OnChannelConnected \/ ChannelLost
  \/ \E k \in 0..Len(ctx.filters) : OnMessageReceived(k)

IpcTask ==
  \/ CreateChannel \/ OnChannelClosed \/ OnAddFilter \/ RemoveTask
  \/ \E ok \in BOOLEAN : OnChannelOpened(ok) \/ OnSendMessage(ok)

ListenerThread == ListenerTask \/ DispatchUrgent

Next == Owner \/ ChannelEvent \/ IpcTask \/ ListenerThread

Spec == Init /\ [][Next]_vars

\* Both threads run their tasks; nobody has to call, send or connect.
FairSpec == Spec /\ WF_vars(IpcTask) /\ WF_vars(ListenerTask) /\ WF_vars(DispatchUrgent)

(***************************************************************************)
(* Properties.                                                             *)
(***************************************************************************)

\* Every variable has the shape the code's data structure gives it.
TypeOK ==
  /\ proxy \in [init : BOOLEAN, listener : BOOLEAN, told : BOOLEAN, runner : BOOLEAN,
                closes : 0..MaxCloses, sends : 0..MaxSends, added : 0..MaxFilters,
                early : SUBSET Filter, removing : SUBSET Filter]
  /\ ctx \in [channel : {"none", "created", "open", "failed", "connected", "lost",
                         "destroyed"},
              filters : Seq(Filter), pending : Seq(Filter), pid : BOOLEAN, refs : 0..1,
              lost : BOOLEAN]
  /\ tasks \in Seq(Task) /\ posted \in Seq(Call) /\ urgent \in Seq(0..MaxReceived)
  /\ arrived \in Seq(Event) /\ heard \in Seq(Call) /\ told \in [Filter -> Seq(Call)]

\* What of a history goes to the listener in the order of its tasks, and what overtakes.
Ordinary(c)   == c.op = "error" \/ (c.op = "message" /\ c.n \notin Urgent)
Early(c)      == c.op = "message" /\ c.n \in Urgent
InOrder(q)    == Only(q, {c \in Call : Ordinary(c)})
Overtaking(q) == Only(q, {c \in Call : Early(c)})

\* What arrived as the calls the listener ought to get: what no filter handled.
Unhandled     == Only(arrived, {a \in Event : a.by = NoFilter})
Due           == [k \in DOMAIN Unhandled |-> [op |-> Unhandled[k].op, n |-> Unhandled[k].n]]
UrgentCalls   == [k \in DOMAIN urgent |-> Message(urgent[k])]

\* Until Close the listener hears every message no filter handled and every error, once
\* and in the order they arrived; what it has not heard is on its way.  Urgent messages
\* overtake, in their own order.
DeliveredOnceInOrder ==
  proxy.listener =>
    /\ InOrder(heard) \o InOrder(posted) = InOrder(Due)
    /\ Overtaking(heard) \o UrgentCalls = Overtaking(Due)

\* The listener hears OnChannelConnected once, with the peer's pid, and before any
\* message, also when a message that SyncContext dispatches overtakes its task.
ConnectedFirst ==
  /\ \A j, k \in At(heard, "connected") : j = k
  /\ \A k \in At(heard, "connected") : heard[k].n = 1
  /\ \A k \in At(heard, "message") : \E j \in At(heard, "connected") : j < k

\* A filter hears nothing after OnFilterRemoved, is told once that the channel is
\* connected, sees messages only after that, and has been removed when the channel it
\* was given is destroyed.
FilterContract ==
  \A f \in Filter :
    LET log == told[f] IN
      /\ \A k \in At(log, "removed") : k = Len(log)
      /\ \A j, k \in At(log, "connected") : j = k
      /\ \A k \in At(log, "message") : \E j \in At(log, "connected") : j < k
      /\ ctx.channel = "destroyed" /\ At(log, "added") # {} => At(log, "removed") # {}

\* A filter added before the peer connects, and not removed, misses no message but those
\* a filter before it handled.
MissesNothing ==
  \A f \in proxy.early \ proxy.removing : \A k \in DOMAIN arrived :
    arrived[k].op = "message" /\ arrived[k].by \notin 1..(f - 1) =>
      Message(arrived[k].n) \in ToSet(told[f])

\* The filter to be removed is found (the NOTREACHED of OnRemoveFilter): adding it is
\* never later than removing it.
RemovedFilterIsFound == ~ctx.lost

\* The listener hears what it should, once, in order, and connected first.
ListenerContract == DeliveredOnceInOrder /\ ConnectedFirst

\* Adding and removing filters races with messages and the connection on the other
\* thread: an early filter misses nothing, a removed one is found.
FiltersReached == MissesNothing /\ RemovedFilterIsFound

\* What no filter handled is heard in the end, unless the proxy is closed.
EverythingHeard ==
  \A n \in 1..MaxReceived :
    (\E k \in DOMAIN arrived : arrived[k] = [op |-> "message", n |-> n, by |-> NoFilter])
      ~> (~proxy.listener \/ Message(n) \in ToSet(heard))

\* Close ends with the channel destroyed and the context released, unless the task
\* runner was taken away before.
CloseCompletes ==
  (proxy.closes > 0 /\ proxy.runner) ~> (~HasChannel(ctx) /\ ctx.refs = 0)

=============================================================================
