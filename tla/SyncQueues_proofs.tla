-------------------------- MODULE SyncQueues_proofs --------------------------
(***************************************************************************)
(* What SyncChannel does with received messages and replies, for every     *)
(* topology and bound: the iterator of DispatchMessages stays valid        *)
(* (IteratorValid), restricted groups re-enter only where they may         *)
(* (RestrictedReentrancy), a thread that blocks has nothing to dispatch    *)
(* and nested message loops are woken (WakeupsKept), and replies reach     *)
(* their Sends (RepliesMatched).  Added to the invariant of                *)
(* SyncChannel_proofs:                                                     *)
(*   Places    the entries of message_queue_ have places of their own;     *)
(*   Nesting   which frame may lie on which;                               *)
(*   Loops     a loop whose version is current has a valid iterator and    *)
(*             has left nothing behind it;                                 *)
(*   Tasked    a pending task is on its way;                               *)
(*   Watchers  a nested message loop knows which watcher it stopped;       *)
(*   Home      what belongs to a context is kept by its own process;       *)
(*   OnePlace  a request and its reply are in one place at a time, from    *)
(*             the task that sends the request to received_replies_;       *)
(*   Awaited   there are as many DispatchReplies on their way as replies   *)
(*             that would unblock a Send now.                              *)
(***************************************************************************)
EXTENDS SyncChannel_proofs

\* message_queue_ is ordered, and no two entries are at the same place.
Places ==
  \A p \in Proc : \A m \in mq[p] :
    /\ m.at <= version[p] /\ m.at # 0
    /\ \A n \in mq[p] : m.at = n.at => m = n

\* What may lie directly on what: f on g.
Fits(g, f) ==
  \/ f.kind = "loop" /\ (g.kind = "pump" \/ (g.kind = "wait" /\ g.ctx = f.ctx))
  \/ f.kind = "handler" /\ (g.kind = "pump" \/ (g.kind = "loop" /\ Eligible(f.ctx, g.ctx)))
  \/ f.kind = "wait" /\ g.kind \in {"pump", "handler"}
  \/ f.kind = "pump" /\ g.kind = "wait"

Nested(s) == \A k \in DOMAIN s : k # 1 => Fits(s[k - 1], s[k])

Nesting == \A p \in Proc : Nested(frames[p])

\* A loop with the current version: q is the queue, v its version.
LoopSound(f, q, v) ==
  /\ f.ver <= v
  /\ f.ver = v =>
       /\ f.it # 0 => \E m \in q : m.at = f.it
       /\ \A m \in q : Eligible(m.ctx, f.ctx) => f.it # 0 /\ f.it <= m.at

Loops ==
  \A p \in Proc : \A k \in DOMAIN frames[p] :
    frames[p][k].kind = "loop" => LoopSound(frames[p][k], mq[p], version[p])

HasDispatchTask(s) == \E k \in DOMAIN s : s[k].kind = "dispatch"

Tasked == \A p \in Proc : taskPending[p] => queueing[p].post \/ HasDispatchTask(ltasks[p])

\* j is the innermost nested message loop below k.
InnermostBelow(s, k, j) ==
  /\ j \in DOMAIN s /\ j < k /\ s[j].kind = "pump"
  /\ \A h \in DOMAIN s : j < h /\ h < k => s[h].kind # "pump"

NoneBelow(s, k) == \A h \in DOMAIN s : h < k => s[h].kind # "pump"

\* A nested message loop has stopped the watcher of the one around it, if there is one.
Restores(s) ==
  \A k \in DOMAIN s : s[k].kind = "pump" =>
    \/ s[k].old = 0 /\ NoneBelow(s, k)
    \/ \E j \in DOMAIN s : InnermostBelow(s, k, j) /\ s[k].old = s[j].id

NoPump(s) == \A k \in DOMAIN s : s[k].kind # "pump"
InnermostPump(s, j) == s[j].kind = "pump" /\ \A k \in DOMAIN s : j < k => s[k].kind # "pump"

Has(s, e) == \E k \in DOMAIN s : s[k] = e

\* On call stack s, watcher w is that of the innermost nested message loop; l is the task queue.
WatchesInnermost(s, w, l) ==
  \/ NoPump(s) /\ w = Watch(0)
  \/ \E j \in DOMAIN s : /\ InnermostPump(s, j) /\ w.id = s[j].id
                         /\ w.posted => Has(l, Task("sendDone", s[j].ctx, s[j].id))

Watchers ==
  \A p \in Proc : Restores(frames[p]) /\ WatchesInnermost(frames[p], sendWatch[p], ltasks[p])

(***************************************************************************)
(* Call stacks: every step cuts the stack of a thread and pushes at most   *)
(* two frames.                                                             *)
(***************************************************************************)
\* t is the lower part of s.
Below(t, s) == Len(t) <= Len(s) /\ \A k \in 1..Len(t) : t[k] = s[k]

On(s, f) == s = <<>> \/ Fits(Last(s), f)

LEMMA NestedBelow ==
  ASSUME NEW s \in Seq(Frame), NEW t \in Seq(Frame), Nested(s), Below(t, s)
  PROVE  Nested(t)
<1> SUFFICES ASSUME NEW k \in DOMAIN t, k # 1 PROVE Fits(t[k - 1], t[k])
  BY DEF Nested
<1>1. k \in 1..Len(t) /\ k - 1 \in 1..Len(t) /\ k \in DOMAIN s
  BY DEF Below
<1>2. t[k] = s[k] /\ t[k - 1] = s[k - 1]
  BY <1>1 DEF Below
<1>3. QED
  BY <1>1, <1>2 DEF Nested

LEMMA NestedPush ==
  ASSUME NEW s \in Seq(Frame), NEW f \in Frame, Nested(s), On(s, f)
  PROVE  Nested(Append(s, f))
<1> SUFFICES ASSUME NEW k \in DOMAIN Append(s, f), k # 1
             PROVE  Fits(Append(s, f)[k - 1], Append(s, f)[k])
  BY DEF Nested
<1>1. /\ k \in 1..(Len(s) + 1) /\ Len(s) \in Nat /\ DOMAIN s = 1..Len(s)
      /\ Append(s, f)[Len(s) + 1] = f
      /\ \A j \in 1..Len(s) : Append(s, f)[j] = s[j]
  OBVIOUS
<1>2. CASE k = Len(s) + 1
  <2>1. s # <<>> /\ k - 1 \in 1..Len(s) /\ Last(s) = s[k - 1]
    BY <1>1, <1>2 DEF Last
  <2>2. QED
    BY <1>1, <1>2, <2>1 DEF On
<1>3. CASE k # Len(s) + 1
  <2>1. k \in DOMAIN s /\ k \in 1..Len(s) /\ k - 1 \in 1..Len(s)
    BY <1>1, <1>3
  <2>2. QED
    BY <1>1, <2>1 DEF Nested
<1>4. QED
  BY <1>2, <1>3

LEMMA FrontBelow ==
  ASSUME NEW s \in Seq(Frame), s # <<>>
  PROVE  Front(s) \in Seq(Frame) /\ Below(Front(s), s)
<1>1. /\ Front(s) \in Seq(Frame) /\ Len(Front(s)) = Len(s) - 1 /\ Len(s) \in Nat
      /\ \A k \in 1..(Len(s) - 1) : Front(s)[k] = s[k]
  BY FrontType
<1>2. QED
  BY <1>1 DEF Below

LEMMA SelfBelow ==
  ASSUME NEW s \in Seq(Frame)
  PROVE  Below(s, s) /\ Below(<<>>, s)
  BY DEF Below

\* What lies on the top of a nested stack.
LEMMA TopOn ==
  ASSUME NEW s \in Seq(Frame), Nested(s), s # <<>>
  PROVE  On(Front(s), Last(s))
<1>1. /\ Front(s) \in Seq(Frame) /\ Len(Front(s)) = Len(s) - 1 /\ Len(s) \in Nat /\ Len(s) # 0
      /\ \A k \in 1..(Len(s) - 1) : Front(s)[k] = s[k]
      /\ DOMAIN s = 1..Len(s)
  BY FrontType
<1>2. CASE Len(s) = 1
  BY <1>1, <1>2 DEF On
<1>3. CASE Len(s) # 1
  <2>1. Len(s) - 1 \in 1..(Len(s) - 1) /\ Len(s) \in DOMAIN s
    BY <1>1, <1>3
  <2>2. Last(Front(s)) = s[Len(s) - 1] /\ Last(s) = s[Len(s)]
    BY <1>1, <2>1 DEF Last
  <2>3. QED
    BY <1>3, <2>1, <2>2 DEF Nested, On
<1>4. QED
  BY <1>2, <1>3

\* What a step may push on base, which is left of the stack of p.
Fresh(p, base, f) ==
  /\ f \in Frame /\ On(base, f)
  /\ f.kind = "loop" => f = LoopFrame(f.ctx) \/ LoopSound(f, mq'[p], version'[p])
  /\ f.kind = "pump" => base = frames[p] /\ PumpMessages(p) /\ f.old = sendWatch[p].id

StackStep(p) ==
  \E base \in Seq(Frame) :
    /\ Below(base, frames[p])
    /\ \/ frames' = [frames EXCEPT ![p] = base]
       \/ \E f : /\ Fresh(p, base, f)
                 /\ \/ frames' = [frames EXCEPT ![p] = Append(base, f)]
                    \/ \E g : /\ Fresh(p, Append(base, f), g)
                              /\ frames' = [frames EXCEPT ![p] = Append(Append(base, f), g)]

LEMMA CutsStack ==
  ASSUME TypeOK, PumpOnWait, NEW p \in Proc,
         \/ \E ok \in ReplyResults : Reply(p, ok)
         \/ ReturnWithoutReply(p) \/ DispatchEnd(p) \/ SendReturns(p) \/ QuitsLoop(p) \/ Crash(p)
  PROVE  StackStep(p)
<1>1. frames[p] \in Seq(Frame) /\ <<>> \in Seq(Frame)
  BY DEF TypeOK, ProcTypeOK
<1>2. CASE \/ \E ok \in ReplyResults : Reply(p, ok)
           \/ ReturnWithoutReply(p) \/ DispatchEnd(p) \/ SendReturns(p)
  <2>1. ~Idle(p) /\ frames' = [frames EXCEPT ![p] = Front(@)]
    BY <1>2 DEF Reply, ReturnWithoutReply, DispatchEnd, SendReturns, EndSend, PopFrame, TopIs
  <2>2. Front(frames[p]) \in Seq(Frame) /\ Below(Front(frames[p]), frames[p])
    BY <1>1, <2>1, FrontBelow DEF Idle
  <2>3. QED
    BY <2>1, <2>2 DEF StackStep
<1>3. CASE QuitsLoop(p)
  <2> DEFINE n == Len(frames[p]) - 1
             t == SubSeq(frames[p], 1, n - 1)
  <2>1. EndsAt(p, t, n)
    BY <1>3, QuitsLoopEnds
  <2>2. frames' = [frames EXCEPT ![p] = t]
    BY <1>3 DEF QuitsLoop, OnSendDone, EndSend
  <2>3. t \in Seq(Frame) /\ Below(t, frames[p])
    BY <1>1, <2>1 DEF EndsAt, Below
  <2>4. QED
    BY <2>2, <2>3 DEF StackStep
<1>4. CASE Crash(p)
  BY <1>1, <1>4, SelfBelow DEF Crash, StackStep
<1>5. QED
  BY <1>2, <1>3, <1>4

\* The frames that are pushed have the right form.
LEMMA FrameForms ==
  ASSUME NEW c \in Ctx
  PROVE  /\ LoopFrame(c) \in Frame /\ LoopFrame(c).kind = "loop" /\ LoopFrame(c).ctx = c
         /\ \A i \in Ids : /\ WaitFrame(c, i) \in Frame /\ WaitFrame(c, i).kind = "wait"
                           /\ WaitFrame(c, i).ctx = c
                           /\ HandlerFrame(c, i) \in Frame /\ HandlerFrame(c, i).kind = "handler"
                           /\ HandlerFrame(c, i).ctx = c
         /\ \A i \in Ids, o \in 0..MaxSends :
              /\ PumpFrame(c, i, o) \in Frame /\ PumpFrame(c, i, o).kind = "pump"
              /\ PumpFrame(c, i, o).ctx = c /\ PumpFrame(c, i, o).id = i
              /\ PumpFrame(c, i, o).old = o
  BY DEF LoopFrame, WaitFrame, HandlerFrame, PumpFrame, Frame

\* One frame is pushed on the whole stack.
LEMMA PushStep ==
  ASSUME TypeOK, NEW p \in Proc, NEW f, Fresh(p, frames[p], f),
         frames' = [frames EXCEPT ![p] = Append(@, f)]
  PROVE  StackStep(p)
<1>1. frames[p] \in Seq(Frame) /\ frames' = [frames EXCEPT ![p] = Append(frames[p], f)]
  BY DEF TypeOK, ProcTypeOK
<1>2. Below(frames[p], frames[p])
  BY <1>1, SelfBelow
<1>3. QED
  BY <1>1, <1>2 DEF StackStep

LEMMA BeginSendStacks ==
  ASSUME TypeOK, NEW p \in Proc, NEW c \in Ctx, NEW u \in UnblockFlags[p], BeginSend(p, c, u)
  PROVE  StackStep(p)
<1> DEFINE w == WaitFrame(c, nextId[p])
           l == LoopFrame(c)
           s == frames[p]
<1>1. nextId[p] \in Ids
  <2>1. nextId[p] <= Budget[p] /\ nextId[p] \in 1..(MaxSends + 1)
    BY DEF BeginSend, CanSend, TypeOK, ProcTypeOK
  <2>2. QED
    BY <2>1, ConstantsAssumption DEF Ids
<1>2. s \in Seq(Frame) /\ frames' = [frames EXCEPT ![p] = Append(Append(s, w), l)]
  BY DEF BeginSend, TypeOK, ProcTypeOK
<1>3. /\ w \in Frame /\ w.kind = "wait" /\ w.ctx = c
      /\ l \in Frame /\ l.kind = "loop" /\ l.ctx = c
  BY <1>1, FrameForms
<1>4. s = <<>> \/ Last(s).kind \in {"pump", "handler"}
  BY DEF BeginSend, CanSend, RunsUserCode, InMessageLoop, TopIs, Idle
<1> HIDE DEF w, s
<1>5. Fresh(p, s, w)
  BY <1>3, <1>4 DEF Fresh, On, Fits
<1>6. Append(s, w) \in Seq(Frame) /\ Append(s, w) # <<>> /\ Last(Append(s, w)) = w
  BY <1>2, <1>3 DEF Last
<1>7. Fresh(p, Append(s, w), l)
  BY <1>3, <1>6 DEF Fresh, On, Fits
<1>8. Below(s, s)
  BY <1>2, SelfBelow
<1>9. QED
  BY <1>2, <1>5, <1>7, <1>8 DEF StackStep, s

LEMMA WaitDispatchStacks ==
  ASSUME TypeOK, NEW p \in Proc, WaitDispatchEvent(p)
  PROVE  StackStep(p)
<1> DEFINE l == LoopFrame(Top(p).ctx)
<1>1. /\ ~Idle(p) /\ Top(p).kind = "wait" /\ Top(p).ctx \in Ctx
      /\ frames' = [frames EXCEPT ![p] = Append(@, l)]
  BY TopFrame DEF WaitDispatchEvent, TopIs, Push, Top
<1>2. Fresh(p, frames[p], l)
  BY <1>1, FrameForms DEF Fresh, On, Fits, Top
<1>3. QED
  BY <1>1, <1>2, PushStep

LEMMA TaskStacks ==
  ASSUME TypeOK, NEW p \in Proc, frames' # frames,
         DispatchMessagesTask(p) \/ OnDispatchMessage(p) \/ OnWaitableEventSignaled(p)
  PROVE  StackStep(p)
<1> DEFINE h == Head(ltasks[p])
<1>1. /\ h \in ListenerTask /\ h.ctx \in Ctx /\ (h.kind = "message" => h.id \in Ids)
      /\ frames[p] = <<>> \/ Last(frames[p]).kind = "pump"
  <2>1. ltasks[p] # <<>> /\ InMessageLoop(p) /\ ltasks[p] \in Seq(ListenerTask)
    BY DEF DispatchMessagesTask, OnDispatchMessage, OnWaitableEventSignaled, HeadTask,
           TypeOK, ProcTypeOK
  <2>2. h \in ListenerTask
    BY <2>1
  <2>3. h.ctx \in Ctx /\ (h.kind = "message" => h.id \in Ids)
    BY <2>2 DEF ListenerTask
  <2>4. QED
    BY <2>1, <2>2, <2>3 DEF InMessageLoop, Idle, TopIs
<1>2. CASE DispatchMessagesTask(p) \/ OnWaitableEventSignaled(p)
  <2>1. frames' = [frames EXCEPT ![p] = Append(@, LoopFrame(h.ctx))]
    BY <1>2 DEF DispatchMessagesTask, OnWaitableEventSignaled, Push
  <2>2. Fresh(p, frames[p], LoopFrame(h.ctx))
    BY <1>1, FrameForms DEF Fresh, On, Fits
  <2>3. QED
    BY <2>1, <2>2, PushStep
<1>3. CASE OnDispatchMessage(p)
  <2>1. frames' = [frames EXCEPT ![p] = Append(@, HandlerFrame(h.ctx, h.id))] /\ h.id \in Ids
    BY <1>1, <1>3 DEF OnDispatchMessage, HeadTask, Push
  <2>2. Fresh(p, frames[p], HandlerFrame(h.ctx, h.id))
    BY <1>1, <2>1, FrameForms DEF Fresh, On, Fits
  <2>3. QED
    BY <2>1, <2>2, PushStep
<1>4. QED
  BY <1>2, <1>3

LEMMA PumpStacks ==
  ASSUME TypeOK, NEW p \in Proc, PumpMessages(p)
  PROVE  /\ StackStep(p) /\ ~Idle(p) /\ Top(p).kind = "wait"
         /\ frames' = [frames EXCEPT ![p] = Append(@, PumpFrame(Top(p).ctx, Top(p).id, sendWatch[p].id))]
<1> DEFINE f == PumpFrame(Top(p).ctx, Top(p).id, sendWatch[p].id)
<1>1. /\ ~Idle(p) /\ Top(p).kind = "wait" /\ Top(p).ctx \in Ctx /\ Top(p).id \in Ids
      /\ sendWatch[p].id \in 0..MaxSends
      /\ frames' = [frames EXCEPT ![p] = Append(@, f)]
  BY TopFrame DEF PumpMessages, TopIs, Push, Top, TypeOK, QueueTypeOK
<1>2. Fresh(p, frames[p], f)
  BY <1>1, FrameForms DEF Fresh, On, Fits, Top
<1>3. QED
  BY <1>1, <1>2, PushStep

\* What a turn of DispatchMessages takes is the first entry it may dispatch.
LEMMA TurnTakes ==
  ASSUME TypeOK, NEW p \in Proc, DispatchMessage(p)
  PROVE  LET f == Top(p)
             m == FirstOf(Candidates(p, f))
         IN /\ ~Idle(p) /\ f \in Frame /\ f.kind = "loop"
            /\ m \in mq[p] /\ m \in QueuedMessage /\ Eligible(m.ctx, f.ctx) /\ m \in Ahead(p, f)
            /\ \A n \in mq[p] : Eligible(n.ctx, f.ctx) /\ n \in Ahead(p, f) => m.at <= n.at
<1> DEFINE f == Top(p)
           m == FirstOf(Candidates(p, f))
<1>1. ~Idle(p) /\ f.kind = "loop" /\ Candidates(p, f) # {}
  BY DEF DispatchMessage, TopIs, Top
<1>2. f \in Frame
  BY <1>1, TopFrame
<1>3. Candidates(p, f) \subseteq mq[p] /\ mq[p] \subseteq QueuedMessage
  BY DEF Candidates, Ahead, TypeOK, QueueTypeOK
<1>4. Candidates(p, f) \in SUBSET QueuedMessage
  BY <1>3
<1>5. m \in Candidates(p, f) /\ \A n \in Candidates(p, f) : m.at <= n.at
  BY <1>1, <1>4, FirstOfIn
<1>6. \A n : n \in Candidates(p, f) <=> n \in Ahead(p, f) /\ Eligible(n.ctx, f.ctx)
  BY DEF Candidates
<1>7. QED
  BY <1>1, <1>2, <1>3, <1>5, <1>6

\* The entry after m, if there is one.
LEMMA FollowingIs ==
  ASSUME NEW S \in SUBSET QueuedMessage, NEW m \in S
  PROVE  /\ Following(S, m) # 0 => \E n \in S : n.at = Following(S, m) /\ n.at > m.at
         /\ \A n \in S : n.at > m.at => Following(S, m) # 0 /\ Following(S, m) <= n.at
<1> DEFINE after == {n \in S : n.at > m.at}
<1>1. CASE after = {}
  BY <1>1 DEF Following
<1>2. CASE after # {}
  <2>1. FirstOf(after) \in after /\ \A n \in after : FirstOf(after).at <= n.at
    BY <1>2, FirstOfIn
  <2>2. Following(S, m) = FirstOf(after).at
    BY <1>2 DEF Following
  <2>3. m.at \in Nat /\ \A n \in S : n.at \in Nat
    BY DEF QueuedMessage
  <2> DEFINE e == FirstOf(after)
  <2> HIDE DEF e
  <2>4. e \in S /\ e.at > m.at /\ \A n \in S : n.at > m.at => e.at <= n.at
    BY <2>1 DEF e
  <2>5. Following(S, m) = e.at /\ e.at # 0
    BY <2>2, <2>3, <2>4 DEF e
  <2>6. QED
    BY <2>4, <2>5
<1>3. QED
  BY <1>1, <1>2

\* The loop goes on at the entry after the one it took, and has left nothing behind.
LEMMA TurnSound ==
  ASSUME TypeOK, Places, Loops, NEW p \in Proc, DispatchMessage(p),
         NEW l, l.ctx = Top(p).ctx, l.ver = version[p] + 1,
         l.it = Following(mq[p], FirstOf(Candidates(p, Top(p))))
  PROVE  LoopSound(l, mq'[p], version'[p])
<1> DEFINE f == Top(p)
           m == FirstOf(Candidates(p, f))
<1>1. /\ ~Idle(p) /\ f \in Frame /\ f.kind = "loop"
      /\ m \in mq[p] /\ m \in QueuedMessage /\ Eligible(m.ctx, f.ctx)
      /\ \A n \in mq[p] : Eligible(n.ctx, f.ctx) /\ n \in Ahead(p, f) => m.at <= n.at
  BY TurnTakes
<1>2. mq'[p] = mq[p] \ {m} /\ version'[p] = version[p] + 1 /\ version[p] \in Nat
  BY DEF DispatchMessage, TypeOK, QueueTypeOK
<1>3. LoopSound(f, mq[p], version[p])
  BY <1>1, TopFrame DEF Loops
<1>4. mq[p] \in SUBSET QueuedMessage
  BY DEF TypeOK, QueueTypeOK
<1>5. /\ l.it # 0 => \E n \in mq[p] : n.at = l.it /\ n.at > m.at
      /\ \A n \in mq[p] : n.at > m.at => l.it # 0 /\ l.it <= n.at
  BY <1>1, <1>4, FollowingIs
<1> HIDE DEF m, f
<1>6. m.at \in Nat /\ \A n \in mq[p] : n.at \in Nat
  BY <1>1, <1>4 DEF QueuedMessage
<1>7. ASSUME NEW n \in mq[p], n # m, Eligible(n.ctx, f.ctx) PROVE n.at > m.at
  <2>1. n \in Ahead(p, f)
    BY <1>3, <1>6, <1>7 DEF LoopSound, Ahead
  <2>2. m.at <= n.at /\ m.at # n.at
    BY <1>1, <1>7, <2>1 DEF Places
  <2>3. QED
    BY <1>6, <2>2
<1>8. l.it # 0 => \E n \in mq'[p] : n.at = l.it
  <2>1. SUFFICES ASSUME l.it # 0 PROVE \E n \in mq'[p] : n.at = l.it
    OBVIOUS
  <2>2. PICK n \in mq[p] : n.at = l.it /\ n.at > m.at
    BY <1>5, <2>1
  <2>3. n # m
    BY <1>6, <2>2
  <2>4. QED
    BY <1>2, <2>2, <2>3
<1>9. ASSUME NEW n \in mq'[p], Eligible(n.ctx, l.ctx) PROVE l.it # 0 /\ l.it <= n.at
  BY <1>2, <1>5, <1>7, <1>9 DEF f
<1>10. QED
  BY <1>2, <1>8, <1>9 DEF LoopSound

LEMMA DispatchMessageStacks ==
  ASSUME TypeOK, Nesting, Places, Loops, NEW p \in Proc, DispatchMessage(p)
  PROVE  StackStep(p)
<1> DEFINE f == Top(p)
           m == FirstOf(Candidates(p, f))
           l == [f EXCEPT !.it = Following(mq[p], m), !.ver = version[p] + 1]
           h == HandlerFrame(m.ctx, m.id)
           s == frames[p]
<1>1. /\ ~Idle(p) /\ f \in Frame /\ f.kind = "loop" /\ m \in mq[p] /\ m \in QueuedMessage
      /\ Eligible(m.ctx, f.ctx)
  BY TurnTakes
<1>2. mq[p] \in SUBSET QueuedMessage /\ version[p] + 1 \in Nat
  BY DEF TypeOK, QueueTypeOK
<1>3. /\ f \in [kind : {"loop"}, ctx : Ctx, id : {0}, it : Nat, ver : Nat]
      /\ Following(mq[p], m) \in Nat
  BY <1>1, <1>2, FollowingType DEF Frame
<1>4. /\ l \in Frame /\ l.kind = "loop" /\ l.ctx = f.ctx
      /\ l.it = Following(mq[p], m) /\ l.ver = version[p] + 1
  <2> DEFINE a == Following(mq[p], m)
             b == version[p] + 1
  <2>1. a \in Nat /\ b \in Nat
    BY <1>2, <1>3
  <2> HIDE DEF a, b, f
  <2>2. /\ [f EXCEPT !.it = a, !.ver = b]
             \in [kind : {"loop"}, ctx : Ctx, id : {0}, it : Nat, ver : Nat]
        /\ [f EXCEPT !.it = a, !.ver = b].ctx = f.ctx
        /\ [f EXCEPT !.it = a, !.ver = b].it = a
        /\ [f EXCEPT !.it = a, !.ver = b].ver = b
    BY <1>3, <2>1
  <2>3. QED
    BY <2>2 DEF a, b, Frame
<1>5. h \in Frame /\ h.kind = "handler" /\ h.ctx = m.ctx
  BY <1>1, FrameForms DEF QueuedMessage
<1>6. frames' = [frames EXCEPT ![p] =
         IF listener[m.ctx] THEN Append(Append(Front(s), l), h) ELSE Append(Front(s), l)]
  BY DEF DispatchMessage
<1>7. /\ s \in Seq(Frame) /\ s # <<>> /\ Last(s) = f /\ Nested(s)
      /\ Front(s) \in Seq(Frame) /\ Below(Front(s), s)
  BY <1>1, FrontBelow DEF Nesting, TypeOK, ProcTypeOK, Idle, Top
<1>8. LoopSound(l, mq'[p], version'[p])
  BY <1>4, TurnSound
<1> HIDE DEF l, h
<1>9. Fresh(p, Front(s), l)
  <2>1. On(Front(s), f)
    BY <1>7, TopOn
  <2>2. On(Front(s), l)
    BY <1>1, <1>4, <2>1 DEF On, Fits
  <2>3. QED
    BY <1>4, <1>8, <2>2 DEF Fresh
<1>10. Fresh(p, Append(Front(s), l), h)
  <2>1. Last(Append(Front(s), l)) = l
    BY <1>4, <1>7 DEF Last
  <2>2. QED
    BY <1>1, <1>4, <1>5, <2>1 DEF Fresh, On, Fits
<1>11. QED
  BY <1>6, <1>7, <1>9, <1>10 DEF StackStep

LEMMA StacksStep ==
  ASSUME TypeOK, CallStack, Nesting, Places, Loops, [Next]_vars, frames' # frames
  PROVE  \E p \in Proc : StackStep(p)
<1>1. PICK p \in Proc :
        \/ \E c \in Ctx, u \in UnblockFlags[p] : BeginSend(p, c, u)
        \/ \E ok \in ReplyResults : Reply(p, ok)
        \/ ReturnWithoutReply(p) \/ Crash(p) \/ ListenerStep(p) \/ PumpMessages(p)
  BY FramesChanges
<1>2. CASE \E c \in Ctx, u \in UnblockFlags[p] : BeginSend(p, c, u)
  BY <1>2, BeginSendStacks
<1>3. CASE (\E ok \in ReplyResults : Reply(p, ok)) \/ ReturnWithoutReply(p) \/ Crash(p)
  BY <1>3, CutsStack DEF CallStack
<1>4. CASE PumpMessages(p)
  BY <1>4, PumpStacks
<1>5. CASE ListenerStep(p)
  <2>1. CASE DispatchMessage(p)
    BY <2>1, DispatchMessageStacks
  <2>2. CASE WaitDispatchEvent(p)
    BY <2>2, WaitDispatchStacks
  <2>3. CASE DispatchMessagesTask(p) \/ OnDispatchMessage(p) \/ OnWaitableEventSignaled(p)
    BY <2>3, TaskStacks
  <2>4. CASE OnSendDone(p)
    <3>1. QuitsLoop(p)
      BY <2>4 DEF OnSendDone, QuitsLoop
    <3>2. QED
      BY <3>1, CutsStack DEF CallStack
  <2>5. CASE DispatchEnd(p) \/ SendReturns(p)
    BY <2>5, CutsStack DEF CallStack
  <2>6. QED
    BY <1>5, <2>1, <2>2, <2>3, <2>4, <2>5 DEF ListenerStep
<1>6. QED
  BY <1>1, <1>2, <1>3, <1>4, <1>5

\* t is base with at most two frames pushed on it.
Pushed(p, base, t) ==
  \/ t = base
  \/ \E f : Fresh(p, base, f) /\ t = Append(base, f)
  \/ \E f, g : /\ Fresh(p, base, f) /\ Fresh(p, Append(base, f), g)
               /\ t = Append(Append(base, f), g)

LEMMA StackForm ==
  ASSUME TypeOK, NEW p \in Proc, StackStep(p)
  PROVE  /\ \A q \in Proc : q # p => frames'[q] = frames[q]
         /\ \E base \in Seq(Frame) : Below(base, frames[p]) /\ Pushed(p, base, frames'[p])
<1>1. frames \in [Proc -> Seq(Frame)]
  BY DEF TypeOK, ProcTypeOK
<1>2. PICK base \in Seq(Frame) :
        /\ Below(base, frames[p])
        /\ \/ frames' = [frames EXCEPT ![p] = base]
           \/ \E f : /\ Fresh(p, base, f)
                     /\ \/ frames' = [frames EXCEPT ![p] = Append(base, f)]
                        \/ \E g : /\ Fresh(p, Append(base, f), g)
                                  /\ frames' = [frames EXCEPT ![p] = Append(Append(base, f), g)]
  BY DEF StackStep
<1>3. \E t : /\ frames' = [frames EXCEPT ![p] = t]
             /\ Pushed(p, base, t)
  <2>1. CASE frames' = [frames EXCEPT ![p] = base]
    BY <2>1 DEF Pushed
  <2>2. ASSUME NEW f, Fresh(p, base, f), frames' = [frames EXCEPT ![p] = Append(base, f)]
        PROVE  Pushed(p, base, Append(base, f))
    BY <2>2 DEF Pushed
  <2>3. ASSUME NEW f, Fresh(p, base, f), NEW g, Fresh(p, Append(base, f), g)
        PROVE  Pushed(p, base, Append(Append(base, f), g))
    BY <2>3 DEF Pushed
  <2>4. QED
    BY <1>2, <2>1, <2>2, <2>3, Zenon
<1>4. PICK t : frames' = [frames EXCEPT ![p] = t] /\ Pushed(p, base, t)
  BY <1>3
<1>5. frames'[p] = t /\ \A q \in Proc : q # p => frames'[q] = frames[q]
  BY <1>1, <1>4
<1>6. QED
  BY <1>2, <1>4, <1>5

\* Where the frames come from.
LEMMA FramesOrigin ==
  ASSUME TypeOK, CallStack, Nesting, Places, Loops, [Next]_vars,
         NEW p \in Proc, NEW k \in DOMAIN frames'[p]
  PROVE  \/ k \in DOMAIN frames[p] /\ frames'[p][k] = frames[p][k]
         \/ \E base : Fresh(p, base, frames'[p][k])
<1> SUFFICES ASSUME frames'[p] # frames[p] PROVE
               \/ k \in DOMAIN frames[p] /\ frames'[p][k] = frames[p][k]
               \/ \E base : Fresh(p, base, frames'[p][k])
  OBVIOUS
<1>1. PICK q \in Proc : StackStep(q)
  BY StacksStep
<1>2. q = p
  BY <1>1, StackForm
<1>3. PICK base \in Seq(Frame) : Below(base, frames[p]) /\ Pushed(p, base, frames'[p])
  BY <1>1, <1>2, StackForm
<1>4. /\ frames[p] \in Seq(Frame)
      /\ \A j \in DOMAIN base : j \in DOMAIN frames[p] /\ base[j] = frames[p][j]
  <2>1. frames[p] \in Seq(Frame)
    BY DEF TypeOK, ProcTypeOK
  <2>2. /\ Len(base) \in Nat /\ Len(frames[p]) \in Nat /\ DOMAIN base = 1..Len(base)
        /\ DOMAIN frames[p] = 1..Len(frames[p])
    BY <2>1
  <2>3. Len(base) <= Len(frames[p]) /\ \A j \in 1..Len(base) : base[j] = frames[p][j]
    BY <1>3 DEF Below
  <2>4. QED
    BY <2>1, <2>2, <2>3
<1>5. CASE frames'[p] = base
  BY <1>4, <1>5
<1>6. ASSUME NEW f, Fresh(p, base, f), frames'[p] = Append(base, f)
      PROVE  \/ k \in DOMAIN frames[p] /\ frames'[p][k] = frames[p][k]
             \/ \E b : Fresh(p, b, frames'[p][k])
  <2>1. f \in Frame
    BY <1>6 DEF Fresh
  <2>2. (k \in DOMAIN base /\ frames'[p][k] = base[k]) \/ frames'[p][k] = f
    BY <1>6, <2>1, AppendedElement
  <2>3. QED
    BY <1>4, <1>6, <2>2
<1>7. ASSUME NEW f, Fresh(p, base, f), NEW g, Fresh(p, Append(base, f), g),
             frames'[p] = Append(Append(base, f), g)
      PROVE  \/ k \in DOMAIN frames[p] /\ frames'[p][k] = frames[p][k]
             \/ \E b : Fresh(p, b, frames'[p][k])
  <2>1. f \in Frame /\ g \in Frame /\ Append(base, f) \in Seq(Frame)
    BY <1>7 DEF Fresh
  <2>2. \/ k \in DOMAIN Append(base, f) /\ frames'[p][k] = Append(base, f)[k]
        \/ frames'[p][k] = g
    BY <1>7, <2>1, AppendedElement
  <2>3. (k \in DOMAIN base /\ frames'[p][k] = base[k]) \/ frames'[p][k] \in {f, g}
    BY <2>1, <2>2, AppendedElement
  <2>4. QED
    BY <1>4, <1>7, <2>3
<1>8. QED
  BY <1>3, <1>5, <1>6, <1>7 DEF Pushed

LEMMA NextNesting ==
  ASSUME TypeOK, CallStack, Nesting, Places, Loops, [Next]_vars
  PROVE  Nesting'
<1>1. CASE frames' = frames
  BY <1>1 DEF Nesting
<1>2. CASE frames' # frames
  <2>1. PICK p \in Proc : StackStep(p)
    BY <1>2, StacksStep
  <2>2. PICK base \in Seq(Frame) : Below(base, frames[p]) /\ Pushed(p, base, frames'[p])
    BY <2>1, StackForm
  <2>3. /\ frames[p] \in Seq(Frame) /\ Nested(frames[p])
        /\ \A q \in Proc : q # p => frames'[q] = frames[q]
    BY <2>1, StackForm DEF TypeOK, ProcTypeOK, Nesting
  <2>4. Nested(base)
    BY <2>2, <2>3, NestedBelow
  <2>5. ASSUME NEW f, Fresh(p, base, f)
        PROVE  Append(base, f) \in Seq(Frame) /\ Nested(Append(base, f))
    BY <2>4, <2>5, NestedPush DEF Fresh
  <2>6. ASSUME NEW f, Fresh(p, base, f), NEW g, Fresh(p, Append(base, f), g)
        PROVE  Nested(Append(Append(base, f), g))
    BY <2>5, <2>6, NestedPush DEF Fresh
  <2>7. Nested(frames'[p])
    BY <2>2, <2>4, <2>5, <2>6 DEF Pushed
  <2>8. QED
    BY <2>3, <2>7 DEF Nesting
<1>3. QED
  BY <1>1, <1>2

(***************************************************************************)
(* The queue: every change moves its version.                              *)
(***************************************************************************)
LEMMA VersionChanges ==
  ASSUME [Next]_vars, version' # version
  PROVE  \/ \E p \in Proc : DispatchMessage(p) \/ Crash(p) \/ \E c \in Ctx : Destroy(p, c)
         \/ \E c \in Ctx : QueueMessage(c)
<1> USE DEF queueVars
<1>1. ASSUME NEW p \in Proc, UserCode(p) PROVE Crash(p) \/ \E c \in Ctx : Destroy(p, c)
  BY <1>1 DEF UserCode, BeginSend, SendAfterShutdown, Shutdown
<1>2. ASSUME NEW p \in Proc, HandlerReturns(p) \/ DeferredReplies(p) PROVE FALSE
  BY <1>2 DEF HandlerReturns, Reply, ReturnWithoutReply, DeferredReplies, SendDeferredReply
<1>3. ASSUME NEW p \in Proc, ListenerStep(p) \/ PumpMessages(p) PROVE DispatchMessage(p)
  BY <1>3 DEF ListenerStep, DispatchEnd, WaitDispatchEvent, SendReturns, DispatchMessagesTask,
              OnDispatchMessage, OnWaitableEventSignaled, OnSendDone, PumpMessages
<1>4. ASSUME NEW p \in Proc, IpcTaskStep(p) PROVE FALSE
  BY <1>4, IpcTaskKeeps DEF IpcTaskStep, SignalDispatchEvent
<1>5. ASSUME NEW c \in Ctx, ChannelStep(c) \/ DoneWaiting(c) \/ SendDoneWaiting(c)
      PROVE  QueueMessage(c)
  BY <1>5 DEF ChannelStep, ReceiveReply, PostMessage, OnChannelError, OnShutdownSignaled,
              DoneWaiting, SendDoneWaiting
<1>6. ASSUME NEW c \in Ctx, NEW i \in Ids, OnSendTimeout(c, i) PROVE FALSE
  BY <1>6 DEF OnSendTimeout
<1>7. Next
  BY DEF vars
<1>8. QED
  BY <1>1, <1>2, <1>3, <1>4, <1>5, <1>6, <1>7 DEF Next

\* What a step does to the queue of p.
QueueStep(p) ==
  \/ mq'[p] = mq[p] /\ version'[p] = version[p]
  \/ mq'[p] = {} /\ version'[p] = 0 /\ frames'[p] = <<>>
  \/ version'[p] > version[p] /\ mq'[p] \subseteq mq[p]
  \/ \E m : /\ version'[p] > version[p] /\ mq'[p] = mq[p] \cup {m}
            /\ m.at = version'[p]

LEMMA RemovesContext ==
  ASSUME TypeOK, NEW p \in Proc, NEW c \in Ctx, RemoveContext(p, c)
  PROVE  QueueStep(p)
<1> DEFINE gone == {m \in mq[p] : m.ctx = c}
           n == Cardinality(gone)
<1>1. /\ mq'[p] = mq[p] \ gone /\ version'[p] = version[p] + n
      /\ IsFiniteSet(mq[p]) /\ version[p] \in Nat
  BY DEF RemoveContext, TypeOK, QueueTypeOK
<1>2. IsFiniteSet(gone) /\ gone \subseteq mq[p]
  BY <1>1, FS_Subset
<1>3. n \in Nat /\ (n = 0 => gone = {})
  BY <1>2, FS_CardinalityType, FS_EmptySet
<1> HIDE DEF n
<1>4. CASE n = 0
  BY <1>1, <1>3, <1>4 DEF QueueStep
<1>5. CASE n # 0
  BY <1>1, <1>3, <1>5 DEF QueueStep
<1>6. QED
  BY <1>4, <1>5

LEMMA NextQueue ==
  ASSUME TypeOK, [Next]_vars, NEW p \in Proc
  PROVE  QueueStep(p)
<1>1. /\ mq \in [Proc -> SUBSET QueuedMessage] /\ version \in [Proc -> Nat]
      /\ frames \in [Proc -> Seq(Frame)]
  BY DEF TypeOK, QueueTypeOK, ProcTypeOK
<1>2. CASE mq'[p] = mq[p] /\ version'[p] = version[p]
  BY <1>2 DEF QueueStep
<1>3. ASSUME NEW q \in Proc, DispatchMessage(q) PROVE QueueStep(p)
  <2>1. /\ \E m : mq' = [mq EXCEPT ![q] = @ \ {m}]
        /\ version' = [version EXCEPT ![q] = @ + 1]
    BY <1>3 DEF DispatchMessage
  <2>2. CASE q = p
    <3>1. mq'[p] \subseteq mq[p] /\ version'[p] = version[p] + 1 /\ version[p] \in Nat
      BY <1>1, <2>1, <2>2
    <3>2. QED
      BY <3>1 DEF QueueStep
  <2>3. CASE q # p
    BY <1>1, <2>1, <2>3 DEF QueueStep
  <2>4. QED
    BY <2>2, <2>3
<1>4. ASSUME NEW q \in Proc, Crash(q) PROVE QueueStep(p)
  BY <1>1, <1>4 DEF Crash, QueueStep
<1>5. ASSUME NEW q \in Proc, NEW c \in Ctx, Destroy(q, c) PROVE QueueStep(p)
  <2>1. RemoveContext(q, c)
    BY <1>5 DEF Destroy
  <2>2. CASE q = p
    BY <2>1, <2>2, RemovesContext
  <2>3. CASE q # p
    BY <1>1, <2>1, <2>3 DEF RemoveContext, QueueStep
  <2>4. QED
    BY <2>2, <2>3
<1>6. ASSUME NEW c \in Ctx, QueueMessage(c) PROVE QueueStep(p)
  <2> DEFINE q == Owner[c]
             m == [ctx |-> c, id |-> Head(wire[c]).id, at |-> version[q] + 1]
  <2>1. /\ version' = [version EXCEPT ![q] = @ + 1]
        /\ mq' = [mq EXCEPT ![q] = @ \cup {m}] /\ m.at = version[q] + 1
    BY <1>6 DEF QueueMessage
  <2> HIDE DEF m, q
  <2>2. CASE q = p
    <3>1. mq'[p] = mq[p] \cup {m} /\ version'[p] = version[p] + 1 /\ version[p] \in Nat
      BY <1>1, <2>1, <2>2
    <3>2. QED
      BY <2>1, <2>2, <3>1 DEF QueueStep
  <2>3. CASE q # p
    BY <1>1, <2>1, <2>3 DEF QueueStep
  <2>4. QED
    BY <2>2, <2>3
<1>7. QED
  BY <1>2, <1>3, <1>4, <1>5, <1>6, MqChanges, VersionChanges

LEMMA NextPlaces ==
  ASSUME TypeOK, TypeOK', Places, [Next]_vars
  PROVE  Places'
<1> SUFFICES ASSUME NEW p \in Proc, NEW m \in mq'[p]
             PROVE  /\ m.at <= version'[p] /\ m.at # 0
                    /\ \A n \in mq'[p] : m.at = n.at => m = n
  BY DEF Places
<1>1. QueueStep(p)
  BY NextQueue
<1>2. /\ version[p] \in Nat /\ version'[p] \in Nat
      /\ mq[p] \subseteq QueuedMessage /\ mq'[p] \subseteq QueuedMessage
      /\ \A n \in mq[p] \cup mq'[p] : n.at \in Nat
  BY DEF TypeOK, QueueTypeOK, QueuedMessage
<1>3. \A n \in mq[p] : /\ n.at <= version[p] /\ n.at # 0
                       /\ \A o \in mq[p] : n.at = o.at => n = o
  BY DEF Places
<1>4. QED
  BY <1>1, <1>2, <1>3 DEF QueueStep

LEMMA NextLoops ==
  ASSUME TypeOK, TypeOK', CallStack, Nesting, Places, Places', Loops, [Next]_vars
  PROVE  Loops'
<1> SUFFICES ASSUME NEW p \in Proc, NEW k \in DOMAIN frames'[p], frames'[p][k].kind = "loop"
             PROVE  LoopSound(frames'[p][k], mq'[p], version'[p])
  BY DEF Loops
<1> DEFINE f == frames'[p][k]
<1>1. /\ version[p] \in Nat /\ version'[p] \in Nat
      /\ \A n \in mq'[p] : n.at \in Nat /\ n.at <= version'[p] /\ n.at # 0
  BY DEF TypeOK, QueueTypeOK, QueuedMessage, Places
<1>2. QueueStep(p)
  BY NextQueue
<1>3. CASE k \in DOMAIN frames[p] /\ frames'[p][k] = frames[p][k]
  <2>1. LoopSound(f, mq[p], version[p])
    BY <1>3 DEF Loops
  <2>2. f.ver \in Nat
    BY DEF TypeOK, ProcTypeOK, Frame
  <2>3. frames'[p] # <<>>
    OBVIOUS
  <2>4. QED
    BY <1>1, <1>2, <2>1, <2>2, <2>3 DEF QueueStep, LoopSound
<1>4. CASE \E base : Fresh(p, base, f)
  <2>1. f = LoopFrame(f.ctx) \/ LoopSound(f, mq'[p], version'[p])
    BY <1>4 DEF Fresh
  <2>2. CASE f = LoopFrame(f.ctx)
    <3>1. f.ver = 0 /\ f.it = 0
      BY <2>2 DEF LoopFrame
    <3>2. QED
      BY <1>1, <3>1 DEF LoopSound
  <2>3. QED
    BY <2>1, <2>2
<1>5. QED
  BY <1>3, <1>4, FramesOrigin

LEMMA InitQueue == Init => Places /\ Nesting /\ Loops
  BY DEF Init, Places, Nesting, Nested, Loops

(***************************************************************************)
(* The steps of a call stack by what they take off and put on.             *)
(***************************************************************************)
Pops(p) == ~Idle(p) /\ frames'[p] = Front(frames[p])

\* A loop goes on after the message it takes, whose handler runs if there is a listener.
LoopTurns(p) ==
  /\ DispatchMessage(p) /\ ~Idle(p) /\ Top(p).kind = "loop"
  /\ \E l \in Frame :
       /\ l.kind = "loop"
       /\ \/ frames'[p] = Append(Front(frames[p]), l)
          \/ \E h \in Frame : /\ h.kind = "handler"
                              /\ frames'[p] = Append(Append(Front(frames[p]), l), h)

StackChange(p) ==
  \/ \E w, l \in Frame : /\ w.kind = "wait" /\ l.kind = "loop"
                         /\ frames'[p] = Append(Append(frames[p], w), l)
  \/ \E f \in Frame : f.kind \in {"loop", "handler"} /\ frames'[p] = Append(frames[p], f)
  \/ HandlerReturns(p) /\ Pops(p) /\ Top(p).kind = "handler"
  \/ DispatchEnd(p) /\ Pops(p) /\ Top(p).kind = "loop"
  \/ SendReturns(p) /\ Pops(p) /\ Top(p).kind = "wait"
  \/ LoopTurns(p) \/ PumpMessages(p) \/ QuitsLoop(p) \/ Crash(p)

LEMMA TurnsLoop ==
  ASSUME TypeOK, NEW p \in Proc, DispatchMessage(p)
  PROVE  LoopTurns(p)
<1>1. PICK m \in mq[p], l \in Frame :
        /\ l.kind = "loop" /\ HandlerFrame(m.ctx, m.id) \in Frame
        /\ frames' = [frames EXCEPT ![p] =
             IF listener[m.ctx]
             THEN Append(Append(Front(frames[p]), l), HandlerFrame(m.ctx, m.id))
             ELSE Append(Front(frames[p]), l)]
  BY DispatchMessageFrames
<1> DEFINE h == HandlerFrame(m.ctx, m.id)
<1>2. h.kind = "handler"
  BY DEF HandlerFrame
<1>3. ~Idle(p) /\ Top(p).kind = "loop"
  BY DEF DispatchMessage, TopIs, Top
<1>4. frames \in [Proc -> Seq(Frame)]
  BY DEF TypeOK, ProcTypeOK
<1>5. \/ frames'[p] = Append(Front(frames[p]), l)
      \/ frames'[p] = Append(Append(Front(frames[p]), l), h)
  BY <1>1, <1>4
<1> HIDE DEF h
<1>6. h \in Frame
  BY <1>1 DEF h
<1>7. QED
  BY <1>1, <1>2, <1>3, <1>5, <1>6 DEF LoopTurns

LEMMA StackChanges ==
  ASSUME TypeOK, [Next]_vars, NEW p \in Proc, frames'[p] # frames[p]
  PROVE  StackChange(p)
<1>1. PICK q \in Proc :
        \/ \E c \in Ctx, u \in UnblockFlags[q] : BeginSend(q, c, u)
        \/ \E ok \in ReplyResults : Reply(q, ok)
        \/ ReturnWithoutReply(q) \/ Crash(q) \/ ListenerStep(q) \/ PumpMessages(q)
  BY FramesChanges
<1>2. frames \in [Proc -> Seq(Frame)] /\ frames[p] \in Seq(Frame)
  BY DEF TypeOK, ProcTypeOK
<1>3. ASSUME NEW r \in Proc, NEW s, frames' = [frames EXCEPT ![r] = s]
      PROVE  r = p /\ frames'[p] = s
  BY <1>2, <1>3
<1>4. ASSUME NEW c \in Ctx, NEW u \in UnblockFlags[q], BeginSend(q, c, u) PROVE StackChange(p)
  <2> DEFINE w == WaitFrame(c, nextId[q])
             l == LoopFrame(c)
  <2>1. frames' = [frames EXCEPT ![q] = Append(Append(@, w), l)]
    BY <1>4 DEF BeginSend
  <2>2. nextId[q] \in Ids
    <3>1. nextId[q] <= Budget[q] /\ nextId[q] \in 1..(MaxSends + 1)
      BY <1>4 DEF BeginSend, CanSend, TypeOK, ProcTypeOK
    <3>2. QED
      BY <3>1, ConstantsAssumption DEF Ids
  <2>3. w \in Frame /\ w.kind = "wait" /\ l \in Frame /\ l.kind = "loop"
    BY <2>2, FrameForms
  <2> HIDE DEF w, l
  <2>4. frames'[p] = Append(Append(frames[p], w), l)
    BY <1>2, <2>1
  <2>5. QED
    BY <2>3, <2>4 DEF StackChange
<1>5. CASE (\E ok \in ReplyResults : Reply(q, ok)) \/ ReturnWithoutReply(q)
  <2>1. ~Idle(q) /\ Top(q).kind = "handler" /\ frames' = [frames EXCEPT ![q] = Front(frames[q])]
    BY <1>5 DEF Reply, ReturnWithoutReply, PopFrame, TopIs, Top
  <2>2. q = p /\ frames'[p] = Front(frames[q])
    BY <1>3, <2>1
  <2>3. QED
    BY <1>5, <2>1, <2>2 DEF StackChange, Pops, HandlerReturns
<1>6. CASE Crash(q)
  <2>1. q = p
    BY <1>3, <1>6 DEF Crash
  <2>2. QED
    BY <1>6, <2>1 DEF StackChange
<1>7. CASE PumpMessages(q)
  <2>1. q = p
    BY <1>3, <1>7 DEF PumpMessages, Push
  <2>2. QED
    BY <1>7, <2>1 DEF StackChange
<1>8. CASE DispatchMessage(q)
  <2>1. q = p
    BY <1>3, <1>8 DEF DispatchMessage
  <2>2. QED
    BY <1>8, <2>1, TurnsLoop DEF StackChange
<1>9. CASE DispatchEnd(q)
  <2>1. ~Idle(q) /\ Top(q).kind = "loop" /\ frames' = [frames EXCEPT ![q] = Front(frames[q])]
    BY <1>9 DEF DispatchEnd, PopFrame, TopIs, Top
  <2>2. q = p /\ frames'[p] = Front(frames[q])
    BY <1>3, <2>1
  <2>3. QED
    BY <1>9, <2>1, <2>2 DEF StackChange, Pops
<1>10. CASE SendReturns(q)
  <2>1. ~Idle(q) /\ Top(q).kind = "wait" /\ frames' = [frames EXCEPT ![q] = Front(frames[q])]
    BY <1>10 DEF SendReturns, EndSend, TopIs, Top
  <2>2. q = p /\ frames'[p] = Front(frames[q])
    BY <1>3, <2>1
  <2>3. QED
    BY <1>10, <2>1, <2>2 DEF StackChange, Pops
<1>11. CASE OnSendDone(q)
  <2>1. QuitsLoop(q)
    BY <1>11 DEF OnSendDone, QuitsLoop
  <2>2. frames' = [frames EXCEPT ![q] = SubSeq(frames[q], 1, Len(frames[q]) - 2)]
    BY <2>1 DEF QuitsLoop, OnSendDone, EndSend
  <2>3. q = p
    BY <1>3, <2>2
  <2>4. QED
    BY <2>1, <2>3 DEF StackChange
<1>12. CASE \/ WaitDispatchEvent(q) \/ DispatchMessagesTask(q) \/ OnDispatchMessage(q)
            \/ OnWaitableEventSignaled(q)
  <2>1. \E f \in Frame : /\ f.kind \in {"loop", "handler"}
                         /\ frames' = [frames EXCEPT ![q] = Append(frames[q], f)]
    <3>1. CASE WaitDispatchEvent(q)
      <4>1. Top(q).ctx \in Ctx /\ frames' = [frames EXCEPT ![q] = Append(frames[q], LoopFrame(Top(q).ctx))]
        BY <3>1, TopFrame DEF WaitDispatchEvent, TopIs, Push
      <4>2. QED
        BY <4>1, FrameForms
    <3>2. CASE DispatchMessagesTask(q) \/ OnWaitableEventSignaled(q)
      <4>1. Head(ltasks[q]).ctx \in Ctx
        BY <3>2, HeadTaskType DEF DispatchMessagesTask, OnWaitableEventSignaled
      <4>2. frames' = [frames EXCEPT ![q] = Append(frames[q], LoopFrame(Head(ltasks[q]).ctx))]
        BY <3>2 DEF DispatchMessagesTask, OnWaitableEventSignaled, Push
      <4>3. QED
        BY <4>1, <4>2, FrameForms
    <3>3. CASE OnDispatchMessage(q)
      <4> DEFINE h == HandlerFrame(Head(ltasks[q]).ctx, Head(ltasks[q]).id)
      <4>1. Head(ltasks[q]).ctx \in Ctx /\ Head(ltasks[q]).id \in Ids
        BY <3>3, HeadTaskType DEF OnDispatchMessage
      <4>2. frames' = [frames EXCEPT ![q] = Append(frames[q], h)]
        BY <1>1, <3>3 DEF OnDispatchMessage, Push
      <4>3. h \in Frame /\ h.kind = "handler"
        BY <4>1, FrameForms
      <4> HIDE DEF h
      <4>4. QED
        BY <4>2, <4>3
    <3>4. QED
      BY <1>12, <3>1, <3>2, <3>3
  <2>2. PICK f \in Frame : /\ f.kind \in {"loop", "handler"}
                           /\ frames' = [frames EXCEPT ![q] = Append(frames[q], f)]
    BY <2>1
  <2>3. q = p /\ frames'[p] = Append(frames[q], f)
    BY <1>3, <2>2
  <2>4. QED
    BY <2>2, <2>3 DEF StackChange
<1>13. QED
  BY <1>1, <1>4, <1>5, <1>6, <1>7, <1>8, <1>9, <1>10, <1>11, <1>12 DEF ListenerStep

(***************************************************************************)
(* Restricted groups.                                                      *)
(***************************************************************************)
LEMMA NestingRestricts ==
  ASSUME TypeOK, Nesting
  PROVE  RestrictedReentrancy
<1> DEFINE Ends(s, k) == {j \in 1..(k - 1) : s[j].kind \in {"wait", "pump"}}
           Goal(s, k) == \E j \in Ends(s, k) :
                           /\ \A h \in Ends(s, k) : h <= j
                           /\ s[j].kind = "pump" \/ Group[s[j].ctx] = Group[s[k].ctx]
<1>1. SUFFICES ASSUME NEW p \in Proc, NEW k \in DOMAIN frames[p], frames[p][k].kind = "handler",
                      Group[frames[p][k].ctx] # Unrestricted, Ends(frames[p], k) # {}
               PROVE  Goal(frames[p], k)
  BY DEF RestrictedReentrancy
<1> DEFINE s == frames[p]
           f == s[k]
<1>2. PICK i \in 1..(k - 1) : s[i].kind \in {"wait", "pump"}
  BY <1>1
<1>3. s \in Seq(Frame) /\ Nested(s)
  BY DEF Nesting, TypeOK, ProcTypeOK
<1>4. k \in Nat /\ DOMAIN s = 1..Len(s) /\ Len(s) \in Nat /\ i <= k - 1 /\ 1 <= i
  BY <1>3
<1> HIDE DEF s
<1>5. k - 1 \in DOMAIN s /\ k # 1
  BY <1>4 DEF s
<1>6. Fits(s[k - 1], f)
  BY <1>3, <1>5 DEF Nested, s
<1>7. CASE s[k - 1].kind = "pump"
  <2>1. k - 1 \in Ends(s, k) /\ \A h \in Ends(s, k) : h <= k - 1
    BY <1>4, <1>7
  <2>2. QED
    BY <1>7, <2>1 DEF s
<1>8. CASE s[k - 1].kind = "loop" /\ Eligible(f.ctx, s[k - 1].ctx)
  <2> DEFINE l == k - 1
  <2>1. i # l
    BY <1>2, <1>8 DEF s
  <2>2. l \in DOMAIN s /\ l # 1
    BY <1>4, <1>5, <2>1
  <2>3. Fits(s[l - 1], s[l])
    BY <1>3, <2>2 DEF Nested
  <2>4. \/ s[l - 1].kind = "pump"
        \/ s[l - 1].kind = "wait" /\ s[l - 1].ctx = s[l].ctx
    BY <1>8, <2>3 DEF Fits
  <2>5. Group[f.ctx] = Group[s[l].ctx]
    BY <1>1, <1>8 DEF Eligible, s
  <2>6. l - 1 \in Ends(s, k) /\ \A h \in Ends(s, k) : h <= l - 1
    BY <1>4, <1>8, <2>1, <2>4
  <2>7. QED
    BY <2>4, <2>5, <2>6 DEF s
<1>9. QED
  BY <1>1, <1>6, <1>7, <1>8 DEF Fits, s

(***************************************************************************)
(* A thread that blocks has nothing to dispatch.                           *)
(***************************************************************************)
LEMMA EventChanges ==
  ASSUME [Next]_vars, event' # event
  PROVE  \E p \in Proc : \/ WaitDispatchEvent(p) \/ OnWaitableEventSignaled(p)
                         \/ SignalDispatchEvent(p) \/ Crash(p)
<1> USE DEF queueVars
<1>1. ASSUME NEW p \in Proc, UserCode(p) PROVE Crash(p)
  BY <1>1 DEF UserCode, BeginSend, SendAfterShutdown, Shutdown, Destroy
<1>2. ASSUME NEW p \in Proc, HandlerReturns(p) \/ DeferredReplies(p) PROVE FALSE
  BY <1>2 DEF HandlerReturns, Reply, ReturnWithoutReply, DeferredReplies, SendDeferredReply
<1>3. ASSUME NEW p \in Proc, ListenerStep(p) \/ PumpMessages(p)
      PROVE  WaitDispatchEvent(p) \/ OnWaitableEventSignaled(p)
  BY <1>3 DEF ListenerStep, DispatchMessage, DispatchEnd, SendReturns, DispatchMessagesTask,
              OnDispatchMessage, OnSendDone, PumpMessages
<1>4. ASSUME NEW p \in Proc, IpcTaskStep(p) PROVE SignalDispatchEvent(p)
  BY <1>4, IpcTaskKeeps DEF IpcTaskStep
<1>5. ASSUME NEW c \in Ctx, ChannelStep(c) \/ DoneWaiting(c) \/ SendDoneWaiting(c) PROVE FALSE
  BY <1>5 DEF ChannelStep, ReceiveReply, QueueMessage, PostMessage, OnChannelError,
              OnShutdownSignaled, DoneWaiting, SendDoneWaiting
<1>6. ASSUME NEW c \in Ctx, NEW i \in Ids, OnSendTimeout(c, i) PROVE FALSE
  BY <1>6 DEF OnSendTimeout
<1>7. Next
  BY DEF vars
<1>8. QED
  BY <1>1, <1>2, <1>3, <1>4, <1>5, <1>6, <1>7 DEF Next

LEMMA QueueingChanges ==
  ASSUME [Next]_vars, queueing' # queueing
  PROVE  (\E p \in Proc : SignalDispatchEvent(p) \/ Crash(p)) \/ \E c \in Ctx : QueueMessage(c)
<1> USE DEF queueVars
<1>1. ASSUME NEW p \in Proc, UserCode(p) PROVE Crash(p)
  BY <1>1 DEF UserCode, BeginSend, SendAfterShutdown, Shutdown, Destroy
<1>2. ASSUME NEW p \in Proc, HandlerReturns(p) \/ DeferredReplies(p) PROVE FALSE
  BY <1>2 DEF HandlerReturns, Reply, ReturnWithoutReply, DeferredReplies, SendDeferredReply
<1>3. ASSUME NEW p \in Proc, ListenerStep(p) \/ PumpMessages(p) PROVE FALSE
  BY <1>3 DEF ListenerStep, DispatchMessage, DispatchEnd, WaitDispatchEvent, SendReturns,
              DispatchMessagesTask, OnDispatchMessage, OnWaitableEventSignaled, OnSendDone,
              PumpMessages
<1>4. ASSUME NEW p \in Proc, IpcTaskStep(p) PROVE SignalDispatchEvent(p)
  BY <1>4, IpcTaskKeeps DEF IpcTaskStep
<1>5. ASSUME NEW c \in Ctx, ChannelStep(c) \/ DoneWaiting(c) \/ SendDoneWaiting(c)
      PROVE  QueueMessage(c)
  BY <1>5 DEF ChannelStep, ReceiveReply, PostMessage, OnChannelError, OnShutdownSignaled,
              DoneWaiting, SendDoneWaiting
<1>6. ASSUME NEW c \in Ctx, NEW i \in Ids, OnSendTimeout(c, i) PROVE FALSE
  BY <1>6 DEF OnSendTimeout
<1>7. Next
  BY DEF vars
<1>8. QED
  BY <1>1, <1>2, <1>3, <1>4, <1>5, <1>6, <1>7 DEF Next

\* What QueueMessage leaves for SignalDispatchEvent.
LEMMA Queues ==
  ASSUME TypeOK, NEW c \in Ctx, QueueMessage(c)
  PROVE  /\ Owner[c] \in Proc /\ queueing[Owner[c]] = NotQueueing
         /\ queueing'[Owner[c]] = [ctx |-> c, post |-> ~taskPending[Owner[c]]]
         /\ queueing'[Owner[c]] # NotQueueing
         /\ taskPending' = [taskPending EXCEPT ![Owner[c]] = TRUE] /\ ltasks' = ltasks
         /\ \A p \in Proc : p # Owner[c] => queueing'[p] = queueing[p] /\ mq'[p] = mq[p]
<1> DEFINE p == Owner[c]
           r == [ctx |-> c, post |-> ~taskPending[p]]
<1>1. /\ queueing' = [queueing EXCEPT ![p] = r]
      /\ taskPending' = [taskPending EXCEPT ![p] = TRUE] /\ ltasks' = ltasks
      /\ queueing[p] = NotQueueing
      /\ \E m : mq' = [mq EXCEPT ![p] = @ \cup {m}]
  BY DEF QueueMessage, Receive, IpcReady
<1>2. /\ p \in Proc
      /\ queueing \in [Proc -> {NotQueueing} \cup [ctx : Ctx, post : BOOLEAN]]
      /\ mq \in [Proc -> SUBSET QueuedMessage]
  BY ConstantsAssumption DEF TypeOK, QueueTypeOK
<1>3. r.ctx = c /\ NotQueueing.ctx = "none" /\ c # "none"
  BY ConstantsAssumption DEF NotQueueing
<1> HIDE DEF r
<1>4. queueing'[p] = r /\ \A q \in Proc : q # p => queueing'[q] = queueing[q] /\ mq'[q] = mq[q]
  BY <1>1, <1>2
<1>5. r # NotQueueing
  BY <1>3
<1>6. QED
  BY <1>1, <1>2, <1>4, <1>5 DEF r

LEMMA QueueGrows ==
  ASSUME TypeOK, [Next]_vars, NEW p \in Proc, ~(mq'[p] \subseteq mq[p])
  PROVE  \E c \in Ctx : QueueMessage(c) /\ Owner[c] = p
<1>1. mq \in [Proc -> SUBSET QueuedMessage]
  BY DEF TypeOK, QueueTypeOK
<1>2. ASSUME NEW q \in Proc, DispatchMessage(q) PROVE mq'[p] \subseteq mq[p]
  <2>1. \E m : mq' = [mq EXCEPT ![q] = @ \ {m}]
    BY <1>2 DEF DispatchMessage
  <2>2. QED
    BY <1>1, <2>1
<1>3. ASSUME NEW q \in Proc, Crash(q) PROVE mq'[p] \subseteq mq[p]
  BY <1>1, <1>3 DEF Crash
<1>4. ASSUME NEW q \in Proc, NEW c \in Ctx, Destroy(q, c) PROVE mq'[p] \subseteq mq[p]
  BY <1>1, <1>4 DEF Destroy, RemoveContext
<1>5. ASSUME NEW c \in Ctx, QueueMessage(c), Owner[c] # p PROVE mq'[p] = mq[p]
  BY <1>5, Queues
<1>6. QED
  BY <1>2, <1>3, <1>4, <1>5, MqChanges

\* A dispatch loop ends when it has dispatched all it may.
LEMMA LoopEnds ==
  ASSUME TypeOK, Loops, NEW p \in Proc, DispatchEnd(p), NEW m \in mq[p]
  PROVE  ~Eligible(m.ctx, Top(p).ctx)
<1> DEFINE f == Top(p)
<1>1. ~Idle(p) /\ f.kind = "loop" /\ Candidates(p, f) = {}
  BY DEF DispatchEnd, TopIs, Top
<1>2. LoopSound(f, mq[p], version[p])
  BY <1>1, TopFrame DEF Loops
<1>3. m.at \in Nat /\ f.it \in Nat
  BY <1>1, TopFrame DEF TypeOK, QueueTypeOK, QueuedMessage, Frame
<1> HIDE DEF f
<1>4. QED
  BY <1>1, <1>2, <1>3 DEF LoopSound, Candidates, Ahead, f

\* Only the end of a dispatch loop puts a Send back on the top.
LEMMA WaitOnTop ==
  ASSUME TypeOK, CallStack, Nesting, [Next]_vars, NEW p \in Proc, frames'[p] # frames[p],
         frames'[p] # <<>>, Last(frames'[p]).kind = "wait"
  PROVE  DispatchEnd(p) /\ ~Idle(p) /\ Last(frames'[p]).ctx = Top(p).ctx
<1> DEFINE s == frames[p]
           t == frames'[p]
<1>1. s \in Seq(Frame) /\ Nested(s)
  BY DEF TypeOK, ProcTypeOK, Nesting
<1>2. StackChange(p)
  BY StackChanges
<1>3. \A r \in Seq(Frame), f \in Frame : Append(r, f) \in Seq(Frame) /\ Last(Append(r, f)) = f
  BY DEF Last
<1>4. ASSUME NEW f \in Frame, f.kind \in {"loop", "handler"}, t = Append(s, f) PROVE FALSE
  BY <1>1, <1>3, <1>4
<1>5. ASSUME NEW w \in Frame, NEW l \in Frame, l.kind = "loop", t = Append(Append(s, w), l)
      PROVE  FALSE
  BY <1>1, <1>3, <1>5
<1>6. ASSUME Pops(p)
      PROVE  /\ t \in Seq(Frame) /\ Fits(Last(t), Top(p))
  <2>1. s # <<>> /\ t = Front(s)
    BY <1>6 DEF Pops, Idle
  <2>2. t \in Seq(Frame) /\ On(t, Last(s))
    BY <1>1, <2>1, FrontBelow, TopOn
  <2>3. QED
    BY <2>2 DEF On, Top
<1>7. CASE Pops(p) /\ Top(p).kind \in {"handler", "wait"}
  BY <1>6, <1>7 DEF Fits
<1>8. CASE DispatchEnd(p) /\ Pops(p) /\ Top(p).kind = "loop"
  BY <1>6, <1>8 DEF Fits, Pops
<1>9. ASSUME LoopTurns(p) PROVE FALSE
  <2>1. Front(s) \in Seq(Frame)
    BY <1>1, <1>9, FrontBelow DEF LoopTurns, Idle
  <2>2. PICK l \in Frame : /\ l.kind = "loop"
                           /\ \/ t = Append(Front(s), l)
                              \/ \E h \in Frame : /\ h.kind = "handler"
                                                  /\ t = Append(Append(Front(s), l), h)
    BY <1>9 DEF LoopTurns
  <2>3. CASE t = Append(Front(s), l)
    BY <1>3, <2>1, <2>2, <2>3
  <2>4. CASE \E h \in Frame : h.kind = "handler" /\ t = Append(Append(Front(s), l), h)
    BY <1>3, <2>1, <2>2, <2>4
  <2>5. QED
    BY <2>2, <2>3, <2>4
<1>10. ASSUME PumpMessages(p) PROVE FALSE
  <2> DEFINE f == PumpFrame(Top(p).ctx, Top(p).id, sendWatch[p].id)
  <2>1. t = Append(s, f)
    BY <1>10, PumpStacks DEF TypeOK, ProcTypeOK
  <2>2. f \in Frame /\ f.kind = "pump"
    <3>1. /\ Top(p).ctx \in Ctx /\ Top(p).id \in Ids /\ sendWatch[p].id \in 0..MaxSends
      BY <1>10, TopFrame DEF PumpMessages, TopIs, Top, TypeOK, QueueTypeOK
    <3>2. QED
      BY <3>1, FrameForms
  <2> HIDE DEF f
  <2>3. QED
    BY <1>1, <1>3, <2>1, <2>2
<1>11. ASSUME QuitsLoop(p) PROVE FALSE
  <2> DEFINE n == Len(s) - 1
  <2>1. EndsAt(p, SubSeq(s, 1, n - 1), n)
    BY <1>11, QuitsLoopEnds DEF CallStack
  <2>2. t = SubSeq(s, 1, n - 1)
    BY <1>11 DEF QuitsLoop, OnSendDone, EndSend, TypeOK, ProcTypeOK
  <2>3. n \in DOMAIN s /\ s[n].kind = "wait" /\ t \in Seq(Frame) /\ Len(t) = n - 1
        /\ \A k \in 1..(n - 1) : t[k] = s[k]
    BY <2>1, <2>2 DEF EndsAt
  <2>4. n # 1 /\ n - 1 \in 1..(n - 1) /\ Last(t) = s[n - 1]
    <3>1. n \in Nat /\ n >= 1 /\ Len(t) # 0 /\ Last(t) = t[Len(t)]
      <4>1. DOMAIN s = 1..Len(s) /\ Len(s) \in Nat
        BY <1>1
      <4>2. n \in 1..Len(s)
        BY <2>3, <4>1
      <4>3. Len(t) \in DOMAIN t /\ Last(t) = t[Len(t)] /\ DOMAIN t = 1..Len(t)
        BY <2>3, LastType
      <4>4. QED
        BY <4>1, <4>2, <4>3
    <3>2. n # 1 /\ n - 1 \in 1..(n - 1)
      BY <2>3, <3>1
    <3>3. QED
      BY <2>3, <3>1, <3>2
  <2>5. Fits(s[n - 1], s[n])
    BY <1>1, <2>3, <2>4 DEF Nested
  <2>6. QED
    BY <2>3, <2>4, <2>5 DEF Fits
<1>12. ~Crash(p)
  BY DEF Crash, TypeOK, ProcTypeOK
<1>13. QED
  BY <1>2, <1>4, <1>5, <1>7, <1>8, <1>9, <1>10, <1>11, <1>12 DEF StackChange

LEMMA NextBlocks ==
  ASSUME TypeOK, CallStack, Nesting, Loops, BlocksOnlyWithNothingToDispatch, [Next]_vars
  PROVE  BlocksOnlyWithNothingToDispatch'
<1> SUFFICES ASSUME NEW p \in Proc, frames'[p] # <<>>, Last(frames'[p]).kind = "wait",
                    ~event'[p], queueing'[p] = NotQueueing, NEW m \in mq'[p]
             PROVE  ~Eligible(m.ctx, Last(frames'[p]).ctx)
  BY DEF BlocksOnlyWithNothingToDispatch, TopIs, Top, Idle
<1>1. m \in mq[p]
  BY QueueGrows, Queues
<1>2. CASE frames'[p] # frames[p]
  <2>1. DispatchEnd(p) /\ Last(frames'[p]).ctx = Top(p).ctx
    BY <1>2, WaitOnTop
  <2>2. QED
    BY <1>1, <2>1, LoopEnds
<1>3. CASE frames'[p] = frames[p]
  <2>1. /\ event \in [Proc -> BOOLEAN] /\ frames \in [Proc -> Seq(Frame)]
        /\ queueing \in [Proc -> {NotQueueing} \cup [ctx : Ctx, post : BOOLEAN]]
    BY DEF TypeOK, QueueTypeOK, ProcTypeOK
  <2>2. ASSUME NEW q \in Proc, SignalDispatchEvent(q) \/ Crash(q)
        PROVE  event'[p] = event[p] /\ queueing'[p] = queueing[p]
    BY <1>3, <2>1, <2>2 DEF SignalDispatchEvent, Crash
  <2>3. ASSUME NEW q \in Proc, WaitDispatchEvent(q) \/ OnWaitableEventSignaled(q)
        PROVE  event'[p] = event[p]
    <3>1. \/ event' = event
          \/ /\ event' = [event EXCEPT ![q] = FALSE]
             /\ \E f : frames' = [frames EXCEPT ![q] = Append(@, f)]
      BY <2>3 DEF WaitDispatchEvent, OnWaitableEventSignaled, Push
    <3>2. \A f : Append(frames[p], f) # frames[p]
      <4>1. frames[p] \in Seq(Frame)
        BY <2>1
      <4>2. \A f : Len(Append(frames[p], f)) = Len(frames[p]) + 1
        BY <4>1
      <4>3. QED
        BY <4>1, <4>2
    <3>3. QED
      BY <1>3, <2>1, <3>1, <3>2
  <2>4. event[p] = event'[p]
    BY <2>2, <2>3, EventChanges
  <2>5. queueing[p] = NotQueueing
    <3>1. ASSUME NEW c \in Ctx, QueueMessage(c) PROVE queueing'[p] = queueing[p]
      BY <3>1, Queues
    <3>2. QED
      BY <2>2, <3>1, QueueingChanges
  <2>6. QED
    BY <1>1, <1>3, <2>4, <2>5 DEF BlocksOnlyWithNothingToDispatch, TopIs, Top, Idle
<1>4. QED
  BY <1>2, <1>3

(***************************************************************************)
(* A queued message has somebody on the way.                               *)
(***************************************************************************)
LEMMA TaskPendingChanges ==
  ASSUME [Next]_vars, taskPending' # taskPending
  PROVE  \/ \E p \in Proc : DispatchMessagesTask(p) \/ Crash(p)
         \/ \E c \in Ctx : QueueMessage(c)
<1> USE DEF queueVars
<1>1. ASSUME NEW p \in Proc, UserCode(p) PROVE Crash(p)
  BY <1>1 DEF UserCode, BeginSend, SendAfterShutdown, Shutdown, Destroy
<1>2. ASSUME NEW p \in Proc, HandlerReturns(p) \/ DeferredReplies(p) PROVE FALSE
  BY <1>2 DEF HandlerReturns, Reply, ReturnWithoutReply, DeferredReplies, SendDeferredReply
<1>3. ASSUME NEW p \in Proc, ListenerStep(p) \/ PumpMessages(p) PROVE DispatchMessagesTask(p)
  BY <1>3 DEF ListenerStep, DispatchMessage, DispatchEnd, WaitDispatchEvent, SendReturns,
              OnDispatchMessage, OnWaitableEventSignaled, OnSendDone, PumpMessages
<1>4. ASSUME NEW p \in Proc, IpcTaskStep(p) PROVE FALSE
  BY <1>4, IpcTaskKeeps DEF IpcTaskStep, SignalDispatchEvent
<1>5. ASSUME NEW c \in Ctx, ChannelStep(c) \/ DoneWaiting(c) \/ SendDoneWaiting(c)
      PROVE  QueueMessage(c)
  BY <1>5 DEF ChannelStep, ReceiveReply, PostMessage, OnChannelError, OnShutdownSignaled,
              DoneWaiting, SendDoneWaiting
<1>6. ASSUME NEW c \in Ctx, NEW i \in Ids, OnSendTimeout(c, i) PROVE FALSE
  BY <1>6 DEF OnSendTimeout
<1>7. Next
  BY DEF vars
<1>8. QED
  BY <1>1, <1>2, <1>3, <1>4, <1>5, <1>6, <1>7 DEF Next

LEMMA AppendHas ==
  ASSUME NEW S, NEW s \in Seq(S), NEW e \in S
  PROVE  Has(Append(s, e), e) /\ \A d : Has(s, d) => Has(Append(s, e), d)
  BY DEF Has

LEMMA TailHas ==
  ASSUME NEW S, NEW s \in Seq(S), NEW d, Has(s, d), s # <<>>, d # Head(s)
  PROVE  Has(Tail(s), d)
<1>1. PICK k \in DOMAIN s : s[k] = d
  BY DEF Has
<1>2. Len(s) \in Nat /\ DOMAIN s = 1..Len(s) /\ Head(s) = s[1] /\ Len(s) # 0
  OBVIOUS
<1>3. k # 1
  BY <1>1, <1>2
<1>4. /\ DOMAIN Tail(s) = 1..(Len(s) - 1)
      /\ \A j \in 1..(Len(s) - 1) : Tail(s)[j] = s[j + 1]
  BY <1>2
<1>5. k - 1 \in DOMAIN Tail(s) /\ Tail(s)[k - 1] = s[k]
  BY <1>2, <1>3, <1>4
<1>6. QED
  BY <1>1, <1>5 DEF Has

LEMMA SendWatched ==
  ASSUME TypeOK, NEW c \in Ctx, SendDoneWaiting(c)
  PROVE  \E k \in DOMAIN deser[c] : /\ deser[c][k].id = sendWatch[Owner[c]].id
                                    /\ deser[c][k].id \in Ids
<1>1. deser[c] \in Seq(PendingSend)
  BY DEF TypeOK, CtxTypeOK
<1>2. PICK s \in ToSet(deser[c]) : s.id = sendWatch[Owner[c]].id
  BY DEF SendDoneWaiting
<1>3. PICK k \in DOMAIN deser[c] : deser[c][k] = s
  BY <1>2 DEF ToSet
<1>4. deser[c][k] \in PendingSend
  BY <1>1
<1>5. QED
  BY <1>2, <1>3, <1>4 DEF PendingSend

\* A task leaves the queue of a message loop by running, or the process dies.
LEMMA TaskRuns ==
  ASSUME TypeOK, [Next]_vars, NEW p \in Proc, NEW t, Has(ltasks[p], t), ~Has(ltasks'[p], t)
  PROVE  \/ Crash(p)
         \/ /\ HeadTask(p, t.kind) /\ t = Head(ltasks[p])
            /\ \/ DispatchMessagesTask(p) \/ OnDispatchMessage(p)
               \/ OnWaitableEventSignaled(p) \/ OnSendDone(p)
<1>1. ltasks \in [Proc -> Seq(ListenerTask)] /\ ltasks[p] \in Seq(ListenerTask)
  BY DEF TypeOK, ProcTypeOK
<1>2. ASSUME NEW q \in Proc, NEW e \in ListenerTask, PostListener(q, e)
      PROVE  Has(ltasks'[p], t)
  <2>1. CASE q = p
    <3>1. ltasks'[p] = Append(ltasks[p], e)
      BY <1>1, <1>2, <2>1 DEF PostListener
    <3>2. QED
      BY <1>1, <3>1, AppendHas
  <2>2. CASE q # p
    BY <1>1, <1>2, <2>2 DEF PostListener
  <2>3. QED
    BY <2>1, <2>2
<1>3. ASSUME NEW q \in Proc, NEW k, HeadTask(q, k)
      PROVE  q = p /\ t = Head(ltasks[p]) /\ t.kind = k
  <2>1. ltasks' = [ltasks EXCEPT ![q] = Tail(@)] /\ ltasks[q] # <<>> /\ Head(ltasks[q]).kind = k
    BY <1>3 DEF HeadTask
  <2>2. q = p
    BY <1>1, <2>1
  <2>3. ltasks'[p] = Tail(ltasks[p])
    BY <1>1, <2>1, <2>2
  <2>4. t = Head(ltasks[p])
    BY <1>1, <2>1, <2>2, <2>3, TailHas
  <2>5. QED
    BY <2>1, <2>2, <2>4
<1>4. ASSUME NEW q \in Proc,
             \/ DispatchMessagesTask(q) \/ OnDispatchMessage(q)
             \/ OnWaitableEventSignaled(q) \/ OnSendDone(q)
      PROVE  /\ HeadTask(p, t.kind) /\ t = Head(ltasks[p])
             /\ \/ DispatchMessagesTask(p) \/ OnDispatchMessage(p)
                \/ OnWaitableEventSignaled(p) \/ OnSendDone(p)
  <2>1. PICK k \in {"dispatch", "message", "watch", "sendDone"} : HeadTask(q, k)
    BY <1>4 DEF DispatchMessagesTask, OnDispatchMessage, OnWaitableEventSignaled, OnSendDone
  <2>2. q = p /\ t = Head(ltasks[p]) /\ t.kind = k
    BY <1>3, <2>1
  <2>3. QED
    BY <1>4, <2>1, <2>2
<1>5. ASSUME NEW q \in Proc, Crash(q) PROVE q = p
  BY <1>1, <1>5 DEF Crash
<1>6. ASSUME NEW q \in Proc, SignalDispatchEvent(q) PROVE FALSE
  <2>1. CASE queueing[q].post
    <3>1. queueing[q] \in [ctx : Ctx, post : BOOLEAN]
      BY <1>6, <2>1 DEF SignalDispatchEvent, TypeOK, QueueTypeOK
    <3>2. Task("dispatch", queueing[q].ctx, 0) \in ListenerTask
      BY <3>1 DEF Task, ListenerTask
    <3>3. QED
      BY <1>2, <1>6, <2>1, <3>2 DEF SignalDispatchEvent
  <2>2. CASE ~queueing[q].post
    BY <1>6, <2>2 DEF SignalDispatchEvent
  <2>3. QED
    BY <2>1, <2>2
<1>7. ASSUME NEW c \in Ctx, PostMessage(c) \/ DoneWaiting(c) \/ SendDoneWaiting(c) PROVE FALSE
  <2>1. Owner[c] \in Proc
    BY ConstantsAssumption
  <2>2. CASE PostMessage(c)
    <3>1. Task("message", c, Head(wire[c]).id) \in ListenerTask
      BY <2>2, ReceiveType DEF PostMessage, Task, ListenerTask
    <3>2. QED
      BY <1>2, <2>1, <2>2, <3>1 DEF PostMessage
  <2>3. CASE DoneWaiting(c)
    <3>1. Task("watch", c, 0) \in ListenerTask
      BY DEF Task, ListenerTask
    <3>2. QED
      BY <1>2, <2>1, <2>3, <3>1 DEF DoneWaiting
  <2>4. CASE SendDoneWaiting(c)
    <3>1. \E e \in ListenerTask : PostListener(Owner[c], e)
      <4>1. sendWatch[Owner[c]].id \in Ids
        BY <2>1, <2>4, SendWatched
      <4>2. Task("sendDone", c, sendWatch[Owner[c]].id) \in ListenerTask
        BY <4>1 DEF Task, ListenerTask
      <4>3. QED
        BY <2>4, <4>2 DEF SendDoneWaiting
    <3>2. QED
      BY <1>2, <2>1, <3>1
  <2>5. QED
    BY <1>7, <2>2, <2>3, <2>4
<1>8. QED
  BY <1>4, <1>5, <1>6, <1>7, LtasksChanges

LEMMA NextTasked ==
  ASSUME TypeOK, Tasked, [Next]_vars
  PROVE  Tasked'
<1> SUFFICES ASSUME NEW p \in Proc, taskPending'[p]
             PROVE  queueing'[p].post \/ HasDispatchTask(ltasks'[p])
  BY DEF Tasked
<1>1. /\ taskPending \in [Proc -> BOOLEAN] /\ ltasks[p] \in Seq(ListenerTask)
      /\ queueing \in [Proc -> {NotQueueing} \cup [ctx : Ctx, post : BOOLEAN]]
      /\ ltasks \in [Proc -> Seq(ListenerTask)] /\ ~NotQueueing.post
  BY DEF TypeOK, QueueTypeOK, ProcTypeOK, NotQueueing
<1>2. CASE \E c \in Ctx : QueueMessage(c) /\ Owner[c] = p
  <2>1. PICK c \in Ctx : QueueMessage(c) /\ Owner[c] = p
    BY <1>2
  <2>2. queueing[p] = NotQueueing /\ ltasks' = ltasks /\ queueing'[p].post = ~taskPending[p]
    <3> DEFINE r == [ctx |-> c, post |-> ~taskPending[p]]
    <3>1. queueing[p] = NotQueueing /\ ltasks' = ltasks /\ queueing'[p] = r
      BY <2>1, Queues
    <3>2. r.post = ~taskPending[p]
      OBVIOUS
    <3> HIDE DEF r
    <3>3. QED
      BY <3>1, <3>2
  <2>3. taskPending[p] => HasDispatchTask(ltasks[p])
    BY <1>1, <2>2 DEF Tasked
  <2>4. QED
    BY <1>1, <2>2, <2>3
<1>3. CASE ~\E c \in Ctx : QueueMessage(c) /\ Owner[c] = p
  <2>1. ~Crash(p) /\ ~DispatchMessagesTask(p)
    BY <1>1 DEF Crash, DispatchMessagesTask
  <2>2. taskPending[p]
    <3>1. ASSUME NEW q \in Proc, Crash(q) \/ DispatchMessagesTask(q)
          PROVE  taskPending'[p] = taskPending[p]
      BY <1>1, <2>1, <3>1 DEF Crash, DispatchMessagesTask
    <3>2. ASSUME NEW c \in Ctx, QueueMessage(c) PROVE taskPending'[p] = taskPending[p]
      <4>1. Owner[c] # p /\ taskPending' = [taskPending EXCEPT ![Owner[c]] = TRUE]
        BY <1>3, <3>2, Queues
      <4>2. QED
        BY <1>1, <4>1
    <3>3. QED
      BY <3>1, <3>2, TaskPendingChanges
  <2>3. CASE HasDispatchTask(ltasks[p])
    <3>1. PICK k \in DOMAIN ltasks[p] : ltasks[p][k].kind = "dispatch"
      BY <2>3 DEF HasDispatchTask
    <3>2. CASE Has(ltasks'[p], ltasks[p][k])
      BY <3>1, <3>2 DEF Has, HasDispatchTask
    <3>3. CASE ~Has(ltasks'[p], ltasks[p][k])
      <4>1. Has(ltasks[p], ltasks[p][k])
        BY DEF Has
      <4>2. Head(ltasks[p]).kind = "dispatch"
        BY <2>1, <3>1, <3>3, <4>1, TaskRuns
      <4>3. OnDispatchMessage(p) \/ OnWaitableEventSignaled(p) \/ OnSendDone(p)
        BY <2>1, <3>1, <3>3, <4>1, TaskRuns
      <4>4. QED
        BY <4>2, <4>3 DEF OnDispatchMessage, OnWaitableEventSignaled, OnSendDone, HeadTask
    <3>4. QED
      BY <3>2, <3>3
  <2>4. CASE queueing[p].post
    <3>1. CASE queueing'[p] = queueing[p]
      BY <2>4, <3>1
    <3>2. CASE SignalDispatchEvent(p)
      <4> DEFINE t == Task("dispatch", queueing[p].ctx, 0)
      <4>1. ltasks' = [ltasks EXCEPT ![p] = Append(@, t)]
        BY <2>4, <3>2 DEF SignalDispatchEvent, PostListener
      <4>2. ltasks'[p] = Append(ltasks[p], t) /\ t.kind = "dispatch"
        BY <1>1, <4>1 DEF Task
      <4> HIDE DEF t
      <4>3. Len(ltasks[p]) + 1 \in DOMAIN ltasks'[p] /\ ltasks'[p][Len(ltasks[p]) + 1] = t
        BY <1>1, <4>2
      <4>4. QED
        BY <4>2, <4>3 DEF HasDispatchTask
    <3>3. CASE queueing'[p] # queueing[p] /\ ~SignalDispatchEvent(p)
      <4>1. ASSUME NEW q \in Proc, SignalDispatchEvent(q) \/ Crash(q) PROVE FALSE
        BY <1>1, <2>1, <3>3, <4>1 DEF SignalDispatchEvent, Crash
      <4>2. ASSUME NEW c \in Ctx, QueueMessage(c) PROVE FALSE
        BY <1>3, <3>3, <4>2, Queues
      <4>3. QED
        BY <3>3, <4>1, <4>2, QueueingChanges
    <3>4. QED
      BY <3>1, <3>2, <3>3
  <2>5. QED
    BY <2>2, <2>3, <2>4 DEF Tasked
<1>4. QED
  BY <1>2, <1>3

HasLoop(s) == \E k \in DOMAIN s : s[k].kind = "loop"

LEMMA LoopsOf ==
  ASSUME NEW s \in Seq(Frame)
  PROVE  /\ \A f \in Frame : HasLoop(s) \/ f.kind = "loop" => HasLoop(Append(s, f))
         /\ HasLoop(s) /\ s # <<>> /\ Last(s).kind # "loop" => HasLoop(Front(s))
<1>1. ASSUME NEW f \in Frame, HasLoop(s) \/ f.kind = "loop" PROVE HasLoop(Append(s, f))
  <2>1. /\ DOMAIN Append(s, f) = 1..(Len(s) + 1) /\ Append(s, f)[Len(s) + 1] = f
        /\ DOMAIN s = 1..Len(s) /\ Len(s) \in Nat
        /\ \A k \in 1..Len(s) : Append(s, f)[k] = s[k]
    OBVIOUS
  <2>2. QED
    BY <1>1, <2>1 DEF HasLoop
<1>2. ASSUME HasLoop(s), s # <<>>, Last(s).kind # "loop" PROVE HasLoop(Front(s))
  <2>1. /\ Front(s) \in Seq(Frame) /\ Len(Front(s)) = Len(s) - 1
        /\ \A k \in 1..(Len(s) - 1) : Front(s)[k] = s[k]
    BY <1>2, FrontType
  <2>2. PICK k \in DOMAIN s : s[k].kind = "loop"
    BY <1>2 DEF HasLoop
  <2>3. k # Len(s) /\ DOMAIN s = 1..Len(s) /\ Len(s) \in Nat
    BY <1>2, <2>2 DEF Last
  <2>4. k \in 1..(Len(s) - 1) /\ DOMAIN Front(s) = 1..(Len(s) - 1)
    BY <2>1, <2>3
  <2>5. QED
    BY <2>1, <2>2, <2>4 DEF HasLoop
<1>3. QED
  BY <1>1, <1>2

\* A dispatch loop leaves the stack when it ends, or with its process.
LEMMA LoopsStay ==
  ASSUME TypeOK, CallStack, [Next]_vars, NEW p \in Proc, HasLoop(frames[p]), ~HasLoop(frames'[p])
  PROVE  (DispatchEnd(p) /\ ~Idle(p)) \/ Crash(p)
<1> DEFINE s == frames[p]
           t == frames'[p]
<1>1. s \in Seq(Frame) /\ s # t
  BY DEF TypeOK, ProcTypeOK
<1>2. StackChange(p)
  BY <1>1, StackChanges
<1>3. ASSUME NEW f \in Frame, t = Append(s, f) PROVE FALSE
  BY <1>1, <1>3, LoopsOf
<1>4. ASSUME NEW w \in Frame, NEW l \in Frame, t = Append(Append(s, w), l) PROVE FALSE
  <2>1. Append(s, w) \in Seq(Frame) /\ HasLoop(Append(s, w))
    BY <1>1, <1>4, LoopsOf
  <2>2. QED
    BY <1>4, <2>1, LoopsOf
<1>5. ASSUME Pops(p), Top(p).kind \in {"wait", "handler"} PROVE FALSE
  BY <1>1, <1>5, LoopsOf DEF Pops, Top, Idle
<1>6. ASSUME LoopTurns(p) PROVE FALSE
  <2>1. Front(s) \in Seq(Frame)
    BY <1>1, <1>6, FrontBelow DEF LoopTurns, Idle
  <2>2. PICK l \in Frame : /\ l.kind = "loop"
                           /\ \/ t = Append(Front(s), l)
                              \/ \E h \in Frame : /\ h.kind = "handler"
                                                  /\ t = Append(Append(Front(s), l), h)
    BY <1>6 DEF LoopTurns
  <2>3. Append(Front(s), l) \in Seq(Frame) /\ HasLoop(Append(Front(s), l))
    BY <2>1, <2>2, LoopsOf
  <2>4. QED
    BY <2>2, <2>3, LoopsOf
<1>7. ASSUME PumpMessages(p) PROVE FALSE
  <2> DEFINE f == PumpFrame(Top(p).ctx, Top(p).id, sendWatch[p].id)
  <2>1. t = Append(s, f)
    BY <1>7, PumpStacks DEF TypeOK, ProcTypeOK
  <2>2. f \in Frame
    <3>1. /\ Top(p).ctx \in Ctx /\ Top(p).id \in Ids /\ sendWatch[p].id \in 0..MaxSends
      BY <1>7, TopFrame DEF PumpMessages, TopIs, Top, TypeOK, QueueTypeOK
    <3>2. QED
      BY <3>1, FrameForms
  <2> HIDE DEF f
  <2>3. QED
    BY <1>3, <2>1, <2>2
<1>8. ASSUME QuitsLoop(p) PROVE FALSE
  <2> DEFINE n == Len(s) - 1
  <2>1. EndsAt(p, SubSeq(s, 1, n - 1), n)
    BY <1>8, QuitsLoopEnds DEF CallStack
  <2>2. t = SubSeq(s, 1, n - 1)
    BY <1>8 DEF QuitsLoop, OnSendDone, EndSend, TypeOK, ProcTypeOK
  <2>3. /\ s[n].kind = "wait" /\ n \in DOMAIN s /\ t \in Seq(Frame) /\ Len(t) = n - 1
        /\ \A k \in 1..(n - 1) : t[k] = s[k]
    BY <2>1, <2>2 DEF EndsAt
  <2>4. ~Idle(p) /\ Top(p).kind = "pump"
    BY <1>8 DEF QuitsLoop, TopIs, Top
  <2>5. s[Len(s)].kind = "pump" /\ DOMAIN s = 1..Len(s) /\ Len(s) \in Nat
    BY <1>1, <2>4, TopFrame
  <2>6. PICK k \in DOMAIN s : s[k].kind = "loop"
    BY DEF HasLoop
  <2>7. k \in 1..(n - 1) /\ DOMAIN t = 1..(n - 1)
    BY <2>3, <2>5, <2>6
  <2>8. QED
    BY <2>3, <2>6, <2>7 DEF HasLoop
<1>9. QED
  BY <1>2, <1>3, <1>4, <1>5, <1>6, <1>7, <1>8 DEF StackChange, Pops

\* Without groups, a dispatch loop that ends leaves the queue empty: a message that stays
\* has a loop above, or a task on its way.
LEMMA NextDispatcher ==
  ASSUME TypeOK, CallStack, Loops, Tasked', QueuedMessageHasDispatcher, [Next]_vars,
         \A c, d \in Ctx : Eligible(c, d)
  PROVE  QueuedMessageHasDispatcher'
<1> DEFINE Waited(p) == HasDispatchTask(ltasks[p]) \/ queueing[p].post \/ HasLoop(frames[p])
<1>1. SUFFICES ASSUME NEW p \in Proc, mq'[p] # {} PROVE Waited(p)'
  BY DEF QueuedMessageHasDispatcher, HasDispatchTask, HasLoop
<1>2. /\ taskPending \in [Proc -> BOOLEAN] /\ mq \in [Proc -> SUBSET QueuedMessage]
      /\ queueing \in [Proc -> {NotQueueing} \cup [ctx : Ctx, post : BOOLEAN]]
      /\ ltasks \in [Proc -> Seq(ListenerTask)] /\ frames \in [Proc -> Seq(Frame)]
      /\ ltasks[p] \in Seq(ListenerTask)
  BY DEF TypeOK, QueueTypeOK, ProcTypeOK
<1>3. CASE \E c \in Ctx : QueueMessage(c) /\ Owner[c] = p
  <2>1. taskPending'[p]
    BY <1>2, <1>3, Queues
  <2>2. QED
    BY <2>1 DEF Tasked
<1>4. CASE ~\E c \in Ctx : QueueMessage(c) /\ Owner[c] = p
  <2>1. mq'[p] \subseteq mq[p] /\ mq[p] # {}
    BY <1>1, <1>4, QueueGrows
  <2>2. ~Crash(p)
    BY <1>1, <1>2 DEF Crash
  <2>3. CASE HasDispatchTask(ltasks[p])
    <3>1. PICK k \in DOMAIN ltasks[p] : ltasks[p][k].kind = "dispatch"
      BY <2>3 DEF HasDispatchTask
    <3>2. CASE Has(ltasks'[p], ltasks[p][k])
      BY <3>1, <3>2 DEF Has, HasDispatchTask
    <3>3. CASE ~Has(ltasks'[p], ltasks[p][k])
      <4>1. Has(ltasks[p], ltasks[p][k])
        BY DEF Has
      <4>2. Head(ltasks[p]).kind = "dispatch"
        BY <2>2, <3>1, <3>3, <4>1, TaskRuns
      <4>3. ~OnDispatchMessage(p) /\ ~OnWaitableEventSignaled(p) /\ ~OnSendDone(p)
        BY <4>2 DEF OnDispatchMessage, OnWaitableEventSignaled, OnSendDone, HeadTask
      <4>4. DispatchMessagesTask(p)
        BY <2>2, <3>3, <4>1, <4>3, TaskRuns
      <4>5. HasLoop(frames'[p])
        <5>1. Head(ltasks[p]).ctx \in Ctx
          BY <4>4, HeadTaskType DEF DispatchMessagesTask
        <5>2. frames'[p] = Append(frames[p], LoopFrame(Head(ltasks[p]).ctx))
          BY <1>2, <4>4 DEF DispatchMessagesTask, Push
        <5>3. QED
          BY <1>2, <5>1, <5>2, FrameForms, LoopsOf
      <4>6. QED
        BY <4>5
    <3>4. QED
      BY <3>2, <3>3
  <2>4. CASE queueing[p].post
    <3>1. CASE queueing'[p] = queueing[p]
      BY <2>4, <3>1
    <3>2. CASE SignalDispatchEvent(p)
      <4> DEFINE t == Task("dispatch", queueing[p].ctx, 0)
      <4>1. ltasks' = [ltasks EXCEPT ![p] = Append(@, t)]
        BY <2>4, <3>2 DEF SignalDispatchEvent, PostListener
      <4>2. ltasks'[p] = Append(ltasks[p], t) /\ t.kind = "dispatch"
        BY <1>2, <4>1 DEF Task
      <4> HIDE DEF t
      <4>3. Len(ltasks[p]) + 1 \in DOMAIN ltasks'[p] /\ ltasks'[p][Len(ltasks[p]) + 1] = t
        BY <1>2, <4>2
      <4>4. QED
        BY <4>2, <4>3 DEF HasDispatchTask
    <3>3. CASE queueing'[p] # queueing[p] /\ ~SignalDispatchEvent(p)
      <4>1. ASSUME NEW q \in Proc, SignalDispatchEvent(q) \/ Crash(q) PROVE FALSE
        BY <1>2, <2>2, <3>3, <4>1 DEF SignalDispatchEvent, Crash
      <4>2. ASSUME NEW c \in Ctx, QueueMessage(c) PROVE FALSE
        BY <1>4, <3>3, <4>2, Queues
      <4>3. QED
        BY <3>3, <4>1, <4>2, QueueingChanges
    <3>4. QED
      BY <3>1, <3>2, <3>3
  <2>5. CASE HasLoop(frames[p]) /\ ~HasLoop(frames'[p])
    <3>1. DispatchEnd(p) /\ ~Idle(p)
      BY <2>2, <2>5, LoopsStay
    <3>2. PICK m \in mq[p] : TRUE
      BY <2>1
    <3>3. m.ctx \in Ctx /\ Top(p).ctx \in Ctx
      BY <1>2, <3>1, TopFrame DEF QueuedMessage
    <3>4. ~Eligible(m.ctx, Top(p).ctx)
      BY <3>1, LoopEnds
    <3>5. QED
      BY <3>3, <3>4
  <2>6. QED
    BY <2>1, <2>3, <2>4, <2>5 DEF QueuedMessageHasDispatcher, HasDispatchTask, HasLoop
<1>5. QED
  BY <1>3, <1>4

(***************************************************************************)
(* Nested message loops.                                                   *)
(***************************************************************************)
\* The pending Send of the innermost wait frame is the last of its context.
LEMMA TopSend ==
  ASSUME TypeOK, CallStack, NEW p \in Proc, NEW n \in DOMAIN frames[p],
         frames[p][n].kind = "wait",
         \A k \in DOMAIN frames[p] : k > n => frames[p][k].kind # "wait"
  PROVE  LET c == frames[p][n].ctx
         IN  deser[c] # <<>> /\ Last(deser[c]).id = frames[p][n].id
<1> DEFINE s == frames[p]
           c == s[n].ctx
           d == deser[c]
<1>0. StackInDeser /\ DeserOnStack
  BY DEF CallStack
<1>1. s \in Seq(Frame) /\ s[n] \in Frame /\ DOMAIN s = 1..Len(s) /\ Len(s) \in Nat
  BY DEF TypeOK, ProcTypeOK
<1>2. c \in Ctx /\ Owner[c] = p /\ d \in Seq(PendingSend)
  BY <1>1 DEF CallStack, WaitsOwned, Frame, TypeOK, CtxTypeOK
<1>3. PICK k \in DOMAIN d : d[k].id = s[n].id
  <2>1. DOMAIN s = DOMAIN frames[Owner[c]] /\ s[n] = frames[Owner[c]][n] /\ n \in DOMAIN s
    BY <1>2
  <2>2. QED
    BY <1>2, <1>0, <2>1 DEF StackInDeser
<1>4. d # <<>> /\ Len(d) \in DOMAIN d /\ Last(d) = d[Len(d)] /\ k <= Len(d) /\ k \in Nat
  BY <1>2, <1>3, LastType
<1>5. PICK j \in DOMAIN s : s[j].kind = "wait" /\ s[j].ctx = c /\ s[j].id = d[Len(d)].id
  BY <1>2, <1>4, <1>0 DEF DeserOnStack
<1>6. \A i \in DOMAIN s : s[i].kind = "wait" => s[i].id \in Nat
  BY <1>1 DEF Frame, Ids
<1>7. s[j].id <= s[n].id
  <2>1. j = n \/ j < n
    BY <1>1, <1>5
  <2>2. j < n => s[j].id < s[n].id
    BY <1>5 DEF CallStack, WaitsNested
  <2>3. QED
    BY <1>5, <1>6, <2>1, <2>2
<1>8. d[k].id <= d[Len(d)].id
  <2>1. k = Len(d) \/ k < Len(d)
    BY <1>4
  <2>2. k < Len(d) => d[k].id < d[Len(d)].id
    BY <1>2, <1>4 DEF CallStack, DeserNested
  <2>3. QED
    BY <1>3, <1>5, <1>6, <2>1, <2>2
<1>9. QED
  BY <1>3, <1>4, <1>5, <1>6, <1>7, <1>8

\* From s to t, no nested message loop comes or goes.
SamePumps(s, t) ==
  /\ \A k \in DOMAIN s : s[k].kind = "pump" => k \in DOMAIN t /\ t[k] = s[k]
  /\ \A k \in DOMAIN t : t[k].kind = "pump" => k \in DOMAIN s /\ s[k] = t[k]

LEMMA SamePumpsKeep ==
  ASSUME NEW s, NEW t, SamePumps(s, t)
  PROVE  /\ Restores(s) => Restores(t)
         /\ NoPump(s) => NoPump(t)
         /\ \A j \in DOMAIN s : InnermostPump(s, j) => j \in DOMAIN t /\ InnermostPump(t, j) /\ t[j] = s[j]
<1>1. ASSUME Restores(s) PROVE Restores(t)
  <2> SUFFICES ASSUME NEW k \in DOMAIN t, t[k].kind = "pump"
               PROVE  \/ t[k].old = 0 /\ NoneBelow(t, k)
                      \/ \E j \in DOMAIN t : InnermostBelow(t, k, j) /\ t[k].old = t[j].id
    BY DEF Restores
  <2>1. k \in DOMAIN s /\ s[k] = t[k]
    BY DEF SamePumps
  <2>2. CASE s[k].old = 0 /\ NoneBelow(s, k)
    BY <2>1, <2>2 DEF SamePumps, NoneBelow
  <2>3. ASSUME NEW j \in DOMAIN s, InnermostBelow(s, k, j), s[k].old = s[j].id
        PROVE  \E i \in DOMAIN t : InnermostBelow(t, k, i) /\ t[k].old = t[i].id
    <3>1. j \in DOMAIN t /\ t[j] = s[j]
      BY <2>3 DEF SamePumps, InnermostBelow
    <3>2. InnermostBelow(t, k, j)
      BY <2>3, <3>1 DEF SamePumps, InnermostBelow
    <3>3. QED
      BY <2>1, <2>3, <3>1, <3>2
  <2>4. QED
    BY <1>1, <2>1, <2>2, <2>3 DEF Restores
<1>2. NoPump(s) => NoPump(t)
  BY DEF SamePumps, NoPump
<1>3. \A j \in DOMAIN s : InnermostPump(s, j) => j \in DOMAIN t /\ InnermostPump(t, j) /\ t[j] = s[j]
  BY DEF SamePumps, InnermostPump
<1>4. QED
  BY <1>1, <1>2, <1>3

LEMMA SamePumpsOf ==
  /\ \A s : SamePumps(s, s)
  /\ \A s, t, u : SamePumps(s, t) /\ SamePumps(t, u) => SamePumps(s, u)
  /\ \A s \in Seq(Frame), f \in Frame : f.kind # "pump" => SamePumps(s, Append(s, f))
  /\ \A s \in Seq(Frame) : s # <<>> /\ Last(s).kind # "pump" => SamePumps(s, Front(s))
<1>1. \A s : SamePumps(s, s)
  BY DEF SamePumps
<1>2. ASSUME NEW s, NEW t, NEW u, SamePumps(s, t), SamePumps(t, u) PROVE SamePumps(s, u)
  BY <1>2 DEF SamePumps
<1>3. ASSUME NEW s \in Seq(Frame), NEW f \in Frame, f.kind # "pump" PROVE SamePumps(s, Append(s, f))
  <2>1. /\ DOMAIN Append(s, f) = 1..(Len(s) + 1) /\ Append(s, f)[Len(s) + 1] = f
        /\ DOMAIN s = 1..Len(s) /\ Len(s) \in Nat
        /\ \A k \in 1..Len(s) : Append(s, f)[k] = s[k]
    OBVIOUS
  <2>2. QED
    BY <1>3, <2>1 DEF SamePumps
<1>4. ASSUME NEW s \in Seq(Frame), s # <<>>, Last(s).kind # "pump" PROVE SamePumps(s, Front(s))
  <2>1. /\ Front(s) \in Seq(Frame) /\ Len(Front(s)) = Len(s) - 1
        /\ \A k \in 1..(Len(s) - 1) : Front(s)[k] = s[k]
    BY <1>4, FrontType
  <2>2. /\ DOMAIN Front(s) = 1..(Len(s) - 1) /\ DOMAIN s = 1..Len(s) /\ Len(s) \in Nat
        /\ s[Len(s)].kind # "pump"
    BY <1>4, <2>1 DEF Last
  <2>3. QED
    BY <2>1, <2>2 DEF SamePumps
<1>5. QED
  BY <1>1, <1>2, <1>3, <1>4

LEMMA PumpsStay ==
  ASSUME TypeOK, [Next]_vars, NEW p \in Proc, ~PumpMessages(p), ~QuitsLoop(p), ~Crash(p)
  PROVE  SamePumps(frames[p], frames'[p])
<1> DEFINE s == frames[p]
           t == frames'[p]
<1>1. s \in Seq(Frame)
  BY DEF TypeOK, ProcTypeOK
<1>2. CASE t = s
  BY <1>2, SamePumpsOf
<1>3. CASE t # s
  <2>1. StackChange(p)
    BY <1>3, StackChanges
  <2>2. ASSUME NEW f \in Frame, f.kind \in {"loop", "handler"}, t = Append(s, f)
        PROVE  SamePumps(s, t)
    BY <1>1, <2>2, SamePumpsOf
  <2>3. ASSUME NEW w \in Frame, NEW l \in Frame, w.kind = "wait", l.kind = "loop",
               t = Append(Append(s, w), l)
        PROVE  SamePumps(s, t)
    <3>1. Append(s, w) \in Seq(Frame) /\ SamePumps(s, Append(s, w))
      BY <1>1, <2>3, SamePumpsOf
    <3>2. SamePumps(Append(s, w), t)
      BY <2>3, <3>1, SamePumpsOf
    <3>3. QED
      BY <3>1, <3>2, SamePumpsOf
  <2>4. ASSUME Pops(p), Top(p).kind # "pump" PROVE SamePumps(s, t)
    BY <1>1, <2>4, SamePumpsOf DEF Pops, Top, Idle
  <2>5. ASSUME LoopTurns(p) PROVE SamePumps(s, t)
    <3>1. Front(s) \in Seq(Frame)
      BY <1>1, <2>5, FrontBelow DEF LoopTurns, Idle
    <3>2. PICK l \in Frame : /\ l.kind = "loop"
                             /\ \/ t = Append(Front(s), l)
                                \/ \E h \in Frame : /\ h.kind = "handler"
                                                    /\ t = Append(Append(Front(s), l), h)
      BY <2>5 DEF LoopTurns
    <3>3. Append(Front(s), l) \in Seq(Frame)
      BY <3>1
    <3>4. SamePumps(s, Front(s))
      BY <1>1, <2>5, SamePumpsOf DEF LoopTurns, Top, Idle
    <3>5. SamePumps(Front(s), Append(Front(s), l))
      BY <3>1, <3>2, SamePumpsOf
    <3>6. SamePumps(s, Append(Front(s), l))
      BY <3>4, <3>5, SamePumpsOf
    <3>7. ASSUME NEW h \in Frame, h.kind = "handler"
          PROVE  SamePumps(s, Append(Append(Front(s), l), h))
      <4>1. SamePumps(Append(Front(s), l), Append(Append(Front(s), l), h))
        BY <3>3, <3>7, SamePumpsOf
      <4>2. QED
        BY <3>6, <4>1, SamePumpsOf
    <3>8. QED
      BY <3>2, <3>6, <3>7
  <2>6. QED
    BY <2>1, <2>2, <2>3, <2>4, <2>5 DEF StackChange
<1>4. QED
  BY <1>2, <1>3

LEMMA SendWatchChanges ==
  ASSUME [Next]_vars, sendWatch' # sendWatch
  PROVE  \/ \E p \in Proc : PumpMessages(p) \/ QuitsLoop(p) \/ Crash(p)
         \/ \E c \in Ctx : SendDoneWaiting(c)
<1> USE DEF queueVars
<1>1. ASSUME NEW p \in Proc, UserCode(p) PROVE Crash(p)
  BY <1>1 DEF UserCode, BeginSend, SendAfterShutdown, Shutdown, Destroy
<1>2. ASSUME NEW p \in Proc, HandlerReturns(p) \/ DeferredReplies(p) PROVE FALSE
  BY <1>2 DEF HandlerReturns, Reply, ReturnWithoutReply, DeferredReplies, SendDeferredReply
<1>3. ASSUME NEW p \in Proc, ListenerStep(p) PROVE QuitsLoop(p)
  BY <1>3 DEF ListenerStep, DispatchMessage, DispatchEnd, WaitDispatchEvent, SendReturns,
              DispatchMessagesTask, OnDispatchMessage, OnWaitableEventSignaled, OnSendDone,
              QuitsLoop
<1>4. ASSUME NEW p \in Proc, IpcTaskStep(p) PROVE FALSE
  BY <1>4, IpcTaskKeeps DEF IpcTaskStep, SignalDispatchEvent
<1>5. ASSUME NEW c \in Ctx, ChannelStep(c) \/ DoneWaiting(c) PROVE FALSE
  BY <1>5 DEF ChannelStep, ReceiveReply, QueueMessage, PostMessage, OnChannelError,
              OnShutdownSignaled, DoneWaiting
<1>6. ASSUME NEW c \in Ctx, NEW i \in Ids, OnSendTimeout(c, i) PROVE FALSE
  BY <1>6 DEF OnSendTimeout
<1>7. Next
  BY DEF vars
<1>8. QED
  BY <1>1, <1>2, <1>3, <1>4, <1>5, <1>6, <1>7 DEF Next

\* A nested message loop starts.
LEMMA PumpWatchers ==
  ASSUME TypeOK, CallStack, Watchers, NEW p \in Proc, PumpMessages(p)
  PROVE  /\ Restores(frames'[p])
         /\ WatchesInnermost(frames'[p], sendWatch'[p], ltasks'[p])
<1> DEFINE s == frames[p]
           n == Len(s)
           f == PumpFrame(Top(p).ctx, Top(p).id, sendWatch[p].id)
           t == Append(s, f)
<1>1. /\ s \in Seq(Frame) /\ n \in DOMAIN s /\ Top(p) = s[n] /\ Top(p).kind = "wait"
      /\ Top(p).ctx \in Ctx /\ Top(p).id \in Ids /\ sendWatch[p].id \in 0..MaxSends
  BY TopFrame DEF PumpMessages, TopIs, Top, TypeOK, QueueTypeOK
<1>2. f \in Frame /\ f.kind = "pump" /\ f.id = s[n].id /\ f.old = sendWatch[p].id
  BY <1>1, FrameForms
<1>3. frames'[p] = t /\ sendWatch'[p] = Watch(Last(deser[Top(p).ctx]).id)
  BY DEF PumpMessages, Push, TypeOK, ProcTypeOK, QueueTypeOK
<1>4. \A k \in DOMAIN s : ~(k > n)
  BY <1>1
<1>5. Last(deser[Top(p).ctx]).id = s[n].id
  BY <1>1, <1>4, TopSend
<1> HIDE DEF f
<1>6. /\ DOMAIN t = 1..(n + 1) /\ t[n + 1] = f /\ DOMAIN s = 1..n /\ n \in Nat
      /\ \A k \in 1..n : t[k] = s[k]
  BY <1>1, <1>2
<1>7. Restores(s) /\ WatchesInnermost(s, sendWatch[p], ltasks[p])
  BY DEF Watchers
<1> HIDE DEF s, n, t
<1>8. Restores(t)
  <2> SUFFICES ASSUME NEW k \in DOMAIN t, t[k].kind = "pump"
               PROVE  \/ t[k].old = 0 /\ NoneBelow(t, k)
                      \/ \E j \in DOMAIN t : InnermostBelow(t, k, j) /\ t[k].old = t[j].id
    BY DEF Restores
  <2>1. CASE k # n + 1
    <3>1. k \in DOMAIN s /\ t[k] = s[k]
      BY <1>6, <2>1
    <3>2. CASE s[k].old = 0 /\ NoneBelow(s, k)
      <4>1. NoneBelow(t, k)
        BY <1>6, <3>1, <3>2 DEF NoneBelow
      <4>2. QED
        BY <3>1, <3>2, <4>1
    <3>3. ASSUME NEW j \in DOMAIN s, InnermostBelow(s, k, j), s[k].old = s[j].id
          PROVE  \E i \in DOMAIN t : InnermostBelow(t, k, i) /\ t[k].old = t[i].id
      <4>1. j \in DOMAIN t /\ t[j] = s[j]
        BY <1>6
      <4>2. InnermostBelow(t, k, j)
        BY <1>6, <3>1, <3>3, <4>1 DEF InnermostBelow
      <4>3. QED
        BY <3>1, <3>3, <4>1, <4>2
    <3>4. QED
      BY <1>7, <3>1, <3>2, <3>3 DEF Restores
  <2>2. CASE k = n + 1
    <3>1. CASE NoPump(s) /\ sendWatch[p] = Watch(0)
      <4>1. NoneBelow(t, k)
        BY <1>6, <2>2, <3>1 DEF NoneBelow, NoPump
      <4>2. t[k].old = 0
        BY <1>2, <1>6, <2>2, <3>1 DEF Watch
      <4>3. QED
        BY <4>1, <4>2
    <3>2. ASSUME NEW j \in DOMAIN s, InnermostPump(s, j), sendWatch[p].id = s[j].id
          PROVE  \E i \in DOMAIN t : InnermostBelow(t, k, i) /\ t[k].old = t[i].id
      <4>1. j \in DOMAIN t /\ t[j] = s[j] /\ j < k
        BY <1>6, <2>2
      <4>2. InnermostBelow(t, k, j)
        BY <1>6, <2>2, <3>2, <4>1 DEF InnermostBelow, InnermostPump
      <4>3. QED
        BY <1>2, <1>6, <2>2, <3>2, <4>1, <4>2
    <3>3. QED
      BY <1>7, <3>1, <3>2 DEF WatchesInnermost
  <2>3. QED
    BY <2>1, <2>2
<1>9. WatchesInnermost(t, Watch(s[n].id), ltasks'[p])
  <2>1. n + 1 \in DOMAIN t /\ InnermostPump(t, n + 1)
    BY <1>2, <1>6 DEF InnermostPump
  <2>2. Watch(s[n].id).id = s[n].id /\ ~Watch(s[n].id).posted
    BY DEF Watch
  <2>3. QED
    BY <1>2, <1>6, <2>1, <2>2 DEF WatchesInnermost
<1>10. QED
  BY <1>3, <1>5, <1>8, <1>9

\* The innermost nested message loop ends, and the one around it is watched again.
LEMMA QuitWatchers ==
  ASSUME TypeOK, CallStack, Watchers, NEW p \in Proc, QuitsLoop(p)
  PROVE  /\ Restores(frames'[p])
         /\ WatchesInnermost(frames'[p], sendWatch'[p], ltasks'[p])
<1> DEFINE s == frames[p]
           n == Len(s) - 1
           t == SubSeq(s, 1, n - 1)
           o == Top(p).old
<1>1. EndsAt(p, t, n)
  BY QuitsLoopEnds DEF CallStack
<1>2. frames'[p] = t /\ sendWatch'[p] = Watch(o)
  BY DEF QuitsLoop, OnSendDone, EndSend, TypeOK, ProcTypeOK, QueueTypeOK
<1>3. /\ s \in Seq(Frame) /\ DOMAIN s = 1..(n + 1) /\ n \in Nat /\ n + 1 \in DOMAIN s
      /\ s[n + 1] = Top(p) /\ s[n + 1].kind = "pump"
  BY TopFrame DEF QuitsLoop, TopIs, Top
<1>4. /\ n \in DOMAIN s /\ s[n].kind = "wait" /\ DOMAIN t = 1..(n - 1)
      /\ \A k \in 1..(n - 1) : t[k] = s[k]
  BY <1>1, <1>3 DEF EndsAt
<1>5. Restores(s)
  BY DEF Watchers
<1> HIDE DEF s, n, t
<1>6. Restores(t)
  <2> SUFFICES ASSUME NEW k \in DOMAIN t, t[k].kind = "pump"
               PROVE  \/ t[k].old = 0 /\ NoneBelow(t, k)
                      \/ \E j \in DOMAIN t : InnermostBelow(t, k, j) /\ t[k].old = t[j].id
    BY DEF Restores
  <2>1. k \in DOMAIN s /\ t[k] = s[k]
    BY <1>3, <1>4
  <2>2. CASE s[k].old = 0 /\ NoneBelow(s, k)
    <3>1. NoneBelow(t, k)
      BY <1>3, <1>4, <2>2 DEF NoneBelow
    <3>2. QED
      BY <2>1, <2>2, <3>1
  <2>3. ASSUME NEW j \in DOMAIN s, InnermostBelow(s, k, j), s[k].old = s[j].id
        PROVE  \E i \in DOMAIN t : InnermostBelow(t, k, i) /\ t[k].old = t[i].id
    <3>1. j \in DOMAIN t /\ t[j] = s[j]
      BY <1>3, <1>4, <2>3 DEF InnermostBelow
    <3>2. InnermostBelow(t, k, j)
      BY <1>3, <1>4, <2>3, <3>1 DEF InnermostBelow
    <3>3. QED
      BY <2>1, <2>3, <3>1, <3>2
  <2>4. QED
    BY <1>5, <2>1, <2>2, <2>3 DEF Restores
<1>7. WatchesInnermost(t, Watch(o), ltasks'[p])
  <2>1. CASE s[n + 1].old = 0 /\ NoneBelow(s, n + 1)
    <3>1. NoPump(t)
      BY <1>3, <1>4, <2>1 DEF NoneBelow, NoPump
    <3>2. QED
      BY <1>3, <2>1, <3>1 DEF WatchesInnermost
  <2>2. ASSUME NEW j \in DOMAIN s, InnermostBelow(s, n + 1, j), s[n + 1].old = s[j].id
        PROVE  WatchesInnermost(t, Watch(o), ltasks'[p])
    <3>1. j # n
      BY <1>4, <2>2 DEF InnermostBelow
    <3>2. j \in DOMAIN t /\ t[j] = s[j]
      BY <1>3, <1>4, <2>2, <3>1 DEF InnermostBelow
    <3>3. InnermostPump(t, j)
      BY <1>3, <1>4, <2>2, <3>2 DEF InnermostBelow, InnermostPump
    <3>4. Watch(o).id = s[j].id /\ ~Watch(o).posted
      BY <1>3, <2>2 DEF Watch
    <3>5. QED
      BY <3>2, <3>3, <3>4 DEF WatchesInnermost
  <2>3. QED
    BY <1>3, <1>5, <2>1, <2>2 DEF Restores
<1>8. QED
  BY <1>2, <1>6, <1>7

\* The done event that the wait thread sees is that of the innermost nested message loop.
LEMMA FiresForInnermost ==
  ASSUME TypeOK, CallStack, NEW c \in Ctx, SendDoneWaiting(c), NEW j \in DOMAIN frames[Owner[c]],
         frames[Owner[c]][j].kind = "pump", sendWatch[Owner[c]].id = frames[Owner[c]][j].id
  PROVE  c = frames[Owner[c]][j].ctx
<1> DEFINE s == frames[Owner[c]]
           w == sendWatch[Owner[c]]
<1>1. Owner[c] \in Proc /\ s \in Seq(Frame)
  BY ConstantsAssumption DEF TypeOK, ProcTypeOK
<1>2. PICK k \in DOMAIN deser[c] : deser[c][k].id = w.id /\ deser[c][k].id \in Ids
  BY SendWatched
<1>3. PICK h \in DOMAIN s : s[h].kind = "wait" /\ s[h].ctx = c /\ s[h].id = w.id
  BY <1>2 DEF CallStack, DeserOnStack
<1>4. j - 1 \in DOMAIN s /\ s[j - 1].kind = "wait" /\ s[j - 1].ctx = s[j].ctx /\ s[j - 1].id = w.id
  BY <1>1 DEF CallStack, PumpOnWait
<1>5. w.id \in Nat /\ h \in Nat /\ j - 1 \in Nat
  BY <1>1, <1>2, <1>3, <1>4 DEF Ids
<1>6. ~(h < j - 1) /\ ~(j - 1 < h)
  BY <1>1, <1>3, <1>4, <1>5 DEF CallStack, WaitsNested
<1>7. h = j - 1
  BY <1>5, <1>6
<1>8. QED
  BY <1>3, <1>4, <1>7

\* The task of a watcher that has fired ends the loop, or waits while it is interrupted.
LEMMA SendDoneKept ==
  ASSUME TypeOK, [Next]_vars, NEW p \in Proc, ~QuitsLoop(p), ~Crash(p),
         NEW j \in DOMAIN frames[p], InnermostPump(frames[p], j),
         sendWatch[p].id = frames[p][j].id, sendWatch[p].posted,
         Has(ltasks[p], Task("sendDone", frames[p][j].ctx, frames[p][j].id))
  PROVE  Has(ltasks'[p], Task("sendDone", frames[p][j].ctx, frames[p][j].id))
<1> DEFINE s == frames[p]
           e == Task("sendDone", s[j].ctx, s[j].id)
<1>1. SUFFICES ASSUME ~Has(ltasks'[p], e) PROVE FALSE
  OBVIOUS
<1>2. e.kind = "sendDone" /\ e.id = s[j].id
  BY DEF Task
<1> HIDE DEF e
<1>3. HeadTask(p, "sendDone") /\ e = Head(ltasks[p])
  BY <1>1, <1>2, TaskRuns DEF e
<1>4. OnSendDone(p)
  <2>1. \/ DispatchMessagesTask(p) \/ OnDispatchMessage(p)
        \/ OnWaitableEventSignaled(p) \/ OnSendDone(p)
    BY <1>1, TaskRuns DEF e
  <2>2. Head(ltasks[p]).kind = "sendDone"
    BY <1>2, <1>3
  <2>3. QED
    BY <2>1, <2>2 DEF DispatchMessagesTask, OnDispatchMessage, OnWaitableEventSignaled, HeadTask
<1>5. s \in Seq(Frame) /\ j \in DOMAIN s
  BY DEF TypeOK, ProcTypeOK
<1>6. ~Idle(p)
  BY <1>5 DEF Idle
<1>7. TopIs(p, "pump")
  BY <1>3, <1>6 DEF HeadTask, InMessageLoop
<1>8. /\ s # <<>> /\ Len(s) \in DOMAIN s /\ s[Len(s)].kind = "pump" /\ DOMAIN s = 1..Len(s)
      /\ Len(s) \in Nat
  BY <1>5, <1>7, LastType DEF TopIs
<1>9. sendWatch[p] = [id |-> e.id, posted |-> TRUE]
  <2>1. sendWatch[p] \in [id : 0..MaxSends, posted : BOOLEAN]
    BY DEF TypeOK, QueueTypeOK
  <2>2. QED
    BY <1>2, <2>1
<1>10. QED
  BY <1>3, <1>4, <1>7, <1>9 DEF QuitsLoop

LEMMA NextWatchers ==
  ASSUME TypeOK, CallStack, Watchers, [Next]_vars
  PROVE  Watchers'
<1> SUFFICES ASSUME NEW p \in Proc
             PROVE  /\ Restores(frames'[p])
                    /\ WatchesInnermost(frames'[p], sendWatch'[p], ltasks'[p])
  BY DEF Watchers
<1> DEFINE s == frames[p]
           t == frames'[p]
           w == sendWatch[p]
           v == sendWatch'[p]
<1>1. Restores(s) /\ WatchesInnermost(s, w, ltasks[p])
  BY DEF Watchers
<1>2. /\ sendWatch \in [Proc -> [id : 0..MaxSends, posted : BOOLEAN]]
      /\ frames \in [Proc -> Seq(Frame)] /\ ltasks \in [Proc -> Seq(ListenerTask)]
  BY DEF TypeOK, QueueTypeOK, ProcTypeOK
<1>3. CASE PumpMessages(p)
  BY <1>3, PumpWatchers
<1>4. CASE QuitsLoop(p)
  BY <1>4, QuitWatchers
<1>5. CASE Crash(p)
  <2>1. t = <<>> /\ v = Watch(0)
    BY <1>2, <1>5 DEF Crash
  <2>2. Restores(<<>>) /\ NoPump(<<>>)
    BY DEF Restores, NoPump
  <2>3. QED
    BY <2>1, <2>2 DEF WatchesInnermost
<1>6. CASE ~PumpMessages(p) /\ ~QuitsLoop(p) /\ ~Crash(p)
  <2>1. SamePumps(s, t)
    BY <1>6, PumpsStay
  <2>2. CASE \E c \in Ctx : SendDoneWaiting(c) /\ Owner[c] = p
    <3>1. PICK c \in Ctx : SendDoneWaiting(c) /\ Owner[c] = p
      BY <2>2
    <3>2. /\ v = [w EXCEPT !.posted = TRUE] /\ PostListener(p, Task("sendDone", c, w.id))
          /\ w.id \in Ids
      <4>1. sendWatch' = [sendWatch EXCEPT ![p].posted = TRUE]
        BY <3>1 DEF SendDoneWaiting
      <4>2. PostListener(p, Task("sendDone", c, w.id))
        BY <3>1 DEF SendDoneWaiting
      <4>3. w.id \in Ids
        BY <3>1, SendWatched
      <4>4. QED
        BY <1>2, <4>1, <4>2, <4>3
    <3>3. v.id = w.id /\ w # Watch(0)
      <4>1. w \in [id : 0..MaxSends, posted : BOOLEAN]
        BY <1>2
      <4>2. w.id # 0
        BY <3>2 DEF Ids
      <4>3. QED
        BY <3>2, <4>1, <4>2 DEF Watch
    <3>4. PICK j \in DOMAIN s : InnermostPump(s, j) /\ w.id = s[j].id
      BY <1>1, <3>3 DEF WatchesInnermost
    <3>5. c = s[j].ctx
      BY <3>1, <3>4, FiresForInnermost DEF InnermostPump
    <3>6. Has(ltasks'[p], Task("sendDone", s[j].ctx, s[j].id))
      <4>1. Task("sendDone", c, w.id) \in ListenerTask
        BY <3>2 DEF Task, ListenerTask
      <4>2. ltasks'[p] = Append(ltasks[p], Task("sendDone", c, w.id))
        BY <1>2, <3>2 DEF PostListener
      <4>3. QED
        BY <1>2, <3>4, <3>5, <4>1, <4>2, AppendHas
    <3>7. j \in DOMAIN t /\ InnermostPump(t, j) /\ t[j] = s[j]
      BY <2>1, <3>4, SamePumpsKeep
    <3>8. QED
      BY <1>1, <2>1, <3>3, <3>4, <3>6, <3>7, SamePumpsKeep DEF WatchesInnermost
  <2>3. CASE ~\E c \in Ctx : SendDoneWaiting(c) /\ Owner[c] = p
    <3>1. v = w
      <4>1. ASSUME NEW q \in Proc, PumpMessages(q) \/ QuitsLoop(q) \/ Crash(q) PROVE v = w
        BY <1>2, <1>6, <4>1 DEF PumpMessages, QuitsLoop, OnSendDone, Crash
      <4>2. ASSUME NEW c \in Ctx, SendDoneWaiting(c) PROVE v = w
        <5>1. Owner[c] # p /\ sendWatch' = [sendWatch EXCEPT ![Owner[c]].posted = TRUE]
          BY <2>3, <4>2 DEF SendDoneWaiting
        <5>2. QED
          BY <1>2, <5>1
      <4>3. QED
        BY <4>1, <4>2, SendWatchChanges
    <3>2. CASE NoPump(s) /\ w = Watch(0)
      BY <1>1, <2>1, <3>1, <3>2, SamePumpsKeep DEF WatchesInnermost
    <3>3. ASSUME NEW j \in DOMAIN s, InnermostPump(s, j), w.id = s[j].id,
                 w.posted => Has(ltasks[p], Task("sendDone", s[j].ctx, s[j].id))
          PROVE  WatchesInnermost(t, v, ltasks'[p])
      <4>1. w.posted => Has(ltasks'[p], Task("sendDone", s[j].ctx, s[j].id))
        BY <1>6, <3>3, SendDoneKept
      <4>2. j \in DOMAIN t /\ InnermostPump(t, j) /\ t[j] = s[j]
        BY <2>1, <3>3, SamePumpsKeep
      <4>3. QED
        BY <3>1, <3>3, <4>1, <4>2 DEF WatchesInnermost
    <3>4. QED
      BY <1>1, <2>1, <3>2, <3>3, SamePumpsKeep DEF WatchesInnermost
  <2>4. QED
    BY <2>2, <2>3
<1>7. QED
  BY <1>3, <1>4, <1>5, <1>6

LEMMA WatchersGive ==
  ASSUME TypeOK, CallStack, Watchers
  PROVE  NestedLoopIsWoken
<1> SUFFICES ASSUME NEW p \in Proc
             PROVE  LET pumping == {k \in DOMAIN frames[p] : frames[p][k].kind = "pump"}
                        w       == sendWatch[p]
                    IN IF pumping = {} THEN w = Watch(0)
                       ELSE \E k \in pumping :
                              LET f == frames[p][k] IN
                                /\ \A j \in pumping : j <= k
                                /\ w.id = f.id
                                /\ k = Len(frames[p]) => Last(deser[f.ctx]).id = f.id
                                /\ w.posted => Contains(ltasks[p], Task("sendDone", f.ctx, f.id))
  BY DEF NestedLoopIsWoken
<1> DEFINE s == frames[p]
           w == sendWatch[p]
           pumping == {k \in DOMAIN s : s[k].kind = "pump"}
<1>1. WatchesInnermost(s, w, ltasks[p])
  BY DEF Watchers
<1>2. CASE NoPump(s) /\ w = Watch(0)
  <2>1. pumping = {}
    BY <1>2 DEF NoPump
  <2>2. QED
    BY <1>2, <2>1
<1>3. ASSUME NEW k \in DOMAIN s, InnermostPump(s, k), w.id = s[k].id,
             w.posted => Has(ltasks[p], Task("sendDone", s[k].ctx, s[k].id))
      PROVE  /\ k \in pumping /\ \A j \in pumping : j <= k
             /\ k = Len(s) => Last(deser[s[k].ctx]).id = s[k].id
             /\ w.posted => Contains(ltasks[p], Task("sendDone", s[k].ctx, s[k].id))
  <2>1. s \in Seq(Frame) /\ DOMAIN s = 1..Len(s) /\ Len(s) \in Nat
    BY DEF TypeOK, ProcTypeOK
  <2>2. k \in pumping /\ \A j \in pumping : j <= k
    BY <1>3, <2>1 DEF InnermostPump
  <2>3. ASSUME k = Len(s) PROVE Last(deser[s[k].ctx]).id = s[k].id
    <3>1. /\ k - 1 \in DOMAIN s /\ s[k - 1].kind = "wait"
          /\ s[k - 1].ctx = s[k].ctx /\ s[k - 1].id = s[k].id
      BY <1>3 DEF InnermostPump, CallStack, PumpOnWait
    <3>2. \A j \in DOMAIN s : j > k - 1 => s[j].kind # "wait"
      <4>1. \A j \in DOMAIN s : j > k - 1 => j = k
        BY <2>1, <2>3
      <4>2. QED
        BY <1>3, <4>1 DEF InnermostPump
    <3>3. QED
      BY <3>1, <3>2, TopSend
  <2>4. ASSUME w.posted PROVE Contains(ltasks[p], Task("sendDone", s[k].ctx, s[k].id))
    <3>1. ltasks[p] \in Seq(ListenerTask)
      BY DEF TypeOK, ProcTypeOK
    <3>2. QED
      BY <1>3, <2>4, <3>1 DEF Has, Contains
  <2>5. QED
    BY <2>2, <2>3, <2>4
<1>4. QED
  BY <1>1, <1>2, <1>3 DEF WatchesInnermost

(***************************************************************************)
(* Theorems.                                                               *)
(***************************************************************************)
\* The inductive invariant.
QueueInv ==
  IInv /\ Places /\ Nesting /\ Loops /\ Tasked /\ Watchers /\ BlocksOnlyWithNothingToDispatch

LEMMA InitQueueInv == Init => QueueInv
<1> SUFFICES ASSUME Init PROVE QueueInv
  OBVIOUS
<1>1. IInv
  BY InitIInv
<1>2. Places /\ Nesting /\ Loops
  BY InitQueue
<1>3. Tasked
  BY DEF Init, Tasked
<1>4. Watchers
  BY DEF Init, Watchers, Restores, WatchesInnermost, NoPump
<1>5. BlocksOnlyWithNothingToDispatch
  BY DEF Init, BlocksOnlyWithNothingToDispatch
<1>6. QED
  BY <1>1, <1>2, <1>3, <1>4, <1>5 DEF QueueInv

LEMMA NextQueueInv == QueueInv /\ [Next]_vars => QueueInv'
<1> SUFFICES ASSUME QueueInv, [Next]_vars PROVE QueueInv'
  OBVIOUS
<1>1. IInv' /\ TypeOK /\ CallStack /\ TypeOK'
  BY NextIInv DEF QueueInv, IInv
<1>2. Places'
  BY <1>1, NextPlaces DEF QueueInv
<1>3. Nesting'
  BY <1>1, NextNesting DEF QueueInv
<1>4. Loops'
  BY <1>1, <1>2, NextLoops DEF QueueInv
<1>5. Tasked'
  BY <1>1, NextTasked DEF QueueInv
<1>6. Watchers'
  BY <1>1, NextWatchers DEF QueueInv
<1>7. BlocksOnlyWithNothingToDispatch'
  BY <1>1, NextBlocks DEF QueueInv
<1>8. QED
  BY <1>1, <1>2, <1>3, <1>4, <1>5, <1>6, <1>7 DEF QueueInv

LEMMA AlwaysQueueInv == Spec => []QueueInv
  BY InitQueueInv, NextQueueInv, PTL DEF Spec

\* IteratorValid for every topology and bound: the iterator that DispatchMessages keeps
\* across a handler points to an entry of message_queue_ whenever the version still
\* matches, whatever nested loops, ~SyncChannel and the IPC thread do meanwhile.
THEOREM IteratorsCorrect == Spec => []IteratorValid
<1>1. QueueInv => IteratorValid
  BY DEF QueueInv, Loops, LoopSound, IteratorValid
<1>2. QED
  BY <1>1, AlwaysQueueInv, PTL

\* RestrictedReentrancy for every topology and bound: under a Send that blocks, only
\* contexts of its own group and of none re-enter the listener thread.
THEOREM ReentrancyRestricted == Spec => []RestrictedReentrancy
<1>1. QueueInv => RestrictedReentrancy
  BY NestingRestricts DEF QueueInv, IInv
<1>2. QED
  BY <1>1, AlwaysQueueInv, PTL

\* Two of the three parts of WakeupsKept, whatever the groups: no thread blocks while there
\* is a message it would dispatch, and the innermost nested message loop is always woken.
THEOREM NoWakeupLost == Spec => [](BlocksOnlyWithNothingToDispatch /\ NestedLoopIsWoken)
<1>1. QueueInv => BlocksOnlyWithNothingToDispatch /\ NestedLoopIsWoken
  BY WatchersGive DEF QueueInv, IInv
<1>2. QED
  BY <1>1, AlwaysQueueInv, PTL

\* WakeupsKept for every topology and bound in which any loop may dispatch any message.
\* With restricted groups a loop may end over messages it must not touch, and then no task
\* is left for them: that is the violation of AtRestMeansDispatched.
THEOREM WakeupsCorrect ==
  ASSUME \A c, d \in Ctx : Eligible(c, d)
  PROVE  Spec => []WakeupsKept
<1>1. Init => QueuedMessageHasDispatcher
  BY DEF Init, QueuedMessageHasDispatcher
<1>2. QueueInv /\ QueuedMessageHasDispatcher /\ [Next]_vars => QueuedMessageHasDispatcher'
  BY NextQueueInv, NextDispatcher DEF QueueInv, IInv
<1>3. QueueInv => BlocksOnlyWithNothingToDispatch /\ NestedLoopIsWoken
  BY WatchersGive DEF QueueInv, IInv
<1>4. BlocksOnlyWithNothingToDispatch /\ QueuedMessageHasDispatcher /\ NestedLoopIsWoken => WakeupsKept
  BY DEF WakeupsKept
<1>5. QED
  BY <1>1, <1>2, <1>3, <1>4, AlwaysQueueInv, PTL DEF Spec

(***************************************************************************)
(* Places of some elements in a sequence, and how many there are.          *)
(***************************************************************************)
\* Where in s an element of M is.
At(s, M) == {k \in DOMAIN s : s[k] \in M}

Lone(S) == \A a, b \in S : a = b

\* From S to T nothing comes in.
Shrinks(S, T) == (S = {} => T = {}) /\ (Lone(S) => Lone(T))

\* What was in S is no longer, and in T there is one more at most.
Moves(S, S1, T, T1) == S # {} /\ (Lone(S) => S1 = {}) /\ (T = {} => Lone(T1))

LEMMA ShrinksSelf == ASSUME NEW S, NEW T, T \subseteq S PROVE Shrinks(S, T)
  BY DEF Shrinks, Lone

LEMMA AtEmpty == ASSUME NEW M PROVE At(<<>>, M) = {}
  BY DEF At

LEMMA AtAppend ==
  ASSUME NEW S, NEW s \in Seq(S), NEW e \in S, NEW M
  PROVE  At(Append(s, e), M) = IF e \in M THEN At(s, M) \cup {Len(s) + 1} ELSE At(s, M)
<1> DEFINE n == Len(s)
           t == Append(s, e)
<1>1. /\ n \in Nat /\ DOMAIN s = 1..n /\ DOMAIN t = 1..(n + 1)
      /\ \A k \in 1..n : t[k] = s[k]
      /\ t[n + 1] = e
  OBVIOUS
<1> HIDE DEF n, t
<1>2. DOMAIN t = DOMAIN s \cup {n + 1} /\ n + 1 \notin DOMAIN s
  BY <1>1
<1>3. \A k \in DOMAIN s : t[k] = s[k]
  BY <1>1
<1>4. QED
  BY <1>1, <1>2, <1>3 DEF At, n, t

LEMMA AtTail ==
  ASSUME NEW S, NEW s \in Seq(S), s # <<>>, NEW M
  PROVE  /\ \A k : k \in At(Tail(s), M) <=> k \in Nat /\ k # 0 /\ k + 1 \in At(s, M)
         /\ 1 \in At(s, M) <=> Head(s) \in M
         /\ At(s, M) \subseteq Nat \ {0}
<1>1. /\ Len(s) \in Nat /\ DOMAIN s = 1..Len(s) /\ DOMAIN Tail(s) = 1..(Len(s) - 1)
      /\ Head(s) = s[1] /\ 1 \in DOMAIN s
      /\ \A k \in 1..(Len(s) - 1) : Tail(s)[k] = s[k + 1]
  OBVIOUS
<1>2. \A k : k \in DOMAIN Tail(s) <=> k \in Nat /\ k # 0 /\ k + 1 \in DOMAIN s
  BY <1>1
<1>3. \A k \in DOMAIN Tail(s) : Tail(s)[k] = s[k + 1]
  BY <1>1
<1>4. At(s, M) \subseteq Nat \ {0}
  BY <1>1 DEF At
<1>5. 1 \in At(s, M) <=> Head(s) \in M
  BY <1>1 DEF At
<1>6. ASSUME NEW k PROVE k \in At(Tail(s), M) <=> k \in Nat /\ k # 0 /\ k + 1 \in At(s, M)
  BY <1>2, <1>3 DEF At
<1>7. QED
  BY <1>4, <1>5, <1>6

LEMMA TailShrinks ==
  ASSUME NEW S, NEW s \in Seq(S), s # <<>>, NEW M
  PROVE  /\ Shrinks(At(s, M), At(Tail(s), M))
         /\ Head(s) \in M => At(s, M) # {} /\ (Lone(At(s, M)) => At(Tail(s), M) = {})
<1> DEFINE A == At(s, M)
           B == At(Tail(s), M)
<1>1. /\ \A k : k \in B <=> k \in Nat /\ k # 0 /\ k + 1 \in A
      /\ 1 \in A <=> Head(s) \in M
  BY AtTail
<1> HIDE DEF A, B
<1>2. ASSUME NEW a \in B, NEW b \in B, Lone(A) PROVE a = b
  <2>1. a \in Nat /\ b \in Nat /\ a + 1 = b + 1
    BY <1>1, <1>2 DEF Lone
  <2>2. QED
    BY <2>1
<1>3. ASSUME Head(s) \in M, Lone(A), NEW k \in B PROVE FALSE
  <2>1. k \in Nat /\ k # 0 /\ k + 1 = 1
    BY <1>1, <1>3 DEF Lone
  <2>2. QED
    BY <2>1
<1>4. Shrinks(A, B)
  BY <1>1, <1>2 DEF Shrinks, Lone
<1>5. QED
  BY <1>1, <1>3, <1>4 DEF A, B

LEMMA FrontShrinks ==
  ASSUME NEW S, NEW s \in Seq(S), s # <<>>, NEW M
  PROVE  /\ At(Front(s), M) \subseteq At(s, M)
         /\ Last(s) \in M => At(s, M) # {} /\ (Lone(At(s, M)) => At(Front(s), M) = {})
<1>1. /\ Len(s) \in Nat /\ DOMAIN s = 1..Len(s) /\ Len(s) \in DOMAIN s /\ Last(s) = s[Len(s)]
  BY DEF Last
<1>2. /\ Front(s) \in Seq(S) /\ Len(Front(s)) = Len(s) - 1
      /\ \A k \in 1..(Len(s) - 1) : Front(s)[k] = s[k]
  BY FrontType
<1>3. DOMAIN Front(s) = 1..(Len(s) - 1)
  BY <1>2
<1>4. \A k \in DOMAIN Front(s) : k \in DOMAIN s /\ k # Len(s) /\ Front(s)[k] = s[k]
  BY <1>1, <1>2, <1>3
<1>5. \A k \in At(Front(s), M) : k \in At(s, M) /\ k # Len(s)
  BY <1>4 DEF At
<1>6. Last(s) \in M => Len(s) \in At(s, M)
  BY <1>1 DEF At
<1>7. QED
  BY <1>5, <1>6 DEF Lone

LEMMA AtRemove ==
  ASSUME NEW S, NEW s \in Seq(S), NEW j \in DOMAIN s, NEW M
  PROVE  /\ \A k : k \in At(RemoveAt(s, j), M) <=>
                     k \in Nat /\ k # 0 /\ (IF k < j THEN k ELSE k + 1) \in At(s, M)
         /\ At(s, M) \subseteq Nat \ {0}
<1> DEFINE n == Len(s)
           t == RemoveAt(s, j)
<1>1. /\ n \in Nat /\ DOMAIN s = 1..n /\ j \in 1..n /\ DOMAIN t = 1..(n - 1)
      /\ \A k \in 1..(n - 1) : t[k] = IF k < j THEN s[k] ELSE s[k + 1]
  BY RemoveAtIs
<1> HIDE DEF t, n
<1>2. \A k : k \in DOMAIN t <=> k \in Nat /\ k # 0 /\ (IF k < j THEN k ELSE k + 1) \in DOMAIN s
  BY <1>1
<1>3. \A k \in DOMAIN t : t[k] = s[IF k < j THEN k ELSE k + 1]
  BY <1>1
<1>4. ASSUME NEW k
      PROVE  k \in At(t, M) <=> k \in Nat /\ k # 0 /\ (IF k < j THEN k ELSE k + 1) \in At(s, M)
  BY <1>2, <1>3 DEF At
<1>5. At(s, M) \subseteq Nat \ {0}
  BY <1>1 DEF At
<1>6. QED
  BY <1>4, <1>5 DEF t

LEMMA RemoveShrinks ==
  ASSUME NEW S, NEW s \in Seq(S), NEW j \in DOMAIN s, NEW M
  PROVE  Shrinks(At(s, M), At(RemoveAt(s, j), M))
<1> DEFINE A == At(s, M)
           B == At(RemoveAt(s, j), M)
<1>1. /\ \A k : k \in B <=> k \in Nat /\ k # 0 /\ (IF k < j THEN k ELSE k + 1) \in A
      /\ j \in Nat
  BY AtRemove
<1> HIDE DEF A, B
<1>2. ASSUME NEW a \in B, NEW b \in B, Lone(A) PROVE a = b
  <2>1. a \in Nat /\ b \in Nat
    BY <1>1
  <2>2. (IF a < j THEN a ELSE a + 1) = (IF b < j THEN b ELSE b + 1)
    BY <1>1, <1>2 DEF Lone
  <2>3. QED
    BY <1>1, <2>1, <2>2
<1>3. QED
  BY <1>1, <1>2 DEF Shrinks, Lone, A, B

LEMMA AppendShrinks ==
  ASSUME NEW S, NEW s \in Seq(S), NEW e \in S, NEW M
  PROVE  /\ e \notin M => At(Append(s, e), M) = At(s, M)
         /\ At(s, M) = {} => Lone(At(Append(s, e), M))
  BY AtAppend DEF Lone

LEMMA AtFinite ==
  ASSUME NEW S, NEW s \in Seq(S), NEW M
  PROVE  IsFiniteSet(At(s, M)) /\ Cardinality(At(s, M)) \in Nat
<1>1. Len(s) \in Nat /\ At(s, M) \subseteq 1..Len(s)
  BY DEF At
<1>2. IsFiniteSet(1..Len(s))
  BY <1>1, FS_Interval
<1>3. IsFiniteSet(At(s, M))
  BY <1>1, <1>2, FS_Subset
<1>4. QED
  BY <1>3, FS_CardinalityType

\* No more in T than in S, each of T counted by another of S.
LEMMA CountedBy ==
  ASSUME NEW S, NEW T, IsFiniteSet(S), NEW g \in [T -> S],
         \A a, b \in T : g[a] = g[b] => a = b
  PROVE  Cardinality(T) <= Cardinality(S)
<1>1. g \in Injection(T, S)
  BY DEF Injection, IsInjective
<1>2. QED
  BY <1>1, FS_Injection

\* T has one more than S at most.
LEMMA OneMore ==
  ASSUME NEW S, NEW T, NEW U, IsFiniteSet(S), U \subseteq S \cup T, Lone(T)
  PROVE  IsFiniteSet(U) /\ Cardinality(U) <= Cardinality(S) + 1
<1>1. Cardinality(S) \in Nat
  BY FS_CardinalityType
<1>2. PICK x : U \subseteq S \cup {x}
  BY DEF Lone
<1>3. /\ IsFiniteSet(S \cup {x}) /\ Cardinality(S \cup {x}) <= Cardinality(S) + 1
      /\ Cardinality(S \cup {x}) \in Nat
  BY <1>1, FS_AddElement, FS_CardinalityType
<1>4. IsFiniteSet(U) /\ Cardinality(U) <= Cardinality(S \cup {x}) /\ Cardinality(U) \in Nat
  BY <1>2, <1>3, FS_Subset, FS_CardinalityType
<1>5. QED
  BY <1>1, <1>3, <1>4

LEMMA CountAppend ==
  ASSUME NEW S, NEW s \in Seq(S), NEW e \in S, NEW M
  PROVE  /\ Cardinality(At(s, M)) <= Cardinality(At(Append(s, e), M))
         /\ e \in M => Cardinality(At(Append(s, e), M)) = Cardinality(At(s, M)) + 1
<1>1. IsFiniteSet(At(s, M)) /\ Cardinality(At(s, M)) \in Nat
  BY AtFinite
<1>2. At(Append(s, e), M) = IF e \in M THEN At(s, M) \cup {Len(s) + 1} ELSE At(s, M)
  BY AtAppend
<1>3. Len(s) + 1 \notin At(s, M)
  BY DEF At
<1>4. Cardinality(At(s, M) \cup {Len(s) + 1}) = Cardinality(At(s, M)) + 1
  BY <1>1, <1>3, FS_AddElement
<1>5. QED
  BY <1>1, <1>2, <1>4

LEMMA CountTail ==
  ASSUME NEW S, NEW s \in Seq(S), s # <<>>, NEW M
  PROVE  /\ Cardinality(At(s, M)) <= Cardinality(At(Tail(s), M)) + 1
         /\ Head(s) \notin M => Cardinality(At(s, M)) <= Cardinality(At(Tail(s), M))
<1> DEFINE A == At(s, M)
           B == At(Tail(s), M)
           g == [k \in A \ {1} |-> k - 1]
<1>1. /\ \A k : k \in B <=> k \in Nat /\ k # 0 /\ k + 1 \in A
      /\ 1 \in A <=> Head(s) \in M
      /\ A \subseteq Nat \ {0}
  BY AtTail
<1>2. Tail(s) \in Seq(S)
  OBVIOUS
<1>3. /\ IsFiniteSet(A) /\ Cardinality(A) \in Nat
      /\ IsFiniteSet(B) /\ Cardinality(B) \in Nat
  BY <1>2, AtFinite
<1> HIDE DEF A, B
<1>4. ASSUME NEW k \in A \ {1} PROVE k \in Nat /\ k - 1 \in B
  BY <1>1, <1>4
<1>5. g \in [A \ {1} -> B] /\ \A a, b \in A \ {1} : g[a] = g[b] => a = b
  BY <1>4
<1> HIDE DEF g
<1>6. Cardinality(A \ {1}) <= Cardinality(B)
  BY <1>3, <1>5, CountedBy
<1>7. Cardinality(A \ {1}) = IF 1 \in A THEN Cardinality(A) - 1 ELSE Cardinality(A)
  BY <1>3, FS_RemoveElement
<1>8. QED
  BY <1>1, <1>3, <1>6, <1>7 DEF A, B

LEMMA CountRemove ==
  ASSUME NEW S, NEW s \in Seq(S), NEW j \in DOMAIN s, NEW M, s[j] \in M
  PROVE  Cardinality(At(RemoveAt(s, j), M)) + 1 <= Cardinality(At(s, M))
<1> DEFINE A == At(s, M)
           B == At(RemoveAt(s, j), M)
           g == [k \in B |-> IF k < j THEN k ELSE k + 1]
<1>1. /\ \A k : k \in B <=> k \in Nat /\ k # 0 /\ (IF k < j THEN k ELSE k + 1) \in A
      /\ j \in Nat
  BY AtRemove
<1>2. j \in A
  BY DEF At
<1>3. RemoveAt(s, j) \in Seq(S)
  BY RemoveAtType
<1>4. /\ IsFiniteSet(A) /\ Cardinality(A) \in Nat
      /\ IsFiniteSet(B) /\ Cardinality(B) \in Nat
  BY <1>3, AtFinite
<1> HIDE DEF A, B
<1>5. ASSUME NEW k \in B
      PROVE  k \in Nat /\ (IF k < j THEN k ELSE k + 1) \in A \ {j}
  BY <1>1, <1>5
<1>6. g \in [B -> A \ {j}] /\ \A a, b \in B : g[a] = g[b] => a = b
  BY <1>1, <1>5
<1> HIDE DEF g
<1>7. IsFiniteSet(A \ {j}) /\ Cardinality(A \ {j}) = Cardinality(A) - 1
  BY <1>2, <1>4, FS_RemoveElement
<1>8. Cardinality(B) <= Cardinality(A \ {j})
  BY <1>6, <1>7, CountedBy
<1>9. QED
  BY <1>4, <1>7, <1>8 DEF A, B

(***************************************************************************)
(* What a step does to each of the sequences and sets.                     *)
(***************************************************************************)
NewIpcTask(p, t) ==
  \/ t = RepliesTask /\ (SendReturns(p) \/ QuitsLoop(p))
  \/ t.kind = "closed"
  \/ \E c \in Ctx, u \in BOOLEAN :
       /\ Owner[c] = p /\ nextId[p] \in Ids /\ nextId'[p] = nextId[p] + 1
       /\ t = SendTask(c, SyncMsg(nextId[p], u))
  \/ \E ok \in BOOLEAN : Reply(p, ok) /\ t = SendTask(Top(p).ctx, ReplyMsg(Top(p).id, ok))
  \/ \E c \in Ctx, i \in Ids, ok \in BOOLEAN :
       SendDeferredReply(p, c, i, ok) /\ t = SendTask(c, ReplyMsg(i, ok))

LEMMA ItasksStep ==
  ASSUME TypeOK, [Next]_vars, NEW p \in Proc, itasks'[p] # itasks[p]
  PROVE  \/ Crash(p) /\ itasks'[p] = <<>>
         \/ /\ itasks[p] # <<>> /\ itasks'[p] = Tail(itasks[p])
            /\ OnSendMessage(p) \/ OnChannelClosed(p) \/ DispatchReplies(p)
         \/ \E t \in IpcTask : itasks'[p] = Append(itasks[p], t) /\ NewIpcTask(p, t)
<1> DEFINE Added == \E t \in IpcTask : itasks'[p] = Append(itasks[p], t) /\ NewIpcTask(p, t)
<1>1. itasks \in [Proc -> Seq(IpcTask)] /\ itasks[p] \in Seq(IpcTask)
  BY DEF TypeOK, ProcTypeOK
<1>2. ASSUME NEW q \in Proc, NEW t \in IpcTask, PostIpc(q, t)
      PROVE  q = p /\ itasks'[p] = Append(itasks[p], t)
  BY <1>1, <1>2 DEF PostIpc
<1>3. ASSUME NEW q \in Proc, NEW c \in Ctx, NEW u \in UnblockFlags[q], BeginSend(q, c, u)
      PROVE  Added
  <2> DEFINE i == nextId[q]
  <2>1. i \in Ids /\ Owner[c] = q /\ u \in BOOLEAN /\ nextId'[q] = i + 1
    <3>1. i <= Budget[q] /\ Owner[c] = q /\ nextId' = [nextId EXCEPT ![q] = i + 1]
      BY <1>3 DEF BeginSend, CanSend
    <3>2. nextId \in [Proc -> 1..(MaxSends + 1)]
      BY DEF TypeOK, ProcTypeOK
    <3>3. QED
      BY <3>1, <3>2, ConstantsAssumption DEF Ids
  <2>2. SendTask(c, SyncMsg(i, u)) \in IpcTask
    BY <2>1 DEF SendTask, SyncMsg, IpcTask, Message
  <2>3. PostIpc(q, SendTask(c, SyncMsg(i, u)))
    BY <1>3 DEF BeginSend
  <2>4. q = p /\ itasks'[p] = Append(itasks[p], SendTask(c, SyncMsg(i, u)))
    BY <1>2, <2>2, <2>3
  <2>5. QED
    BY <2>1, <2>2, <2>4 DEF NewIpcTask
<1>4. ASSUME NEW q \in Proc, NEW ok \in ReplyResults, Reply(q, ok)
      PROVE  Added
  <2> DEFINE t == SendTask(Top(q).ctx, ReplyMsg(Top(q).id, ok))
  <2>1. Top(q).ctx \in Ctx /\ Top(q).id \in Ids /\ ok \in BOOLEAN
    BY <1>4, TopFrame, ConstantsAssumption DEF Reply, TopIs, Top
  <2>2. t \in IpcTask
    BY <2>1 DEF SendTask, ReplyMsg, IpcTask, Message
  <2>3. PostIpc(q, t)
    BY <1>4 DEF Reply
  <2>4. q = p /\ itasks'[p] = Append(itasks[p], t)
    BY <1>2, <2>2, <2>3
  <2>5. QED
    BY <1>4, <2>1, <2>2, <2>4 DEF NewIpcTask
<1>5. ASSUME NEW q \in Proc, DeferredReplies(q)
      PROVE  Added
  <2>1. PICK c \in Ctx, i \in Ids, ok \in ReplyResults : SendDeferredReply(q, c, i, ok)
    BY <1>5 DEF DeferredReplies
  <2>2. SendTask(c, ReplyMsg(i, ok)) \in IpcTask /\ ok \in BOOLEAN
    BY ConstantsAssumption DEF SendTask, ReplyMsg, IpcTask, Message
  <2>3. PostIpc(q, SendTask(c, ReplyMsg(i, ok)))
    BY <2>1 DEF SendDeferredReply
  <2>4. q = p /\ itasks'[p] = Append(itasks[p], SendTask(c, ReplyMsg(i, ok)))
    BY <1>2, <2>2, <2>3
  <2>5. QED
    BY <2>1, <2>2, <2>4 DEF NewIpcTask
<1>6. ASSUME NEW q \in Proc, SendReturns(q) \/ QuitsLoop(q)
      PROVE  Added
  <2>1. RepliesTask \in IpcTask
    BY DEF RepliesTask, IpcTask
  <2>2. PostIpc(q, RepliesTask)
    BY <1>6 DEF SendReturns, QuitsLoop, OnSendDone, EndSend, Pop
  <2>3. QED
    BY <1>2, <1>6, <2>1, <2>2 DEF NewIpcTask
<1>7. ASSUME NEW q \in Proc, NEW c \in Ctx, Destroy(q, c)
      PROVE  Added
  <2>1. ClosedTask(c) \in IpcTask /\ ClosedTask(c).kind = "closed" /\ PostIpc(q, ClosedTask(c))
    BY <1>7 DEF ClosedTask, IpcTask, Destroy
  <2>2. QED
    BY <1>2, <2>1 DEF NewIpcTask
<1>8. ASSUME NEW q \in Proc, OnSendMessage(q) \/ OnChannelClosed(q) \/ DispatchReplies(q)
      PROVE  q = p /\ itasks[p] # <<>> /\ itasks'[p] = Tail(itasks[p])
  <2>1. itasks[q] # <<>> /\ itasks' = [itasks EXCEPT ![q] = Tail(@)]
    BY <1>8, IpcTaskKeeps
  <2>2. QED
    BY <1>1, <2>1
<1>9. ASSUME NEW q \in Proc, Crash(q) PROVE q = p /\ itasks'[p] = <<>>
  BY <1>1, <1>9 DEF Crash
<1>10. ASSUME NEW q \in Proc, OnSendDone(q) PROVE QuitsLoop(q)
  BY <1>10 DEF OnSendDone, QuitsLoop
<1>11. itasks' # itasks
  OBVIOUS
<1>12. QED
  BY <1>3, <1>4, <1>5, <1>6, <1>7, <1>8, <1>9, <1>10, <1>11, ItasksChanges

LEMMA WireStep ==
  ASSUME TypeOK, [Next]_vars, NEW c \in Ctx, wire'[c] # wire[c]
  PROVE  \/ wire'[c] = <<>>
         \/ /\ wire[c] # <<>> /\ wire'[c] = Tail(wire[c])
            /\ ReceiveReply(c) \/ QueueMessage(c) \/ PostMessage(c)
         \/ \E p \in Proc :
              /\ OnSendMessage(p)
              /\ itasks[p] # <<>> /\ itasks' = [itasks EXCEPT ![p] = Tail(@)]
              /\ Head(itasks[p]) \in IpcTask
              /\ Head(itasks[p]).kind = "send" /\ Head(itasks[p]).ctx = Peer[c]
              /\ Head(itasks[p]).msg \in Message
              /\ wire'[c] = Append(wire[c], Head(itasks[p]).msg)
<1>1. wire \in [Ctx -> Seq(Message)] /\ wire[c] \in Seq(Message)
  BY DEF TypeOK, ProcTypeOK
<1>2. ASSUME NEW p \in Proc, OnSendMessage(p)
      PROVE  /\ itasks[p] # <<>> /\ itasks' = [itasks EXCEPT ![p] = Tail(@)]
             /\ Head(itasks[p]) \in IpcTask
             /\ Head(itasks[p]).kind = "send" /\ Head(itasks[p]).ctx = Peer[c]
             /\ Head(itasks[p]).msg \in Message
             /\ wire'[c] = Append(wire[c], Head(itasks[p]).msg)
  <2> DEFINE t == Head(itasks[p])
  <2>1. /\ t \in IpcTask /\ t.kind = "send" /\ t.ctx \in Ctx /\ t.msg \in Message
        /\ itasks[p] # <<>> /\ itasks' = [itasks EXCEPT ![p] = Tail(@)]
    BY <1>2, HeadIpcTaskType DEF OnSendMessage, HeadIpcTask
  <2>2. wire' = [wire EXCEPT ![Peer[t.ctx]] = Append(@, t.msg)]
    BY <1>2 DEF OnSendMessage
  <2> HIDE DEF t
  <2>3. Peer[t.ctx] = c /\ wire'[c] = Append(wire[c], t.msg)
    BY <1>1, <2>2
  <2>4. t.ctx = Peer[c]
    BY <2>1, <2>3, ConstantsAssumption
  <2>5. QED
    BY <2>1, <2>3, <2>4 DEF t
<1>3. ASSUME NEW d \in Ctx, ReceiveReply(d) \/ QueueMessage(d) \/ PostMessage(d)
      PROVE  d = c /\ wire[c] # <<>> /\ wire'[c] = Tail(wire[c])
  <2>1. wire[d] # <<>> /\ wire' = [wire EXCEPT ![d] = Tail(@)]
    BY <1>3 DEF ReceiveReply, QueueMessage, PostMessage, Receive
  <2>2. QED
    BY <1>1, <2>1
<1>4. ASSUME \/ \E p \in Proc : OnChannelClosed(p) \/ Crash(p)
             \/ \E d \in Ctx : OnChannelError(d)
      PROVE  wire'[c] = <<>>
  BY <1>1, <1>4 DEF OnChannelClosed, Crash, OnChannelError
<1>5. wire' # wire
  OBVIOUS
<1>6. QED
  BY <1>2, <1>3, <1>4, <1>5, WireChanges

LEMMA LtasksStep ==
  ASSUME TypeOK, [Next]_vars, NEW p \in Proc, ltasks'[p] # ltasks[p]
  PROVE  \/ ltasks'[p] = <<>>
         \/ ltasks[p] # <<>> /\ ltasks'[p] = Tail(ltasks[p])
         \/ \E t \in ListenerTask :
              /\ ltasks'[p] = Append(ltasks[p], t)
              /\ \/ t.kind # "message"
                 \/ \E c \in Ctx : /\ PostMessage(c) /\ Owner[c] = p
                                   /\ t = Task("message", c, Head(wire[c]).id)
<1> DEFINE Added == \E t \in ListenerTask :
                      /\ ltasks'[p] = Append(ltasks[p], t)
                      /\ \/ t.kind # "message"
                         \/ \E c \in Ctx : /\ PostMessage(c) /\ Owner[c] = p
                                           /\ t = Task("message", c, Head(wire[c]).id)
<1>1. ltasks \in [Proc -> Seq(ListenerTask)] /\ ltasks[p] \in Seq(ListenerTask)
  BY DEF TypeOK, ProcTypeOK
<1>2. ASSUME NEW q \in Proc, NEW t \in ListenerTask, PostListener(q, t)
      PROVE  q = p /\ ltasks'[p] = Append(ltasks[p], t)
  BY <1>1, <1>2 DEF PostListener
<1>3. ASSUME NEW q \in Proc, \/ DispatchMessagesTask(q) \/ OnDispatchMessage(q)
                             \/ OnWaitableEventSignaled(q) \/ OnSendDone(q)
      PROVE  ltasks[p] # <<>> /\ ltasks'[p] = Tail(ltasks[p])
  <2>1. ltasks[q] # <<>> /\ ltasks' = [ltasks EXCEPT ![q] = Tail(@)]
    BY <1>3 DEF DispatchMessagesTask, OnDispatchMessage, OnWaitableEventSignaled, OnSendDone,
                HeadTask
  <2>2. QED
    BY <1>1, <2>1
<1>4. ASSUME NEW q \in Proc, Crash(q) PROVE ltasks'[p] = <<>>
  BY <1>1, <1>4 DEF Crash
<1>5. ASSUME NEW q \in Proc, SignalDispatchEvent(q) PROVE Added
  <2> DEFINE t == Task("dispatch", queueing[q].ctx, 0)
  <2>1. queueing[q].ctx \in Ctx /\ PostListener(q, t)
    <3>1. queueing[q] # NotQueueing
      BY <1>5 DEF SignalDispatchEvent
    <3>2. queueing[q] \in {NotQueueing} \cup [ctx : Ctx, post : BOOLEAN]
      BY DEF TypeOK, QueueTypeOK
    <3>3. ltasks' # ltasks
      OBVIOUS
    <3>4. QED
      BY <1>5, <3>1, <3>2, <3>3 DEF SignalDispatchEvent
  <2>2. t \in ListenerTask /\ t.kind # "message"
    BY <2>1 DEF Task, ListenerTask
  <2>3. QED
    BY <1>2, <2>1, <2>2
<1>6. ASSUME NEW c \in Ctx, PostMessage(c) PROVE Added
  <2> DEFINE t == Task("message", c, Head(wire[c]).id)
  <2>1. Head(wire[c]).id \in Ids
    BY <1>6, ReceiveType DEF PostMessage
  <2>2. t \in ListenerTask
    BY <2>1 DEF Task, ListenerTask
  <2>3. PostListener(Owner[c], t) /\ Owner[c] \in Proc
    BY <1>6, ConstantsAssumption DEF PostMessage
  <2>4. QED
    BY <1>2, <1>6, <2>2, <2>3
<1>7. ASSUME NEW c \in Ctx, DoneWaiting(c) PROVE Added
  <2>1. Task("watch", c, 0) \in ListenerTask /\ Task("watch", c, 0).kind # "message"
    BY DEF Task, ListenerTask
  <2>2. PostListener(Owner[c], Task("watch", c, 0)) /\ Owner[c] \in Proc
    BY <1>7, ConstantsAssumption DEF DoneWaiting
  <2>3. QED
    BY <1>2, <2>1, <2>2
<1>8. ASSUME NEW c \in Ctx, SendDoneWaiting(c) PROVE Added
  <2> DEFINE t == Task("sendDone", c, sendWatch[Owner[c]].id)
  <2>1. PICK s \in ToSet(deser[c]) : s.id = sendWatch[Owner[c]].id
    BY <1>8 DEF SendDoneWaiting
  <2>2. s.id \in Ids
    BY <2>1, DeserTypes DEF ToSet
  <2>3. t \in ListenerTask /\ t.kind # "message"
    BY <2>1, <2>2 DEF Task, ListenerTask
  <2>4. PostListener(Owner[c], t) /\ Owner[c] \in Proc
    BY <1>8, ConstantsAssumption DEF SendDoneWaiting
  <2>5. QED
    BY <1>2, <2>3, <2>4
<1>9. ltasks' # ltasks
  OBVIOUS
<1>10. QED
  BY <1>3, <1>4, <1>5, <1>6, <1>7, <1>8, <1>9, LtasksChanges

LEMMA RepliesStep ==
  ASSUME TypeOK, [Next]_vars, NEW p \in Proc, replies'[p] # replies[p]
  PROVE  \/ Crash(p) /\ replies'[p] = <<>>
         \/ /\ DispatchReplies(p)
            /\ \E k \in DOMAIN replies[p] :
                 Unblocks(p, k) /\ replies'[p] = RemoveAt(replies[p], k)
         \/ \E c \in Ctx :
              /\ ReceiveReply(c) /\ Owner[c] = p /\ ~IsTopSend(c, Head(wire[c]).id)
              /\ \E ok \in BOOLEAN :
                   replies'[p] = Append(replies[p], [ctx |-> c, id |-> Head(wire[c]).id, ok |-> ok])
<1>1. replies \in [Proc -> Seq(QueuedReply)] /\ replies[p] \in Seq(QueuedReply)
  BY DEF TypeOK, QueueTypeOK
<1>2. ASSUME NEW q \in Proc, DispatchReplies(q)
      PROVE  /\ q = p
             /\ \E k \in DOMAIN replies[p] :
                  Unblocks(p, k) /\ replies'[p] = RemoveAt(replies[p], k)
  <2>1. PICK k \in DOMAIN replies[q] :
          Unblocks(q, k) /\ replies' = [replies EXCEPT ![q] = RemoveAt(@, k)]
    BY <1>2 DEF DispatchReplies
  <2>2. QED
    BY <1>1, <2>1
<1>3. ASSUME NEW c \in Ctx, ReceiveReply(c)
      PROVE  /\ Owner[c] = p /\ ~IsTopSend(c, Head(wire[c]).id)
             /\ \E ok \in BOOLEAN :
                  replies'[p] = Append(replies[p], [ctx |-> c, id |-> Head(wire[c]).id, ok |-> ok])
  <2>1. Head(wire[c]).ok \in BOOLEAN
    BY <1>3, ReceivedReply
  <2>2. /\ ~IsTopSend(c, Head(wire[c]).id)
        /\ replies' = [replies EXCEPT ![Owner[c]] =
             Append(@, [ctx |-> c, id |-> Head(wire[c]).id, ok |-> Head(wire[c]).ok])]
    BY <1>3 DEF ReceiveReply
  <2>3. QED
    BY <1>1, <2>1, <2>2
<1>4. ASSUME NEW q \in Proc, Crash(q) PROVE q = p /\ replies'[p] = <<>>
  BY <1>1, <1>4 DEF Crash
<1>5. replies' # replies
  OBVIOUS
<1>6. QED
  BY <1>2, <1>3, <1>4, <1>5, RepliesChanges

LEMMA MqStep ==
  ASSUME TypeOK, [Next]_vars, NEW p \in Proc
  PROVE  \/ mq'[p] \subseteq mq[p]
         \/ \E c \in Ctx :
              /\ QueueMessage(c) /\ Owner[c] = p
              /\ mq'[p] = mq[p] \cup {[ctx |-> c, id |-> Head(wire[c]).id, at |-> version[p] + 1]}
<1>1. mq \in [Proc -> SUBSET QueuedMessage]
  BY DEF TypeOK, QueueTypeOK
<1>2. ASSUME NEW q \in Proc, DispatchMessage(q) \/ Crash(q) \/ \E c \in Ctx : Destroy(q, c)
      PROVE  mq'[p] \subseteq mq[p]
  <2>1. \E S : mq' = [mq EXCEPT ![q] = @ \ S]
    <3>1. CASE Crash(q)
      <4>1. mq' = [mq EXCEPT ![q] = @ \ mq[q]]
        BY <3>1 DEF Crash
      <4>2. QED
        BY <4>1
    <3>2. CASE DispatchMessage(q)
      BY <3>2 DEF DispatchMessage
    <3>3. CASE \E c \in Ctx : Destroy(q, c)
      BY <3>3 DEF Destroy, RemoveContext
    <3>4. QED
      BY <1>2, <3>1, <3>2, <3>3
  <2>2. QED
    BY <1>1, <2>1
<1>3. ASSUME NEW c \in Ctx, QueueMessage(c), Owner[c] # p PROVE mq'[p] = mq[p]
  BY <1>1, <1>3 DEF QueueMessage
<1>4. ASSUME NEW c \in Ctx, QueueMessage(c), Owner[c] = p
      PROVE  mq'[p] = mq[p] \cup {[ctx |-> c, id |-> Head(wire[c]).id, at |-> version[p] + 1]}
  BY <1>1, <1>4 DEF QueueMessage
<1>5. CASE mq' = mq
  BY <1>5
<1>6. QED
  BY <1>2, <1>3, <1>4, <1>5, MqChanges

LEMMA OwedStep ==
  ASSUME TypeOK, [Next]_vars, NEW c \in Ctx
  PROVE  \/ owed'[c] \subseteq owed[c]
         \/ \E p \in Proc : /\ ReturnWithoutReply(p) /\ Top(p).ctx = c
                            /\ owed'[c] = owed[c] \cup {Top(p).id}
<1>1. owed \in [Ctx -> SUBSET Ids]
  BY DEF TypeOK, CtxTypeOK
<1>2. ASSUME NEW q \in Proc, DeferredReplies(q) \/ Crash(q) PROVE owed'[c] \subseteq owed[c]
  BY <1>1, <1>2 DEF DeferredReplies, SendDeferredReply, Crash
<1>3. ASSUME NEW p \in Proc, ReturnWithoutReply(p), ~(owed'[c] \subseteq owed[c])
      PROVE  Top(p).ctx = c /\ owed'[c] = owed[c] \cup {Top(p).id}
  <2>1. owed' = [owed EXCEPT ![Top(p).ctx] = @ \cup {Top(p).id}]
    BY <1>3 DEF ReturnWithoutReply
  <2>2. QED
    BY <1>1, <1>3, <2>1
<1>4. CASE owed' = owed
  BY <1>4
<1>5. QED
  BY <1>2, <1>3, <1>4, OwedChanges

(***************************************************************************)
(* Replies.                                                                *)
(***************************************************************************)
\* Whatever belongs to a context is kept by the process the context lives in.
Home ==
  \A p \in Proc :
    /\ \A k \in DOMAIN itasks[p] : itasks[p][k].kind = "send" => Owner[itasks[p][k].ctx] = p
    /\ \A k \in DOMAIN ltasks[p] : ltasks[p][k].kind = "message" => Owner[ltasks[p][k].ctx] = p
    /\ \A k \in DOMAIN frames[p] : frames[p][k].kind = "handler" => Owner[frames[p][k].ctx] = p
    /\ \A k \in DOMAIN replies[p] : Owner[replies[p][k].ctx] = p
    /\ \A m \in mq[p] : Owner[m.ctx] = p

SendsOf(c, t, i) ==
  {e \in IpcTask : e.kind = "send" /\ e.ctx = c /\ e.msg.type = t /\ e.msg.id = i}
MessagesOf(t, i) == {m \in Message : m.type = t /\ m.id = i}
HandlersOf(c, i) == {f \in Frame : f.kind = "handler" /\ f.ctx = c /\ f.id = i}
QueuedOf(c, i)   == {m \in QueuedMessage : m.ctx = c /\ m.id = i}
RepliesOf(c, i)  == {r \in QueuedReply : r.ctx = c /\ r.id = i}

Place == {"request", "sent", "queued", "posted", "handler", "owed", "reply", "back", "unmatched"}

\* Call i of context c, a request or a reply: where it is at place x.
Spots(c, i) ==
  LET d == Peer[c]
      p == Owner[c]
      q == Owner[Peer[c]]
  IN [request   |-> At(itasks[p], SendsOf(c, "sync", i)),
      sent      |-> At(wire[d], MessagesOf("sync", i)),
      queued    |-> mq[q] \cap QueuedOf(d, i),
      posted    |-> At(ltasks[q], {Task("message", d, i)}),
      handler   |-> At(frames[q], HandlersOf(d, i)),
      owed      |-> owed[d] \cap {i},
      reply     |-> At(itasks[q], SendsOf(d, "reply", i)),
      back      |-> At(wire[c], MessagesOf("reply", i)),
      unmatched |-> At(replies[p], RepliesOf(c, i))]

\* q: for each place, where in it a call is.
Single(q) ==
  /\ \A x \in Place : Lone(q[x])
  /\ \A x, y \in Place : q[x] # {} /\ q[y] # {} => x = y

OnePlace ==
  \A c \in Ctx, i \in Ids :
    Single(Spots(c, i)) /\ (nextId[Owner[c]] <= i => \A x \in Place : Spots(c, i)[x] = {})

\* The replies that unblock the Send on top, of pending Sends s.
TopReplies(s) == {r \in QueuedReply : s[r.ctx] # <<>> /\ Last(s[r.ctx]).id = r.id}
ReplyTasks    == {t \in IpcTask : t.kind = "replies"}

\* For each queued reply whose Send is on top, a DispatchReplies is queued.
Awaited ==
  \A p \in Proc : Cardinality(At(replies[p], TopReplies(deser)))
                    <= Cardinality(At(itasks[p], ReplyTasks))

\* Handlers of s are handlers of t, at the same places.
HandlersIn(s, t) == \A k \in DOMAIN s : s[k].kind = "handler" => k \in DOMAIN t /\ t[k] = s[k]

LEMMA AppendHandlersIn ==
  ASSUME NEW s \in Seq(Frame), NEW t, HandlersIn(s, t), NEW f \in Frame, f.kind # "handler"
  PROVE  HandlersIn(Append(s, f), t)
  BY AppendedElement DEF HandlersIn

LEMMA FrontHandlersIn ==
  ASSUME NEW s \in Seq(Frame), s # <<>>
  PROVE  Front(s) \in Seq(Frame) /\ HandlersIn(Front(s), s)
<1>1. /\ Front(s) \in Seq(Frame) /\ Len(Front(s)) = Len(s) - 1
      /\ \A l \in 1..(Len(s) - 1) : Front(s)[l] = s[l]
  BY FrontType
<1>2. DOMAIN s = 1..Len(s) /\ Len(s) \in Nat /\ DOMAIN Front(s) = 1..(Len(s) - 1)
  BY <1>1
<1>3. QED
  BY <1>1, <1>2 DEF HandlersIn

\* The steps that start a handler.
StartsHandler(p) ==
  \/ \E m \in mq[p], base \in Seq(Frame) :
       /\ DispatchMessage(p) /\ mq' = [mq EXCEPT ![p] = @ \ {m}] /\ HandlersIn(base, frames[p])
       /\ HandlerFrame(m.ctx, m.id) \in Frame
       /\ frames'[p] = Append(base, HandlerFrame(m.ctx, m.id))
  \/ /\ HeadTask(p, "message")
     /\ HandlerFrame(Head(ltasks[p]).ctx, Head(ltasks[p]).id) \in Frame
     /\ frames'[p] = Append(frames[p], HandlerFrame(Head(ltasks[p]).ctx, Head(ltasks[p]).id))

LEMMA FramesStep ==
  ASSUME TypeOK, CallStack, [Next]_vars, NEW p \in Proc, frames'[p] # frames[p]
  PROVE  HandlersIn(frames'[p], frames[p]) \/ StartsHandler(p)
<1> DEFINE s == frames[p]
<1>1. frames \in [Proc -> Seq(Frame)] /\ s \in Seq(Frame) /\ HandlersIn(s, s)
  BY DEF TypeOK, ProcTypeOK, HandlersIn
<1>2. ASSUME NEW q \in Proc, NEW f \in Frame, f.kind # "handler", Push(q, f)
      PROVE  HandlersIn(frames'[p], s)
  <2>1. frames'[p] = Append(s, f)
    BY <1>1, <1>2 DEF Push
  <2>2. QED
    BY <1>1, <1>2, <2>1, AppendHandlersIn
<1>3. ASSUME NEW q \in Proc, ~Idle(q), PopFrame(q) PROVE HandlersIn(frames'[p], s)
  <2>1. q = p /\ frames'[p] = Front(s) /\ s # <<>>
    BY <1>1, <1>3 DEF PopFrame, Idle
  <2>2. QED
    BY <1>1, <2>1, FrontHandlersIn
<1>4. ASSUME NEW q \in Proc, NEW c \in Ctx, NEW u \in UnblockFlags[q], BeginSend(q, c, u)
      PROVE  HandlersIn(frames'[p], s)
  <2> DEFINE w == WaitFrame(c, nextId[q])
             l == LoopFrame(c)
  <2>1. w \in Frame /\ l \in Frame /\ w.kind # "handler" /\ l.kind # "handler"
    <3>1. nextId[q] <= Budget[q] /\ nextId[q] \in 1..(MaxSends + 1)
      BY <1>4 DEF BeginSend, CanSend, TypeOK, ProcTypeOK
    <3>2. nextId[q] \in Ids
      BY <3>1, ConstantsAssumption DEF Ids
    <3>3. QED
      BY <3>2 DEF WaitFrame, LoopFrame, Frame
  <2>2. frames' = [frames EXCEPT ![q] = Append(Append(@, w), l)]
    BY <1>4 DEF BeginSend
  <2> HIDE DEF w, l
  <2>3. frames'[p] = Append(Append(s, w), l)
    BY <1>1, <2>2
  <2>4. Append(s, w) \in Seq(Frame) /\ HandlersIn(Append(s, w), s)
    BY <1>1, <2>1, AppendHandlersIn
  <2>5. QED
    BY <2>1, <2>3, <2>4, AppendHandlersIn
<1>5. ASSUME NEW q \in Proc, \/ \E ok \in ReplyResults : Reply(q, ok)
                             \/ ReturnWithoutReply(q) \/ DispatchEnd(q)
      PROVE  HandlersIn(frames'[p], s)
  BY <1>3, <1>5 DEF Reply, ReturnWithoutReply, DispatchEnd, TopIs
<1>6. ASSUME NEW q \in Proc, Crash(q) PROVE HandlersIn(frames'[p], s)
  <2>1. frames'[p] = <<>>
    BY <1>1, <1>6 DEF Crash
  <2>2. QED
    BY <2>1 DEF HandlersIn
<1>7. ASSUME NEW q \in Proc, SendReturns(q) \/ OnSendDone(q)
      PROVE  HandlersIn(frames'[p], s)
  <2>1. SendReturns(q) \/ QuitsLoop(q)
    BY <1>7 DEF OnSendDone, QuitsLoop
  <2>2. PICK stack, n : EndsAt(q, stack, n) /\ EndSend(q, stack)
    BY <2>1, SendEnds
  <2>3. frames'[p] = stack /\ q = p
    BY <1>1, <2>2 DEF EndSend
  <2>4. /\ stack \in Seq(Frame) /\ Len(stack) = n - 1 /\ n \in 1..Len(s)
        /\ \A k \in 1..(n - 1) : stack[k] = s[k]
    BY <1>1, <2>2, <2>3 DEF EndsAt
  <2>5. DOMAIN stack = 1..(n - 1) /\ DOMAIN s = 1..Len(s) /\ Len(s) \in Nat
    BY <1>1, <2>4
  <2>6. QED
    BY <2>3, <2>4, <2>5 DEF HandlersIn
<1>8. ASSUME NEW q \in Proc, DispatchMessage(q)
      PROVE  HandlersIn(frames'[p], s) \/ StartsHandler(p)
  <2> DEFINE m == FirstOf(Candidates(q, Top(q)))
             l == [Top(q) EXCEPT !.it = Following(mq[q], m), !.ver = version[q] + 1]
             b == Append(Front(frames[q]), l)
             h == HandlerFrame(m.ctx, m.id)
  <2>1. /\ ~Idle(q) /\ Top(q) \in Frame /\ Top(q).kind = "loop" /\ m \in mq[q]
        /\ m \in QueuedMessage
    BY <1>8, TurnTakes
  <2>2. /\ frames' = [frames EXCEPT ![q] = IF listener[m.ctx] THEN Append(b, h) ELSE b]
        /\ mq' = [mq EXCEPT ![q] = @ \ {m}]
    BY <1>8 DEF DispatchMessage
  <2>3. l \in Frame /\ l.kind = "loop"
    <3> DEFINE i == Following(mq[q], m)
               v == version[q] + 1
               f == Top(q)
    <3>1. i \in Nat /\ v \in Nat
      <4>1. mq[q] \in SUBSET QueuedMessage /\ version[q] \in Nat
        BY DEF TypeOK, QueueTypeOK
      <4>2. QED
        BY <2>1, <4>1, FollowingType
    <3>2. f \in [kind : {"loop"}, ctx : Ctx, id : {0}, it : Nat, ver : Nat]
      BY <2>1 DEF Frame
    <3> HIDE DEF i, v, f
    <3>3. [f EXCEPT !.it = i, !.ver = v] \in [kind : {"loop"}, ctx : Ctx, id : {0}, it : Nat, ver : Nat]
      BY <3>1, <3>2
    <3>4. QED
      BY <3>3 DEF Frame, i, v, f
  <2>4. h \in Frame
    BY <2>1, FrameForms DEF QueuedMessage
  <2> HIDE DEF l, h, m
  <2>5. /\ q = p /\ frames[q] \in Seq(Frame) /\ frames[q] # <<>>
        /\ frames'[p] = b \/ frames'[p] = Append(b, h)
    BY <1>1, <2>1, <2>2 DEF Idle
  <2>6. b \in Seq(Frame) /\ HandlersIn(b, s)
    <3>1. Front(s) \in Seq(Frame) /\ HandlersIn(Front(s), s)
      BY <2>5, FrontHandlersIn
    <3>2. QED
      BY <2>3, <2>5, <3>1, AppendHandlersIn
  <2> HIDE DEF b
  <2>7. CASE frames'[p] = b
    BY <2>6, <2>7
  <2>8. CASE frames'[p] = Append(b, h)
    <3>1. /\ m \in mq[p] /\ DispatchMessage(p) /\ mq' = [mq EXCEPT ![p] = @ \ {m}]
          /\ h \in Frame
      BY <1>8, <2>1, <2>2, <2>4, <2>5
    <3>2. h = HandlerFrame(m.ctx, m.id)
      BY DEF h
    <3>3. QED
      BY <2>6, <2>8, <3>1, <3>2 DEF StartsHandler
  <2>9. QED
    BY <2>5, <2>7, <2>8
<1>9. ASSUME NEW q \in Proc, OnDispatchMessage(q)
      PROVE  StartsHandler(p)
  <2> DEFINE t == Head(ltasks[q])
  <2>1. t.ctx \in Ctx /\ t.id \in Ids /\ HeadTask(q, "message")
    BY <1>9, HeadTaskType DEF OnDispatchMessage
  <2>2. HandlerFrame(t.ctx, t.id) \in Frame
    BY <2>1, FrameForms
  <2>3. frames' # frames
    OBVIOUS
  <2>4. Push(q, HandlerFrame(t.ctx, t.id))
    BY <1>9, <2>3 DEF OnDispatchMessage
  <2>5. q = p /\ frames'[p] = Append(frames[p], HandlerFrame(t.ctx, t.id))
    BY <1>1, <2>4 DEF Push
  <2>6. QED
    BY <2>1, <2>2, <2>5 DEF StartsHandler
<1>10. ASSUME NEW q \in Proc, \/ WaitDispatchEvent(q) \/ DispatchMessagesTask(q)
                              \/ OnWaitableEventSignaled(q)
       PROVE  HandlersIn(frames'[p], s)
  <2>1. PICK c \in Ctx : Push(q, LoopFrame(c))
    <3>1. CASE WaitDispatchEvent(q)
      BY <3>1, TopFrame DEF WaitDispatchEvent, TopIs, Top
    <3>2. CASE DispatchMessagesTask(q)
      BY <3>2, HeadTaskType DEF DispatchMessagesTask
    <3>3. CASE OnWaitableEventSignaled(q)
      BY <3>3, HeadTaskType DEF OnWaitableEventSignaled
    <3>4. QED
      BY <1>10, <3>1, <3>2, <3>3
  <2>2. LoopFrame(c) \in Frame /\ LoopFrame(c).kind # "handler"
    BY DEF LoopFrame, Frame
  <2>3. QED
    BY <1>2, <2>1, <2>2
<1>11. ASSUME NEW q \in Proc, PumpMessages(q) PROVE HandlersIn(frames'[p], s)
  <2> DEFINE f == PumpFrame(Top(q).ctx, Top(q).id, sendWatch[q].id)
  <2>1. Top(q).ctx \in Ctx /\ Top(q).id \in Ids
    BY <1>11, TopFrame DEF PumpMessages, TopIs, Top
  <2>2. sendWatch[q].id \in 0..MaxSends
    BY DEF TypeOK, QueueTypeOK
  <2>3. f \in Frame /\ f.kind # "handler"
    BY <2>1, <2>2 DEF PumpFrame, Frame
  <2>4. Push(q, f)
    BY <1>11 DEF PumpMessages
  <2>5. QED
    BY <1>2, <2>3, <2>4
<1>12. frames' # frames
  OBVIOUS
<1>13. QED
  BY <1>4, <1>5, <1>6, <1>7, <1>8, <1>9, <1>10, <1>11, <1>12, FramesChanges DEF ListenerStep

(***************************************************************************)
(* Home.                                                                   *)
(***************************************************************************)
LEMMA TopHandlerHome ==
  ASSUME TypeOK, Home, NEW p \in Proc, TopIs(p, "handler")
  PROVE  /\ Owner[Top(p).ctx] = p /\ Top(p).ctx \in Ctx /\ Top(p).id \in Ids
         /\ Top(p).kind = "handler" /\ Top(p) \in Frame
         /\ frames[p] \in Seq(Frame) /\ frames[p] # <<>> /\ Top(p) = Last(frames[p])
<1>1. /\ Top(p) = frames[p][Len(frames[p])] /\ Len(frames[p]) \in DOMAIN frames[p]
      /\ Top(p).ctx \in Ctx /\ Top(p).kind = "handler" /\ Top(p).id \in Ids
      /\ frames[p] \in Seq(Frame) /\ frames[p] # <<>> /\ Top(p) \in Frame
  BY TopFrame DEF TopIs, Top
<1>2. QED
  BY <1>1 DEF Home, Top

LEMMA ItasksHome ==
  ASSUME TypeOK, Home, [Next]_vars, NEW p \in Proc, NEW k \in DOMAIN itasks'[p],
         itasks'[p][k].kind = "send"
  PROVE  Owner[itasks'[p][k].ctx] = p
<1>1. itasks[p] \in Seq(IpcTask)
  BY DEF TypeOK, ProcTypeOK
<1>2. ASSUME NEW j \in DOMAIN itasks[p], itasks'[p][k] = itasks[p][j]
      PROVE  Owner[itasks'[p][k].ctx] = p
  BY <1>2 DEF Home
<1>3. CASE itasks'[p] = itasks[p]
  BY <1>2, <1>3
<1>4. CASE itasks'[p] = <<>>
  BY <1>4
<1>5. CASE itasks[p] # <<>> /\ itasks'[p] = Tail(itasks[p])
  BY <1>1, <1>2, <1>5, TailElement
<1>6. ASSUME NEW t \in IpcTask, itasks'[p] = Append(itasks[p], t), NewIpcTask(p, t),
             itasks'[p][k] = t
      PROVE  Owner[itasks'[p][k].ctx] = p
  <2>1. t.kind = "send"
    BY <1>6
  <2>2. \A c \in Ctx : \A m : SendTask(c, m).ctx = c
    BY DEF SendTask
  <2>3. ASSUME NEW ok \in BOOLEAN, Reply(p, ok), t = SendTask(Top(p).ctx, ReplyMsg(Top(p).id, ok))
        PROVE  Owner[t.ctx] = p
    BY <2>2, <2>3, TopHandlerHome DEF Reply
  <2>4. ASSUME NEW c \in Ctx, NEW i \in Ids, NEW ok \in BOOLEAN, SendDeferredReply(p, c, i, ok),
               t = SendTask(c, ReplyMsg(i, ok))
        PROVE  Owner[t.ctx] = p
    BY <2>2, <2>4 DEF SendDeferredReply
  <2>5. RepliesTask.kind = "replies"
    BY DEF RepliesTask
  <2>6. QED
    BY <1>6, <2>1, <2>2, <2>3, <2>4, <2>5 DEF NewIpcTask
<1>7. ASSUME NEW t \in IpcTask, itasks'[p] = Append(itasks[p], t), NewIpcTask(p, t)
      PROVE  Owner[itasks'[p][k].ctx] = p
  <2>1. (k \in DOMAIN itasks[p] /\ itasks'[p][k] = itasks[p][k]) \/ itasks'[p][k] = t
    BY <1>1, <1>7, AppendedElement
  <2>2. QED
    BY <1>2, <1>6, <1>7, <2>1
<1>8. QED
  BY <1>3, <1>4, <1>5, <1>7, ItasksStep

LEMMA LtasksHome ==
  ASSUME TypeOK, Home, [Next]_vars, NEW p \in Proc, NEW k \in DOMAIN ltasks'[p],
         ltasks'[p][k].kind = "message"
  PROVE  Owner[ltasks'[p][k].ctx] = p
<1>1. ltasks[p] \in Seq(ListenerTask)
  BY DEF TypeOK, ProcTypeOK
<1>2. ASSUME NEW j \in DOMAIN ltasks[p], ltasks'[p][k] = ltasks[p][j]
      PROVE  Owner[ltasks'[p][k].ctx] = p
  BY <1>2 DEF Home
<1>3. CASE ltasks'[p] = ltasks[p]
  BY <1>2, <1>3
<1>4. CASE ltasks'[p] = <<>>
  BY <1>4
<1>5. CASE ltasks[p] # <<>> /\ ltasks'[p] = Tail(ltasks[p])
  BY <1>1, <1>2, <1>5, TailElement
<1>6. ASSUME NEW t \in ListenerTask, ltasks'[p] = Append(ltasks[p], t),
             \/ t.kind # "message"
             \/ \E c \in Ctx : Owner[c] = p /\ t = Task("message", c, Head(wire[c]).id)
      PROVE  Owner[ltasks'[p][k].ctx] = p
  <2>1. (k \in DOMAIN ltasks[p] /\ ltasks'[p][k] = ltasks[p][k]) \/ ltasks'[p][k] = t
    BY <1>1, <1>6, AppendedElement
  <2>2. QED
    BY <1>2, <1>6, <2>1 DEF Task
<1>7. QED
  BY <1>3, <1>4, <1>5, <1>6, LtasksStep

LEMMA FramesHome ==
  ASSUME TypeOK, CallStack, Home, [Next]_vars, NEW p \in Proc, NEW k \in DOMAIN frames'[p],
         frames'[p][k].kind = "handler"
  PROVE  Owner[frames'[p][k].ctx] = p
<1>1. CASE \E j \in DOMAIN frames[p] : frames'[p][k] = frames[p][j]
  BY <1>1 DEF Home
<1>2. ASSUME NEW m \in mq[p], frames'[p][k] = HandlerFrame(m.ctx, m.id)
      PROVE  Owner[frames'[p][k].ctx] = p
  BY <1>2 DEF Home, HandlerFrame
<1>3. ASSUME HeadTask(p, "message"),
             frames'[p][k] = HandlerFrame(Head(ltasks[p]).ctx, Head(ltasks[p]).id)
      PROVE  Owner[frames'[p][k].ctx] = p
  <2>1. Head(ltasks[p]).kind = "message"
    BY <1>3 DEF HeadTask
  <2>2. 1 \in DOMAIN ltasks[p] /\ ltasks[p][1] = Head(ltasks[p])
    BY <1>3 DEF HeadTask, TypeOK, ProcTypeOK
  <2>3. QED
    BY <1>3, <2>1, <2>2 DEF Home, HandlerFrame
<1>4. QED
  BY <1>1, <1>2, <1>3, FramesFrom

LEMMA RepliesHome ==
  ASSUME TypeOK, Home, [Next]_vars, NEW p \in Proc, NEW k \in DOMAIN replies'[p]
  PROVE  Owner[replies'[p][k].ctx] = p
<1>1. replies[p] \in Seq(QueuedReply)
  BY DEF TypeOK, QueueTypeOK
<1>2. ASSUME NEW j \in DOMAIN replies[p], replies'[p][k] = replies[p][j]
      PROVE  Owner[replies'[p][k].ctx] = p
  BY <1>2 DEF Home
<1>3. CASE replies'[p] = replies[p]
  BY <1>2, <1>3
<1>4. CASE replies'[p] = <<>>
  BY <1>4
<1>5. ASSUME NEW j \in DOMAIN replies[p], replies'[p] = RemoveAt(replies[p], j)
      PROVE  Owner[replies'[p][k].ctx] = p
  BY <1>1, <1>2, <1>5, RemovedElement
<1>6. ASSUME NEW c \in Ctx, NEW ok \in BOOLEAN, ReceiveReply(c), Owner[c] = p,
             replies'[p] = Append(replies[p], [ctx |-> c, id |-> Head(wire[c]).id, ok |-> ok])
      PROVE  Owner[replies'[p][k].ctx] = p
  <2> DEFINE r == [ctx |-> c, id |-> Head(wire[c]).id, ok |-> ok]
  <2>1. Head(wire[c]).id \in Ids
    BY <1>6, ReceivedReply
  <2>2. r \in QueuedReply /\ r.ctx = c
    BY <2>1 DEF QueuedReply
  <2> HIDE DEF r
  <2>3. (k \in DOMAIN replies[p] /\ replies'[p][k] = replies[p][k]) \/ replies'[p][k] = r
    BY <1>1, <1>6, <2>2, AppendedElement DEF r
  <2>4. QED
    BY <1>2, <1>6, <2>2, <2>3
<1>7. QED
  BY <1>3, <1>4, <1>5, <1>6, RepliesStep

LEMMA NextHome ==
  ASSUME TypeOK, CallStack, Home, [Next]_vars
  PROVE  Home'
<1> SUFFICES ASSUME NEW p \in Proc
             PROVE  /\ \A k \in DOMAIN itasks'[p] :
                         itasks'[p][k].kind = "send" => Owner[itasks'[p][k].ctx] = p
                    /\ \A k \in DOMAIN ltasks'[p] :
                         ltasks'[p][k].kind = "message" => Owner[ltasks'[p][k].ctx] = p
                    /\ \A k \in DOMAIN frames'[p] :
                         frames'[p][k].kind = "handler" => Owner[frames'[p][k].ctx] = p
                    /\ \A k \in DOMAIN replies'[p] : Owner[replies'[p][k].ctx] = p
                    /\ \A m \in mq'[p] : Owner[m.ctx] = p
  BY DEF Home
<1>1. \A m \in mq'[p] : Owner[m.ctx] = p
  BY MqStep DEF Home
<1>2. QED
  BY <1>1, ItasksHome, LtasksHome, FramesHome, RepliesHome

LEMMA InitHome == Init => Home
<1>1. \A k \in DOMAIN <<>> : FALSE
  OBVIOUS
<1>2. QED
  BY <1>1 DEF Init, Home

(***************************************************************************)
(* From place to place.                                                    *)
(***************************************************************************)
LEMMA IpcTaskMoves ==
  ASSUME TypeOK, [Next]_vars, NEW p \in Proc, NEW M
  PROVE  \/ Shrinks(At(itasks[p], M), At(itasks'[p], M))
         \/ \E t \in M \cap IpcTask : /\ itasks'[p] = Append(itasks[p], t) /\ NewIpcTask(p, t)
                                      /\ At(itasks[p], M) = {} => Lone(At(itasks'[p], M))
<1>1. itasks[p] \in Seq(IpcTask)
  BY DEF TypeOK, ProcTypeOK
<1>2. CASE itasks'[p] = itasks[p]
  BY <1>2, ShrinksSelf
<1>3. CASE itasks'[p] = <<>>
  BY <1>3, AtEmpty, ShrinksSelf
<1>4. CASE itasks[p] # <<>> /\ itasks'[p] = Tail(itasks[p])
  BY <1>1, <1>4, TailShrinks
<1>5. ASSUME NEW t \in IpcTask, itasks'[p] = Append(itasks[p], t), t \notin M
      PROVE  Shrinks(At(itasks[p], M), At(itasks'[p], M))
  BY <1>1, <1>5, AppendShrinks, ShrinksSelf
<1>6. ASSUME NEW t \in IpcTask, itasks'[p] = Append(itasks[p], t)
      PROVE  At(itasks[p], M) = {} => Lone(At(itasks'[p], M))
  BY <1>1, <1>6, AppendShrinks
<1>7. QED
  BY <1>2, <1>3, <1>4, <1>5, <1>6, ItasksStep

LEMMA RequestMoves ==
  ASSUME TypeOK, [Next]_vars, NEW c \in Ctx, NEW i \in Ids
  PROVE  LET S == At(itasks[Owner[c]], SendsOf(c, "sync", i))
             T == At(itasks'[Owner[c]], SendsOf(c, "sync", i))
         IN \/ Shrinks(S, T)
            \/ /\ i = nextId[Owner[c]] /\ nextId'[Owner[c]] = i + 1
               /\ S = {} => Lone(T)
<1> DEFINE p == Owner[c]
           M == SendsOf(c, "sync", i)
<1>1. p \in Proc
  BY ConstantsAssumption
<1>2. ASSUME NEW t \in M \cap IpcTask, NewIpcTask(p, t)
      PROVE  i = nextId[p] /\ nextId'[p] = i + 1
  <2>1. t.kind = "send" /\ t.ctx = c /\ t.msg.type = "sync" /\ t.msg.id = i
    BY DEF SendsOf
  <2>2. \A d \in Ctx : \A u \in BOOLEAN : SendTask(d, SyncMsg(nextId[p], u)).msg.id = nextId[p]
    BY DEF SendTask, SyncMsg
  <2>3. \A d, n, ok : SendTask(d, ReplyMsg(n, ok)).msg.type = "reply"
    BY DEF SendTask, ReplyMsg
  <2>4. RepliesTask.kind = "replies"
    BY DEF RepliesTask
  <2>5. QED
    BY <1>2, <2>1, <2>2, <2>3, <2>4 DEF NewIpcTask
<1> HIDE DEF M
<1>3. QED
  BY <1>1, <1>2, IpcTaskMoves DEF M

LEMMA ReplyMoves ==
  ASSUME TypeOK, Home, [Next]_vars, NEW d \in Ctx, NEW i \in Ids
  PROVE  LET S == At(itasks[Owner[d]], SendsOf(d, "reply", i))
             T == At(itasks'[Owner[d]], SendsOf(d, "reply", i))
         IN \/ Shrinks(S, T)
            \/ /\ Moves(At(frames[Owner[d]], HandlersOf(d, i)),
                        At(frames'[Owner[d]], HandlersOf(d, i)), S, T)
               /\ owed' = owed
            \/ Moves(owed[d] \cap {i}, owed'[d] \cap {i}, S, T)
<1> DEFINE q == Owner[d]
           M == SendsOf(d, "reply", i)
           S == At(itasks[q], M)
           T == At(itasks'[q], M)
           H == HandlersOf(d, i)
<1>1. q \in Proc
  BY ConstantsAssumption
<1>2. ASSUME NEW t \in M \cap IpcTask, NewIpcTask(q, t)
      PROVE  \/ \E ok \in BOOLEAN : Reply(q, ok) /\ Top(q).ctx = d /\ Top(q).id = i
             \/ \E ok \in BOOLEAN : SendDeferredReply(q, d, i, ok)
  <2>1. t.kind = "send" /\ t.ctx = d /\ t.msg.type = "reply" /\ t.msg.id = i
    BY DEF SendsOf
  <2>2. \A c, n, u : SendTask(c, SyncMsg(n, u)).msg.type = "sync"
    BY DEF SendTask, SyncMsg
  <2>3. \A c, n, ok : SendTask(c, ReplyMsg(n, ok)).ctx = c /\ SendTask(c, ReplyMsg(n, ok)).msg.id = n
    BY DEF SendTask, ReplyMsg
  <2>4. RepliesTask.kind = "replies"
    BY DEF RepliesTask
  <2>5. QED
    BY <1>2, <2>1, <2>2, <2>3, <2>4 DEF NewIpcTask
<1>3. ASSUME NEW ok \in BOOLEAN, Reply(q, ok), Top(q).ctx = d, Top(q).id = i
      PROVE  /\ At(frames[q], H) # {} /\ (Lone(At(frames[q], H)) => At(frames'[q], H) = {})
             /\ owed' = owed
  <2>1. TopIs(q, "handler") /\ frames' = [frames EXCEPT ![q] = Front(@)] /\ owed' = owed
    BY <1>3 DEF Reply, PopFrame, ctxVars
  <2>2. /\ Top(q) \in Frame /\ Top(q).kind = "handler"
        /\ frames[q] \in Seq(Frame) /\ frames[q] # <<>> /\ Top(q) = Last(frames[q])
    BY <1>1, <2>1, TopHandlerHome
  <2>3. Last(frames[q]) \in H
    BY <1>3, <2>2 DEF HandlersOf
  <2>4. frames'[q] = Front(frames[q])
    BY <1>1, <2>1 DEF TypeOK, ProcTypeOK
  <2>5. QED
    BY <2>1, <2>2, <2>3, <2>4, FrontShrinks
<1>4. ASSUME NEW ok \in BOOLEAN, SendDeferredReply(q, d, i, ok)
      PROVE  owed[d] \cap {i} # {} /\ owed'[d] \cap {i} = {}
  BY <1>4 DEF SendDeferredReply, TypeOK, CtxTypeOK
<1> HIDE DEF M, H
<1>5. \/ Shrinks(S, T)
      \/ (S = {} => Lone(T)) /\ \E t \in M \cap IpcTask : NewIpcTask(q, t)
  BY <1>1, IpcTaskMoves
<1>6. QED
  BY <1>2, <1>3, <1>4, <1>5 DEF Moves, M, H

LEMMA WireMoves ==
  ASSUME TypeOK, Home, [Next]_vars, NEW c \in Ctx, NEW t \in {"sync", "reply"}, NEW i \in Ids
  PROVE  LET S == At(wire[c], MessagesOf(t, i))
             T == At(wire'[c], MessagesOf(t, i))
             d == Peer[c]
         IN \/ Shrinks(S, T)
            \/ Moves(At(itasks[Owner[d]], SendsOf(d, t, i)),
                     At(itasks'[Owner[d]], SendsOf(d, t, i)), S, T)
<1> DEFINE M == MessagesOf(t, i)
           S == At(wire[c], M)
           T == At(wire'[c], M)
           d == Peer[c]
           A == SendsOf(d, t, i)
<1>1. wire[c] \in Seq(Message) /\ d \in Ctx /\ Owner[d] \in Proc /\ itasks \in [Proc -> Seq(IpcTask)]
  BY ConstantsAssumption DEF TypeOK, ProcTypeOK
<1>2. ASSUME wire'[c] = wire[c] PROVE Shrinks(S, T)
  BY <1>2, ShrinksSelf
<1>3. ASSUME wire'[c] = <<>> PROVE Shrinks(S, T)
  BY <1>3, AtEmpty, ShrinksSelf
<1>4. ASSUME wire[c] # <<>>, wire'[c] = Tail(wire[c]) PROVE Shrinks(S, T)
  BY <1>1, <1>4, TailShrinks
<1>5. ASSUME NEW p \in Proc, itasks[p] # <<>>, itasks' = [itasks EXCEPT ![p] = Tail(@)],
             Head(itasks[p]) \in IpcTask, Head(itasks[p]).kind = "send",
             Head(itasks[p]).ctx = d, Head(itasks[p]).msg \in Message,
             wire'[c] = Append(wire[c], Head(itasks[p]).msg)
      PROVE  Shrinks(S, T) \/ Moves(At(itasks[Owner[d]], A), At(itasks'[Owner[d]], A), S, T)
  <2>1. 1 \in DOMAIN itasks[p] /\ itasks[p][1] = Head(itasks[p]) /\ itasks[p] \in Seq(IpcTask)
    BY <1>1, <1>5
  <2>2. Owner[d] = p
    BY <1>5, <2>1 DEF Home
  <2> DEFINE h == Head(itasks[p])
             e == h.msg
  <2>3. h \in IpcTask /\ h.kind = "send" /\ h.ctx = d /\ e \in Message
        /\ wire'[c] = Append(wire[c], e) /\ itasks'[p] = Tail(itasks[p])
    BY <1>1, <1>5
  <2>4. CASE e \notin M
    <3> HIDE DEF e, M
    <3>1. T = S
      BY <1>1, <2>3, <2>4, AppendShrinks
    <3>2. QED
      BY <3>1, ShrinksSelf
  <2>5. CASE e \in M
    <3>1. h \in A
      BY <2>3, <2>5 DEF SendsOf, MessagesOf
    <3> HIDE DEF A, h
    <3>2. At(itasks[p], A) # {} /\ (Lone(At(itasks[p], A)) => At(itasks'[p], A) = {})
      BY <1>5, <2>1, <2>3, <3>1, TailShrinks DEF h
    <3> HIDE DEF e, M
    <3>3. S = {} => Lone(T)
      BY <1>1, <2>3, AppendShrinks
    <3>4. QED
      BY <2>2, <3>2, <3>3 DEF Moves
  <2>6. QED
    BY <2>4, <2>5
<1> HIDE DEF A, M
<1>6. Shrinks(S, T) \/ Moves(At(itasks[Owner[d]], A), At(itasks'[Owner[d]], A), S, T)
  <2>1. \/ wire'[c] = wire[c] \/ wire'[c] = <<>> \/ (wire[c] # <<>> /\ wire'[c] = Tail(wire[c]))
        \/ \E p \in Proc :
             /\ itasks[p] # <<>> /\ itasks' = [itasks EXCEPT ![p] = Tail(@)]
             /\ Head(itasks[p]) \in IpcTask
             /\ Head(itasks[p]).kind = "send" /\ Head(itasks[p]).ctx = d
             /\ Head(itasks[p]).msg \in Message
             /\ wire'[c] = Append(wire[c], Head(itasks[p]).msg)
    BY WireStep
  <2>2. CASE \E p \in Proc :
               /\ itasks[p] # <<>> /\ itasks' = [itasks EXCEPT ![p] = Tail(@)]
               /\ Head(itasks[p]) \in IpcTask
               /\ Head(itasks[p]).kind = "send" /\ Head(itasks[p]).ctx = d
               /\ Head(itasks[p]).msg \in Message
               /\ wire'[c] = Append(wire[c], Head(itasks[p]).msg)
    BY <1>5, <2>2, Zenon
  <2>3. QED
    BY <1>2, <1>3, <1>4, <2>1, <2>2
<1>7. QED
  BY <1>6 DEF A, M

\* A synchronous message that the IPC thread takes off the pipe.
LEMMA RequestTaken ==
  ASSUME TypeOK, NEW d \in Ctx, Receive(d, "sync"), NEW i, i = Head(wire[d]).id
  PROVE  LET M == MessagesOf("sync", i)
         IN At(wire[d], M) # {} /\ (Lone(At(wire[d], M)) => At(wire'[d], M) = {})
<1> DEFINE M == MessagesOf("sync", i)
<1>1. wire[d] \in Seq(Message) /\ wire[d] # <<>> /\ wire'[d] = Tail(wire[d])
  BY DEF Receive, TypeOK, ProcTypeOK
<1>2. Head(wire[d]) \in M
  BY ReceiveType DEF MessagesOf
<1> HIDE DEF M
<1>3. QED
  BY <1>1, <1>2, TailShrinks DEF M

LEMMA QueuedMoves ==
  ASSUME TypeOK, [Next]_vars, NEW d \in Ctx, NEW i \in Ids
  PROVE  LET S == mq[Owner[d]] \cap QueuedOf(d, i)
             T == mq'[Owner[d]] \cap QueuedOf(d, i)
         IN \/ Shrinks(S, T)
            \/ /\ Moves(At(wire[d], MessagesOf("sync", i)), At(wire'[d], MessagesOf("sync", i)),
                        S, T)
               /\ ltasks' = ltasks
<1> DEFINE q == Owner[d]
           Q == QueuedOf(d, i)
           S == mq[q] \cap Q
           T == mq'[q] \cap Q
<1>1. q \in Proc
  BY ConstantsAssumption
<1>2. CASE mq'[q] \subseteq mq[q]
  <2>1. T \subseteq S
    BY <1>2
  <2>2. QED
    BY <2>1, ShrinksSelf
<1>3. ASSUME NEW c \in Ctx, QueueMessage(c),
             mq'[q] = mq[q] \cup {[ctx |-> c, id |-> Head(wire[c]).id, at |-> version[q] + 1]}
      PROVE  \/ Shrinks(S, T)
             \/ /\ Moves(At(wire[d], MessagesOf("sync", i)), At(wire'[d], MessagesOf("sync", i)),
                         S, T)
                /\ ltasks' = ltasks
  <2> DEFINE m == [ctx |-> c, id |-> Head(wire[c]).id, at |-> version[q] + 1]
  <2>1. m.ctx = c /\ m.id = Head(wire[c]).id /\ T \subseteq S \cup {m}
    BY <1>3
  <2>2. Receive(c, "sync") /\ ltasks' = ltasks
    BY <1>3 DEF QueueMessage
  <2> HIDE DEF m
  <2>3. CASE m \notin Q
    <3>1. T \subseteq S
      BY <2>1, <2>3
    <3>2. QED
      BY <3>1, ShrinksSelf
  <2>4. CASE m \in Q
    <3>1. c = d /\ i = Head(wire[d]).id
      BY <2>1, <2>4 DEF QueuedOf
    <3>2. S = {} => Lone(T)
      BY <2>1 DEF Lone
    <3>3. QED
      BY <2>2, <3>1, <3>2, RequestTaken DEF Moves
  <2>5. QED
    BY <2>3, <2>4
<1>4. QED
  BY <1>1, <1>2, <1>3, MqStep

LEMMA PostedMoves ==
  ASSUME TypeOK, [Next]_vars, NEW d \in Ctx, NEW i \in Ids
  PROVE  LET S == At(ltasks[Owner[d]], {Task("message", d, i)})
             T == At(ltasks'[Owner[d]], {Task("message", d, i)})
         IN \/ Shrinks(S, T)
            \/ /\ Moves(At(wire[d], MessagesOf("sync", i)), At(wire'[d], MessagesOf("sync", i)),
                        S, T)
               /\ mq' = mq
<1> DEFINE q == Owner[d]
           M == {Task("message", d, i)}
           S == At(ltasks[q], M)
           T == At(ltasks'[q], M)
<1>1. q \in Proc /\ ltasks[q] \in Seq(ListenerTask)
  BY ConstantsAssumption DEF TypeOK, ProcTypeOK
<1>2. CASE ltasks'[q] = ltasks[q]
  BY <1>2, ShrinksSelf
<1>3. CASE ltasks'[q] = <<>>
  BY <1>3, AtEmpty, ShrinksSelf
<1>4. CASE ltasks[q] # <<>> /\ ltasks'[q] = Tail(ltasks[q])
  BY <1>1, <1>4, TailShrinks
<1>5. ASSUME NEW t \in ListenerTask, ltasks'[q] = Append(ltasks[q], t), t \notin M
      PROVE  Shrinks(S, T)
  BY <1>1, <1>5, AppendShrinks, ShrinksSelf
<1>6. ASSUME NEW t \in ListenerTask, ltasks'[q] = Append(ltasks[q], t), t \in M,
             \/ t.kind # "message"
             \/ \E c \in Ctx : PostMessage(c) /\ t = Task("message", c, Head(wire[c]).id)
      PROVE  /\ Moves(At(wire[d], MessagesOf("sync", i)), At(wire'[d], MessagesOf("sync", i)),
                      S, T)
             /\ mq' = mq
  <2>1. t.kind = "message" /\ t.ctx = d /\ t.id = i
    BY <1>6 DEF Task
  <2>2. PICK c \in Ctx : PostMessage(c) /\ t = Task("message", c, Head(wire[c]).id)
    BY <1>6, <2>1
  <2>3. c = d /\ i = Head(wire[c]).id
    BY <2>1, <2>2 DEF Task
  <2>4. Receive(d, "sync") /\ mq' = mq
    BY <2>2, <2>3 DEF PostMessage, queueVars
  <2>5. S = {} => Lone(T)
    <3> HIDE DEF M
    <3>1. At(ltasks[q], M) = {} => Lone(At(Append(ltasks[q], t), M))
      BY <1>1, AppendShrinks
    <3>2. QED
      BY <1>6, <3>1
  <2>6. QED
    BY <2>3, <2>4, <2>5, RequestTaken DEF Moves
<1> HIDE DEF M, S, T
<1>7. QED
  BY <1>1, <1>2, <1>3, <1>4, <1>5, <1>6, LtasksStep DEF M, S, T

LEMMA HandlerMoves ==
  ASSUME TypeOK, CallStack, [Next]_vars, NEW d \in Ctx, NEW i \in Ids
  PROVE  LET q == Owner[d]
             S == At(frames[q], HandlersOf(d, i))
             T == At(frames'[q], HandlersOf(d, i))
         IN \/ Shrinks(S, T)
            \/ Moves(mq[q] \cap QueuedOf(d, i), mq'[q] \cap QueuedOf(d, i), S, T)
            \/ Moves(At(ltasks[q], {Task("message", d, i)}),
                     At(ltasks'[q], {Task("message", d, i)}), S, T)
<1> DEFINE q == Owner[d]
           H == HandlersOf(d, i)
           S == At(frames[q], H)
           T == At(frames'[q], H)
<1>1. q \in Proc /\ frames[q] \in Seq(Frame)
  BY ConstantsAssumption DEF TypeOK, ProcTypeOK
<1>2. ASSUME NEW s, HandlersIn(s, frames[q]) PROVE At(s, H) \subseteq S
  <2>1. \A f \in H : f.kind = "handler"
    BY DEF HandlersOf
  <2>2. QED
    BY <1>2, <2>1 DEF At, HandlersIn
<1>3. CASE frames'[q] = frames[q]
  BY <1>3, ShrinksSelf
<1>4. CASE HandlersIn(frames'[q], frames[q])
  BY <1>2, <1>4, ShrinksSelf
<1>5. ASSUME NEW m \in mq[q], NEW base \in Seq(Frame), mq' = [mq EXCEPT ![q] = @ \ {m}],
             HandlersIn(base, frames[q]), HandlerFrame(m.ctx, m.id) \in Frame,
             frames'[q] = Append(base, HandlerFrame(m.ctx, m.id))
      PROVE  \/ Shrinks(S, T)
             \/ Moves(mq[q] \cap QueuedOf(d, i), mq'[q] \cap QueuedOf(d, i), S, T)
  <2> DEFINE h == HandlerFrame(m.ctx, m.id)
  <2>1. h.ctx = m.ctx /\ h.id = m.id
    BY DEF HandlerFrame
  <2>2. mq[q] \in SUBSET QueuedMessage /\ mq'[q] = mq[q] \ {m}
    BY <1>1, <1>5 DEF TypeOK, QueueTypeOK
  <2>3. At(base, H) \subseteq S
    BY <1>2, <1>5
  <2>4. h \in H => m \in QueuedOf(d, i)
    BY <2>1, <2>2 DEF HandlersOf, QueuedOf
  <2> HIDE DEF h, H
  <2>5. CASE h \notin H
    <3>1. T = At(base, H)
      BY <1>5, <2>5, AppendShrinks DEF h
    <3>2. QED
      BY <2>3, <3>1, ShrinksSelf
  <2>6. CASE h \in H
    <3>1. S = {} => Lone(T)
      BY <1>5, <2>3, AppendShrinks DEF h
    <3>2. mq[q] \cap QueuedOf(d, i) # {}
          /\ (Lone(mq[q] \cap QueuedOf(d, i)) => mq'[q] \cap QueuedOf(d, i) = {})
      BY <2>2, <2>4, <2>6 DEF Lone
    <3>3. QED
      BY <3>1, <3>2 DEF Moves
  <2>7. QED
    BY <2>5, <2>6
<1>6. ASSUME HeadTask(q, "message"),
             HandlerFrame(Head(ltasks[q]).ctx, Head(ltasks[q]).id) \in Frame,
             frames'[q] = Append(frames[q], HandlerFrame(Head(ltasks[q]).ctx, Head(ltasks[q]).id))
      PROVE  \/ Shrinks(S, T)
             \/ Moves(At(ltasks[q], {Task("message", d, i)}),
                      At(ltasks'[q], {Task("message", d, i)}), S, T)
  <2> DEFINE t == Head(ltasks[q])
             h == HandlerFrame(t.ctx, t.id)
             M == {Task("message", d, i)}
  <2>1. h.ctx = t.ctx /\ h.id = t.id
    BY DEF HandlerFrame
  <2>2. t \in ListenerTask /\ t.kind = "message"
    BY <1>1, <1>6, HeadTaskType
  <2>3. h \in H => t \in M
    <3>1. t \in [kind : {"message", "sendDone"}, ctx : Ctx, id : Ids]
      BY <2>2 DEF ListenerTask
    <3> HIDE DEF t
    <3>2. t = [kind |-> t.kind, ctx |-> t.ctx, id |-> t.id]
      BY <3>1
    <3>3. QED
      BY <2>1, <2>2, <3>2 DEF HandlersOf, Task
  <2>4. ltasks[q] \in Seq(ListenerTask) /\ ltasks[q] # <<>> /\ ltasks'[q] = Tail(ltasks[q])
    BY <1>1, <1>6 DEF HeadTask, TypeOK, ProcTypeOK
  <2> HIDE DEF h, H, M
  <2>5. CASE h \notin H
    <3>1. T = S
      BY <1>1, <1>6, <2>5, AppendShrinks DEF h
    <3>2. QED
      BY <3>1, ShrinksSelf
  <2>6. CASE h \in H
    <3>1. S = {} => Lone(T)
      BY <1>1, <1>6, AppendShrinks DEF h
    <3>2. At(ltasks[q], M) # {} /\ (Lone(At(ltasks[q], M)) => At(ltasks'[q], M) = {})
      BY <2>3, <2>4, <2>6, TailShrinks
    <3>3. QED
      BY <3>1, <3>2 DEF Moves, M
  <2>7. QED
    BY <2>5, <2>6
<1> HIDE DEF H
<1>7. QED
  BY <1>1, <1>3, <1>4, <1>5, <1>6, FramesStep DEF StartsHandler, H

LEMMA OwedMoves ==
  ASSUME TypeOK, Home, [Next]_vars, NEW d \in Ctx, NEW i \in Ids
  PROVE  LET S == owed[d] \cap {i}
             T == owed'[d] \cap {i}
             q == Owner[d]
         IN \/ Shrinks(S, T)
            \/ /\ Moves(At(frames[q], HandlersOf(d, i)), At(frames'[q], HandlersOf(d, i)), S, T)
               /\ itasks' = itasks
<1> DEFINE q == Owner[d]
           H == HandlersOf(d, i)
           S == owed[d] \cap {i}
           T == owed'[d] \cap {i}
<1>1. CASE owed'[d] \subseteq owed[d]
  <2>1. T \subseteq S
    BY <1>1
  <2>2. QED
    BY <2>1, ShrinksSelf
<1>2. ASSUME NEW p \in Proc, ReturnWithoutReply(p), Top(p).ctx = d,
             owed'[d] = owed[d] \cup {Top(p).id}
      PROVE  \/ Shrinks(S, T)
             \/ Moves(At(frames[q], H), At(frames'[q], H), S, T) /\ itasks' = itasks
  <2>1. TopIs(p, "handler") /\ frames' = [frames EXCEPT ![p] = Front(@)] /\ itasks' = itasks
    BY <1>2 DEF ReturnWithoutReply, PopFrame
  <2>2. /\ Top(p) \in Frame /\ Top(p).kind = "handler" /\ q = p
        /\ frames[p] \in Seq(Frame) /\ frames[p] # <<>> /\ Top(p) = Last(frames[p])
    BY <1>2, <2>1, TopHandlerHome
  <2>3. frames'[p] = Front(frames[p])
    BY <2>1 DEF TypeOK, ProcTypeOK
  <2>4. CASE Top(p).id # i
    <3>1. T \subseteq S
      BY <1>2, <2>4
    <3>2. QED
      BY <3>1, ShrinksSelf
  <2>5. CASE Top(p).id = i
    <3>1. Last(frames[p]) \in H
      BY <1>2, <2>2, <2>5 DEF HandlersOf
    <3> HIDE DEF H
    <3>2. At(frames[p], H) # {} /\ (Lone(At(frames[p], H)) => At(frames'[p], H) = {})
      BY <2>2, <2>3, <3>1, FrontShrinks
    <3>3. Lone(T)
      BY DEF Lone
    <3>4. QED
      BY <2>1, <2>2, <3>2, <3>3 DEF Moves
  <2>6. QED
    BY <2>4, <2>5
<1>3. QED
  BY <1>1, <1>2, OwedStep

LEMMA UnmatchedMoves ==
  ASSUME TypeOK, [Next]_vars, NEW c \in Ctx, NEW i \in Ids
  PROVE  LET S == At(replies[Owner[c]], RepliesOf(c, i))
             T == At(replies'[Owner[c]], RepliesOf(c, i))
         IN \/ Shrinks(S, T)
            \/ Moves(At(wire[c], MessagesOf("reply", i)), At(wire'[c], MessagesOf("reply", i)), S, T)
<1> DEFINE p == Owner[c]
           M == RepliesOf(c, i)
           W == MessagesOf("reply", i)
           S == At(replies[p], M)
           T == At(replies'[p], M)
<1>1. p \in Proc /\ replies[p] \in Seq(QueuedReply)
  BY ConstantsAssumption DEF TypeOK, QueueTypeOK
<1>2. CASE replies'[p] = replies[p]
  BY <1>2, ShrinksSelf
<1>3. CASE replies'[p] = <<>>
  BY <1>3, AtEmpty, ShrinksSelf
<1>4. ASSUME NEW k \in DOMAIN replies[p], replies'[p] = RemoveAt(replies[p], k)
      PROVE  Shrinks(S, T)
  BY <1>1, <1>4, RemoveShrinks
<1>5. ASSUME NEW d \in Ctx, NEW ok \in BOOLEAN, ReceiveReply(d),
             replies'[p] = Append(replies[p], [ctx |-> d, id |-> Head(wire[d]).id, ok |-> ok])
      PROVE  Shrinks(S, T) \/ Moves(At(wire[c], W), At(wire'[c], W), S, T)
  <2> DEFINE r == [ctx |-> d, id |-> Head(wire[d]).id, ok |-> ok]
  <2>1. Receive(d, "reply")
    BY <1>5 DEF ReceiveReply
  <2>2. Head(wire[d]) \in Message /\ Head(wire[d]).type = "reply" /\ Head(wire[d]).id \in Ids
    BY <2>1, ReceiveType
  <2>3. r \in QueuedReply /\ r.ctx = d /\ r.id = Head(wire[d]).id
    BY <2>2 DEF QueuedReply
  <2>4. /\ wire[d] \in Seq(Message) /\ wire[d] # <<>> /\ wire'[d] = Tail(wire[d])
    BY <2>1 DEF Receive, TypeOK, ProcTypeOK
  <2>5. r \in M => d = c /\ Head(wire[c]) \in W
    BY <2>2, <2>3 DEF RepliesOf, MessagesOf
  <2>6. replies'[p] = Append(replies[p], r)
    BY <1>5
  <2> HIDE DEF r, M, W
  <2>7. CASE r \notin M
    <3>1. T = S
      BY <1>1, <2>3, <2>6, <2>7, AppendShrinks
    <3>2. QED
      BY <3>1, ShrinksSelf
  <2>8. CASE r \in M
    <3>1. S = {} => Lone(T)
      BY <1>1, <2>3, <2>6, AppendShrinks
    <3>2. At(wire[c], W) # {} /\ (Lone(At(wire[c], W)) => At(wire'[c], W) = {})
      BY <2>4, <2>5, <2>8, TailShrinks
    <3>3. QED
      BY <3>1, <3>2 DEF Moves
  <2>9. QED
    BY <2>7, <2>8
<1> HIDE DEF M, W
<1>6. QED
  BY <1>1, <1>2, <1>3, <1>4, <1>5, RepliesStep DEF M, W

(***************************************************************************)
(* A call is in one place at most.                                         *)
(***************************************************************************)
LEMMA RelayKeepsSingle ==
  ASSUME NEW q, NEW r, Single(q), NEW new \in BOOLEAN, new => \A x \in Place : q[x] = {},
         \/ Shrinks(q.request, r.request)
         \/ new /\ (q.request = {} => Lone(r.request)),
         \/ Shrinks(q.sent, r.sent)
         \/ Moves(q.request, r.request, q.sent, r.sent),
         \/ Shrinks(q.queued, r.queued)
         \/ Moves(q.sent, r.sent, q.queued, r.queued) /\ r.posted = q.posted,
         \/ Shrinks(q.posted, r.posted)
         \/ Moves(q.sent, r.sent, q.posted, r.posted) /\ r.queued = q.queued,
         \/ Shrinks(q.handler, r.handler)
         \/ Moves(q.queued, r.queued, q.handler, r.handler)
         \/ Moves(q.posted, r.posted, q.handler, r.handler),
         \/ Shrinks(q.owed, r.owed)
         \/ Moves(q.handler, r.handler, q.owed, r.owed) /\ r.reply = q.reply,
         \/ Shrinks(q.reply, r.reply)
         \/ Moves(q.handler, r.handler, q.reply, r.reply) /\ r.owed = q.owed
         \/ Moves(q.owed, r.owed, q.reply, r.reply),
         \/ Shrinks(q.back, r.back)
         \/ Moves(q.reply, r.reply, q.back, r.back),
         \/ Shrinks(q.unmatched, r.unmatched)
         \/ Moves(q.back, r.back, q.unmatched, r.unmatched)
  PROVE  /\ Single(r)
         /\ (\A x \in Place : q[x] = {}) /\ ~new => \A x \in Place : r[x] = {}
<1>1. \A x \in Place : Lone(q[x])
  BY DEF Single
<1>2. \/ \A x \in Place : q[x] = {}
      \/ \E z \in Place : q[z] # {} /\ \A x \in Place : x # z => q[x] = {}
  BY DEF Single
<1> SUFFICES /\ \A x \in Place : Lone(r[x])
             /\ \E z \in Place : \A x \in Place : x # z => r[x] = {}
             /\ (\A x \in Place : q[x] = {}) /\ ~new => \A x \in Place : r[x] = {}
  BY DEF Single
<1> DEFINE Only(z) == \A x \in Place : x # z => r[x] = {}
           Fine == \A x \in Place : Lone(r[x])
<1>3. CASE \A x \in Place : q[x] = {}
  <2>1. Fine /\ Only("request") /\ (~new => r.request = {})
    BY <1>1, <1>3 DEF Place, Shrinks, Moves
  <2>2. QED
    BY <1>3, <2>1 DEF Place
<1>4. ASSUME q.request # {}, \A x \in Place : x # "request" => q[x] = {}
      PROVE  Fine /\ (Only("request") \/ Only("sent"))
  BY <1>1, <1>4 DEF Place, Shrinks, Moves
<1>5. ASSUME q.sent # {}, \A x \in Place : x # "sent" => q[x] = {}
      PROVE  Fine /\ (Only("sent") \/ Only("queued") \/ Only("posted"))
  BY <1>1, <1>5 DEF Place, Shrinks, Moves
<1>6. ASSUME q.queued # {}, \A x \in Place : x # "queued" => q[x] = {}
      PROVE  Fine /\ (Only("queued") \/ Only("handler"))
  BY <1>1, <1>6 DEF Place, Shrinks, Moves
<1>7. ASSUME q.posted # {}, \A x \in Place : x # "posted" => q[x] = {}
      PROVE  Fine /\ (Only("posted") \/ Only("handler"))
  BY <1>1, <1>7 DEF Place, Shrinks, Moves
<1>8. ASSUME q.handler # {}, \A x \in Place : x # "handler" => q[x] = {}
      PROVE  Fine /\ (Only("handler") \/ Only("owed") \/ Only("reply"))
  BY <1>1, <1>8 DEF Place, Shrinks, Moves
<1>9. ASSUME q.owed # {}, \A x \in Place : x # "owed" => q[x] = {}
      PROVE  Fine /\ (Only("owed") \/ Only("reply"))
  BY <1>1, <1>9 DEF Place, Shrinks, Moves
<1>10. ASSUME q.reply # {}, \A x \in Place : x # "reply" => q[x] = {}
       PROVE  Fine /\ (Only("reply") \/ Only("back"))
  BY <1>1, <1>10 DEF Place, Shrinks, Moves
<1>11. ASSUME q.back # {}, \A x \in Place : x # "back" => q[x] = {}
       PROVE  Fine /\ (Only("back") \/ Only("unmatched"))
  BY <1>1, <1>11 DEF Place, Shrinks, Moves
<1>12. ASSUME q.unmatched # {}, \A x \in Place : x # "unmatched" => q[x] = {}
       PROVE  Fine /\ Only("unmatched")
  BY <1>1, <1>12 DEF Place, Shrinks, Moves
<1>13. ASSUME NEW z \in Place, q[z] # {}, \A x \in Place : x # z => q[x] = {}
       PROVE  /\ Fine /\ \E x \in Place : Only(x)
              /\ ~(\A x \in Place : q[x] = {})
  BY <1>4, <1>5, <1>6, <1>7, <1>8, <1>9, <1>10, <1>11, <1>12, <1>13 DEF Place
<1>14. QED
  BY <1>2, <1>3, <1>13

LEMMA NextOnePlace ==
  ASSUME TypeOK, CallStack, Home, OnePlace, [Next]_vars
  PROVE  OnePlace'
<1> SUFFICES ASSUME NEW c \in Ctx, NEW i \in Ids
             PROVE  /\ Single(Spots(c, i)')
                    /\ nextId'[Owner[c]] <= i => \A x \in Place : Spots(c, i)'[x] = {}
  BY DEF OnePlace
<1> DEFINE d == Peer[c]
           p == Owner[c]
           q == Spots(c, i)
           r == Spots(c, i)'
           new == i = nextId[p] /\ nextId'[p] = i + 1
<1>1. d \in Ctx /\ p \in Proc /\ Owner[d] \in Proc /\ Peer[d] = c
  BY ConstantsAssumption
<1>2. Single(q) /\ (nextId[p] <= i => \A x \in Place : q[x] = {})
  BY DEF OnePlace
<1>3. nextId[p] \in Nat /\ nextId'[p] \in Nat /\ nextId[p] <= nextId'[p] /\ i \in Nat
  BY <1>1, NextIdGrows DEF Ids
<1>4. \/ Shrinks(q.request, r.request)
      \/ new /\ (q.request = {} => Lone(r.request))
  BY RequestMoves DEF Spots
<1>5. \/ Shrinks(q.sent, r.sent)
      \/ Moves(q.request, r.request, q.sent, r.sent)
  BY <1>1, WireMoves DEF Spots
<1>6. \/ Shrinks(q.queued, r.queued)
      \/ Moves(q.sent, r.sent, q.queued, r.queued) /\ r.posted = q.posted
  BY <1>1, QueuedMoves DEF Spots
<1>7. \/ Shrinks(q.posted, r.posted)
      \/ Moves(q.sent, r.sent, q.posted, r.posted) /\ r.queued = q.queued
  BY <1>1, PostedMoves DEF Spots
<1>8. \/ Shrinks(q.handler, r.handler)
      \/ Moves(q.queued, r.queued, q.handler, r.handler)
      \/ Moves(q.posted, r.posted, q.handler, r.handler)
  BY <1>1, HandlerMoves DEF Spots
<1>9. \/ Shrinks(q.owed, r.owed)
      \/ Moves(q.handler, r.handler, q.owed, r.owed) /\ r.reply = q.reply
  BY <1>1, OwedMoves DEF Spots
<1>10. \/ Shrinks(q.reply, r.reply)
       \/ Moves(q.handler, r.handler, q.reply, r.reply) /\ r.owed = q.owed
       \/ Moves(q.owed, r.owed, q.reply, r.reply)
  BY <1>1, ReplyMoves DEF Spots
<1>11. \/ Shrinks(q.back, r.back)
       \/ Moves(q.reply, r.reply, q.back, r.back)
  BY <1>1, WireMoves DEF Spots
<1>12. \/ Shrinks(q.unmatched, r.unmatched)
       \/ Moves(q.back, r.back, q.unmatched, r.unmatched)
  BY <1>1, UnmatchedMoves DEF Spots
<1> HIDE DEF q, r, d, p
<1>13. new => \A x \in Place : q[x] = {}
  BY <1>2, <1>3
<1>14. new \in BOOLEAN
  OBVIOUS
<1> HIDE DEF new
<1>15. /\ Single(r)
       /\ (\A x \in Place : q[x] = {}) /\ ~new => \A x \in Place : r[x] = {}
  BY <1>2, <1>4, <1>5, <1>6, <1>7, <1>8, <1>9, <1>10, <1>11, <1>12, <1>13, <1>14, RelayKeepsSingle
<1>16. nextId'[p] <= i => nextId[p] <= i /\ ~new
  BY <1>3 DEF new
<1>17. QED
  BY <1>2, <1>15, <1>16 DEF p, r

LEMMA InitOnePlace == Init => OnePlace
<1> SUFFICES ASSUME Init, NEW c \in Ctx, NEW i \in Ids, NEW x \in Place
             PROVE  Spots(c, i)[x] = {}
  BY DEF OnePlace, Single, Lone
<1>1. Peer[c] \in Ctx /\ Owner[c] \in Proc /\ Owner[Peer[c]] \in Proc
  BY ConstantsAssumption
<1>2. QED
  BY <1>1, AtEmpty DEF Init, Spots, Place

(***************************************************************************)
(* As many DispatchReplies are queued as there are replies they can take.  *)
(***************************************************************************)
LEMMA ReplyTasksKept ==
  ASSUME TypeOK, [Next]_vars, NEW p \in Proc, ~DispatchReplies(p), ~Crash(p)
  PROVE  Cardinality(At(itasks[p], ReplyTasks)) <= Cardinality(At(itasks'[p], ReplyTasks))
<1>1. itasks[p] \in Seq(IpcTask)
  BY DEF TypeOK, ProcTypeOK
<1>2. Cardinality(At(itasks[p], ReplyTasks)) \in Nat
  BY <1>1, AtFinite
<1>3. CASE itasks'[p] = itasks[p]
  BY <1>2, <1>3
<1>4. CASE /\ itasks[p] # <<>> /\ itasks'[p] = Tail(itasks[p])
           /\ OnSendMessage(p) \/ OnChannelClosed(p)
  <2>1. Head(itasks[p]).kind # "replies"
    BY <1>4 DEF OnSendMessage, OnChannelClosed, HeadIpcTask
  <2>2. QED
    BY <1>1, <1>4, <2>1, CountTail DEF ReplyTasks
<1>5. ASSUME NEW t \in IpcTask, itasks'[p] = Append(itasks[p], t)
      PROVE  Cardinality(At(itasks[p], ReplyTasks)) <= Cardinality(At(itasks'[p], ReplyTasks))
  BY <1>1, <1>5, CountAppend
<1>6. QED
  BY <1>3, <1>4, <1>5, ItasksStep

LEMMA SameTop ==
  ASSUME NEW S, NEW s \in Seq(S), NEW t \in Seq(S), SameIds(s, t)
  PROVE  (s # <<>> <=> t # <<>>) /\ (s # <<>> => Last(s).id = Last(t).id)
<1>1. Len(s) = Len(t) /\ DOMAIN s = 1..Len(s) /\ Len(s) \in Nat
  BY DEF SameIds
<1>2. s # <<>> <=> t # <<>>
  BY <1>1
<1>3. s # <<>> => Len(s) \in DOMAIN s
  BY <1>1
<1>4. Last(s) = s[Len(s)] /\ Last(t) = t[Len(s)]
  BY <1>1 DEF Last
<1>5. QED
  BY <1>2, <1>3, <1>4 DEF SameIds

LEMMA SameTopReplies ==
  ASSUME TypeOK, TypeOK', SameCalls
  PROVE  TopReplies(deser') = TopReplies(deser)
<1>1. \A c \in Ctx : deser[c] \in Seq(PendingSend) /\ deser'[c] \in Seq(PendingSend)
  BY DEF TypeOK, CtxTypeOK
<1>2. \A c \in Ctx : /\ deser[c] # <<>> <=> deser'[c] # <<>>
                     /\ deser[c] # <<>> => Last(deser[c]).id = Last(deser'[c]).id
  BY <1>1, SameTop DEF SameCalls
<1>3. \A r \in QueuedReply : r.ctx \in Ctx
  BY DEF QueuedReply
<1>4. QED
  BY <1>2, <1>3 DEF TopReplies

\* Who changes the pending Sends of a context: its own process.
LEMMA OwnSends ==
  ASSUME TypeOK, CallStack, [Next]_vars, NEW c \in Ctx
  PROVE  \/ SameIds(deser[c], deser'[c])
         \/ Crash(Owner[c]) \/ SendReturns(Owner[c]) \/ QuitsLoop(Owner[c])
         \/ \E u \in UnblockFlags[Owner[c]] : BeginSend(Owner[c], c, u)
<1>1. deser \in [Ctx -> Seq(PendingSend)]
  BY DEF TypeOK, CtxTypeOK
<1>2. CASE SameCalls
  BY <1>2 DEF SameCalls
<1>3. CASE deser'[c] = deser[c]
  BY <1>3, SameSendsRefl
<1>4. ASSUME NEW p \in Proc, NEW d \in Ctx, NEW u \in UnblockFlags[p], BeginSend(p, d, u), d # c
      PROVE  deser'[c] = deser[c]
  BY <1>1, <1>4 DEF BeginSend
<1>5. ASSUME NEW p \in Proc, NEW d \in Ctx, NEW u \in UnblockFlags[p], BeginSend(p, d, u)
      PROVE  p = Owner[d]
  BY <1>5 DEF BeginSend, CanSend
<1>6. ASSUME NEW p \in Proc, NEW d \in Ctx, SendAfterShutdown(p, d)
      PROVE  deser'[c] = deser[c]
  BY <1>6 DEF SendAfterShutdown, ctxVars
<1>7. ASSUME NEW p \in Proc, Crash(p), p # Owner[c]
      PROVE  deser'[c] = deser[c]
  BY <1>1, <1>7 DEF Crash
<1>8. ASSUME NEW p \in Proc, SendReturns(p) \/ QuitsLoop(p), p # Owner[c]
      PROVE  deser'[c] = deser[c]
  <2>1. PICK stack, n : EndsAt(p, stack, n) /\ EndSend(p, stack) /\ alive[p]
    BY <1>8, SendEnds
  <2>2. deser[Top(p).ctx] # <<>> /\ deser' = [deser EXCEPT ![Top(p).ctx] = Front(@)]
    BY <2>1 DEF EndSend, Pop
  <2>3. Owner[Top(p).ctx] = p
    BY <2>1, <2>2, InnermostSend
  <2>4. QED
    BY <1>1, <1>8, <2>2, <2>3
<1>9. QED
  BY <1>2, <1>3, <1>4, <1>5, <1>6, <1>7, <1>8, QuietStep, StaleSendDone

\* A Send that begins has no reply yet, a reply to the Send on top is not queued.
LEMMA NoNewMatch ==
  ASSUME TypeOK, TypeOK', CallStack, Home, OnePlace, [Next]_vars, NEW p \in Proc,
         ~DispatchReplies(p), ~Crash(p), ~SendReturns(p), ~QuitsLoop(p)
  PROVE  At(replies'[p], TopReplies(deser')) \subseteq At(replies[p], TopReplies(deser))
<1>1. replies[p] \in Seq(QueuedReply)
  BY DEF TypeOK, QueueTypeOK
<1>2. \A c \in Ctx : deser[c] \in Seq(PendingSend) /\ deser'[c] \in Seq(PendingSend)
  BY DEF TypeOK, CtxTypeOK
<1>3. ASSUME NEW k \in DOMAIN replies[p], replies[p][k] \in TopReplies(deser')
      PROVE  replies[p][k] \in TopReplies(deser)
  <2> DEFINE r == replies[p][k]
             c == r.ctx
  <2>1. r \in QueuedReply /\ c \in Ctx /\ r.id \in Ids /\ Owner[c] = p
    <3>1. r \in QueuedReply
      BY <1>1
    <3>2. Owner[c] = p
      BY DEF Home
    <3>3. QED
      BY <3>1, <3>2 DEF QueuedReply
  <2>2. CASE SameIds(deser[c], deser'[c])
    BY <1>2, <1>3, <2>1, <2>2, SameTop DEF TopReplies
  <2>3. ASSUME NEW u \in UnblockFlags[p], BeginSend(p, c, u)
        PROVE  FALSE
    <3>1. deser'[c] = Append(deser[c], [id |-> nextId[p], done |-> FALSE, result |-> FALSE])
      BY <2>1, <2>3 DEF BeginSend, TypeOK, CtxTypeOK
    <3>2. Last(deser'[c]).id = nextId[p]
      BY <1>2, <2>1, <3>1 DEF Last
    <3>3. r.id = nextId[p]
      BY <1>3, <3>2 DEF TopReplies
    <3>4. Spots(c, r.id)["unmatched"] = {} /\ Spots(c, r.id)["unmatched"] = At(replies[p], RepliesOf(c, r.id))
      <4>1. nextId[p] <= r.id
        BY <2>1, <3>3 DEF Ids
      <4>2. Spots(c, r.id)["unmatched"] = {}
        BY <2>1, <4>1 DEF OnePlace, Place
      <4>3. QED
        BY <2>1, <4>2 DEF Spots
    <3>5. k \in At(replies[p], RepliesOf(c, r.id))
      BY <2>1 DEF At, RepliesOf
    <3>6. QED
      BY <3>4, <3>5
  <2>4. QED
    BY <2>1, <2>2, <2>3, OwnSends
<1>4. CASE replies'[p] = replies[p]
  BY <1>3, <1>4 DEF At
<1>5. ASSUME NEW c \in Ctx, NEW ok \in BOOLEAN, ReceiveReply(c), Owner[c] = p,
             ~IsTopSend(c, Head(wire[c]).id),
             replies'[p] = Append(replies[p], [ctx |-> c, id |-> Head(wire[c]).id, ok |-> ok])
      PROVE  At(replies'[p], TopReplies(deser')) \subseteq At(replies[p], TopReplies(deser))
  <2> DEFINE r == [ctx |-> c, id |-> Head(wire[c]).id, ok |-> ok]
  <2>1. TopReplies(deser') = TopReplies(deser)
    BY <1>5, UnblockSameCalls, SameTopReplies
  <2>2. r \in QueuedReply /\ r \notin TopReplies(deser)
    BY <1>5, ReceivedReply DEF QueuedReply, TopReplies, IsTopSend
  <2> HIDE DEF r
  <2>3. At(Append(replies[p], r), TopReplies(deser)) = At(replies[p], TopReplies(deser))
    BY <1>1, <2>2, AppendShrinks
  <2>4. QED
    BY <1>5, <2>1, <2>3 DEF r
<1>6. QED
  BY <1>4, <1>5, RepliesStep

\* A Send that ends uncovers another one: its reply may be queued, once.
LEMMA OneNewMatch ==
  ASSUME TypeOK, TypeOK', CallStack, Home, OnePlace, [Next]_vars, NEW p \in Proc,
         SendReturns(p) \/ QuitsLoop(p)
  PROVE  Cardinality(At(replies'[p], TopReplies(deser')))
           <= Cardinality(At(replies[p], TopReplies(deser))) + 1
<1>1. PICK stack, n : EndsAt(p, stack, n) /\ EndSend(p, stack) /\ alive[p]
  BY SendEnds
<1> DEFINE c == Top(p).ctx
           i == Last(Front(deser[c])).id
           U == At(replies[p], TopReplies(deser))
<1>2. /\ deser[c] # <<>> /\ deser' = [deser EXCEPT ![c] = Front(@)]
      /\ c \in Ctx /\ Owner[c] = p
  BY <1>1, InnermostSend DEF EndSend, Pop
<1>3. /\ deser[c] \in Seq(PendingSend) /\ Front(deser[c]) \in Seq(PendingSend)
      /\ replies[p] \in Seq(QueuedReply) /\ deser \in [Ctx -> Seq(PendingSend)]
  BY <1>2, FrontType DEF TypeOK, CtxTypeOK, QueueTypeOK
<1>4. replies' = replies
  BY DEF SendReturns, QuitsLoop, OnSendDone, queueVars
<1>5. deser'[c] = Front(deser[c]) /\ \A d \in Ctx : d # c => deser'[d] = deser[d]
  BY <1>2, <1>3
<1>6. ASSUME NEW k \in DOMAIN replies[p], replies[p][k] \in TopReplies(deser'), k \notin U
      PROVE  Front(deser[c]) # <<>> /\ k \in At(replies[p], RepliesOf(c, i))
  <2>1. replies[p][k] \in QueuedReply /\ replies[p][k].ctx \in Ctx
    <3>1. replies[p][k] \in QueuedReply
      BY <1>3
    <3>2. QED
      BY <3>1 DEF QueuedReply
  <2>2. replies[p][k].ctx = c
    BY <1>5, <1>6, <2>1 DEF At, TopReplies
  <2>3. QED
    BY <1>5, <1>6, <2>1, <2>2 DEF At, TopReplies, RepliesOf
<1>7. IsFiniteSet(U) /\ Cardinality(U) \in Nat
  BY <1>3, AtFinite
<1>8. CASE Front(deser[c]) = <<>>
  <2>1. At(replies'[p], TopReplies(deser')) \subseteq U \cup {} /\ Lone({})
    BY <1>4, <1>6, <1>8 DEF At, Lone
  <2>2. QED
    BY <1>7, <2>1, OneMore
<1>9. CASE Front(deser[c]) # <<>>
  <2>1. i \in Ids
    <3>1. Last(Front(deser[c])) \in PendingSend
      BY <1>3, <1>9, LastType
    <3>2. QED
      BY <3>1 DEF PendingSend
  <2>2. Lone(At(replies[p], RepliesOf(c, i)))
    <3>1. Lone(Spots(c, i)["unmatched"])
      BY <1>2, <2>1 DEF OnePlace, Single, Place
    <3>2. QED
      BY <1>2, <3>1 DEF Spots
  <2>3. At(replies'[p], TopReplies(deser')) \subseteq U \cup At(replies[p], RepliesOf(c, i))
    BY <1>4, <1>6 DEF At
  <2>4. QED
    BY <1>7, <2>2, <2>3, OneMore
<1>10. QED
  BY <1>8, <1>9

LEMMA ReplyTaskPosted ==
  ASSUME TypeOK, CallStack, NEW p \in Proc, SendReturns(p) \/ QuitsLoop(p)
  PROVE  Cardinality(At(itasks'[p], ReplyTasks)) = Cardinality(At(itasks[p], ReplyTasks)) + 1
<1>1. PICK stack, n : EndSend(p, stack)
  BY SendEnds
<1>2. itasks[p] \in Seq(IpcTask) /\ RepliesTask \in IpcTask /\ RepliesTask \in ReplyTasks
  BY DEF TypeOK, ProcTypeOK, RepliesTask, IpcTask, ReplyTasks
<1>3. itasks'[p] = Append(itasks[p], RepliesTask)
  BY <1>1 DEF EndSend, Pop, PostIpc, TypeOK, ProcTypeOK
<1>4. QED
  BY <1>2, <1>3, CountAppend

\* DispatchReplies takes a reply, or there was none to take.
LEMMA DispatchKeepsAwaited ==
  ASSUME TypeOK, TypeOK', [Next]_vars, NEW p \in Proc, DispatchReplies(p),
         Cardinality(At(replies[p], TopReplies(deser))) <= Cardinality(At(itasks[p], ReplyTasks))
  PROVE  Cardinality(At(replies'[p], TopReplies(deser'))) <= Cardinality(At(itasks'[p], ReplyTasks))
<1>1. /\ replies[p] \in Seq(QueuedReply) /\ itasks[p] \in Seq(IpcTask)
      /\ replies'[p] \in Seq(QueuedReply) /\ itasks'[p] \in Seq(IpcTask)
  BY DEF TypeOK, QueueTypeOK, ProcTypeOK
<1>2. itasks[p] # <<>> /\ itasks'[p] = Tail(itasks[p])
  BY DEF DispatchReplies, HeadIpcTask, TypeOK, ProcTypeOK
<1>3. TopReplies(deser') = TopReplies(deser)
  BY UnblockSameCalls, SameTopReplies
<1>4. \A k \in DOMAIN replies[p] : Unblocks(p, k) <=> replies[p][k] \in TopReplies(deser)
  BY <1>1 DEF Unblocks, IsTopSend, TopReplies
<1>5. /\ Cardinality(At(replies[p], TopReplies(deser))) \in Nat
      /\ Cardinality(At(replies'[p], TopReplies(deser))) \in Nat
      /\ Cardinality(At(itasks[p], ReplyTasks)) \in Nat
      /\ Cardinality(At(itasks'[p], ReplyTasks)) \in Nat
  BY <1>1, AtFinite
<1>6. Cardinality(At(itasks[p], ReplyTasks)) <= Cardinality(At(itasks'[p], ReplyTasks)) + 1
  BY <1>1, <1>2, CountTail
<1>7. ASSUME NEW k \in DOMAIN replies[p], Unblocks(p, k), replies'[p] = RemoveAt(replies[p], k)
      PROVE  Cardinality(At(replies'[p], TopReplies(deser'))) <= Cardinality(At(itasks'[p], ReplyTasks))
  <2>1. replies[p][k] \in TopReplies(deser)
    BY <1>4, <1>7
  <2>2. Cardinality(At(replies'[p], TopReplies(deser))) + 1
          <= Cardinality(At(replies[p], TopReplies(deser)))
    BY <1>1, <1>7, <2>1, CountRemove
  <2>3. QED
    BY <1>3, <1>5, <1>6, <2>2
<1>8. CASE \A k \in DOMAIN replies[p] : ~Unblocks(p, k)
  <2>1. replies' = replies
    BY <1>8 DEF DispatchReplies
  <2>2. At(replies'[p], TopReplies(deser')) = {}
    BY <1>3, <1>4, <1>8, <2>1 DEF At
  <2>3. QED
    BY <1>5, <2>2, FS_EmptySet
<1>9. CASE \E k \in DOMAIN replies[p] : Unblocks(p, k)
  <2>1. PICK k \in DOMAIN replies[p] :
          Unblocks(p, k) /\ replies' = [replies EXCEPT ![p] = RemoveAt(@, k)]
    BY <1>9 DEF DispatchReplies
  <2>2. replies'[p] = RemoveAt(replies[p], k)
    BY <2>1 DEF TypeOK, QueueTypeOK
  <2>3. QED
    BY <1>7, <2>1, <2>2
<1>10. QED
  BY <1>8, <1>9

LEMMA NextAwaited ==
  ASSUME TypeOK, TypeOK', CallStack, Home, OnePlace, Awaited, [Next]_vars
  PROVE  Awaited'
<1> SUFFICES ASSUME NEW p \in Proc
             PROVE  Cardinality(At(replies'[p], TopReplies(deser')))
                      <= Cardinality(At(itasks'[p], ReplyTasks))
  BY DEF Awaited
<1>1. Cardinality(At(replies[p], TopReplies(deser))) <= Cardinality(At(itasks[p], ReplyTasks))
  BY DEF Awaited
<1>2. /\ replies[p] \in Seq(QueuedReply) /\ itasks[p] \in Seq(IpcTask)
      /\ replies'[p] \in Seq(QueuedReply) /\ itasks'[p] \in Seq(IpcTask)
  BY DEF TypeOK, QueueTypeOK, ProcTypeOK
<1>3. /\ IsFiniteSet(At(replies[p], TopReplies(deser)))
      /\ Cardinality(At(replies[p], TopReplies(deser))) \in Nat
      /\ Cardinality(At(replies'[p], TopReplies(deser'))) \in Nat
      /\ Cardinality(At(itasks[p], ReplyTasks)) \in Nat
      /\ Cardinality(At(itasks'[p], ReplyTasks)) \in Nat
  BY <1>2, AtFinite
<1>4. CASE DispatchReplies(p)
  BY <1>1, <1>4, DispatchKeepsAwaited
<1>5. CASE Crash(p)
  <2>1. replies'[p] = <<>>
    BY <1>5 DEF Crash, TypeOK, QueueTypeOK
  <2>2. At(replies'[p], TopReplies(deser')) = {}
    BY <2>1, AtEmpty
  <2>3. Cardinality(At(replies'[p], TopReplies(deser'))) = 0
    BY <2>2, FS_EmptySet
  <2>4. QED
    BY <1>3, <2>3
<1>6. CASE SendReturns(p) \/ QuitsLoop(p)
  BY <1>1, <1>3, <1>6, OneNewMatch, ReplyTaskPosted
<1>7. CASE ~DispatchReplies(p) /\ ~Crash(p) /\ ~SendReturns(p) /\ ~QuitsLoop(p)
  <2>1. At(replies'[p], TopReplies(deser')) \subseteq At(replies[p], TopReplies(deser))
    BY <1>7, NoNewMatch
  <2>2. Cardinality(At(replies'[p], TopReplies(deser'))) <= Cardinality(At(replies[p], TopReplies(deser)))
    BY <1>3, <2>1, FS_Subset
  <2>3. Cardinality(At(itasks[p], ReplyTasks)) <= Cardinality(At(itasks'[p], ReplyTasks))
    BY <1>7, ReplyTasksKept
  <2>4. QED
    BY <1>1, <1>3, <2>2, <2>3
<1>8. QED
  BY <1>4, <1>5, <1>6, <1>7

LEMMA InitAwaited == Init => Awaited
<1> SUFFICES ASSUME Init, NEW p \in Proc
             PROVE  Cardinality(At(replies[p], TopReplies(deser))) <= Cardinality(At(itasks[p], ReplyTasks))
  BY DEF Awaited
<1>1. replies[p] = <<>> /\ itasks[p] = <<>>
  BY DEF Init
<1>2. At(replies[p], TopReplies(deser)) = {} /\ At(itasks[p], ReplyTasks) = {}
  BY <1>1, AtEmpty
<1>3. QED
  BY <1>2, FS_EmptySet

LEMMA AwaitedGives ==
  ASSUME TypeOK, Awaited
  PROVE  NoReplyStranded
<1> SUFFICES ASSUME NEW p \in Proc
             PROVE  Cardinality({k \in DOMAIN replies[p] :
                                   Unblocks(p, k) /\ ~Last(deser[replies[p][k].ctx]).done})
                      <= Cardinality({k \in DOMAIN itasks[p] : itasks[p][k].kind = "replies"})
  BY DEF NoReplyStranded
<1> DEFINE U == {k \in DOMAIN replies[p] : Unblocks(p, k) /\ ~Last(deser[replies[p][k].ctx]).done}
           T == {k \in DOMAIN itasks[p] : itasks[p][k].kind = "replies"}
<1>1. replies[p] \in Seq(QueuedReply) /\ itasks[p] \in Seq(IpcTask)
  BY DEF TypeOK, QueueTypeOK, ProcTypeOK
<1>2. U \subseteq At(replies[p], TopReplies(deser))
  BY <1>1 DEF At, TopReplies, Unblocks, IsTopSend
<1>3. T = At(itasks[p], ReplyTasks)
  BY <1>1 DEF At, ReplyTasks
<1>4. /\ IsFiniteSet(At(replies[p], TopReplies(deser)))
      /\ Cardinality(At(replies[p], TopReplies(deser))) \in Nat
      /\ Cardinality(At(itasks[p], ReplyTasks)) \in Nat
  BY <1>1, AtFinite
<1>5. IsFiniteSet(U) /\ Cardinality(U) <= Cardinality(At(replies[p], TopReplies(deser)))
  BY <1>2, <1>4, FS_Subset
<1>6. Cardinality(U) \in Nat
  BY <1>5, FS_CardinalityType
<1> HIDE DEF U, T
<1>7. Cardinality(U) <= Cardinality(T)
  BY <1>3, <1>4, <1>5, <1>6 DEF Awaited
<1>8. QED
  BY <1>7 DEF U, T

RepliesInv == IInv /\ Home /\ OnePlace /\ Awaited

LEMMA NextRepliesInv == RepliesInv /\ [Next]_vars => RepliesInv'
  BY NextIInv, NextHome, NextOnePlace, NextAwaited DEF RepliesInv, IInv

\* Replies reach the Send they belong to: none is taken for another Send of the call
\* stack, and one that comes in before its Send is the innermost is not left in
\* received_replies_ when the Sends above it end: the DispatchReplies that Pop posts
\* handle one reply each, and there are as many of them as replies they can deliver.
THEOREM RepliesCorrect == Spec => []RepliesMatched
<1>1. Init => RepliesInv
  BY InitIInv, InitHome, InitOnePlace, InitAwaited DEF RepliesInv
<1>2. RepliesInv => RepliesMatched
  BY AwaitedGives DEF RepliesInv, IInv, Answered, RepliesMatched
<1>3. QED
  BY <1>1, <1>2, NextRepliesInv, PTL DEF Spec
=============================================================================
