------------------------- MODULE ChannelWin_proofs -------------------------
(***************************************************************************)
(* Proofs about ChannelWin, for every bound.  First the operations: the    *)
(* pending flags always match what the kernel and the completion port      *)
(* hold, so that Close leaves nothing behind.  Then what arrives: the      *)
(* parts under way to an end are the rest of a run of messages, numbered   *)
(* one after the other.  A step of an end that takes parts from the head   *)
(* of the run and puts messages behind it keeps the invariant (StepInv).   *)
(* Last, ChannelWin implements MessagePipe: every action of the two ends,  *)
(* their message loops and the kernel is such a step, and a step of        *)
(* MessagePipe or none.                                                    *)
(***************************************************************************)
EXTENDS ChannelWin, TLAPS, FiniteSetTheorems, SequenceTheorems

Fields == {"obj", "pipe", "waiting", "validate", "secret", "inPending", "outPending", "outq",
           "overflow", "init", "closing", "inOp", "outOp", "port"}

\* The part of a channel's type the argument needs.
Shape(s) ==
  /\ DOMAIN s = Fields
  /\ s.inPending \in BOOLEAN /\ s.outPending \in BOOLEAN /\ s.init \in BOOLEAN
  /\ s.outq \in Seq(Message) /\ s.outOp \in Seq(Part) /\ s.port \in Seq(Packet)

Pending(s) == /\ Outstanding(s, "in", s.inOp # "none", s.inPending)
              /\ Outstanding(s, "out", s.outOp # <<>>, s.outPending)

\* Inductive: besides Pending, the initialization signal is posted only while no input
\* operation is outstanding, only a connected channel has operations, and the message
\* being written is still queued.
Good(s) == /\ Pending(s)
           /\ s.init => ~s.inPending
           /\ s.obj # "connected" => ~s.inPending /\ ~s.outPending
           /\ s.obj \in {"none", "created"} => ~s.init
           /\ s.outPending => s.outq # <<>>

IInv == /\ DOMAIN ch = End
        /\ \A e \in End : Shape(ch[e]) /\ Good(ch[e])
        /\ wire \in [End -> Seq(Part)]

Owed(q, io) == {k \in DOMAIN q : q[k].io = io}

LEMMA TailOwed ==
  ASSUME NEW q \in Seq(Packet), q # <<>>, NEW io
  PROVE  /\ Tail(q) \in Seq(Packet)
         /\ Head(q).io = io /\ (\A j, k \in Owed(q, io) : j = k) => Owed(Tail(q), io) = {}
         /\ Head(q).io # io => (Owed(Tail(q), io) = {} <=> Owed(q, io) = {})
         /\ (\A j, k \in Owed(q, io) : j = k) => \A j, k \in Owed(Tail(q), io) : j = k
<1>1. /\ Tail(q) \in Seq(Packet) /\ Len(q) \in Nat /\ Len(q) > 0 /\ Head(q) = q[1]
      /\ DOMAIN q = 1..Len(q) /\ DOMAIN Tail(q) = 1..(Len(q) - 1)
      /\ \A k \in 1..(Len(q) - 1) : Tail(q)[k] = q[k + 1]
  OBVIOUS
<1>2. \A k \in Owed(Tail(q), io) : k \in Nat /\ k >= 1 /\ k + 1 \in Owed(q, io)
  BY <1>1 DEF Owed
<1>3. Head(q).io = io => 1 \in Owed(q, io)
  BY <1>1 DEF Owed
<1>4. \A k \in Owed(q, io) : k \in Nat /\ (k # 1 => k - 1 \in Owed(Tail(q), io))
  BY <1>1 DEF Owed
<1>5. Head(q).io # io => 1 \notin Owed(q, io)
  BY <1>1 DEF Owed
<1>6. ASSUME \A j, k \in Owed(q, io) : j = k, NEW j \in Owed(Tail(q), io),
             NEW k \in Owed(Tail(q), io)
      PROVE  j = k
  BY <1>2, <1>6
<1>7. ASSUME Head(q).io = io, \A j, k \in Owed(q, io) : j = k PROVE Owed(Tail(q), io) = {}
  <2>1. SUFFICES ASSUME NEW k \in Owed(Tail(q), io) PROVE FALSE
    OBVIOUS
  <2>2. k + 1 = 1
    BY <1>2, <1>3, <1>7
  <2>3. QED
    BY <1>2, <2>2
<1>8. ASSUME Head(q).io # io PROVE Owed(Tail(q), io) = {} <=> Owed(q, io) = {}
  BY <1>2, <1>4, <1>5, <1>8
<1>9. QED
  BY <1>1, <1>6, <1>7, <1>8

LEMMA AppendOwed ==
  ASSUME NEW q \in Seq(Packet), NEW p \in Packet, NEW io
  PROVE  /\ Append(q, p) \in Seq(Packet)
         /\ p.io = io /\ Owed(q, io) = {} =>
              Owed(Append(q, p), io) # {} /\ \A j, k \in Owed(Append(q, p), io) : j = k
         /\ p.io # io => Owed(Append(q, p), io) = Owed(q, io)
<1>1. /\ Append(q, p) \in Seq(Packet) /\ Len(q) \in Nat
      /\ DOMAIN q = 1..Len(q) /\ DOMAIN Append(q, p) = 1..(Len(q) + 1)
      /\ \A k \in 1..Len(q) : Append(q, p)[k] = q[k]
      /\ Append(q, p)[Len(q) + 1] = p
  OBVIOUS
<1>2. p.io = io => Len(q) + 1 \in Owed(Append(q, p), io)
  BY <1>1 DEF Owed
<1>3. \A k \in Owed(Append(q, p), io) : k = Len(q) + 1 \/ k \in Owed(q, io)
  BY <1>1 DEF Owed
<1>4. \A k \in Owed(q, io) : k \in Owed(Append(q, p), io)
  BY <1>1 DEF Owed
<1>5. p.io # io => Len(q) + 1 \notin Owed(Append(q, p), io)
  BY <1>1 DEF Owed
<1>6. QED
  BY <1>1, <1>2, <1>3, <1>4, <1>5

LEMMA PartsType ==
  ASSUME NEW m \in Message
  PROVE  Parts(m) \in Seq(Part) /\ Parts(m) # <<>>
<1>1. m.n \in 0..MaxSends /\ m.size \in Nat /\ m.size >= 1
  <2>1. m.n \in 0..MaxSends /\ m.size \in Sizes \cup {1}
    BY DEF Message
  <2>2. \A z \in Sizes : z \in Nat /\ z # 0
    BY PipeAssumption
  <2>3. m.size \in Nat /\ m.size # 0
    BY <2>1, <2>2
  <2>4. QED
    BY <2>1, <2>3
<1>2. Parts(m) \in [1..m.size -> Part]
  BY <1>1 DEF Parts, Part
<1>3. Parts(m) \in Seq(Part)
  <2>1. m.size \in Nat
    BY <1>1
  <2> HIDE DEF Parts
  <2>2. QED
    BY <1>2, <2>1
<1>4. DOMAIN Parts(m) = 1..m.size
  BY DEF Parts
<1>5. Parts(m) # <<>>
  <2>1. Len(Parts(m)) \in Nat /\ DOMAIN Parts(m) = 1..Len(Parts(m))
    BY <1>3
  <2>2. Len(Parts(m)) # 0
    BY <1>1, <1>4, <2>1
  <2> HIDE DEF Parts
  <2>3. QED
    BY <2>2
<1>6. QED
  BY <1>3, <1>5

\* What each step of a handler makes of a channel object in good order.
LEMMA ReadDataGood ==
  ASSUME NEW s, Shape(s), Good(s), ~s.inPending, ~s.init, s.obj = "connected"
  PROVE  Shape(ReadData(s)) /\ Good(ReadData(s))
<1> DEFINE r == ReadData(s)
<1>1. /\ DOMAIN r = Fields /\ r.inPending = TRUE /\ r.inOp = "read"
      /\ r.port = s.port /\ r.init = s.init /\ r.obj = s.obj /\ r.outPending = s.outPending
      /\ r.outOp = s.outOp /\ r.outq = s.outq
  BY DEF ReadData, Shape, Fields
<1> HIDE DEF r
<1>2. Packets(s, "in") = {} /\ s.inOp = "none"
  BY DEF Good, Pending, Outstanding
<1>3. Packets(r, "in") = Packets(s, "in") /\ Packets(r, "out") = Packets(s, "out")
  BY <1>1 DEF Packets
<1>4. Good(r)
  BY <1>1, <1>2, <1>3 DEF Good, Pending, Outstanding
<1>5. Shape(r)
  BY <1>1 DEF Shape
<1>6. QED
  BY <1>4, <1>5 DEF r

LEMMA ProcessOutgoingGood ==
  ASSUME NEW e, NEW s, Shape(s), Good(s), ~s.outPending, s.obj = "connected"
  PROVE  LET r == ProcessOutgoing(e, s) IN
           /\ Shape(r) /\ Good(r)
           /\ r.inPending = s.inPending /\ r.init = s.init /\ r.obj = s.obj
<1> DEFINE r == ProcessOutgoing(e, s)
<1>1. CASE s.outq = <<>> \/ WriteFails(e, s)
  <2>1. r = s
    BY <1>1 DEF ProcessOutgoing
  <2>2. QED
    BY <2>1
<1>2. CASE ~(s.outq = <<>> \/ WriteFails(e, s))
  <2> DEFINE d == Parts(Head(s.outq))
  <2>1. Head(s.outq) \in Message
    BY <1>2 DEF Shape
  <2>2. d \in Seq(Part) /\ d # <<>>
    BY <2>1, PartsType
  <2>3. r = [s EXCEPT !.outPending = TRUE, !.outOp = d]
    BY <1>2 DEF ProcessOutgoing
  <2> HIDE DEF r, d
  <2>4. /\ DOMAIN r = Fields /\ r.outPending = TRUE /\ r.outOp = d
        /\ r.port = s.port /\ r.init = s.init /\ r.obj = s.obj /\ r.inPending = s.inPending
        /\ r.inOp = s.inOp /\ r.outq = s.outq
    BY <2>3 DEF Shape, Fields
  <2>5. Packets(s, "out") = {}
    BY DEF Good, Pending, Outstanding
  <2>6. Packets(r, "in") = Packets(s, "in") /\ Packets(r, "out") = Packets(s, "out")
    BY <2>4 DEF Packets
  <2>7. Good(r)
    BY <1>2, <2>2, <2>4, <2>5, <2>6 DEF Good, Pending, Outstanding
  <2>8. Shape(r)
    BY <2>2, <2>4 DEF Shape
  <2>9. QED
    BY <2>4, <2>7, <2>8 DEF r
<1>3. QED
  BY <1>1, <1>2

\* With the flag cleared, s is in good order: the connect has ended, or never began.
LEMMA ProcessConnectionGood ==
  ASSUME NEW e, NEW s, Shape(s), Good([s EXCEPT !.inPending = FALSE]), ~s.init,
         s.obj = "connected"
  PROVE  LET r == ProcessConnection(e, s) IN
           /\ Shape(r) /\ Good(r) /\ ~r.init /\ r.obj = "connected"
           /\ r.outPending = s.outPending
<1> DEFINE t == [s EXCEPT !.inPending = FALSE]
           r == ProcessConnection(e, s)
<1>1. /\ DOMAIN t = Fields /\ t.inPending = FALSE /\ t.outPending = s.outPending
      /\ t.port = s.port /\ t.init = s.init /\ t.obj = s.obj /\ t.inOp = s.inOp
      /\ t.outOp = s.outOp /\ t.outq = s.outq
  BY DEF Shape, Fields
<1>2. Good(t)
  OBVIOUS
<1> HIDE DEF t
<1>3. t.inOp = "none" /\ Packets(t, "in") = {}
  BY <1>1, <1>2 DEF Good, Pending, Outstanding
<1>4. \/ r = [s EXCEPT !.inPending = FALSE]
      \/ r = [s EXCEPT !.inPending = TRUE, !.inOp = "connect"]
      \/ r = [s EXCEPT !.inPending = FALSE, !.waiting = FALSE]
  BY DEF ProcessConnection
<1> HIDE DEF r
<1>5. /\ DOMAIN r = Fields /\ r.outPending = s.outPending /\ r.port = s.port
      /\ r.init = s.init /\ r.obj = s.obj /\ r.outOp = s.outOp /\ r.outq = s.outq
      /\ \/ r.inPending = FALSE /\ r.inOp = s.inOp
         \/ r.inPending = TRUE /\ r.inOp = "connect"
  BY <1>4 DEF Shape, Fields
<1>6. Packets(r, "in") = Packets(t, "in") /\ Packets(r, "out") = Packets(t, "out")
  BY <1>1, <1>5 DEF Packets
<1>7. Good(r)
  BY <1>1, <1>2, <1>3, <1>5, <1>6 DEF Good, Pending, Outstanding
<1>8. Shape(r)
  BY <1>5 DEF Shape
<1>9. QED
  BY <1>5, <1>7, <1>8 DEF r

\* What does not touch the operations keeps a channel object in good order.
LEMMA SameOperations ==
  ASSUME NEW s, NEW r, Shape(s), Good(s), DOMAIN r = Fields, r.outq \in Seq(Message),
         s.outq # <<>> => r.outq # <<>>, r.port = s.port, r.inOp = s.inOp,
         r.outOp = s.outOp, r.inPending = s.inPending, r.outPending = s.outPending,
         r.init = s.init, r.obj = s.obj
  PROVE  Shape(r) /\ Good(r)
<1>1. Packets(r, "in") = Packets(s, "in") /\ Packets(r, "out") = Packets(s, "out")
  BY DEF Packets
<1>2. QED
  BY <1>1 DEF Good, Pending, Outstanding, Shape

LEMMA BeginCloseGood ==
  ASSUME NEW s, Shape(s), Good(s), NEW why
  PROVE  Shape(BeginClose(s, why)) /\ Good(BeginClose(s, why))
<1> DEFINE r == BeginClose(s, why)
<1>1. /\ DOMAIN r = Fields /\ r.inPending = s.inPending /\ r.outPending = s.outPending
      /\ r.port = s.port /\ r.init = s.init /\ r.obj = s.obj /\ r.inOp = s.inOp
      /\ r.outOp = s.outOp /\ r.outq = s.outq
  BY DEF BeginClose, Shape, Fields
<1>2. s.outq \in Seq(Message)
  BY DEF Shape
<1> HIDE DEF r
<1>3. QED
  BY <1>1, <1>2, SameOperations DEF r

LEMMA OtherEnd == \A e \in End : Other(e) \in End
  BY DEF End, Other

LEMMA PutInv ==
  ASSUME IInv, NEW e \in End, NEW s, Shape(s), Good(s), Put(e, s), wire' \in [End -> Seq(Part)]
  PROVE  IInv'
<1>1. DOMAIN ch' = End /\ \A f \in End : ch'[f] = IF f = e THEN s ELSE ch[f]
  BY DEF IInv, Put
<1>2. ASSUME NEW f \in End PROVE Shape(ch'[f]) /\ Good(ch'[f])
  BY <1>1 DEF IInv
<1>3. QED
  BY <1>1, <1>2 DEF IInv

LEMMA BrokenInv ==
  ASSUME IInv, NEW e \in End, NEW s, Shape(s), Good(s), Broken(e, s)
  PROVE  IInv'
<1>1. wire' \in [End -> Seq(Part)]
  BY DEF Broken, IInv
<1>2. CASE s.pipe = "open"
  <2>1. Put(e, BeginClose(s, "error"))
    BY <1>2 DEF Broken
  <2>2. QED
    BY <1>1, <2>1, BeginCloseGood, PutInv
<1>3. CASE s.pipe # "open"
  <2>1. Put(e, s)
    BY <1>3 DEF Broken
  <2>2. QED
    BY <1>1, <2>1, PutInv
<1>4. QED
  BY <1>2, <1>3

LEMMA ProcessIncomingInv ==
  ASSUME IInv, NEW e \in End, NEW s, Shape(s), Good(s), ~s.inPending, ~s.init,
         s.obj = "connected", ProcessIncoming(e, s)
  PROVE  IInv'
<1>1. CASE ReadFails(e, s)
  BY <1>1, BrokenInv DEF ProcessIncoming
<1>2. CASE ~ReadFails(e, s)
  <2>1. Put(e, ReadData(s)) /\ wire' = wire
    BY <1>2 DEF ProcessIncoming
  <2>2. QED
    BY <2>1, ReadDataGood, PutInv DEF IInv
<1>3. QED
  BY <1>1, <1>2

LEMMA ConnectedInv ==
  ASSUME IInv, NEW e \in End, NEW s, Shape(s), Good([s EXCEPT !.inPending = FALSE]), ~s.init,
         s.obj = "connected", Connected(e, s)
  PROVE  IInv'
<1> DEFINE c == ProcessConnection(e, s)
           q == IF c.outPending THEN c ELSE ProcessOutgoing(e, c)
<1>1. Shape(c) /\ Good(c) /\ ~c.init /\ c.obj = "connected"
  BY ProcessConnectionGood
<1>2. /\ Shape(q) /\ Good(q) /\ q.inPending = c.inPending
      /\ ~q.init /\ q.obj = "connected"
  <2>1. CASE c.outPending
    <3>1. q = c
      BY <2>1
    <3> HIDE DEF c, q
    <3>2. QED
      BY <1>1, <3>1
  <2>2. CASE ~c.outPending
    <3>1. q = ProcessOutgoing(e, c)
      BY <2>2
    <3> HIDE DEF c, q
    <3>2. LET r == ProcessOutgoing(e, c) IN
            Shape(r) /\ Good(r) /\ r.inPending = c.inPending /\ r.init = c.init /\ r.obj = c.obj
      BY <1>1, <2>2, ProcessOutgoingGood
    <3>3. QED
      BY <1>1, <3>1, <3>2
  <2>3. QED
    BY <2>1, <2>2
<1>3. \/ Put(e, c) /\ wire' = wire
      \/ Put(e, q) /\ wire' = wire
      \/ ~c.inPending /\ ProcessIncoming(e, q)
  BY DEF Connected
<1> HIDE DEF c, q
<1>4. wire' = wire => wire' \in [End -> Seq(Part)]
  BY DEF IInv
<1>5. CASE Put(e, c) /\ wire' = wire
  BY <1>1, <1>4, <1>5, PutInv
<1>6. CASE Put(e, q) /\ wire' = wire
  BY <1>2, <1>4, <1>6, PutInv
<1>7. CASE ~c.inPending /\ ProcessIncoming(e, q)
  BY <1>2, <1>7, ProcessIncomingInv
<1>8. QED
  BY <1>3, <1>5, <1>6, <1>7

LEMMA DispatchInputInv ==
  ASSUME IInv, NEW e \in End, NEW s, NEW data, Shape(s), Good(s), ~s.inPending, ~s.init,
         s.obj = "connected", DispatchInput(e, s, data)
  PROVE  IInv'
<1> DEFINE r(o, v) == [s EXCEPT !.overflow = o, !.validate = v]
           b == [s EXCEPT !.overflow = <<>>]
<1>1. ASSUME NEW o, NEW v
      PROVE  /\ Shape(r(o, v)) /\ Good(r(o, v))
             /\ ~r(o, v).inPending /\ ~r(o, v).init /\ r(o, v).obj = "connected"
  <2>1. LET t == r(o, v) IN
        /\ DOMAIN t = Fields /\ t.inPending = s.inPending /\ t.outPending = s.outPending
        /\ t.port = s.port /\ t.init = s.init /\ t.obj = s.obj /\ t.inOp = s.inOp
        /\ t.outOp = s.outOp /\ t.outq = s.outq /\ s.outq \in Seq(Message)
    BY DEF Shape, Fields
  <2> HIDE DEF r
  <2>2. QED
    BY <2>1, SameOperations
<1>2. Shape(b) /\ Good(b)
  <2>1. /\ DOMAIN b = Fields /\ b.inPending = s.inPending /\ b.outPending = s.outPending
        /\ b.port = s.port /\ b.init = s.init /\ b.obj = s.obj /\ b.inOp = s.inOp
        /\ b.outOp = s.outOp /\ b.outq = s.outq /\ s.outq \in Seq(Message)
    BY DEF Shape, Fields
  <2> HIDE DEF b
  <2>2. QED
    BY <2>1, SameOperations
<1>3. Broken(e, b) \/ Broken(e, s) \/ \E o, v : ProcessIncoming(e, r(o, v))
  BY Zenon DEF DispatchInput
<1>4. CASE Broken(e, b) \/ Broken(e, s)
  BY <1>2, <1>4, BrokenInv
<1>5. ASSUME NEW o, NEW v, ProcessIncoming(e, r(o, v)) PROVE IInv'
  <2> HIDE DEF r
  <2>1. QED
    BY <1>1, <1>5, ProcessIncomingInv
<1>6. QED
  BY <1>3, <1>4, <1>5

\* The completion, or the initialization signal, has been taken: with the flag cleared,
\* s is in good order.
LEMMA OnInputInv ==
  ASSUME IInv, NEW e \in End, NEW s, NEW data, Shape(s), Good([s EXCEPT !.inPending = FALSE]),
         ~s.init, s.obj = "connected", OnInput(e, s, data)
  PROVE  IInv'
<1> DEFINE r == [s EXCEPT !.inPending = FALSE]
<1>1. Shape(r) /\ Good(r) /\ ~r.inPending /\ ~r.init /\ r.obj = "connected"
  BY DEF Shape, Fields
<1>2. ~s.inPending => Shape(s) /\ Good(s)
  <2>1. ASSUME ~s.inPending
        PROVE  /\ DOMAIN s = Fields /\ r.inPending = s.inPending /\ r.outPending = s.outPending
               /\ r.port = s.port /\ r.init = s.init /\ r.obj = s.obj /\ r.inOp = s.inOp
               /\ r.outOp = s.outOp /\ r.outq = s.outq /\ s.outq \in Seq(Message)
    BY <2>1 DEF Shape, Fields
  <2> HIDE DEF r
  <2>2. QED
    BY <1>1, <2>1, SameOperations
<1>3. \/ Connected(e, s)
      \/ ~s.inPending /\ ProcessIncoming(e, s)
      \/ Broken(e, r) \/ ProcessIncoming(e, r) \/ DispatchInput(e, r, data)
  BY Zenon DEF OnInput
<1>4. CASE Connected(e, s)
  BY <1>4, ConnectedInv
<1>5. CASE ~s.inPending /\ ProcessIncoming(e, s)
  BY <1>2, <1>5, ProcessIncomingInv
<1> HIDE DEF r
<1>6. CASE Broken(e, r)
  BY <1>1, <1>6, BrokenInv
<1>7. CASE ProcessIncoming(e, r)
  BY <1>1, <1>7, ProcessIncomingInv
<1>8. CASE DispatchInput(e, r, data)
  BY <1>1, <1>8, DispatchInputInv
<1>9. QED
  BY <1>3, <1>4, <1>5, <1>6, <1>7, <1>8

(***************************************************************************)
(* Every action preserves IInv.                                            *)
(***************************************************************************)
LEMMA WireKept == ASSUME IInv, wire' = wire PROVE wire' \in [End -> Seq(Part)]
  BY DEF IInv

LEMMA CreateInv ==
  ASSUME IInv, NEW e \in End, NEW secret, Create(e, secret)
  PROVE  IInv'
<1> DEFINE h == <<[n |-> Hello, size |-> 1]>>
           r == [ch[e] EXCEPT !.obj = "created",
                              !.pipe = IF e = "server" \/ ch["server"].pipe = "open"
                                       THEN "open" ELSE @,
                              !.waiting = e = "server",
                              !.validate = e = "server" /\ Validate, !.secret = secret,
                              !.outq = IF e = "server" \/ ch["server"].pipe = "open"
                                       THEN h ELSE @]
<1>1. Put(e, r) /\ wire' = wire /\ ch[e].obj = "none"
  BY DEF Create
<1>2. Shape(ch[e]) /\ Good(ch[e])
  BY DEF IInv
<1>3. /\ DOMAIN r = Fields /\ r.inPending = ch[e].inPending /\ r.init = ch[e].init
      /\ r.outPending = ch[e].outPending /\ r.port = ch[e].port /\ r.inOp = ch[e].inOp
      /\ r.outOp = ch[e].outOp /\ r.outq \in {h, ch[e].outq} /\ r.obj = "created"
  BY <1>2 DEF Shape, Fields
<1>4. h \in Seq(Message)
  <2>1. 0 \in 0..MaxSends
    BY PipeAssumption
  <2>2. [n |-> Hello, size |-> 1] \in Message
    BY <2>1 DEF Message, Hello
  <2>3. QED
    BY <2>2
<1> HIDE DEF r, h
<1>5. Packets(r, "in") = Packets(ch[e], "in") /\ Packets(r, "out") = Packets(ch[e], "out")
  BY <1>3 DEF Packets
<1>6. Shape(r)
  BY <1>2, <1>3, <1>4 DEF Shape
<1>7. Good(r)
  BY <1>1, <1>2, <1>3, <1>5 DEF Good, Pending, Outstanding
<1>8. QED
  BY <1>1, <1>6, <1>7, WireKept, PutInv

LEMMA ConnectInv ==
  ASSUME IInv, NEW e \in End, Connect(e)
  PROVE  IInv'
<1> DEFINE s == [ch[e] EXCEPT !.obj = "connected"]
           s0 == [s EXCEPT !.init = FALSE]
           c == IF s.waiting THEN ProcessConnection(e, s) ELSE s
           i == [c EXCEPT !.init = ~c.inPending]
<1>1. /\ Shape(ch[e]) /\ Good(ch[e]) /\ ch[e].obj = "created" /\ wire' = wire
      /\ ~ch[e].init /\ ~ch[e].inPending /\ ~ch[e].outPending
  BY DEF IInv, Connect, Running, Good
<1>2. /\ DOMAIN s = Fields /\ s.inPending = ch[e].inPending /\ s.init = ch[e].init
      /\ s.outPending = ch[e].outPending /\ s.port = ch[e].port /\ s.inOp = ch[e].inOp
      /\ s.outOp = ch[e].outOp /\ s.outq = ch[e].outq /\ s.obj = "connected"
  BY <1>1 DEF Shape, Fields
<1>3. Shape(s) /\ Good(s)
  <2> HIDE DEF s
  <2>1. Packets(s, "in") = Packets(ch[e], "in") /\ Packets(s, "out") = Packets(ch[e], "out")
    BY <1>2 DEF Packets
  <2>2. QED
    BY <1>1, <1>2, <2>1 DEF Shape, Good, Pending, Outstanding
<1>4. Shape(c) /\ Good(c) /\ ~c.init /\ c.obj = "connected" /\ ~c.outPending
  <2>1. CASE s.waiting
    <3> DEFINE z == [s EXCEPT !.inPending = FALSE]
    <3>1. /\ DOMAIN z = Fields /\ z.inPending = s.inPending /\ z.init = s.init
          /\ z.outPending = s.outPending /\ z.port = s.port /\ z.inOp = s.inOp
          /\ z.outOp = s.outOp /\ z.outq = s.outq /\ z.obj = s.obj /\ s.outq \in Seq(Message)
      BY <1>1, <1>2, <1>3 DEF Shape, Fields
    <3> HIDE DEF s
    <3>2. Good(z)
      <4> HIDE DEF z
      <4>1. QED
        BY <1>3, <3>1, SameOperations
    <3>3. c = ProcessConnection(e, s)
      BY <2>1
    <3>4. QED
      BY <1>1, <1>2, <1>3, <3>2, <3>3, ProcessConnectionGood
  <2>2. CASE ~s.waiting
    <3>1. c = s
      BY <2>2
    <3> HIDE DEF c, s
    <3>2. QED
      BY <1>1, <1>2, <1>3, <3>1
  <2>3. QED
    BY <2>1, <2>2
<1>5. Put(e, IF s.pipe # "open" THEN s ELSE IF i.waiting THEN i ELSE ProcessOutgoing(e, i))
  BY DEF Connect
<1> HIDE DEF c
<1>6. /\ DOMAIN i = Fields /\ i.inPending = c.inPending /\ i.init = ~c.inPending
      /\ i.outPending = c.outPending /\ i.port = c.port /\ i.inOp = c.inOp
      /\ i.outOp = c.outOp /\ i.outq = c.outq /\ i.obj = c.obj
  BY <1>4 DEF Shape, Fields
<1> HIDE DEF i, s
<1>7. Shape(i) /\ Good(i)
  <2>1. Packets(i, "in") = Packets(c, "in") /\ Packets(i, "out") = Packets(c, "out")
    BY <1>6 DEF Packets
  <2>2. i.init \in BOOLEAN
    BY <1>6
  <2>3. QED
    BY <1>4, <1>6, <2>1, <2>2 DEF Shape, Good, Pending, Outstanding
<1>8. Shape(ProcessOutgoing(e, i)) /\ Good(ProcessOutgoing(e, i))
  BY <1>4, <1>6, <1>7, ProcessOutgoingGood
<1>9. QED
  BY <1>1, <1>3, <1>5, <1>7, <1>8, WireKept, PutInv

LEMMA SendInv ==
  ASSUME IInv, NEW e \in End, NEW size \in Sizes, sent[e] \in Nat, Send(e, size)
  PROVE  IInv'
<1> DEFINE m == [n |-> sent[e] + 1, size |-> size]
           s == [ch[e] EXCEPT !.outq = Append(@, m)]
<1>1. /\ Shape(ch[e]) /\ Good(ch[e]) /\ ch[e].obj = "connected" /\ wire' = wire
      /\ ch[e].outq \in Seq(Message)
  BY DEF IInv, Send, Running, Shape
<1>2. m \in Message
  BY PipeAssumption DEF Send, Message
<1>3. /\ DOMAIN s = Fields /\ s.inPending = ch[e].inPending /\ s.init = ch[e].init
      /\ s.outPending = ch[e].outPending /\ s.port = ch[e].port /\ s.inOp = ch[e].inOp
      /\ s.outOp = ch[e].outOp /\ s.outq = Append(ch[e].outq, m) /\ s.obj = ch[e].obj
  BY <1>1 DEF Shape, Fields
<1>4. Put(e, IF s.waiting \/ s.outPending THEN s ELSE ProcessOutgoing(e, s))
  BY DEF Send
<1> HIDE DEF m, s
<1>5. s.outq \in Seq(Message) /\ s.outq # <<>>
  BY <1>1, <1>2, <1>3
<1>6. Shape(s) /\ Good(s)
  BY <1>1, <1>3, <1>5, SameOperations
<1>7. ~s.outPending => Shape(ProcessOutgoing(e, s)) /\ Good(ProcessOutgoing(e, s))
  BY <1>1, <1>3, <1>6, ProcessOutgoingGood
<1>8. QED
  BY <1>1, <1>4, <1>6, <1>7, WireKept, PutInv

LEMMA InitSignalInv ==
  ASSUME IInv, NEW e \in End, InitSignal(e)
  PROVE  IInv'
<1> DEFINE s == [ch[e] EXCEPT !.init = FALSE]
           z == [s EXCEPT !.inPending = FALSE]
<1>1. /\ Shape(ch[e]) /\ Good(ch[e]) /\ ch[e].obj = "connected" /\ ch[e].init
      /\ ~ch[e].inPending /\ OnInput(e, s, <<>>)
  BY DEF IInv, InitSignal, Running, Good
<1>2. /\ DOMAIN z = Fields /\ z.inPending = FALSE /\ z.init = FALSE
      /\ z.outPending = ch[e].outPending /\ z.port = ch[e].port /\ z.inOp = ch[e].inOp
      /\ z.outOp = ch[e].outOp /\ z.outq = ch[e].outq /\ z.obj = ch[e].obj
  BY <1>1 DEF Shape, Fields
<1>3. Shape(s) /\ ~s.init /\ s.obj = "connected"
  BY <1>1 DEF Shape, Fields
<1>4. Good(z)
  <2> HIDE DEF z
  <2>1. Packets(z, "in") = Packets(ch[e], "in") /\ Packets(z, "out") = Packets(ch[e], "out")
    BY <1>2 DEF Packets
  <2>2. QED
    BY <1>1, <1>2, <2>1 DEF Shape, Good, Pending, Outstanding
<1> HIDE DEF s
<1>5. QED
  BY <1>1, <1>3, <1>4, OnInputInv

LEMMA InputCompletedInv ==
  ASSUME IInv, NEW e \in End, InputCompleted(e)
  PROVE  IInv'
<1> DEFINE q == ch[e].port
           s == [ch[e] EXCEPT !.port = Tail(@)]
           z == [s EXCEPT !.inPending = FALSE]
<1>1. /\ Shape(ch[e]) /\ Good(ch[e]) /\ OnInput(e, s, Head(q).data)
      /\ q # <<>> /\ Head(q).io = "in" /\ q \in Seq(Packet)
  BY DEF IInv, InputCompleted, NextPacket, Shape
<1>2. 1 \in Owed(q, "in")
  BY <1>1 DEF Owed
<1>3. /\ \A io : Packets(ch[e], io) = Owed(q, io)
      /\ \A io : Packets(z, io) = Owed(Tail(q), io)
  BY <1>1 DEF Packets, Owed, Shape, Fields
<1>4. ch[e].inPending /\ ~ch[e].init /\ ch[e].obj = "connected" /\ ch[e].inOp = "none"
  <2>1. Packets(ch[e], "in") # {}
    BY <1>2, <1>3
  <2> HIDE DEF q
  <2>2. QED
    BY <1>1, <2>1 DEF Good, Pending, Outstanding
<1>5. /\ Tail(q) \in Seq(Packet) /\ Owed(Tail(q), "in") = {}
      /\ Owed(Tail(q), "out") = {} <=> Owed(q, "out") = {}
      /\ \A j, k \in Owed(Tail(q), "out") : j = k
  <2>1. \A io : \A j, k \in Owed(q, io) : (io \in {"in", "out"}) => j = k
    BY <1>1, <1>3 DEF Good, Pending, Outstanding
  <2> HIDE DEF q
  <2>2. QED
    BY <1>1, <2>1, TailOwed
<1>6. /\ DOMAIN z = Fields /\ z.inPending = FALSE /\ z.init = ch[e].init
      /\ z.outPending = ch[e].outPending /\ z.port = Tail(q) /\ z.inOp = ch[e].inOp
      /\ z.outOp = ch[e].outOp /\ z.outq = ch[e].outq /\ z.obj = ch[e].obj
  BY <1>1 DEF Shape, Fields
<1>7. Shape(s) /\ ~s.init /\ s.obj = "connected"
  BY <1>1, <1>4, <1>5 DEF Shape, Fields
<1> HIDE DEF z, q
<1>8. Good(z)
  BY <1>1, <1>3, <1>4, <1>5, <1>6 DEF Good, Pending, Outstanding
<1>9. QED
  <2>1. Good([s EXCEPT !.inPending = FALSE])
    BY <1>8 DEF z
  <2> HIDE DEF s
  <2>2. QED
    BY <1>1, <1>7, <2>1, OnInputInv

LEMMA OutputCompletedInv ==
  ASSUME IInv, NEW e \in End, OutputCompleted(e)
  PROVE  IInv'
<1> DEFINE q == ch[e].port
           s == [ch[e] EXCEPT !.port = Tail(@), !.outPending = FALSE]
           t == [s EXCEPT !.outq = Tail(@)]
<1>1. /\ Shape(ch[e]) /\ Good(ch[e]) /\ q # <<>> /\ Head(q).io = "out" /\ q \in Seq(Packet)
      /\ ch[e].outq \in Seq(Message)
  BY DEF IInv, OutputCompleted, NextPacket, Shape
<1>2. \/ Broken(e, s) \/ Broken(e, t)
      \/ Put(e, ProcessOutgoing(e, t)) /\ wire' = wire
  BY DEF OutputCompleted
<1>3. 1 \in Owed(q, "out")
  BY <1>1 DEF Owed
<1>4. /\ \A io : Packets(ch[e], io) = Owed(q, io)
      /\ \A io : Packets(s, io) = Owed(Tail(q), io)
      /\ \A io : Packets(t, io) = Owed(Tail(q), io)
  BY <1>1 DEF Packets, Owed, Shape, Fields
<1>5. /\ ch[e].outPending /\ ch[e].obj = "connected" /\ ch[e].outOp = <<>>
      /\ ch[e].outq # <<>>
  <2>1. Packets(ch[e], "out") # {}
    BY <1>3, <1>4
  <2> HIDE DEF q
  <2>2. QED
    BY <1>1, <2>1 DEF Good, Pending, Outstanding
<1>6. /\ Tail(q) \in Seq(Packet) /\ Owed(Tail(q), "out") = {}
      /\ Owed(Tail(q), "in") = {} <=> Owed(q, "in") = {}
      /\ \A j, k \in Owed(Tail(q), "in") : j = k
  <2>1. \A io : \A j, k \in Owed(q, io) : (io \in {"in", "out"}) => j = k
    BY <1>1, <1>4 DEF Good, Pending, Outstanding
  <2> HIDE DEF q
  <2>2. QED
    BY <1>1, <2>1, TailOwed
<1>7. /\ DOMAIN s = Fields /\ s.inPending = ch[e].inPending /\ s.init = ch[e].init
      /\ s.outPending = FALSE /\ s.port = Tail(q) /\ s.inOp = ch[e].inOp
      /\ s.outOp = ch[e].outOp /\ s.outq = ch[e].outq /\ s.obj = ch[e].obj
  BY <1>1 DEF Shape, Fields
<1>8. /\ DOMAIN t = Fields /\ t.inPending = ch[e].inPending /\ t.init = ch[e].init
      /\ t.outPending = FALSE /\ t.port = Tail(q) /\ t.inOp = ch[e].inOp
      /\ t.outOp = ch[e].outOp /\ t.outq = Tail(ch[e].outq) /\ t.obj = ch[e].obj
  BY <1>1 DEF Shape, Fields
<1>9. Tail(ch[e].outq) \in Seq(Message)
  BY <1>1, <1>5
<1> HIDE DEF q, s, t
<1>10. Shape(s) /\ Good(s)
  BY <1>1, <1>4, <1>5, <1>6, <1>7 DEF Shape, Good, Pending, Outstanding
<1>11. Shape(t) /\ Good(t)
  BY <1>1, <1>4, <1>5, <1>6, <1>8, <1>9 DEF Shape, Good, Pending, Outstanding
<1>12. Shape(ProcessOutgoing(e, t)) /\ Good(ProcessOutgoing(e, t))
  BY <1>5, <1>8, <1>11, ProcessOutgoingGood
<1>13. CASE Broken(e, s) \/ Broken(e, t)
  BY <1>10, <1>11, <1>13, BrokenInv
<1>14. CASE Put(e, ProcessOutgoing(e, t)) /\ wire' = wire
  BY <1>12, <1>14, WireKept, PutInv
<1>15. QED
  BY <1>2, <1>13, <1>14

LEMMA CloseInv ==
  ASSUME IInv, NEW e \in End, NEW why, Close(e, why)
  PROVE  IInv'
<1>1. Shape(ch[e]) /\ Good(ch[e]) /\ Put(e, BeginClose(ch[e], why))
  BY DEF IInv, Close
<1>2. wire' \in [End -> Seq(Part)]
  BY DEF IInv, Close
<1>3. QED
  BY <1>1, <1>2, BeginCloseGood, PutInv

LEMMA CloseDoneInv ==
  ASSUME IInv, NEW e \in End, CloseDone(e)
  PROVE  IInv'
<1> DEFINE r == [ch[e] EXCEPT !.outq = <<>>, !.closing = "no",
                              !.obj = IF ch[e].closing = "destroy" THEN "gone" ELSE @]
<1>1. /\ Shape(ch[e]) /\ Good(ch[e]) /\ Put(e, r) /\ wire' = wire
      /\ ~ch[e].inPending /\ ~ch[e].outPending
  BY DEF IInv, CloseDone
<1>2. /\ DOMAIN r = Fields /\ r.inPending = ch[e].inPending /\ r.init = ch[e].init
      /\ r.outPending = ch[e].outPending /\ r.port = ch[e].port /\ r.inOp = ch[e].inOp
      /\ r.outOp = ch[e].outOp /\ r.outq = <<>> /\ r.obj \in {ch[e].obj, "gone"}
  BY <1>1 DEF Shape, Fields
<1> HIDE DEF r
<1>3. Packets(r, "in") = Packets(ch[e], "in") /\ Packets(r, "out") = Packets(ch[e], "out")
  BY <1>2 DEF Packets
<1>4. Shape(r) /\ Good(r)
  BY <1>1, <1>2, <1>3 DEF Shape, Good, Pending, Outstanding
<1>5. QED
  BY <1>1, <1>4, WireKept, PutInv

\* The kernel ends the operation on input_state_ with a packet.
LEMMA InputEnds ==
  ASSUME IInv, NEW e \in End, ch[e].inOp # "none", NEW data \in Seq(Part),
         Complete(e, [ch[e] EXCEPT !.inOp = "none"], InPacket(data)),
         wire' \in [End -> Seq(Part)]
  PROVE  IInv'
<1> DEFINE s == [ch[e] EXCEPT !.inOp = "none"]
           p == InPacket(data)
           r == [s EXCEPT !.port = Append(@, p)]
<1>1. Shape(ch[e]) /\ Good(ch[e]) /\ Put(e, r) /\ ch[e].port \in Seq(Packet)
  BY DEF IInv, Complete, Shape
<1>2. p \in Packet /\ p.io = "in"
  BY DEF InPacket, Packet
<1>3. /\ DOMAIN r = Fields /\ r.inPending = ch[e].inPending /\ r.init = ch[e].init
      /\ r.outPending = ch[e].outPending /\ r.port = Append(ch[e].port, p)
      /\ r.inOp = "none" /\ r.outOp = ch[e].outOp /\ r.outq = ch[e].outq
      /\ r.obj = ch[e].obj
  BY <1>1 DEF Shape, Fields
<1> HIDE DEF r, p
<1>4. /\ \A io : Packets(ch[e], io) = Owed(ch[e].port, io)
      /\ \A io : Packets(r, io) = Owed(Append(ch[e].port, p), io)
  BY <1>3 DEF Packets, Owed
<1>5. ch[e].inPending /\ Owed(ch[e].port, "in") = {}
  BY <1>1, <1>4 DEF Good, Pending, Outstanding
<1>6. /\ Append(ch[e].port, p) \in Seq(Packet)
      /\ Owed(Append(ch[e].port, p), "in") # {}
      /\ \A j, k \in Owed(Append(ch[e].port, p), "in") : j = k
      /\ Owed(Append(ch[e].port, p), "out") = Owed(ch[e].port, "out")
  <2>1. /\ Owed(Append(ch[e].port, p), "in") # {}
        /\ \A j, k \in Owed(Append(ch[e].port, p), "in") : j = k
    <3>1. p.io = "in" /\ Owed(ch[e].port, "in") = {} /\ p \in Packet
          /\ ch[e].port \in Seq(Packet)
      BY <1>1, <1>2, <1>5
    <3>2. QED
      BY ONLY <3>1, AppendOwed
  <2>2. /\ Append(ch[e].port, p) \in Seq(Packet)
        /\ Owed(Append(ch[e].port, p), "out") = Owed(ch[e].port, "out")
    <3>1. p.io # "out" /\ p \in Packet /\ ch[e].port \in Seq(Packet)
      BY <1>1, <1>2
    <3>2. QED
      BY ONLY <3>1, AppendOwed
  <2>3. QED
    BY <2>1, <2>2
<1>7. Shape(r) /\ Good(r)
  BY <1>1, <1>3, <1>4, <1>5, <1>6 DEF Shape, Good, Pending, Outstanding
<1>8. QED
  BY <1>1, <1>7, PutInv

LEMMA EmptyParts == <<>> \in Seq(Part)
  OBVIOUS

LEMMA ClientArrivesInv ==
  ASSUME IInv, ClientArrives
  PROVE  IInv'
<1>1. "server" \in End /\ ch["server"].inOp # "none"
  BY DEF End, ClientArrives
<1>2. Complete("server", [ch["server"] EXCEPT !.inOp = "none"], InPacket(<<>>)) /\ wire' = wire
  BY DEF ClientArrives
<1>3. QED
  BY <1>1, <1>2, EmptyParts, WireKept, InputEnds

LEMMA ReadCompletesInv ==
  ASSUME IInv, NEW e \in End, ReadCompletes(e)
  PROVE  IInv'
<1> DEFINE k == IF Len(wire[e]) < ReadBuf THEN Len(wire[e]) ELSE ReadBuf
           data == SubSeq(wire[e], 1, k)
           rest == SubSeq(wire[e], k + 1, Len(wire[e]))
<1>1. wire[e] \in Seq(Part) /\ Len(wire[e]) \in Nat /\ wire \in [End -> Seq(Part)]
  BY DEF IInv
<1>2. k \in Nat /\ k <= Len(wire[e])
  BY <1>1, PipeAssumption
<1> HIDE DEF k
<1>3. data \in Seq(Part)
  BY <1>1, <1>2
<1>4. rest \in Seq(Part)
  BY <1>1, <1>2
<1>5. wire' = [wire EXCEPT ![e] = rest] /\ ch[e].inOp # "none"
  BY DEF ReadCompletes, k
<1>6. Complete(e, [ch[e] EXCEPT !.inOp = "none"], InPacket(data))
  BY DEF ReadCompletes, k
<1> HIDE DEF data, rest
<1>7. wire' \in [End -> Seq(Part)]
  BY <1>1, <1>4, <1>5
<1>8. QED
  BY <1>3, <1>5, <1>6, <1>7, InputEnds

LEMMA InputFailsInv ==
  ASSUME IInv, NEW e \in End, InputFails(e)
  PROVE  IInv'
<1>1. /\ ch[e].inOp # "none" /\ wire' = wire
      /\ Complete(e, [ch[e] EXCEPT !.inOp = "none"], InPacket(<<>>))
  BY DEF InputFails
<1>2. QED
  BY <1>1, EmptyParts, WireKept, InputEnds

\* The kernel ends the write with a packet.
LEMMA OutputEnds ==
  ASSUME IInv, NEW e \in End, ch[e].outOp # <<>>, NEW ok \in BOOLEAN,
         Complete(e, [ch[e] EXCEPT !.outOp = <<>>], OutPacket(ok)),
         wire' \in [End -> Seq(Part)]
  PROVE  IInv'
<1> DEFINE s == [ch[e] EXCEPT !.outOp = <<>>]
           p == OutPacket(ok)
           r == [s EXCEPT !.port = Append(@, p)]
<1>1. Shape(ch[e]) /\ Good(ch[e]) /\ Put(e, r) /\ ch[e].port \in Seq(Packet)
  BY DEF IInv, Complete, Shape
<1>2. p \in Packet /\ p.io = "out"
  BY EmptyParts DEF OutPacket, Packet
<1>3. /\ DOMAIN r = Fields /\ r.inPending = ch[e].inPending /\ r.init = ch[e].init
      /\ r.outPending = ch[e].outPending /\ r.port = Append(ch[e].port, p)
      /\ r.inOp = ch[e].inOp /\ r.outOp = <<>> /\ r.outq = ch[e].outq
      /\ r.obj = ch[e].obj
  BY <1>1 DEF Shape, Fields
<1> HIDE DEF r, p
<1>4. /\ \A io : Packets(ch[e], io) = Owed(ch[e].port, io)
      /\ \A io : Packets(r, io) = Owed(Append(ch[e].port, p), io)
  BY <1>3 DEF Packets, Owed
<1>5. ch[e].outPending /\ Owed(ch[e].port, "out") = {}
  BY <1>1, <1>4 DEF Good, Pending, Outstanding
<1>6. /\ Append(ch[e].port, p) \in Seq(Packet)
      /\ Owed(Append(ch[e].port, p), "out") # {}
      /\ \A j, k \in Owed(Append(ch[e].port, p), "out") : j = k
      /\ Owed(Append(ch[e].port, p), "in") = Owed(ch[e].port, "in")
  <2>1. /\ Owed(Append(ch[e].port, p), "out") # {}
        /\ \A j, k \in Owed(Append(ch[e].port, p), "out") : j = k
    <3>1. p.io = "out" /\ Owed(ch[e].port, "out") = {} /\ p \in Packet
          /\ ch[e].port \in Seq(Packet)
      BY <1>1, <1>2, <1>5
    <3>2. QED
      BY ONLY <3>1, AppendOwed
  <2>2. /\ Append(ch[e].port, p) \in Seq(Packet)
        /\ Owed(Append(ch[e].port, p), "in") = Owed(ch[e].port, "in")
    <3>1. p.io # "in" /\ p \in Packet /\ ch[e].port \in Seq(Packet)
      BY <1>1, <1>2
    <3>2. QED
      BY ONLY <3>1, AppendOwed
  <2>3. QED
    BY <2>1, <2>2
<1>7. Shape(r)
  BY <1>1, <1>3, <1>6, EmptyParts DEF Shape
<1>8. Good(r)
  BY <1>1, <1>3, <1>4, <1>5, <1>6 DEF Good, Pending, Outstanding
<1>9. QED
  BY <1>1, <1>7, <1>8, PutInv

LEMMA WritesPartInv ==
  ASSUME IInv, NEW e \in End, WritesPart(e)
  PROVE  IInv'
<1> DEFINE f == Other(e)
           s == [ch[e] EXCEPT !.outOp = Tail(@)]
<1>1. /\ Shape(ch[e]) /\ Good(ch[e]) /\ ch[e].outOp # <<>> /\ ch[e].outOp \in Seq(Part)
      /\ f \in End /\ wire[f] \in Seq(Part) /\ wire \in [End -> Seq(Part)]
  BY OtherEnd DEF IInv, WritesPart, Shape
<1>2. Head(ch[e].outOp) \in Part /\ Tail(ch[e].outOp) \in Seq(Part)
  BY <1>1
<1>3. wire' = [wire EXCEPT ![f] = Append(@, Head(ch[e].outOp))]
  BY DEF WritesPart
<1>4. Append(wire[f], Head(ch[e].outOp)) \in Seq(Part)
  BY <1>1, <1>2
<1>5. wire' \in [End -> Seq(Part)]
  <2> HIDE DEF f
  <2>1. QED
    BY <1>1, <1>3, <1>4
<1>6. IF s.outOp = <<>> THEN Complete(e, s, OutPacket(TRUE)) ELSE Put(e, s)
  BY DEF WritesPart
<1>7. /\ DOMAIN s = Fields /\ s.inPending = ch[e].inPending /\ s.init = ch[e].init
      /\ s.outPending = ch[e].outPending /\ s.port = ch[e].port
      /\ s.inOp = ch[e].inOp /\ s.outOp = Tail(ch[e].outOp) /\ s.outq = ch[e].outq
      /\ s.obj = ch[e].obj
  BY <1>1 DEF Shape, Fields
<1>8. CASE s.outOp = <<>>
  <2>1. Tail(ch[e].outOp) = <<>>
    BY <1>7, <1>8
  <2>2. s = [ch[e] EXCEPT !.outOp = <<>>]
    BY <2>1
  <2>3. Complete(e, [ch[e] EXCEPT !.outOp = <<>>], OutPacket(TRUE))
    BY <1>6, <1>8, <2>2
  <2> HIDE DEF s
  <2>4. QED
    BY <1>1, <1>5, <2>3, OutputEnds
<1>9. CASE s.outOp # <<>>
  <2>1. Put(e, s)
    BY <1>6, <1>9
  <2> HIDE DEF s
  <2>2. Packets(s, "in") = Packets(ch[e], "in") /\ Packets(s, "out") = Packets(ch[e], "out")
    BY <1>7 DEF Packets
  <2>3. Shape(s)
    BY <1>1, <1>2, <1>7 DEF Shape
  <2>4. Good(s)
    BY <1>1, <1>7, <1>9, <2>2 DEF Good, Pending, Outstanding
  <2>5. QED
    BY <1>5, <2>1, <2>3, <2>4, PutInv
<1>10. QED
  BY <1>8, <1>9

LEMMA WriteBreaksInv ==
  ASSUME IInv, NEW e \in End, WriteBreaks(e)
  PROVE  IInv'
<1>1. /\ ch[e].outOp # <<>> /\ wire' = wire
      /\ Complete(e, [ch[e] EXCEPT !.outOp = <<>>], OutPacket(FALSE))
  BY DEF WriteBreaks
<1>2. QED
  BY <1>1, WireKept, OutputEnds

LEMMA NothingOwed ==
  ASSUME NEW s, Shape(s), ~s.init, ~s.inPending, ~s.outPending, s.inOp = "none",
         s.outOp = <<>>, s.port = <<>>
  PROVE  Good(s)
<1>1. Packets(s, "in") = {} /\ Packets(s, "out") = {}
  BY DEF Packets
<1>2. QED
  BY <1>1 DEF Good, Pending, Outstanding

LEMMA NoChannelShape ==
  /\ Shape(NoChannel) /\ ~NoChannel.init /\ ~NoChannel.inPending /\ ~NoChannel.outPending
  /\ NoChannel.inOp = "none" /\ NoChannel.outOp = <<>> /\ NoChannel.port = <<>>
<1>1. /\ <<>> \in Seq(Message) /\ <<>> \in Seq(Packet)
  OBVIOUS
<1>2. DOMAIN NoChannel = Fields
  BY DEF NoChannel, Fields
<1>3. QED
  BY <1>1, <1>2, EmptyParts DEF Shape, NoChannel

LEMMA DieInv ==
  ASSUME IInv, NEW e \in End, Die(e)
  PROVE  IInv'
<1> DEFINE r == [NoChannel EXCEPT !.obj = "dead", !.secret = ch[e].secret,
                                  !.pipe = IF ch[e].pipe = "none" THEN @ ELSE "closed"]
<1>1. Put(e, r) /\ wire' \in [End -> Seq(Part)]
  BY DEF Die, IInv
<1>2. /\ DOMAIN r = Fields /\ r.inPending = NoChannel.inPending /\ r.init = NoChannel.init
      /\ r.outPending = NoChannel.outPending /\ r.port = NoChannel.port
      /\ r.inOp = NoChannel.inOp /\ r.outOp = NoChannel.outOp /\ r.outq = NoChannel.outq
  BY DEF NoChannel, Fields
<1> HIDE DEF r
<1>3. Shape(r)
  BY <1>2, NoChannelShape DEF Shape
<1>4. Good(r)
  BY <1>2, <1>3, NoChannelShape, NothingOwed
<1>5. QED
  BY <1>1, <1>3, <1>4, PutInv

(***************************************************************************)
(* The induction.                                                          *)
(***************************************************************************)
Inductive == IInv /\ sent \in [End -> Nat]

LEMMA InitInv == ASSUME Init PROVE Inductive
<1>1. Good(NoChannel)
  BY NoChannelShape, NothingOwed
<1>2. /\ ch = [e \in End |-> NoChannel]
      /\ wire = [e \in End |-> <<>>]
      /\ sent = [e \in End |-> 0]
  BY Zenon DEF Init
<1>3. DOMAIN ch = End /\ \A e \in End : ch[e] = NoChannel
  BY <1>2
<1>4. sent \in [End -> Nat] /\ wire \in [End -> Seq(Part)]
  BY <1>2, EmptyParts
<1>5. \A e \in End : Shape(ch[e]) /\ Good(ch[e])
  BY <1>1, <1>3, NoChannelShape
<1>6. QED
  BY <1>3, <1>4, <1>5 DEF Inductive, IInv

LEMMA SentNat == ASSUME Inductive, [Next]_vars PROVE sent' \in [End -> Nat]
<1>1. sent' = sent \/ \E e \in End : sent' = [sent EXCEPT ![e] = @ + 1]
  <2>1. CASE UNCHANGED vars
    BY <2>1 DEF vars
  <2>2. CASE ClientArrives
    BY <2>2 DEF ClientArrives
  <2>3. ASSUME NEW e \in End, IoThread(e) PROVE sent' = sent
    BY <2>3 DEF IoThread, InitSignal, InputCompleted, OutputCompleted, CloseDone
  <2>4. ASSUME NEW e \in End, Kernel(e) PROVE sent' = sent
    BY <2>4 DEF Kernel, ReadCompletes, InputFails, WritesPart, WriteBreaks
  <2>5. ASSUME NEW e \in End, Owner(e)
        PROVE  sent' = sent \/ sent' = [sent EXCEPT ![e] = @ + 1]
    BY <2>5 DEF Owner, Constructs, Create, Connect, Die, Send, Close
  <2>6. QED
    BY <2>1, <2>2, <2>3, <2>4, <2>5 DEF Next
<1>2. QED
  BY <1>1 DEF Inductive

LEMMA NextInv == ASSUME Inductive, [Next]_vars PROVE Inductive'
<1>1. IInv'
  <2> USE DEF Inductive
  <2>1. CASE UNCHANGED vars
    BY <2>1 DEF vars, IInv, Shape, Good, Pending, Outstanding, Packets
  <2>2. CASE ClientArrives
    BY <2>2, ClientArrivesInv
  <2>3. ASSUME NEW e \in End, IoThread(e) PROVE IInv'
    BY <2>3, InitSignalInv, InputCompletedInv, OutputCompletedInv, CloseDoneInv DEF IoThread
  <2>4. ASSUME NEW e \in End, Kernel(e) PROVE IInv'
    BY <2>4, ReadCompletesInv, InputFailsInv, WritesPartInv, WriteBreaksInv DEF Kernel
  <2>5. ASSUME NEW e \in End, Owner(e) PROVE IInv'
    <3>1. ASSUME NEW secret, Create(e, secret) PROVE IInv'
      BY <3>1, CreateInv
    <3>2. CASE Connect(e)
      BY <3>2, ConnectInv
    <3>3. CASE Die(e)
      BY <3>3, DieInv
    <3>4. ASSUME NEW size \in Sizes, Send(e, size) PROVE IInv'
      <4>1. sent[e] \in Nat
        OBVIOUS
      <4>2. QED
        BY <3>4, <4>1, SendInv
    <3>5. ASSUME NEW why, Close(e, why) PROVE IInv'
      BY <3>5, CloseInv
    <3>6. QED
      BY <2>5, <3>1, <3>2, <3>3, <3>4, <3>5 DEF Owner, Constructs
  <2>6. QED
    BY <2>1, <2>2, <2>3, <2>4, <2>5 DEF Next
<1>2. sent' \in [End -> Nat]
  BY SentNat
<1>3. QED
  BY <1>1, <1>2 DEF Inductive

\* Every reachable state satisfies the inductive invariant.
LEMMA Reachable == Spec => []Inductive
<1>1. Init => Inductive
  BY InitInv
<1>2. Inductive /\ [Next]_vars => Inductive'
  BY NextInv
<1>3. QED
  BY <1>1, <1>2, PTL DEF Spec

\* The pending flags of input_state_ and output_state_ match the operations and the
\* completion packets of the kernel at all times, for messages of any size, any number
\* of sends, any buffers, and any closing, deleting and dying of either end.
THEOREM PendingCorrect == Spec => []PendingMatchesKernel
<1>1. Inductive => PendingMatchesKernel
  BY DEF Inductive, IInv, Good, Pending, PendingMatchesKernel
<1>2. QED
  BY <1>1, Reachable, PTL

\* Once Close has returned and the channel is deleted, neither the kernel nor the
\* completion port holds a pointer into it.
THEOREM DeletionSafe == Spec => []GoneMeansQuiet
<1>1. ASSUME Inductive, NEW e \in End, ch[e].obj = "gone"
      PROVE  ch[e].port = <<>> /\ ch[e].inOp = "none" /\ ch[e].outOp = <<>>
  <2> DEFINE s == ch[e]
  <2>1. Shape(s) /\ Good(s) /\ s.obj = "gone"
    BY <1>1 DEF Inductive, IInv
  <2> HIDE DEF s
  <2>2. /\ Packets(s, "in") = {} /\ Packets(s, "out") = {}
        /\ s.inOp = "none" /\ s.outOp = <<>>
    BY <2>1 DEF Good, Pending, Outstanding
  <2> DEFINE q == s.port
  <2>3. q \in Seq(Packet)
    BY <2>1 DEF Shape
  <2>4. \A k \in DOMAIN q : q[k].io = "in" \/ q[k].io = "out"
    <3>1. \A p \in Packet : p.io = "in" \/ p.io = "out"
      BY DEF Packet
    <3> HIDE DEF q
    <3>2. \A k \in DOMAIN q : q[k] \in Packet
      BY <2>3
    <3>3. QED
      BY <3>1, <3>2
  <2>5. s.port = <<>>
    <3>1. \A k : k \notin DOMAIN q
      BY <2>2, <2>4 DEF Packets
    <3> HIDE DEF q
    <3>2. Len(q) \in Nat /\ DOMAIN q = 1..Len(q)
      BY <2>3
    <3>3. 1 \notin 1..Len(q)
      BY <3>1, <3>2
    <3>4. q = <<>>
      BY <2>3, <3>2, <3>3
    <3>5. QED
      BY <3>4 DEF q
  <2>6. QED
    BY <2>2, <2>5 DEF s
<1>2. Inductive => GoneMeansQuiet
  BY <1>1 DEF GoneMeansQuiet
<1>3. QED
  BY <1>2, Reachable, PTL

(***************************************************************************)
(* What an operation on its way stays: the write is the head of the queue, *)
(* the read is never given up.  Besides the invariant above this needs     *)
(* only that nothing is written before the connection.                     *)
(***************************************************************************)
Held(s)  == s.outPending => ~s.waiting /\ IsSuffix(s.outOp, Parts(Head(s.outq)))
Reads(s) == s.obj = "connected" /\ s.pipe = "open" /\ ~s.waiting => s.inPending \/ s.init

Object(s) == DOMAIN s = Fields /\ s.outq \in Seq(Message)

Kept == \A e \in End : Held(ch[e]) /\ Reads(ch[e])

LEMMA SuffixIs ==
  ASSUME NEW S, NEW o \in Seq(S), NEW d \in Seq(S)
  PROVE  IsSuffix(o, d) <=>
           /\ Len(o) <= Len(d)
           /\ \A j \in 1..Len(o) : o[j] = d[Len(d) - Len(o) + j]
<1> DEFINE p == Reverse(o)
           q == Reverse(d)
<1>1. Len(o) \in Nat /\ Len(d) \in Nat
  OBVIOUS
<1>2. p \in Seq(S) /\ Len(p) = Len(o) /\ \A k \in 1..Len(o) : p[k] = o[Len(o) - k + 1]
  <2>1. p \in [1..Len(o) -> S]
    BY <1>1 DEF Reverse
  <2>2. p \in Seq(S) /\ Len(p) = Len(o)
    BY <1>1, <2>1
  <2>3. QED
    BY <2>2 DEF Reverse
<1>3. q \in Seq(S) /\ Len(q) = Len(d) /\ \A k \in 1..Len(d) : q[k] = d[Len(d) - k + 1]
  <2>1. q \in [1..Len(d) -> S]
    BY <1>1 DEF Reverse
  <2>2. q \in Seq(S) /\ Len(q) = Len(d)
    BY <1>1, <2>1
  <2>3. QED
    BY <2>2 DEF Reverse
<1> HIDE DEF p, q
<1>4. IsSuffix(o, d) <=> Len(p) <= Len(q) /\ SubSeq(p, 1, Len(p)) = SubSeq(q, 1, Len(p))
  BY DEF IsSuffix, IsPrefix, p, q
<1>5. ASSUME Len(o) <= Len(d)
      PROVE  SubSeq(p, 1, Len(p)) = SubSeq(q, 1, Len(p)) <=> \A k \in 1..Len(o) : p[k] = q[k]
  <2> DEFINE a == SubSeq(p, 1, Len(p))
             b == SubSeq(q, 1, Len(p))
  <2>1. /\ a \in Seq(S) /\ Len(a) = Len(o) /\ \A k \in 1..Len(o) : a[k] = p[k]
    BY <1>1, <1>2
  <2>2. /\ b \in Seq(S) /\ Len(b) = Len(o) /\ \A k \in 1..Len(o) : b[k] = q[k]
    BY <1>1, <1>2, <1>3, <1>5
  <2> HIDE DEF a, b
  <2>3. a = b <=> \A k \in 1..Len(o) : a[k] = b[k]
    BY <2>1, <2>2, <1>1
  <2>4. QED
    BY <2>1, <2>2, <2>3 DEF a, b
<1>6. ASSUME Len(o) <= Len(d)
      PROVE  (\A k \in 1..Len(o) : p[k] = q[k]) <=>
                \A j \in 1..Len(o) : o[j] = d[Len(d) - Len(o) + j]
  <2>1. ASSUME \A k \in 1..Len(o) : p[k] = q[k], NEW j \in 1..Len(o)
        PROVE  o[j] = d[Len(d) - Len(o) + j]
    <3> DEFINE k == Len(o) - j + 1
    <3>1. k \in 1..Len(o) /\ k \in 1..Len(d) /\ Len(o) - k + 1 = j
          /\ Len(d) - k + 1 = Len(d) - Len(o) + j
      BY <1>1, <1>6
    <3> HIDE DEF k
    <3>2. p[k] = o[j] /\ q[k] = d[Len(d) - Len(o) + j]
      BY <1>2, <1>3, <3>1
    <3>3. QED
      BY <2>1, <3>1, <3>2
  <2>2. ASSUME \A j \in 1..Len(o) : o[j] = d[Len(d) - Len(o) + j], NEW k \in 1..Len(o)
        PROVE  p[k] = q[k]
    <3> DEFINE j == Len(o) - k + 1
    <3>1. j \in 1..Len(o) /\ k \in 1..Len(d) /\ Len(d) - Len(o) + j = Len(d) - k + 1
      BY <1>1, <1>6
    <3> HIDE DEF j
    <3>2. p[k] = o[j] /\ q[k] = d[Len(d) - Len(o) + j]
      BY <1>2, <1>3, <3>1 DEF j
    <3>3. QED
      BY <2>2, <3>1, <3>2
  <2>3. QED
    BY <2>1, <2>2
<1>7. QED
  BY <1>2, <1>3, <1>4, <1>5, <1>6

LEMMA SuffixTail ==
  ASSUME NEW S, NEW o \in Seq(S), NEW d \in Seq(S), IsSuffix(o, d), o # <<>>
  PROVE  IsSuffix(Tail(o), d)
<1>1. /\ Tail(o) \in Seq(S) /\ Len(Tail(o)) = Len(o) - 1 /\ Len(o) \in Nat /\ Len(d) \in Nat
      /\ \A j \in 1..(Len(o) - 1) : Tail(o)[j] = o[j + 1]
  OBVIOUS
<1>2. Len(o) <= Len(d) /\ \A j \in 1..Len(o) : o[j] = d[Len(d) - Len(o) + j]
  BY SuffixIs
<1>3. ASSUME NEW j \in 1..Len(Tail(o)) PROVE Tail(o)[j] = d[Len(d) - Len(Tail(o)) + j]
  <2>1. j + 1 \in 1..Len(o) /\ Tail(o)[j] = o[j + 1]
        /\ Len(d) - Len(o) + (j + 1) = Len(d) - Len(Tail(o)) + j
    BY <1>1, <1>3
  <2>2. o[j + 1] = d[Len(d) - Len(o) + (j + 1)]
    BY <1>2, <2>1
  <2>3. QED
    BY <2>1, <2>2
<1>4. Len(Tail(o)) <= Len(d)
  BY <1>1, <1>2
<1>5. QED
  BY <1>1, <1>3, <1>4, SuffixIs

LEMMA SuffixEnds ==
  ASSUME NEW S, NEW d \in Seq(S)
  PROVE  IsSuffix(d, d) /\ IsSuffix(<<>>, d)
<1> DEFINE z == <<>>
<1>1. z \in Seq(S) /\ Len(z) = 0 /\ Len(d) \in Nat
  OBVIOUS
<1>2. \A j \in 1..Len(d) : d[j] = d[Len(d) - Len(d) + j]
  BY <1>1
<1>3. IsSuffix(d, d)
  BY <1>1, <1>2, SuffixIs
<1> HIDE DEF z
<1>4. Len(z) <= Len(d) /\ \A j \in 1..Len(z) : z[j] = d[Len(d) - Len(z) + j]
  BY <1>1
<1>5. IsSuffix(z, d)
  BY <1>1, <1>4, SuffixIs
<1>6. QED
  BY <1>3, <1>5 DEF z

\* What leaves the write and its message alone keeps it.
LEMMA HeldSame ==
  ASSUME NEW s, NEW r, Held(s), r.outPending = s.outPending, r.outOp = s.outOp,
         s.outPending => Head(r.outq) = Head(s.outq), r.waiting => s.waiting
  PROVE  Held(r)
  BY DEF Held

LEMMA ProcessOutgoingHeld ==
  ASSUME NEW e, NEW s, Object(s), ~s.outPending, s.waiting => WriteFails(e, s)
  PROVE  LET r == ProcessOutgoing(e, s) IN
           /\ Object(r) /\ Held(r)
           /\ r.pipe = s.pipe /\ r.waiting = s.waiting /\ r.obj = s.obj
           /\ r.inPending = s.inPending /\ r.init = s.init
<1> DEFINE r == ProcessOutgoing(e, s)
           d == Parts(Head(s.outq))
<1>1. CASE s.outq = <<>> \/ WriteFails(e, s)
  <2>1. r = s
    BY <1>1 DEF ProcessOutgoing
  <2>2. QED
    BY <2>1 DEF Held
<1>2. CASE ~(s.outq = <<>> \/ WriteFails(e, s))
  <2>1. Head(s.outq) \in Message
    BY <1>2 DEF Object
  <2>2. IsSuffix(d, d)
    BY <2>1, PartsType, SuffixEnds
  <2>3. r = [s EXCEPT !.outPending = TRUE, !.outOp = d]
    BY <1>2 DEF ProcessOutgoing
  <2> DEFINE o == d
  <2> HIDE DEF r, o
  <2>4. r = [s EXCEPT !.outPending = TRUE, !.outOp = o]
    BY <2>3 DEF o
  <2>5. /\ DOMAIN r = Fields /\ r.outOp = o /\ r.outq = s.outq
        /\ r.pipe = s.pipe /\ r.waiting = s.waiting /\ r.obj = s.obj
        /\ r.inPending = s.inPending /\ r.init = s.init
    BY <2>4 DEF Object, Fields
  <2>6. Object(r)
    BY <2>5 DEF Object
  <2>7. ~s.waiting
    BY <1>2
  <2>8. Held(r)
    BY <2>2, <2>5, <2>7 DEF Held, o
  <2>9. QED
    BY <2>5, <2>6, <2>8 DEF r
<1>3. QED
  BY <1>1, <1>2

\* After Put: what holds of the object of e, and of the other one as before.
LEMMA PutKept ==
  ASSUME DOMAIN ch = End, Kept, NEW e \in End, NEW s, Put(e, s), Held(s), Reads(s)
  PROVE  Kept'
<1>1. \A f \in End : ch'[f] = IF f = e THEN s ELSE ch[f]
  BY DEF Put
<1>2. ASSUME NEW f \in End PROVE Held(ch'[f]) /\ Reads(ch'[f])
  BY <1>1 DEF Kept
<1>3. QED
  BY <1>2 DEF Kept

LEMMA BeginCloseKept ==
  ASSUME NEW s, Object(s), Held(s), NEW why
  PROVE  Held(BeginClose(s, why)) /\ Reads(BeginClose(s, why))
<1> DEFINE r == BeginClose(s, why)
<1>1. /\ r.outPending = s.outPending /\ r.outOp = s.outOp /\ r.outq = s.outq
      /\ r.waiting = s.waiting /\ r.pipe # "open"
  BY DEF BeginClose, Object, Fields
<1> HIDE DEF r
<1>2. Held(r) /\ Reads(r)
  BY <1>1, HeldSame DEF Reads
<1>3. QED
  BY <1>2 DEF r

LEMMA BrokenKept ==
  ASSUME DOMAIN ch = End, Kept, NEW e \in End, NEW s, Object(s), Held(s), Broken(e, s)
  PROVE  Kept'
<1>1. CASE s.pipe = "open"
  <2>1. Put(e, BeginClose(s, "error"))
    BY <1>1 DEF Broken
  <2>2. QED
    BY <2>1, BeginCloseKept, PutKept
<1>2. CASE s.pipe # "open"
  <2>1. Put(e, s) /\ Reads(s)
    BY <1>2 DEF Broken, Reads
  <2>2. QED
    BY <2>1, PutKept
<1>3. QED
  BY <1>1, <1>2

LEMMA ProcessIncomingKept ==
  ASSUME DOMAIN ch = End, Kept, NEW e \in End, NEW s, Object(s), Held(s), ProcessIncoming(e, s)
  PROVE  Kept'
<1>1. CASE ReadFails(e, s)
  BY <1>1, BrokenKept DEF ProcessIncoming
<1>2. CASE ~ReadFails(e, s)
  <2> DEFINE r == ReadData(s)
  <2>1. Put(e, r)
    BY <1>2 DEF ProcessIncoming
  <2>2. /\ r.outPending = s.outPending /\ r.outOp = s.outOp /\ r.outq = s.outq
        /\ r.waiting = s.waiting /\ r.inPending
    BY DEF ReadData, Object, Fields
  <2> HIDE DEF r
  <2>3. Held(r) /\ Reads(r)
    BY <2>2, HeldSame DEF Reads
  <2>4. QED
    BY <2>1, <2>3, PutKept
<1>3. QED
  BY <1>1, <1>2

\* A connect that is waited for finds no other end, so nothing can be written yet.
LEMMA ProcessConnectionHeld ==
  ASSUME NEW e, NEW s, Object(s), s.waiting, ~s.outPending
  PROVE  LET c == ProcessConnection(e, s) IN
           /\ Object(c) /\ Held(c) /\ ~c.outPending /\ c.obj = s.obj /\ c.pipe = s.pipe
           /\ c.init = s.init
           /\ ConnectionFails(e, s) => c.waiting
           /\ c.inPending => WriteFails(e, c) /\ c.waiting
           /\ ~ConnectionFails(e, s) /\ ~c.inPending => ~c.waiting
<1> DEFINE c == ProcessConnection(e, s)
           closed == ConnectionFails(e, s)
           none == ch[Other(e)].pipe = "none"
<1>1. c = IF closed THEN [s EXCEPT !.inPending = FALSE]
          ELSE IF none THEN [s EXCEPT !.inPending = TRUE, !.inOp = "connect"]
          ELSE [s EXCEPT !.inPending = FALSE, !.waiting = FALSE]
  BY DEF ProcessConnection
<1>2. none => ch[Other(e)].pipe # "open"
  OBVIOUS
<1> HIDE DEF c, closed, none
<1>3. /\ DOMAIN c = Fields /\ c.outq = s.outq /\ c.outPending = s.outPending
      /\ c.obj = s.obj /\ c.pipe = s.pipe /\ c.init = s.init
  BY <1>1 DEF Object, Fields
<1>4. /\ closed => c.waiting = s.waiting /\ c.inPending = FALSE
      /\ ~closed /\ none => c.waiting = s.waiting /\ c.inPending = TRUE
      /\ ~closed /\ ~none => c.waiting = FALSE /\ c.inPending = FALSE
  BY <1>1 DEF Object, Fields
<1>5. Object(c) /\ Held(c)
  BY <1>3 DEF Object, Held
<1>6. c.inPending => none /\ ~closed
  BY <1>4
<1>7. c.inPending => WriteFails(e, c)
  BY <1>2, <1>6 DEF WriteFails
<1>8. QED
  BY <1>3, <1>4, <1>5, <1>7 DEF c, closed

LEMMA ConnectedKept ==
  ASSUME DOMAIN ch = End, Kept, NEW e \in End, NEW s, Object(s), s.waiting, ~s.outPending,
         Connected(e, s)
  PROVE  Kept'
<1> DEFINE c == ProcessConnection(e, s)
           q == IF c.outPending THEN c ELSE ProcessOutgoing(e, c)
<1>1. /\ Object(c) /\ Held(c) /\ ~c.outPending
      /\ ConnectionFails(e, s) => c.waiting
      /\ c.inPending => WriteFails(e, c) /\ c.waiting
      /\ ~ConnectionFails(e, s) /\ ~c.inPending => ~c.waiting
  BY ProcessConnectionHeld
<1>2. \/ ConnectionFails(e, s) /\ Put(e, c)
      \/ ~ConnectionFails(e, s) /\ c.inPending /\ Put(e, q)
      \/ ~ConnectionFails(e, s) /\ ~c.inPending /\ ProcessIncoming(e, q)
  BY DEF Connected
<1>3. q = ProcessOutgoing(e, c)
  BY <1>1
<1> HIDE DEF c, q
<1>4. ASSUME ~ConnectionFails(e, s) PROVE Object(q) /\ Held(q) /\ q.waiting = c.waiting
  <2>1. c.waiting => WriteFails(e, c)
    BY <1>1, <1>4
  <2>2. QED
    BY <1>1, <1>3, <2>1, ProcessOutgoingHeld
<1>5. CASE ConnectionFails(e, s) /\ Put(e, c)
  BY <1>1, <1>5, PutKept DEF Reads
<1>6. CASE ~ConnectionFails(e, s) /\ c.inPending /\ Put(e, q)
  <2>1. Held(q) /\ Reads(q)
    BY <1>1, <1>4, <1>6 DEF Reads
  <2>2. QED
    BY <1>6, <2>1, PutKept
<1>7. CASE ~ConnectionFails(e, s) /\ ~c.inPending /\ ProcessIncoming(e, q)
  BY <1>4, <1>7, ProcessIncomingKept
<1>8. QED
  BY <1>2, <1>5, <1>6, <1>7

LEMMA DispatchInputKept ==
  ASSUME DOMAIN ch = End, Kept, NEW e \in End, NEW s, NEW data, Object(s), Held(s),
         DispatchInput(e, s, data)
  PROVE  Kept'
<1> DEFINE r(o, v) == [s EXCEPT !.overflow = o, !.validate = v]
           b == [s EXCEPT !.overflow = <<>>]
<1>1. ASSUME NEW o, NEW v PROVE Object(r(o, v)) /\ Held(r(o, v))
  <2>1. LET t == r(o, v) IN
          /\ DOMAIN t = Fields /\ t.outPending = s.outPending /\ t.outOp = s.outOp
          /\ t.outq = s.outq /\ t.waiting = s.waiting
    BY DEF Object, Fields
  <2> HIDE DEF r
  <2>2. QED
    BY <2>1, HeldSame DEF Object
<1>2. Object(b) /\ Held(b)
  <2>1. /\ DOMAIN b = Fields /\ b.outPending = s.outPending /\ b.outOp = s.outOp
        /\ b.outq = s.outq /\ b.waiting = s.waiting
    BY DEF Object, Fields
  <2> HIDE DEF b
  <2>2. QED
    BY <2>1, HeldSame DEF Object
<1>3. Broken(e, b) \/ Broken(e, s) \/ \E o, v : ProcessIncoming(e, r(o, v))
  BY Zenon DEF DispatchInput
<1>4. CASE Broken(e, b) \/ Broken(e, s)
  BY <1>2, <1>4, BrokenKept
<1>5. ASSUME NEW o, NEW v, ProcessIncoming(e, r(o, v)) PROVE Kept'
  <2> HIDE DEF r
  <2>1. QED
    BY <1>1, <1>5, ProcessIncomingKept
<1>6. QED
  BY <1>3, <1>4, <1>5

LEMMA OnInputKept ==
  ASSUME DOMAIN ch = End, Kept, NEW e \in End, NEW s, NEW data, Object(s), Held(s),
         OnInput(e, s, data)
  PROVE  Kept'
<1> DEFINE r == [s EXCEPT !.inPending = FALSE]
<1>1. Object(r) /\ Held(r)
  <2>1. /\ DOMAIN r = Fields /\ r.outPending = s.outPending /\ r.outOp = s.outOp
        /\ r.outq = s.outq /\ r.waiting = s.waiting
    BY DEF Object, Fields
  <2> HIDE DEF r
  <2>2. QED
    BY <2>1, HeldSame DEF Object
<1>2. \/ s.waiting /\ Connected(e, s)
      \/ ProcessIncoming(e, s)
      \/ Broken(e, r) \/ ProcessIncoming(e, r) \/ DispatchInput(e, r, data)
  BY Zenon DEF OnInput
<1>3. CASE s.waiting /\ Connected(e, s)
  BY <1>3, ConnectedKept DEF Held
<1>4. CASE ProcessIncoming(e, s)
  BY <1>4, ProcessIncomingKept
<1> HIDE DEF r
<1>5. CASE Broken(e, r) \/ ProcessIncoming(e, r) \/ DispatchInput(e, r, data)
  BY <1>1, <1>5, BrokenKept, ProcessIncomingKept, DispatchInputKept
<1>6. QED
  BY <1>2, <1>3, <1>4, <1>5

\* Every action keeps it.
LEMMA CreateKept ==
  ASSUME IInv, Kept, NEW e \in End, NEW secret, Create(e, secret)
  PROVE  Kept'
<1> DEFINE h == <<[n |-> Hello, size |-> 1]>>
           r == [ch[e] EXCEPT !.obj = "created",
                              !.pipe = IF e = "server" \/ ch["server"].pipe = "open"
                                       THEN "open" ELSE @,
                              !.waiting = e = "server",
                              !.validate = e = "server" /\ Validate, !.secret = secret,
                              !.outq = IF e = "server" \/ ch["server"].pipe = "open"
                                       THEN h ELSE @]
<1>1. Put(e, r) /\ ch[e].obj = "none" /\ DOMAIN ch = End
  BY DEF Create, IInv
<1>2. Shape(ch[e]) /\ ~ch[e].outPending
  BY <1>1 DEF IInv, Good
<1>3. r.outPending = ch[e].outPending /\ r.obj = "created"
  BY <1>2 DEF Shape, Fields
<1> HIDE DEF r, h
<1>4. Held(r) /\ Reads(r)
  BY <1>2, <1>3 DEF Held, Reads
<1>5. QED
  BY <1>1, <1>4, PutKept

LEMMA ConnectKept ==
  ASSUME IInv, Kept, NEW e \in End, Connect(e)
  PROVE  Kept'
<1> DEFINE s == [ch[e] EXCEPT !.obj = "connected"]
           c == IF s.waiting THEN ProcessConnection(e, s) ELSE s
           i == [c EXCEPT !.init = ~c.inPending]
           o == ProcessOutgoing(e, i)
<1>1. Shape(ch[e]) /\ ~ch[e].outPending /\ DOMAIN ch = End /\ ~ch[e].inPending
  BY DEF IInv, Connect, Running, Good
<1>2. /\ DOMAIN s = Fields /\ s.outq = ch[e].outq /\ s.outPending = ch[e].outPending
      /\ s.inPending = ch[e].inPending
  BY <1>1 DEF Shape, Fields
<1>3. Put(e, IF s.pipe # "open" THEN s ELSE IF i.waiting THEN i ELSE o)
  BY DEF Connect
<1> HIDE DEF s
<1>4. Object(s) /\ Held(s)
  BY <1>1, <1>2 DEF Shape, Object, Held
<1>5. /\ Object(c) /\ ~c.outPending
      /\ c.inPending => c.waiting
  <2>1. CASE s.waiting
    <3>1. c = ProcessConnection(e, s)
      BY <2>1
    <3> HIDE DEF c
    <3>2. QED
      BY <1>1, <1>2, <1>4, <2>1, <3>1, ProcessConnectionHeld
  <2>2. CASE ~s.waiting
    <3>1. c = s
      BY <2>2
    <3> HIDE DEF c
    <3>2. QED
      BY <1>1, <1>2, <1>4, <3>1
  <2>3. QED
    BY <2>1, <2>2
<1> HIDE DEF c
<1>6. /\ DOMAIN i = Fields /\ i.outq = c.outq /\ i.outPending = c.outPending
      /\ i.waiting = c.waiting /\ i.init = ~c.inPending /\ i.inPending = c.inPending
  BY <1>5 DEF Object, Fields
<1> HIDE DEF i
<1>7. Object(i) /\ Held(i) /\ Reads(i)
  BY <1>5, <1>6 DEF Object, Held, Reads
<1>8. ~i.waiting => Held(o) /\ Reads(o)
  <2>1. ASSUME ~i.waiting
        PROVE  /\ Held(o) /\ o.pipe = i.pipe /\ o.waiting = i.waiting /\ o.obj = i.obj
               /\ o.inPending = i.inPending /\ o.init = i.init
    BY <1>5, <1>6, <1>7, <2>1, ProcessOutgoingHeld
  <2> HIDE DEF o
  <2>2. QED
    BY <1>7, <2>1 DEF Reads
<1>9. s.pipe # "open" => Held(s) /\ Reads(s)
  BY <1>4 DEF Reads
<1> HIDE DEF o
<1>10. QED
  BY <1>1, <1>3, <1>7, <1>8, <1>9, PutKept

LEMMA SendKept ==
  ASSUME IInv, Kept, NEW e \in End, NEW size \in Sizes, sent[e] \in Nat, Send(e, size)
  PROVE  Kept'
<1> DEFINE m == [n |-> sent[e] + 1, size |-> size]
           s == [ch[e] EXCEPT !.outq = Append(@, m)]
           o == ProcessOutgoing(e, s)
<1>1. /\ Shape(ch[e]) /\ Good(ch[e]) /\ DOMAIN ch = End /\ ch[e].outq \in Seq(Message)
      /\ Held(ch[e]) /\ Reads(ch[e])
  BY DEF IInv, Shape, Kept
<1>2. m \in Message
  BY PipeAssumption DEF Send, Message
<1>3. /\ DOMAIN s = Fields /\ s.inPending = ch[e].inPending /\ s.init = ch[e].init
      /\ s.outPending = ch[e].outPending /\ s.outOp = ch[e].outOp
      /\ s.outq = Append(ch[e].outq, m) /\ s.obj = ch[e].obj
      /\ s.waiting = ch[e].waiting /\ s.pipe = ch[e].pipe
  BY <1>1 DEF Shape, Fields
<1>4. Put(e, IF s.waiting \/ s.outPending THEN s ELSE o)
  BY DEF Send
<1> HIDE DEF m, s
<1>5. Object(s)
  BY <1>1, <1>2, <1>3 DEF Object
<1>6. s.outPending => Head(s.outq) = Head(ch[e].outq)
  <2>1. ch[e].outq # <<>> => Head(Append(ch[e].outq, m)) = Head(ch[e].outq)
    BY <1>1, <1>2
  <2>2. QED
    BY <1>1, <1>3, <2>1 DEF Good
<1>7. Held(s) /\ Reads(s)
  BY <1>1, <1>3, <1>6, HeldSame DEF Reads
<1>8. ~s.waiting /\ ~s.outPending => Held(o) /\ Reads(o)
  <2>1. ASSUME ~s.waiting, ~s.outPending
        PROVE  /\ Held(o) /\ o.pipe = s.pipe /\ o.waiting = s.waiting /\ o.obj = s.obj
               /\ o.inPending = s.inPending /\ o.init = s.init
    BY <1>5, <2>1, ProcessOutgoingHeld
  <2> HIDE DEF o
  <2>2. QED
    BY <1>7, <2>1 DEF Reads
<1> HIDE DEF o
<1>9. QED
  BY <1>1, <1>4, <1>7, <1>8, PutKept

LEMMA InitSignalKept ==
  ASSUME IInv, Kept, NEW e \in End, InitSignal(e)
  PROVE  Kept'
<1> DEFINE s == [ch[e] EXCEPT !.init = FALSE]
<1>1. Shape(ch[e]) /\ Held(ch[e]) /\ DOMAIN ch = End /\ OnInput(e, s, <<>>)
  BY DEF IInv, Kept, InitSignal
<1>2. /\ DOMAIN s = Fields /\ s.outPending = ch[e].outPending /\ s.outOp = ch[e].outOp
      /\ s.outq = ch[e].outq /\ s.waiting = ch[e].waiting
  BY <1>1 DEF Shape, Fields
<1> HIDE DEF s
<1>3. Object(s) /\ Held(s)
  BY <1>1, <1>2, HeldSame DEF Shape, Object
<1>4. QED
  BY <1>1, <1>3, OnInputKept

LEMMA InputCompletedKept ==
  ASSUME IInv, Kept, NEW e \in End, InputCompleted(e)
  PROVE  Kept'
<1> DEFINE s == [ch[e] EXCEPT !.port = Tail(@)]
<1>1. /\ Shape(ch[e]) /\ Held(ch[e]) /\ DOMAIN ch = End
      /\ OnInput(e, s, Head(ch[e].port).data)
  BY DEF IInv, Kept, InputCompleted
<1>2. /\ DOMAIN s = Fields /\ s.outPending = ch[e].outPending /\ s.outOp = ch[e].outOp
      /\ s.outq = ch[e].outq /\ s.waiting = ch[e].waiting
  BY <1>1 DEF Shape, Fields
<1> HIDE DEF s
<1>3. Object(s) /\ Held(s)
  BY <1>1, <1>2, HeldSame DEF Shape, Object
<1>4. QED
  BY <1>1, <1>3, OnInputKept

LEMMA OutputCompletedKept ==
  ASSUME IInv, Kept, NEW e \in End, OutputCompleted(e)
  PROVE  Kept'
<1> DEFINE s == [ch[e] EXCEPT !.port = Tail(@), !.outPending = FALSE]
           t == [s EXCEPT !.outq = Tail(@)]
           o == ProcessOutgoing(e, t)
<1>1. /\ Shape(ch[e]) /\ Good(ch[e]) /\ Held(ch[e]) /\ Reads(ch[e]) /\ DOMAIN ch = End
      /\ ch[e].outq \in Seq(Message) /\ ch[e].port \in Seq(Packet)
  BY DEF IInv, Kept, Shape
<1>2. Broken(e, s) \/ Broken(e, t) \/ Put(e, o)
  BY DEF OutputCompleted
<1>3. ch[e].outPending
  <2>1. /\ Head(ch[e].port).io = "out" /\ ch[e].port # <<>>
    BY DEF OutputCompleted, NextPacket
  <2>2. 1 \in Packets(ch[e], "out")
    BY <1>1, <2>1 DEF Packets
  <2>3. QED
    BY <1>1, <2>2 DEF Good, Pending, Outstanding
<1>4. ch[e].outq # <<>> /\ ~ch[e].waiting
  BY <1>1, <1>3 DEF Good, Held
<1>5. /\ DOMAIN s = Fields /\ s.outPending = FALSE /\ s.outq = ch[e].outq
  BY <1>1 DEF Shape, Fields
<1>6. /\ DOMAIN t = Fields /\ t.outPending = FALSE /\ t.outq = Tail(ch[e].outq)
      /\ t.waiting = ch[e].waiting /\ t.pipe = ch[e].pipe /\ t.obj = ch[e].obj
      /\ t.inPending = ch[e].inPending /\ t.init = ch[e].init
  BY <1>1 DEF Shape, Fields
<1> HIDE DEF s, t
<1>7. Object(s) /\ Held(s) /\ Object(t) /\ Held(t) /\ Reads(t)
  <2>1. Tail(ch[e].outq) \in Seq(Message)
    BY <1>1, <1>4
  <2>2. QED
    BY <1>1, <1>5, <1>6, <2>1 DEF Object, Held, Reads
<1>8. Held(o) /\ Reads(o)
  <2>1. /\ Held(o) /\ o.pipe = t.pipe /\ o.waiting = t.waiting /\ o.obj = t.obj
        /\ o.inPending = t.inPending /\ o.init = t.init
    BY <1>4, <1>6, <1>7, ProcessOutgoingHeld
  <2> HIDE DEF o
  <2>2. QED
    BY <1>7, <2>1 DEF Reads
<1> HIDE DEF o
<1>9. QED
  BY <1>1, <1>2, <1>7, <1>8, BrokenKept, PutKept

LEMMA CloseKept ==
  ASSUME IInv, Kept, NEW e \in End, NEW why, Close(e, why)
  PROVE  Kept'
<1>1. Object(ch[e]) /\ Held(ch[e]) /\ DOMAIN ch = End /\ Put(e, BeginClose(ch[e], why))
  BY DEF IInv, Kept, Close, Shape, Object
<1>2. QED
  BY <1>1, BeginCloseKept, PutKept

LEMMA CloseDoneKept ==
  ASSUME IInv, Kept, NEW e \in End, CloseDone(e)
  PROVE  Kept'
<1> DEFINE r == [ch[e] EXCEPT !.outq = <<>>, !.closing = "no",
                              !.obj = IF ch[e].closing = "destroy" THEN "gone" ELSE @]
<1>1. /\ Shape(ch[e]) /\ Reads(ch[e]) /\ DOMAIN ch = End /\ ~ch[e].outPending /\ Put(e, r)
  BY DEF IInv, Kept, CloseDone
<1>2. /\ r.outPending = ch[e].outPending /\ r.pipe = ch[e].pipe /\ r.waiting = ch[e].waiting
      /\ r.obj = "gone" \/ r.obj = ch[e].obj
      /\ r.inPending = ch[e].inPending /\ r.init = ch[e].init
  BY <1>1 DEF Shape, Fields
<1> HIDE DEF r
<1>3. Held(r) /\ Reads(r)
  BY <1>1, <1>2 DEF Held, Reads
<1>4. QED
  BY <1>1, <1>3, PutKept

\* The kernel ends an operation; is_pending stays until the packet is handled.
LEMMA KernelKept ==
  ASSUME IInv, Kept, NEW e \in End, NEW s, Put(e, s), s.outPending = ch[e].outPending,
         s.outq = ch[e].outq, s.waiting = ch[e].waiting, s.pipe = ch[e].pipe,
         s.obj = ch[e].obj, s.inPending = ch[e].inPending, s.init = ch[e].init,
         s.outPending => IsSuffix(s.outOp, Parts(Head(s.outq)))
  PROVE  Kept'
<1>1. Held(s) /\ Reads(s) /\ DOMAIN ch = End
  BY DEF IInv, Kept, Held, Reads
<1>2. QED
  BY <1>1, PutKept

LEMMA InputEndsKept ==
  ASSUME IInv, Kept, NEW e \in End, NEW p, Complete(e, [ch[e] EXCEPT !.inOp = "none"], p)
  PROVE  Kept'
<1> DEFINE s == [ch[e] EXCEPT !.inOp = "none"]
           r == [s EXCEPT !.port = Append(@, p)]
<1>1. Shape(ch[e]) /\ Put(e, r) /\ Held(ch[e])
  BY DEF IInv, Kept, Complete
<1>2. /\ r.outPending = ch[e].outPending /\ r.outq = ch[e].outq /\ r.waiting = ch[e].waiting
      /\ r.pipe = ch[e].pipe /\ r.obj = ch[e].obj /\ r.inPending = ch[e].inPending
      /\ r.init = ch[e].init /\ r.outOp = ch[e].outOp
  BY <1>1 DEF Shape, Fields
<1> HIDE DEF r
<1>3. QED
  BY <1>1, <1>2, KernelKept DEF Held

\* The rest of the write is shorter; nothing is left of one that breaks.
LEMMA WriteEndsKept ==
  ASSUME IInv, Kept, NEW e \in End, ch[e].outOp # <<>>,
         NEW o \in {<<>>, Tail(ch[e].outOp)}, NEW p, NEW s,
         s = [ch[e] EXCEPT !.outOp = o], Put(e, s) \/ Complete(e, s, p)
  PROVE  Kept'
<1> DEFINE r == [s EXCEPT !.port = Append(@, p)]
           d == Parts(Head(ch[e].outq))
<1>1. /\ Shape(ch[e]) /\ Good(ch[e]) /\ Held(ch[e])
      /\ Put(e, s) \/ Put(e, r)
      /\ ch[e].outq \in Seq(Message) /\ ch[e].outOp \in Seq(Part)
  BY DEF IInv, Kept, Complete, Shape
<1>2. IsSuffix(o, d) \/ ~ch[e].outPending
  <2>1. SUFFICES ASSUME ch[e].outPending PROVE IsSuffix(o, d)
    OBVIOUS
  <2>2. Head(ch[e].outq) \in Message
    BY <1>1, <2>1 DEF Good
  <2>3. d \in Seq(Part) /\ IsSuffix(ch[e].outOp, d)
    BY <1>1, <2>1, <2>2, PartsType DEF Held
  <2> HIDE DEF d
  <2>4. IsSuffix(<<>>, d) /\ IsSuffix(Tail(ch[e].outOp), d)
    BY <1>1, <2>3, SuffixEnds, SuffixTail
  <2>5. QED
    BY <2>4
<1> HIDE DEF d
<1>3. /\ DOMAIN s = Fields
      /\ s.outPending = ch[e].outPending /\ s.outq = ch[e].outq /\ s.waiting = ch[e].waiting
      /\ s.pipe = ch[e].pipe /\ s.obj = ch[e].obj /\ s.inPending = ch[e].inPending
      /\ s.init = ch[e].init /\ s.outOp = o
  BY <1>1 DEF Shape, Fields
<1>4. /\ r.outPending = ch[e].outPending /\ r.outq = ch[e].outq /\ r.waiting = ch[e].waiting
      /\ r.pipe = ch[e].pipe /\ r.obj = ch[e].obj /\ r.inPending = ch[e].inPending
      /\ r.init = ch[e].init /\ r.outOp = o
  BY <1>3 DEF Fields
<1> HIDE DEF r
<1>5. CASE Put(e, s)
  BY <1>2, <1>3, <1>5, KernelKept DEF d
<1>6. CASE Put(e, r)
  BY <1>2, <1>4, <1>6, KernelKept DEF d
<1>7. QED
  BY <1>1, <1>5, <1>6

LEMMA DieKept ==
  ASSUME IInv, Kept, NEW e \in End, Die(e)
  PROVE  Kept'
<1> DEFINE r == [NoChannel EXCEPT !.obj = "dead", !.secret = ch[e].secret,
                                  !.pipe = IF ch[e].pipe = "none" THEN @ ELSE "closed"]
<1>1. Put(e, r) /\ DOMAIN ch = End
  BY DEF Die, IInv
<1>2. r.outPending = FALSE /\ r.obj = "dead"
  BY DEF NoChannel
<1> HIDE DEF r
<1>3. Held(r) /\ Reads(r)
  BY <1>2 DEF Held, Reads
<1>4. QED
  BY <1>1, <1>3, PutKept

LEMMA InitKept == ASSUME Init PROVE Kept
<1>1. ch = [e \in End |-> NoChannel]
  BY Zenon DEF Init
<1>2. NoChannel.outPending = FALSE /\ NoChannel.obj = "none"
  BY DEF NoChannel
<1>3. \A e \in End : Held(NoChannel) /\ Reads(NoChannel) /\ ch[e] = NoChannel
  BY <1>1, <1>2 DEF Held, Reads
<1>4. QED
  BY <1>3 DEF Kept

LEMMA NextKept == ASSUME Inductive, Kept, [Next]_vars PROVE Kept'
<1> USE DEF Inductive
<1>1. CASE UNCHANGED vars
  BY <1>1 DEF vars, Kept, Held, Reads
<1>2. CASE ClientArrives
  BY <1>2, InputEndsKept DEF ClientArrives, End
<1>3. ASSUME NEW e \in End, IoThread(e) PROVE Kept'
  BY <1>3, InitSignalKept, InputCompletedKept, OutputCompletedKept, CloseDoneKept DEF IoThread
<1>4. ASSUME NEW e \in End, Kernel(e) PROVE Kept'
  <2>1. CASE ReadCompletes(e)
    BY <2>1, InputEndsKept DEF ReadCompletes
  <2>2. CASE InputFails(e)
    BY <2>2, InputEndsKept DEF InputFails
  <2>3. CASE WritesPart(e)
    <3> DEFINE s == [ch[e] EXCEPT !.outOp = Tail(ch[e].outOp)]
    <3>1. ch[e].outOp # <<>> /\ (Put(e, s) \/ Complete(e, s, OutPacket(TRUE)))
      BY <2>3 DEF WritesPart
    <3>2. QED
      BY <3>1, WriteEndsKept
  <2>4. CASE WriteBreaks(e)
    <3> DEFINE s == [ch[e] EXCEPT !.outOp = <<>>]
    <3>1. ch[e].outOp # <<>> /\ Complete(e, s, OutPacket(FALSE))
      BY <2>4 DEF WriteBreaks
    <3>2. QED
      BY <3>1, WriteEndsKept
  <2>5. QED
    BY <1>4, <2>1, <2>2, <2>3, <2>4 DEF Kernel
<1>5. ASSUME NEW e \in End, Owner(e) PROVE Kept'
  <2>1. ASSUME NEW size \in Sizes, Send(e, size) PROVE Kept'
    <3>1. sent[e] \in Nat
      OBVIOUS
    <3>2. QED
      BY <2>1, <3>1, SendKept
  <2>2. QED
    BY <1>5, <2>1, CreateKept, ConnectKept, DieKept, CloseKept DEF Owner, Constructs
<1>6. QED
  BY <1>1, <1>2, <1>3, <1>4, <1>5 DEF Next

\* The write that is on its way is always the rest of the message at the head of
\* output_queue_, on a connection that is made, and a connected channel always has a
\* read, or the signal that starts the first, on its way.
THEOREM OperationsCorrect == Spec => []OperationsKept
<1>1. Inductive /\ Kept => OperationsKept
  BY DEF Inductive, IInv, Good, Kept, Held, Reads, OperationsKept, WritesTheHead, AlwaysReading,
         Running
<1>2. Init => Kept
  BY InitKept
<1>3. Inductive /\ Kept /\ [Next]_vars => Kept'
  BY NextKept
<1>4. QED
  BY <1>1, <1>2, <1>3, Reachable, PTL DEF Spec

(***************************************************************************)
(* What arrives.  First the sequences of parts.                            *)
(***************************************************************************)

\* Induction over the naturals, for a set.
LEMMA NatSet ==
  ASSUME NEW S, 0 \in S, \A n \in Nat : n \in S => n + 1 \in S
  PROVE  \A n \in Nat : n \in S
<1>1. SUFFICES ASSUME NEW m \in Nat, m \notin S PROVE FALSE
  OBVIOUS
<1> DEFINE D == {k \in 0..m : k \notin S}
           f == [k \in D |-> k - 1]
<1>2. IsFiniteSet(D)
  <2>1. IsFiniteSet(0..m)
    BY FS_Interval
  <2>2. QED
    BY <2>1, FS_Subset
<1>3. m \in D /\ \A k \in D : k \in Nat /\ k # 0 /\ k - 1 \in D \ {m}
  <2>1. m \in D
    <3>1. m \in 0..m
      BY <1>1
    <3>2. QED
      BY <1>1, <3>1
  <2>2. ASSUME NEW k \in D PROVE k \in Nat /\ k # 0 /\ k - 1 \in D \ {m}
    <3>1. k \in Nat /\ k <= m /\ k \notin S /\ k # 0
      OBVIOUS
    <3>2. k - 1 \in Nat /\ (k - 1) + 1 = k
      BY <3>1
    <3>3. k - 1 \notin S
      BY <3>1, <3>2
    <3>4. QED
      BY <3>1, <3>2, <3>3
  <2>3. QED
    BY <2>1, <2>2
<1>4. /\ IsFiniteSet(D \ {m}) /\ Cardinality(D) \in Nat
      /\ Cardinality(D \ {m}) = Cardinality(D) - 1
  BY <1>2, <1>3, FS_RemoveElement, FS_CardinalityType
<1>5. f \in [D -> D \ {m}]
  BY <1>3
<1>6. \A x, y \in D : x # y => f[x] # f[y]
  BY <1>3
<1> HIDE DEF f, D
<1>7. Cardinality(D \ {m}) < Cardinality(D)
  BY <1>4
<1>8. \E x, y \in D : x # y /\ f[x] = f[y]
  BY <1>2, <1>4, <1>5, <1>7, FS_PigeonHole
<1>9. QED
  BY <1>6, <1>8

After(u) == IF u.last THEN u.n + 1 ELSE u.n

\* The parts of messages n, n + 1, and so on, in order; the last one may be incomplete.
Consecutive(F, n) ==
  /\ F # <<>> => F[1].n = n
  /\ \A k \in 1..(Len(F) - 1) : F[k + 1].n = After(F[k])

NextNumber(F, n) == IF F = <<>> THEN n ELSE After(F[Len(F)])

Whole(F) == F # <<>> => F[Len(F)].last

UpTo(buf, m) == {k \in Ends(buf) : k <= m}
Count(buf, m) == Cardinality(UpTo(buf, m))

LEMMA PartFields == \A u \in Part : u.n \in 0..MaxSends /\ u.n \in Nat /\ u.last \in BOOLEAN
  BY PipeAssumption DEF Part

LEMMA SeqParts ==
  ASSUME NEW F \in Seq(Part)
  PROVE  /\ Len(F) \in Nat /\ DOMAIN F = 1..Len(F) /\ (F = <<>> <=> Len(F) = 0)
         /\ \A k \in 1..Len(F) : F[k] \in Part /\ F[k].n \in Nat /\ F[k].last \in BOOLEAN
  BY PartFields

LEMMA CountSteps ==
  ASSUME NEW buf \in Seq(Part), NEW m \in Nat
  PROVE  /\ IsFiniteSet(UpTo(buf, m)) /\ Count(buf, m) \in Nat
         /\ UpTo(buf, 0) = {} /\ Count(buf, 0) = 0
         /\ m + 1 \in Ends(buf) => Count(buf, m + 1) = Count(buf, m) + 1
         /\ m + 1 \notin Ends(buf) => Count(buf, m + 1) = Count(buf, m)
         /\ m >= Len(buf) => UpTo(buf, m) = Ends(buf)
<1>1. \A k \in Ends(buf) : k \in Nat /\ k >= 1 /\ k <= Len(buf)
  BY SeqParts DEF Ends
<1>2. IsFiniteSet(UpTo(buf, m))
  <2>1. UpTo(buf, m) \in SUBSET Nat /\ \A k \in UpTo(buf, m) : k <= m
    BY <1>1 DEF UpTo
  <2>2. QED
    BY <2>1, FS_BoundedSetOfNaturals
<1>3. Count(buf, m) \in Nat
  BY <1>2, FS_CardinalityType DEF Count
<1>4. UpTo(buf, 0) = {}
  BY <1>1 DEF UpTo
<1>5. Count(buf, 0) = 0
  BY <1>4, FS_EmptySet DEF Count
<1>6. ASSUME m + 1 \in Ends(buf) PROVE Count(buf, m + 1) = Count(buf, m) + 1
  <2>1. UpTo(buf, m + 1) = UpTo(buf, m) \cup {m + 1} /\ m + 1 \notin UpTo(buf, m)
    BY <1>1, <1>6 DEF UpTo
  <2>2. QED
    BY <1>2, <2>1, FS_AddElement DEF Count
<1>7. ASSUME m + 1 \notin Ends(buf) PROVE Count(buf, m + 1) = Count(buf, m)
  <2>1. UpTo(buf, m + 1) = UpTo(buf, m)
    BY <1>1, <1>7 DEF UpTo
  <2>2. QED
    BY <2>1 DEF Count
<1>8. m >= Len(buf) => UpTo(buf, m) = Ends(buf)
  BY <1>1, SeqParts DEF UpTo
<1>9. QED
  BY <1>2, <1>3, <1>4, <1>5, <1>6, <1>7, <1>8

\* Every rank up to the number of ends is that of one of them.
LEMMA RanksReached ==
  ASSUME NEW buf \in Seq(Part)
  PROVE  \A m \in Nat : \A j \in 1..Count(buf, m) :
           \E k \in Ends(buf) : k <= m /\ Count(buf, k) = j
<1> DEFINE S == {m \in Nat : \A j \in 1..Count(buf, m) :
                    \E k \in Ends(buf) : k <= m /\ Count(buf, k) = j}
<1>1. 0 \in S
  <2>1. Count(buf, 0) = 0
    BY CountSteps
  <2>2. QED
    BY <2>1
<1>2. ASSUME NEW m \in Nat, m \in S PROVE m + 1 \in S
  <2>1. ASSUME NEW j \in 1..Count(buf, m + 1)
        PROVE  \E k \in Ends(buf) : k <= m + 1 /\ Count(buf, k) = j
    <3>1. /\ Count(buf, m) \in Nat
          /\ m + 1 \in Ends(buf) => Count(buf, m + 1) = Count(buf, m) + 1
          /\ m + 1 \notin Ends(buf) => Count(buf, m + 1) = Count(buf, m)
      BY CountSteps
    <3>2. CASE j \in 1..Count(buf, m)
      <4>1. PICK k \in Ends(buf) : k <= m /\ Count(buf, k) = j
        BY <1>2, <3>2
      <4>2. k \in Nat
        BY SeqParts DEF Ends
      <4>3. QED
        BY <4>1, <4>2
    <3>3. CASE j \notin 1..Count(buf, m)
      <4>1. m + 1 \in Ends(buf) /\ Count(buf, m + 1) = j
        BY <2>1, <3>1, <3>3
      <4>2. QED
        BY <4>1
    <3>4. QED
      BY <3>2, <3>3
  <2>2. QED
    BY <2>1
<1> HIDE DEF S
<1>3. \A m \in Nat : m \in S
  BY <1>1, <1>2, NatSet
<1>4. QED
  BY <1>3 DEF S

LEMMA LastEnd ==
  ASSUME NEW buf \in Seq(Part)
  PROVE  LET m == Max(Ends(buf) \cup {0}) IN
           /\ m \in Ends(buf) \/ m = 0
           /\ m \in 0..Len(buf)
           /\ \A k \in Ends(buf) : k <= m
<1> DEFINE S == {m \in Nat : \E x \in UpTo(buf, m) \cup {0} : \A y \in UpTo(buf, m) : y <= x}
<1>1. \A k \in Ends(buf) : k \in Nat /\ k >= 1 /\ k <= Len(buf)
  BY SeqParts DEF Ends
<1>2. 0 \in S
  BY CountSteps
<1>3. ASSUME NEW m \in Nat, m \in S PROVE m + 1 \in S
  <2>1. CASE m + 1 \in Ends(buf)
    <3>1. m + 1 \in UpTo(buf, m + 1) /\ \A y \in UpTo(buf, m + 1) : y <= m + 1
      BY <2>1 DEF UpTo
    <3>2. QED
      BY <3>1
  <2>2. CASE m + 1 \notin Ends(buf)
    <3>1. UpTo(buf, m + 1) = UpTo(buf, m)
      BY <1>1, <2>2 DEF UpTo
    <3>2. QED
      BY <1>3, <3>1
  <2>3. QED
    BY <2>1, <2>2
<1> HIDE DEF S
<1>4. \A m \in Nat : m \in S
  BY <1>2, <1>3, NatSet
<1>5. Len(buf) \in Nat /\ UpTo(buf, Len(buf)) = Ends(buf)
  <2>1. Len(buf) \in Nat
    OBVIOUS
  <2>2. QED
    BY <2>1, CountSteps
<1>6. \E x \in Ends(buf) \cup {0} : \A y \in Ends(buf) : y <= x
  BY <1>4, <1>5 DEF S
<1>7. \E x \in Ends(buf) \cup {0} : \A y \in Ends(buf) \cup {0} : x >= y
  BY <1>1, <1>6
<1> DEFINE m == Max(Ends(buf) \cup {0})
<1>8. m \in Ends(buf) \cup {0} /\ \A y \in Ends(buf) \cup {0} : m >= y
  BY <1>7 DEF Max
<1> HIDE DEF m
<1>9. (m \in Ends(buf) \/ m = 0) /\ m \in 0..Len(buf) /\ \A k \in Ends(buf) : k <= m
  BY <1>1, <1>5, <1>8
<1>10. QED
  BY <1>9 DEF m

\* The number of a part counts the messages that end before it.
LEMMA NumberIsRank ==
  ASSUME NEW buf \in Seq(Part), NEW n \in Nat, Consecutive(buf, n)
  PROVE  \A m \in Nat : m + 1 <= Len(buf) => buf[m + 1].n = n + Count(buf, m)
<1> DEFINE S == {m \in Nat : m + 1 <= Len(buf) => buf[m + 1].n = n + Count(buf, m)}
<1>1. 0 \in S
  <2>1. Count(buf, 0) = 0
    BY CountSteps
  <2>2. 1 <= Len(buf) => buf[1].n = n
    BY SeqParts DEF Consecutive
  <2>3. QED
    BY <2>1, <2>2
<1>2. ASSUME NEW m \in Nat, m \in S PROVE m + 1 \in S
  <2>1. SUFFICES ASSUME (m + 1) + 1 <= Len(buf)
                 PROVE  buf[(m + 1) + 1].n = n + Count(buf, m + 1)
    OBVIOUS
  <2>2. Len(buf) \in Nat /\ m + 1 \in 1..(Len(buf) - 1) /\ m + 1 \in DOMAIN buf
    BY <2>1, SeqParts
  <2>3. buf[m + 1].n = n + Count(buf, m) /\ buf[m + 1].n \in Nat
    BY <1>2, <2>2, SeqParts
  <2>4. buf[(m + 1) + 1].n = After(buf[m + 1])
    BY <2>2 DEF Consecutive
  <2>5. m + 1 \in Ends(buf) <=> buf[m + 1].last
    BY <2>2 DEF Ends
  <2>6. /\ Count(buf, m) \in Nat
        /\ m + 1 \in Ends(buf) => Count(buf, m + 1) = Count(buf, m) + 1
        /\ m + 1 \notin Ends(buf) => Count(buf, m + 1) = Count(buf, m)
    BY CountSteps
  <2>7. QED
    BY <2>3, <2>4, <2>5, <2>6 DEF After
<1> HIDE DEF S
<1>3. \A m \in Nat : m \in S
  BY <1>1, <1>2, NatSet
<1>4. QED
  BY <1>3 DEF S

\* What is complete in buf is a list of numbers; of consecutive parts, consecutive ones.
LEMMA ArrivedIs ==
  ASSUME NEW buf \in Seq(Part)
  PROVE  LET d == Arrived(buf)
             c == Cardinality(Ends(buf))
         IN /\ c \in Nat /\ Len(d) = c /\ d \in Seq(0..MaxSends)
            /\ c # 0 <=> Ends(buf) # {}
            /\ \A n \in Nat : Consecutive(buf, n) => d = [j \in 1..c |-> n + j - 1]
<1> DEFINE c == Cardinality(Ends(buf))
           pos(j) == CHOOSE k \in Ends(buf) : Cardinality({i \in Ends(buf) : i <= k}) = j
           d == Arrived(buf)
<1>1. Len(buf) \in Nat
  OBVIOUS
<1>2. /\ UpTo(buf, Len(buf)) = Ends(buf) /\ IsFiniteSet(Ends(buf)) /\ c \in Nat
      /\ Count(buf, Len(buf)) = c
  BY <1>1, CountSteps DEF Count
<1>3. c # 0 <=> Ends(buf) # {}
  BY <1>2, FS_EmptySet
<1>4. \A k \in Ends(buf) : k \in 1..Len(buf) /\ k - 1 \in Nat /\ k \in Nat
  BY SeqParts DEF Ends
<1>5. ASSUME NEW j \in 1..c
      PROVE  pos(j) \in Ends(buf) /\ Count(buf, pos(j)) = j
  <2>1. \E k \in Ends(buf) : k <= Len(buf) /\ Count(buf, k) = j
    BY <1>1, <1>2, RanksReached
  <2>2. \E k \in Ends(buf) : Cardinality({i \in Ends(buf) : i <= k}) = j
    BY <2>1 DEF Count, UpTo
  <2>3. pos(j) \in Ends(buf) /\ Cardinality({i \in Ends(buf) : i <= pos(j)}) = j
    BY <2>2
  <2> HIDE DEF pos
  <2>4. QED
    BY <2>3 DEF Count, UpTo
<1>6. d = [j \in 1..c |-> buf[pos(j)].n]
  BY DEF Arrived
<1> HIDE DEF pos, c, d
<1>7. \A j \in 1..c : buf[pos(j)].n \in 0..MaxSends
  BY <1>4, <1>5, PartFields
<1>8. d \in [1..c -> 0..MaxSends]
  BY <1>6, <1>7
<1>9. d \in Seq(0..MaxSends) /\ Len(d) = c
  <2> DEFINE T == 0..MaxSends
  <2>1. d \in [1..c -> T]
    BY <1>8
  <2> HIDE DEF T
  <2>2. d \in Seq(T)
    BY <1>2, <2>1
  <2>3. Len(d) = c
    BY <1>2, <2>1
  <2>4. QED
    BY <2>2, <2>3 DEF T
<1>10. ASSUME NEW n \in Nat, Consecutive(buf, n)
       PROVE  d = [j \in 1..c |-> n + j - 1]
  <2>1. ASSUME NEW j \in 1..c PROVE buf[pos(j)].n = n + j - 1
    <3> DEFINE k == pos(j)
               m == k - 1
    <3>1. k \in Ends(buf) /\ k \in 1..Len(buf) /\ Count(buf, k) = j /\ m \in Nat /\ m + 1 = k
      BY <1>4, <1>5, <1>1
    <3> HIDE DEF k, m
    <3>2. Count(buf, m) + 1 = j /\ Count(buf, m) \in Nat
      <4>1. Count(buf, m) \in Nat /\ (m + 1 \in Ends(buf) => Count(buf, m + 1) = Count(buf, m) + 1)
        BY <3>1, CountSteps
      <4>2. QED
        BY <3>1, <4>1
    <3>3. buf[m + 1].n = n + Count(buf, m)
      BY <1>1, <1>10, <3>1, NumberIsRank
    <3>4. QED
      BY <3>1, <3>2, <3>3 DEF k
  <2>2. QED
    BY <1>6, <2>1
<1>11. QED
  BY <1>2, <1>3, <1>9, <1>10 DEF c, d

\* buf is what has arrived and the rest; the rest holds no end of a message.
LEMMA RestIs ==
  ASSUME NEW buf \in Seq(Part)
  PROVE  LET t == Rest(buf)
             c == Cardinality(Ends(buf))
         IN /\ t \in Seq(Part) /\ \A k \in 1..Len(t) : ~t[k].last
            /\ \E P \in Seq(Part) :
                 /\ buf = P \o t /\ Whole(P)
                 /\ \A n \in Nat : Consecutive(buf, n) => NextNumber(P, n) = n + c
<1> DEFINE m == Max(Ends(buf) \cup {0})
           P == SubSeq(buf, 1, m)
           t == Rest(buf)
           c == Cardinality(Ends(buf))
<1>1. (m \in Ends(buf) \/ m = 0) /\ m \in 0..Len(buf) /\ \A k \in Ends(buf) : k <= m
  BY LastEnd
<1>2. t = SubSeq(buf, m + 1, Len(buf))
  BY DEF Rest
<1> HIDE DEF m, t, c
<1>3. Len(buf) \in Nat /\ m \in Nat /\ m <= Len(buf)
  BY <1>1
<1>4. /\ P \in Seq(Part) /\ Len(P) = m /\ \A k \in 1..m : P[k] = buf[k]
  BY <1>3
<1>5. /\ t \in Seq(Part) /\ Len(t) = Len(buf) - m
      /\ \A k \in 1..(Len(buf) - m) : t[k] = buf[m + k]
  BY <1>2, <1>3
<1>6. buf = P \o t
  <2>1. 1 \in 1..(Len(buf) + 1) /\ m \in (1 - 1)..Len(buf) /\ Len(buf) \in m..Len(buf)
    BY <1>3
  <2>2. P \o t = SubSeq(buf, 1, Len(buf))
    BY <1>2, <2>1, ConcatAdjacentSubSeq
  <2>3. QED
    BY <2>2, SubSeqFull
<1> HIDE DEF P
<1>7. ASSUME NEW k \in 1..Len(t) PROVE ~t[k].last
  <2>1. m + k \in 1..Len(buf) /\ m + k > m /\ t[k] = buf[m + k]
    BY <1>3, <1>5
  <2>2. m + k \notin Ends(buf)
    BY <1>1, <1>3, <2>1
  <2>3. QED
    BY <2>1, <2>2 DEF Ends
<1>8. m # 0 => buf[m].last
  BY <1>1 DEF Ends
<1>9. Whole(P)
  BY <1>3, <1>4, <1>8, SeqParts DEF Whole
<1>10. Count(buf, m) = c
  <2>1. UpTo(buf, m) = Ends(buf)
    BY <1>1 DEF UpTo
  <2>2. QED
    BY <2>1 DEF Count, c
<1>11. ASSUME NEW n \in Nat, Consecutive(buf, n) PROVE NextNumber(P, n) = n + c
  <2>1. CASE m = 0
    <3>1. P = <<>> /\ c = 0
      BY <1>4, <1>10, <2>1, CountSteps
    <3>2. QED
      BY <3>1 DEF NextNumber
  <2>2. CASE m # 0
    <3> DEFINE p == m - 1
    <3>1. p \in Nat /\ p + 1 = m /\ p + 1 <= Len(buf) /\ p + 1 \in Ends(buf)
      BY <1>1, <1>3, <2>2
    <3> HIDE DEF p
    <3>2. /\ Count(buf, p) \in Nat
          /\ p + 1 \in Ends(buf) => Count(buf, p + 1) = Count(buf, p) + 1
      BY <3>1, CountSteps
    <3>3. buf[p + 1].n = n + Count(buf, p)
      BY <1>11, <3>1, NumberIsRank
    <3>4. P # <<>> /\ P[Len(P)] = buf[m]
      BY <1>3, <1>4, <2>2
    <3>5. QED
      BY <1>8, <1>10, <2>2, <3>1, <3>2, <3>3, <3>4 DEF NextNumber, After
  <2>3. QED
    BY <2>1, <2>2
<1>12. QED
  BY <1>4, <1>5, <1>6, <1>7, <1>9, <1>11 DEF t, c

\* No message is too big for the reader, whatever it has read of the next one: otherwise
\* the reader gives up (kMaximumMessageSize).
MessagesFit == \A z \in Sizes : z - 1 + ReadBuf <= MaxMessage

\* No stretch without an end of a message is longer than the reader takes.
Short(F) ==
  MessagesFit =>
    \A i, j \in 1..Len(F) :
      i <= j /\ (\A k \in i..j : ~F[k].last) => j - i + 1 + ReadBuf <= MaxMessage

Below(F, c) == \A k \in 1..Len(F) : F[k].n <= c

LEMMA Joined ==
  ASSUME NEW A \in Seq(Part), NEW B \in Seq(Part)
  PROVE  /\ A \o B \in Seq(Part) /\ Len(A) \in Nat /\ Len(B) \in Nat
         /\ Len(A \o B) = Len(A) + Len(B)
         /\ \A k \in 1..Len(A) : (A \o B)[k] = A[k]
         /\ \A k \in 1..Len(B) : (A \o B)[Len(A) + k] = B[k]
         /\ B = <<>> => A \o B = A
         /\ A = <<>> => A \o B = B
<1>1. Len(A) \in Nat /\ Len(B) \in Nat
  OBVIOUS
<1>2. /\ A \o B \in Seq(Part) /\ Len(A \o B) = Len(A) + Len(B)
      /\ \A i \in 1..(Len(A) + Len(B)) :
           (A \o B)[i] = IF i <= Len(A) THEN A[i] ELSE B[i - Len(A)]
  BY ConcatProperties
<1>3. ASSUME NEW k \in 1..Len(B) PROVE (A \o B)[Len(A) + k] = B[k]
  <2>1. /\ Len(A) + k \in 1..(Len(A) + Len(B)) /\ ~(Len(A) + k <= Len(A))
        /\ (Len(A) + k) - Len(A) = k
    BY <1>1
  <2>2. QED
    BY <1>2, <2>1
<1>4. \A k \in 1..Len(A) : k \in 1..(Len(A) + Len(B)) /\ k <= Len(A)
  BY <1>1
<1>5. \A k \in 1..Len(A) : (A \o B)[k] = A[k]
  BY <1>2, <1>4
<1>6. (B = <<>> => A \o B = A) /\ (A = <<>> => A \o B = B)
  BY ConcatEmptySeq
<1>7. QED
  BY <1>1, <1>2, <1>3, <1>5, <1>6

LEMMA JoinedConsecutive ==
  ASSUME NEW A \in Seq(Part), NEW B \in Seq(Part), NEW n \in Nat
  PROVE  /\ Consecutive(A \o B, n) <=> Consecutive(A, n) /\ Consecutive(B, NextNumber(A, n))
         /\ NextNumber(A \o B, n) = NextNumber(B, NextNumber(A, n))
         /\ NextNumber(A, n) \in Nat
<1> DEFINE F == A \o B
           a == Len(A)
           b == Len(B)
<1>1. /\ F \in Seq(Part) /\ a \in Nat /\ b \in Nat /\ Len(F) = a + b
      /\ \A k \in 1..a : F[k] = A[k]
      /\ \A k \in 1..b : F[a + k] = B[k]
  BY Joined
<1>2. /\ (A = <<>> <=> a = 0) /\ (B = <<>> <=> b = 0) /\ (F = <<>> <=> a + b = 0)
  BY <1>1, SeqParts
<1>3. NextNumber(A, n) \in Nat
  <2>1. a # 0 => A[a].n \in Nat
    BY <1>1, SeqParts
  <2>2. QED
    BY <1>2, <2>1 DEF NextNumber, After
<1> HIDE DEF F
<1>4. a # 0 => NextNumber(A, n) = After(A[a])
  BY <1>2 DEF NextNumber
<1>5. a = 0 => F = B /\ NextNumber(A, n) = n
  BY <1>2, Joined DEF NextNumber, F
<1>6. b = 0 => F = A
  BY <1>2, Joined DEF F
<1>7. CASE a = 0
  BY <1>2, <1>5, <1>7, <1>1 DEF Consecutive, F
<1>8. CASE a # 0 /\ b = 0
  <2>1. F = A /\ B = <<>> /\ Len(B) = 0
    BY <1>1, <1>2, <1>6, <1>8
  <2>2. \A x : NextNumber(B, x) = x
    BY <2>1 DEF NextNumber
  <2>3. \A x : Consecutive(B, x)
    BY <2>1 DEF Consecutive
  <2>4. QED
    BY <1>3, <2>1, <2>2, <2>3 DEF F
<1>9. CASE a # 0 /\ b # 0
  <2>1. 1 \in 1..a /\ F[1] = A[1] /\ F[a + 1] = B[1] /\ F[a] = A[a] /\ F[a + b] = B[b]
    <3>1. 1 \in 1..a /\ a \in 1..a /\ 1 \in 1..b /\ b \in 1..b
      BY <1>1, <1>9
    <3>2. QED
      BY <1>1, <3>1
  <2>2. NextNumber(F, n) = NextNumber(B, NextNumber(A, n))
    BY <1>1, <1>2, <1>9, <2>1 DEF NextNumber
  <2>3. ASSUME Consecutive(F, n)
        PROVE  Consecutive(A, n) /\ Consecutive(B, NextNumber(A, n))
    <3>1. F[1].n = n /\ \A k \in 1..(a + b - 1) : F[k + 1].n = After(F[k])
      BY <1>1, <1>2, <1>9, <2>3 DEF Consecutive
    <3>2. ASSUME NEW k \in 1..(a - 1) PROVE A[k + 1].n = After(A[k])
      <4>1. k \in 1..a /\ k + 1 \in 1..a /\ k \in 1..(a + b - 1)
        BY <1>1
      <4>2. QED
        BY <1>1, <3>1, <4>1
    <3>3. ASSUME NEW k \in 1..(b - 1) PROVE B[k + 1].n = After(B[k])
      <4>1. /\ k \in 1..b /\ k + 1 \in 1..b /\ a + k \in 1..(a + b - 1)
            /\ (a + k) + 1 = a + (k + 1)
        BY <1>1
      <4>2. F[(a + k) + 1].n = After(F[a + k])
        BY <3>1, <4>1
      <4>3. QED
        BY <1>1, <4>1, <4>2
    <3>4. B[1].n = After(A[a])
      <4>1. a \in 1..(a + b - 1)
        BY <1>1, <1>9
      <4>2. QED
        BY <2>1, <3>1, <4>1
    <3>5. QED
      BY <1>4, <1>9, <2>1, <3>1, <3>2, <3>3, <3>4 DEF Consecutive
  <2>4. ASSUME Consecutive(A, n), Consecutive(B, NextNumber(A, n))
        PROVE  Consecutive(F, n)
    <3>1. /\ A[1].n = n /\ \A k \in 1..(a - 1) : A[k + 1].n = After(A[k])
          /\ B[1].n = After(A[a]) /\ \A k \in 1..(b - 1) : B[k + 1].n = After(B[k])
      BY <1>2, <1>4, <1>9, <2>4 DEF Consecutive
    <3>2. ASSUME NEW k \in 1..(a + b - 1) PROVE F[k + 1].n = After(F[k])
      <4>1. CASE k < a
        <5>1. k \in 1..(a - 1) /\ k \in 1..a /\ k + 1 \in 1..a
          BY <1>1, <4>1
        <5>2. QED
          BY <1>1, <3>1, <5>1
      <4>2. CASE k = a
        BY <2>1, <3>1, <4>2
      <4>3. CASE k > a
        <5> DEFINE i == k - a
        <5>1. i \in 1..(b - 1) /\ i \in 1..b /\ i + 1 \in 1..b /\ k = a + i
              /\ k + 1 = a + (i + 1)
          BY <1>1, <4>3
        <5> HIDE DEF i
        <5>2. QED
          BY <1>1, <3>1, <5>1
      <4>4. QED
        BY <1>1, <4>1, <4>2, <4>3
    <3>3. QED
      BY <1>1, <2>1, <3>1, <3>2 DEF Consecutive
  <2>5. QED
    BY <1>3, <2>2, <2>3, <2>4 DEF F
<1>10. QED
  BY <1>3, <1>7, <1>8, <1>9 DEF F

LEMMA JoinedWhole ==
  ASSUME NEW A \in Seq(Part), NEW B \in Seq(Part)
  PROVE  /\ B # <<>> => (Whole(A \o B) <=> Whole(B))
         /\ \A c : Below(A \o B, c) <=> Below(A, c) /\ Below(B, c)
         /\ Short(A \o B) => Short(A) /\ Short(B)
         /\ Whole(A) /\ Short(A) /\ Short(B) => Short(A \o B)
<1> DEFINE F == A \o B
           a == Len(A)
           b == Len(B)
<1>1. /\ F \in Seq(Part) /\ a \in Nat /\ b \in Nat /\ Len(F) = a + b
      /\ \A k \in 1..a : F[k] = A[k]
      /\ \A k \in 1..b : F[a + k] = B[k]
  BY Joined
<1>2. /\ (A = <<>> <=> a = 0) /\ (B = <<>> <=> b = 0) /\ (F = <<>> <=> a + b = 0)
  BY <1>1, SeqParts
<1> HIDE DEF F
<1>3. B # <<>> => (Whole(F) <=> Whole(B))
  <2>1. b # 0 => F[a + b] = B[b] /\ a + b # 0
    BY <1>1
  <2>2. QED
    BY <1>1, <1>2, <2>1 DEF Whole
<1>4. \A k \in 1..(a + b) : k \in 1..a \/ (k - a \in 1..b /\ a + (k - a) = k)
  BY <1>1
<1>5. ASSUME NEW c PROVE Below(F, c) <=> Below(A, c) /\ Below(B, c)
  <2>1. \A k \in 1..a : k \in 1..(a + b)
    BY <1>1
  <2>2. \A k \in 1..b : a + k \in 1..(a + b)
    BY <1>1
  <2>3. Below(F, c) => Below(A, c) /\ Below(B, c)
    BY <1>1, <2>1, <2>2 DEF Below
  <2>4. Below(A, c) /\ Below(B, c) => Below(F, c)
    BY <1>1, <1>4 DEF Below
  <2>5. QED
    BY <2>3, <2>4
<1>6. ASSUME Short(F) PROVE Short(A) /\ Short(B)
  <2>1. SUFFICES ASSUME MessagesFit PROVE Short(A) /\ Short(B)
    BY DEF Short
  <2>2. \A i, j \in 1..(a + b) :
          i <= j /\ (\A k \in i..j : ~F[k].last) => j - i + 1 + ReadBuf <= MaxMessage
    BY <1>1, <1>6, <2>1 DEF Short
  <2>3. ASSUME NEW i \in 1..a, NEW j \in 1..a, i <= j, \A k \in i..j : ~A[k].last
        PROVE  j - i + 1 + ReadBuf <= MaxMessage
    <3>1. i \in 1..(a + b) /\ j \in 1..(a + b) /\ \A k \in i..j : k \in 1..a
      BY <1>1
    <3>2. \A k \in i..j : ~F[k].last
      BY <1>1, <2>3, <3>1
    <3>3. QED
      BY <2>2, <2>3, <3>1, <3>2
  <2>4. ASSUME NEW i \in 1..b, NEW j \in 1..b, i <= j, \A k \in i..j : ~B[k].last
        PROVE  j - i + 1 + ReadBuf <= MaxMessage
    <3>1. /\ a + i \in 1..(a + b) /\ a + j \in 1..(a + b) /\ a + i <= a + j
          /\ (a + j) - (a + i) = j - i
      BY <1>1, <2>4
    <3>2. ASSUME NEW k \in (a + i)..(a + j) PROVE ~F[k].last
      <4>1. k - a \in i..j /\ k - a \in 1..b /\ a + (k - a) = k
        BY <1>1
      <4>2. QED
        BY <1>1, <2>4, <4>1
    <3>3. (a + j) - (a + i) + 1 + ReadBuf <= MaxMessage
      BY <2>2, <3>1, <3>2
    <3>4. QED
      BY <3>1, <3>3
  <2>5. QED
    BY <2>3, <2>4 DEF Short
<1>7. ASSUME Whole(A), Short(A), Short(B) PROVE Short(F)
  <2>1. SUFFICES ASSUME MessagesFit, NEW i \in 1..(a + b), NEW j \in 1..(a + b), i <= j,
                        \A k \in i..j : ~F[k].last
                 PROVE  j - i + 1 + ReadBuf <= MaxMessage
    BY <1>1 DEF Short
  <2>2. CASE j <= a
    <3>1. i \in 1..a /\ j \in 1..a /\ \A k \in i..j : k \in 1..a
      BY <1>1, <2>1, <2>2
    <3>2. \A k \in i..j : ~A[k].last
      BY <1>1, <2>1, <3>1
    <3>3. QED
      BY <1>7, <2>1, <3>1, <3>2 DEF Short
  <2>3. CASE i > a
    <3> DEFINE p == i - a
               q == j - a
    <3>1. p \in 1..b /\ q \in 1..b /\ p <= q /\ q - p = j - i /\ i = a + p /\ j = a + q
      BY <1>1, <2>1, <2>3
    <3> HIDE DEF p, q
    <3>2. ASSUME NEW k \in p..q PROVE ~B[k].last
      <4>1. a + k \in i..j /\ k \in 1..b
        BY <1>1, <3>1
      <4>2. QED
        BY <1>1, <2>1, <4>1
    <3>3. q - p + 1 + ReadBuf <= MaxMessage
      BY <1>7, <2>1, <3>1, <3>2 DEF Short
    <3>4. QED
      BY <3>1, <3>3
  <2>4. CASE i <= a /\ a < j
    <3>1. a \in i..j /\ a \in 1..a /\ a # 0
      BY <1>1, <2>1, <2>4
    <3>2. A[a].last
      BY <1>2, <1>7, <3>1 DEF Whole
    <3>3. QED
      BY <1>1, <2>1, <3>1, <3>2
  <2>5. QED
    BY <1>1, <2>2, <2>3, <2>4
<1>8. QED
  BY <1>3, <1>5, <1>6, <1>7 DEF F

\* The parts of one message.
LEMMA PartsAre ==
  ASSUME NEW m \in Message
  PROVE  LET d == Parts(m) IN
           /\ d \in Seq(Part) /\ d # <<>> /\ Consecutive(d, m.n) /\ Whole(d) /\ Short(d)
           /\ \A c \in Nat : m.n <= c => Below(d, c)
           /\ \A n : NextNumber(d, n) = m.n + 1
<1> DEFINE d == Parts(m)
           z == m.size
<1>1. m.n \in Nat /\ z \in Nat /\ z >= 1 /\ z \in Sizes \cup {1}
  <2>1. m.n \in 0..MaxSends /\ z \in Sizes \cup {1}
    BY DEF Message
  <2>2. \A y \in Sizes : y \in Nat /\ y # 0
    BY PipeAssumption
  <2>3. QED
    BY <2>1, <2>2
<1>2. d \in Seq(Part) /\ d # <<>>
  BY PartsType
<1>3. DOMAIN d = 1..z /\ \A k \in 1..z : d[k].n = m.n /\ (d[k].last <=> k = z)
  BY DEF Parts
<1> HIDE DEF d, z
<1>4. Len(d) = z
  <2>1. Len(d) \in Nat /\ DOMAIN d = 1..Len(d)
    BY <1>2
  <2>2. QED
    BY <1>1, <1>3, <2>1
<1>5. Consecutive(d, m.n)
  <2>1. d[1].n = m.n
    BY <1>1, <1>3
  <2>2. ASSUME NEW k \in 1..(z - 1) PROVE d[k + 1].n = After(d[k])
    <3>1. k \in 1..z /\ k + 1 \in 1..z /\ k # z
      BY <1>1
    <3>2. QED
      BY <1>3, <3>1 DEF After
  <2>3. QED
    BY <1>4, <2>1, <2>2 DEF Consecutive
<1>6. d[z].last /\ d[z].n = m.n
  BY <1>1, <1>3
<1>7. Whole(d) /\ \A n : NextNumber(d, n) = m.n + 1
  BY <1>2, <1>4, <1>6 DEF Whole, NextNumber, After
<1>8. \A c \in Nat : m.n <= c => Below(d, c)
  BY <1>3, <1>4 DEF Below
<1>9. Short(d)
  <2>1. SUFFICES ASSUME MessagesFit, NEW i \in 1..z, NEW j \in 1..z, i <= j,
                        \A k \in i..j : ~d[k].last
                 PROVE  j - i + 1 + ReadBuf <= MaxMessage
    BY <1>4 DEF Short
  <2>2. j # z
    BY <1>1, <1>3, <2>1
  <2>3. z # 1
    BY <2>2
  <2>4. z - 1 + ReadBuf <= MaxMessage
    BY <1>1, <2>1, <2>3 DEF MessagesFit
  <2>5. ReadBuf \in Nat /\ MaxMessage \in Nat
    BY PipeAssumption
  <2>6. QED
    BY <1>1, <2>2, <2>4, <2>5
<1>10. QED
  BY <1>2, <1>5, <1>7, <1>8, <1>9 DEF d

(***************************************************************************)
(* The invariant.  Data is what a packet brings, Flow everything that is   *)
(* on its way to end e, Queue the messages that have yet to be written.    *)
(***************************************************************************)
Data(s) ==
  IF Packets(s, "in") = {} THEN <<>>
                           ELSE s.port[CHOOSE k \in Packets(s, "in") : TRUE].data

In(s)    == s.overflow \o Data(s)
Under(e) == wire[e] \o ch[Other(e)].outOp
Flow(e)  == In(ch[e]) \o Under(e)

HelloMessage == [n |-> Hello, size |-> 1]

Queue(s) == IF s.obj = "none" THEN <<HelloMessage>>
            ELSE IF s.outPending THEN Tail(s.outq) ELSE s.outq

\* F ends with a message, and the messages of Q are the next ones, up to c.
Line(F, n, Q, c) ==
  /\ Whole(F) /\ NextNumber(F, n) + Len(Q) = c + 1
  /\ \A k \in 1..Len(Q) : Q[k].n + Len(Q) = c + k

\* Of the object s of end e: p is the pipe of the other end, g what e has got, t how
\* often it was told of an error, c what it has sent.
Local(e, s, p, g, t, c) ==
  /\ s \in ChannelObject /\ g \in Seq(0..MaxSends) /\ t \in {0, 1} /\ c \in 0..MaxSends
  /\ s.obj = "none" => s = NoChannel /\ g = <<>> /\ c = 0
  /\ s.pipe = "none" => /\ s.obj = "none" \/ p = "closed"
                        /\ ~s.inPending /\ ~s.outPending /\ ~s.init
  /\ s.closing # "no" => s.pipe # "open"
  /\ s.closing = "error" => s.pipe = "closed"
  /\ s.pipe # "closed" \/ s.closing = "error" => t = 0
  /\ s.validate => e = "server" /\ Validate /\ g = <<>>
  /\ s.obj # "none" /\ ~s.secret => e = "client" /\ FALSE \in SecretOK
  /\ s.inOp = "connect" => s.waiting
  /\ s.waiting => s.inOp # "read" /\ Data(s) = <<>>
  /\ Packets(s, "in") # {} /\ Data(s) = <<>> /\ ~s.waiting => s.pipe # "open" \/ p = "closed"
  /\ \A k \in Packets(s, "out") : s.port[k].ok \/ s.pipe # "open" \/ p = "closed"
  /\ s.outPending => p # "none"
  /\ Len(Data(s)) <= ReadBuf
  /\ \A k \in 1..Len(s.overflow) : ~s.overflow[k].last

LocalAt(e) == Local(e, ch[e], ch[Other(e)].pipe, got[e], told[e], sent[e])

\* F are the messages that follow the first n; when p, the pipe of the other end, is not
\* closed they and those of Q are all that were sent.
Follows(F, n, Q, c, p) ==
  /\ Consecutive(F, n) /\ Short(F) /\ Below(F, c)
  /\ p # "closed" => Line(F, n, Q, c)

\* Nothing is read any more.
Deaf(s) == s.obj # "none" /\ s.pipe # "open"

Coming(e) ==
  LET o == Other(e) IN
    ~Deaf(ch[e]) =>
      Follows(Flow(e), Len(got[e]), Queue(ch[o]), sent[o], ch[o].pipe)

PInv == TypeOK /\ \A e \in End : LocalAt(e) /\ Coming(e)

LEMMA DataIs ==
  ASSUME NEW s, \A j, k \in Packets(s, "in") : j = k
  PROVE  /\ \A k \in Packets(s, "in") : Data(s) = s.port[k].data
         /\ Packets(s, "in") = {} => Data(s) = <<>>
  BY DEF Data

\* The head of the port is taken off.
Taken(s, r) == r.port = Tail(s.port)

LEMMA DataTail ==
  ASSUME NEW s, NEW r, s.port \in Seq(Packet), s.port # <<>>, Taken(s, r),
         \A j, k \in Packets(s, "in") : j = k
  PROVE  /\ Head(s.port).io = "in" =>
              /\ Data(s) = Head(s.port).data /\ Packets(s, "in") # {}
              /\ Packets(r, "in") = {} /\ Data(r) = <<>>
         /\ Head(s.port).io # "in" =>
              /\ Data(r) = Data(s)
              /\ Packets(r, "in") = {} <=> Packets(s, "in") = {}
         /\ \A k \in Packets(r, "out") : k + 1 \in Packets(s, "out") /\ r.port[k] = s.port[k + 1]
<1> DEFINE q == s.port
<1>1. /\ Len(q) \in Nat /\ Len(q) > 0 /\ Head(q) = q[1] /\ DOMAIN q = 1..Len(q)
      /\ DOMAIN Tail(q) = 1..(Len(q) - 1)
      /\ \A k \in 1..(Len(q) - 1) : Tail(q)[k] = q[k + 1]
  OBVIOUS
<1>0. r.port = Tail(q)
  BY DEF Taken
<1>2. \A io : \A k \in Packets(r, io) : k \in Nat /\ k # 0 /\ k + 1 \in Packets(s, io)
                                       /\ r.port[k] = s.port[k + 1]
  BY <1>0, <1>1 DEF Packets
<1>3. \A io : \A k \in Packets(s, io) : k # 1 => k - 1 \in Packets(r, io) /\ k \in Nat
  BY <1>0, <1>1 DEF Packets
<1>4. \A io : 1 \in Packets(s, io) <=> Head(q).io = io
  BY <1>0, <1>1 DEF Packets
<1>5. \A j, k \in Packets(r, "in") : j = k
  BY <1>2
<1> HIDE DEF q
<1>6. ASSUME Head(q).io = "in"
      PROVE  /\ Data(s) = Head(q).data /\ Packets(s, "in") # {}
             /\ Packets(r, "in") = {} /\ Data(r) = <<>>
  <2>1. 1 \in Packets(s, "in") /\ Data(s) = q[1].data
    BY <1>4, <1>6, DataIs DEF q
  <2>2. Packets(r, "in") = {}
    <3>1. SUFFICES ASSUME NEW k \in Packets(r, "in") PROVE FALSE
      OBVIOUS
    <3>2. k \in Nat /\ k + 1 \in Packets(s, "in") /\ k # 0
      BY <1>2, <1>5, <3>1
    <3>3. k + 1 = 1
      BY <2>1, <3>2
    <3>4. QED
      BY <3>2, <3>3
  <2>3. Data(r) = <<>>
    BY <1>5, <2>2, DataIs
  <2>4. QED
    BY <1>1, <2>1, <2>2, <2>3
<1>7. ASSUME Head(q).io # "in"
      PROVE  Data(r) = Data(s) /\ (Packets(r, "in") = {} <=> Packets(s, "in") = {})
  <2>1. Packets(r, "in") = {} <=> Packets(s, "in") = {}
    BY <1>2, <1>3, <1>4, <1>7
  <2>2. CASE Packets(r, "in") = {}
    BY <1>5, <2>1, <2>2, DataIs
  <2>3. CASE Packets(r, "in") # {}
    <3>1. PICK k \in Packets(r, "in") : TRUE
      BY <2>3
    <3>2. Data(r) = r.port[k].data
      BY <1>5, <3>1, DataIs
    <3>3. k + 1 \in Packets(s, "in") /\ r.port[k] = s.port[k + 1]
      BY <1>2, <3>1
    <3>4. Data(s) = s.port[k + 1].data
      BY <3>3, DataIs
    <3>5. QED
      BY <2>1, <3>2, <3>3, <3>4
  <2>4. QED
    BY <2>1, <2>2, <2>3
<1>8. QED
  BY <1>2, <1>6, <1>7 DEF q

\* The kernel puts a packet on the port.
Added(s, r, p) == r.port = Append(s.port, p)

LEMMA DataAppend ==
  ASSUME NEW s, NEW r, NEW p \in Packet, s.port \in Seq(Packet), Added(s, r, p),
         \A j, k \in Packets(s, "in") : j = k
  PROVE  /\ p.io = "in" /\ Packets(s, "in") = {} =>
              /\ Data(r) = p.data /\ Packets(r, "in") # {} /\ Data(s) = <<>>
              /\ Packets(r, "out") = Packets(s, "out")
         /\ p.io = "out" => Data(r) = Data(s) /\ Packets(r, "in") = Packets(s, "in")
         /\ \A k \in Packets(r, "out") :
              r.port[k] = p \/ (k \in Packets(s, "out") /\ r.port[k] = s.port[k])
         /\ r.port \in Seq(Packet)
<1> DEFINE q == s.port
           z == Len(q) + 1
<1>1. /\ Len(q) \in Nat /\ DOMAIN q = 1..Len(q) /\ DOMAIN r.port = 1..z
      /\ \A k \in 1..Len(q) : r.port[k] = q[k]
      /\ r.port[z] = p /\ r.port \in Seq(Packet) /\ z \in 1..z
  BY DEF Added
<1>2. \A io : \A k \in Packets(r, io) :
        (k = z /\ p.io = io) \/ (k \in Packets(s, io) /\ r.port[k] = s.port[k])
  BY <1>1 DEF Packets
<1>3. \A io : \A k \in Packets(s, io) : k \in Packets(r, io) /\ r.port[k] = s.port[k] /\ k # z
  BY <1>1 DEF Packets
<1>4. \A io : z \in Packets(r, io) <=> p.io = io
  BY <1>1 DEF Packets
<1> HIDE DEF q, z
<1>5. ASSUME p.io = "in", Packets(s, "in") = {}
      PROVE  /\ Data(r) = p.data /\ Packets(r, "in") # {} /\ Data(s) = <<>>
             /\ Packets(r, "out") = Packets(s, "out")
  <2>1. z \in Packets(r, "in") /\ \A k \in Packets(r, "in") : k = z
    BY <1>2, <1>4, <1>5
  <2>2. Data(r) = r.port[z].data
    BY <2>1, DataIs
  <2>3. Packets(r, "out") = Packets(s, "out")
    <3>1. p.io # "out"
      BY <1>5
    <3>2. \A k \in Packets(r, "out") : k \in Packets(s, "out")
      BY <1>2, <3>1
    <3>3. \A k \in Packets(s, "out") : k \in Packets(r, "out")
      BY <1>3
    <3>4. QED
      BY <3>2, <3>3
  <2>4. QED
    BY <1>1, <1>5, <2>1, <2>2, <2>3, DataIs
<1>6. ASSUME p.io = "out"
      PROVE  Data(r) = Data(s) /\ Packets(r, "in") = Packets(s, "in")
  <2>1. Packets(r, "in") = Packets(s, "in")
    BY <1>2, <1>3, <1>6
  <2>2. CASE Packets(s, "in") = {}
    BY <2>1, <2>2 DEF Data
  <2>3. ASSUME NEW k \in Packets(s, "in") PROVE Data(r) = Data(s)
    <3>1. Data(s) = s.port[k].data /\ Data(r) = r.port[k].data
      BY <2>1, <2>3, DataIs
    <3>2. QED
      BY <1>3, <2>3, <3>1
  <2>4. QED
    BY <2>1, <2>2, <2>3
<1>7. QED
  BY <1>1, <1>2, <1>5, <1>6

\* Data depends on the port alone, and is a sequence of parts.
LEMMA DataSame ==
  ASSUME NEW s, NEW r, r.port = s.port
  PROVE  Data(r) = Data(s) /\ \A io : Packets(r, io) = Packets(s, io)
  BY DEF Data, Packets

LEMMA DataParts ==
  ASSUME NEW s, s.port \in Seq(Packet)
  PROVE  Data(s) \in Seq(Part)
<1>1. \A k \in Packets(s, "in") : s.port[k] \in Packet
  BY DEF Packets
<1>2. \A p \in Packet : p.data \in Seq(Part)
  BY DEF Packet
<1>3. CASE Packets(s, "in") = {}
  BY <1>3, EmptyParts DEF Data
<1>4. CASE Packets(s, "in") # {}
  <2> DEFINE k == CHOOSE k \in Packets(s, "in") : TRUE
  <2>1. k \in Packets(s, "in")
    BY <1>4
  <2>2. Data(s) = s.port[k].data
    BY <1>4 DEF Data
  <2>3. QED
    BY <1>1, <1>2, <2>1, <2>2
<1>5. QED
  BY <1>3, <1>4

\* Messages join the queue, and leave it as parts.
LEMMA LineSend ==
  ASSUME NEW F \in Seq(Part), NEW n \in Nat, NEW Q \in Seq(Message), NEW c \in Nat,
         NEW m \in Message, m.n = c + 1, Line(F, n, Q, c)
  PROVE  Line(F, n, Append(Q, m), c + 1)
<1>1. /\ Len(Q) \in Nat /\ Len(Append(Q, m)) = Len(Q) + 1
      /\ \A k \in 1..Len(Q) : Append(Q, m)[k] = Q[k] /\ Q[k] \in Message
      /\ Append(Q, m)[Len(Q) + 1] = m
  OBVIOUS
<1>2. \A x \in Message : x.n \in Nat
  BY PipeAssumption DEF Message
<1>3. NextNumber(F, n) \in Nat
  BY JoinedConsecutive
<1>4. NextNumber(F, n) + Len(Append(Q, m)) = (c + 1) + 1
  BY <1>1, <1>3 DEF Line
<1>5. ASSUME NEW k \in 1..(Len(Q) + 1)
      PROVE  Append(Q, m)[k].n + (Len(Q) + 1) = (c + 1) + k
  <2>1. CASE k \in 1..Len(Q)
    <3>1. Q[k].n + Len(Q) = c + k /\ Q[k].n \in Nat /\ Append(Q, m)[k] = Q[k]
      BY <1>1, <1>2, <2>1 DEF Line
    <3>2. k \in Nat
      BY <2>1
    <3> DEFINE x == Q[k].n
               z == Len(Q)
    <3>3. x \in Nat /\ z \in Nat /\ x + z = c + k
      BY <1>1, <3>1
    <3> HIDE DEF x, z
    <3>4. x + (z + 1) = (c + 1) + k
      BY ONLY <3>2, <3>3, c \in Nat
    <3>5. QED
      BY <3>1, <3>4 DEF x, z
  <2>2. CASE k = Len(Q) + 1
    BY <1>1, <2>2
  <2>3. QED
    BY <1>1, <2>1, <2>2
<1>6. QED
  BY <1>1, <1>4, <1>5 DEF Line

LEMMA LineStart ==
  ASSUME NEW F \in Seq(Part), NEW n \in Nat, NEW Q \in Seq(Message), NEW c \in Nat,
         Q # <<>>, Line(F, n, Q, c), Consecutive(F, n), Short(F), Below(F, c)
  PROVE  LET G == F \o Parts(Head(Q)) IN
           /\ G \in Seq(Part) /\ Line(G, n, Tail(Q), c)
           /\ Consecutive(G, n) /\ Short(G) /\ Below(G, c)
<1> DEFINE m == Head(Q)
           d == Parts(m)
           G == F \o d
<1>1. /\ Len(Q) \in Nat /\ Len(Q) > 0 /\ m = Q[1] /\ m \in Message
      /\ Tail(Q) \in Seq(Message) /\ Len(Tail(Q)) = Len(Q) - 1
      /\ \A k \in 1..(Len(Q) - 1) : Tail(Q)[k] = Q[k + 1] /\ Q[k + 1] \in Message
  OBVIOUS
<1>2. \A x \in Message : x.n \in Nat
  BY PipeAssumption DEF Message
<1>3. m.n + Len(Q) = c + 1 /\ m.n \in Nat
  BY <1>1, <1>2 DEF Line
<1>4. NextNumber(F, n) = m.n
  <2>1. NextNumber(F, n) \in Nat /\ NextNumber(F, n) + Len(Q) = c + 1
    BY JoinedConsecutive DEF Line
  <2>2. QED
    BY <1>1, <1>3, <2>1
<1>5. /\ d \in Seq(Part) /\ d # <<>> /\ Consecutive(d, m.n) /\ Whole(d) /\ Short(d)
      /\ Below(d, c) /\ NextNumber(d, m.n) = m.n + 1
  <2>1. m.n <= c
    BY <1>1, <1>3
  <2>2. QED
    BY <1>1, <2>1, PartsAre
<1> HIDE DEF d, m
<1>6. /\ G \in Seq(Part) /\ Consecutive(G, n) /\ NextNumber(G, n) = m.n + 1
  <2>1. G \in Seq(Part)
    BY <1>5, Joined
  <2>2. /\ Consecutive(G, n) <=> Consecutive(F, n) /\ Consecutive(d, NextNumber(F, n))
        /\ NextNumber(G, n) = NextNumber(d, NextNumber(F, n))
    BY <1>5, JoinedConsecutive
  <2>3. QED
    BY <1>4, <1>5, <2>1, <2>2
<1>7. Whole(G) /\ Below(G, c) /\ Short(G)
  BY <1>5, JoinedWhole DEF Line
<1> HIDE DEF G
<1>8. NextNumber(G, n) + Len(Tail(Q)) = c + 1
  BY <1>1, <1>3, <1>6
<1>9. ASSUME NEW k \in 1..Len(Tail(Q)) PROVE Tail(Q)[k].n + Len(Tail(Q)) = c + k
  <2>1. k + 1 \in 1..Len(Q) /\ Tail(Q)[k] = Q[k + 1] /\ Q[k + 1].n \in Nat
    BY <1>1, <1>2
  <2>2. Q[k + 1].n + Len(Q) = c + (k + 1)
    BY <2>1 DEF Line
  <2>3. QED
    BY <1>1, <2>1, <2>2
<1>10. QED
  BY <1>6, <1>7, <1>8, <1>9 DEF Line, G, d, m

(***************************************************************************)
(* A step of end e: what it may make of the object, r, and of the flows.   *)
(***************************************************************************)
LEMMA LocalMonotone ==
  ASSUME NEW e, NEW s, NEW p, NEW q, NEW g, NEW t, NEW c, Local(e, s, p, g, t, c),
         p = "closed" => q = "closed", p # "none" => q # "none"
  PROVE  Local(e, s, q, g, t, c)
  BY DEF Local

\* The port stays as it is.
LEMMA LocalKept ==
  ASSUME NEW e, NEW s, NEW r, NEW p, NEW g, NEW t, NEW c, NEW d,
         Local(e, s, p, g, t, c), r \in ChannelObject, s.obj # "none", r.obj # "none",
         d \in 0..MaxSends,
         r.pipe = s.pipe, r.closing \in {"no", s.closing}, r.validate = s.validate,
         r.secret = s.secret, r.port = s.port, r.overflow = s.overflow,
         s.pipe = "none" => ~r.inPending /\ ~r.outPending /\ ~r.init,
         r.inOp = "connect" => r.waiting,
         r.waiting => s.waiting /\ r.inOp # "read",
         Packets(s, "in") # {} /\ ~r.waiting => ~s.waiting,
         r.outPending => p # "none"
  PROVE  Local(e, r, p, g, t, d)
<1>1. Data(r) = Data(s) /\ \A io : Packets(r, io) = Packets(s, io)
  BY DataSame
<1>2. QED
  BY <1>1 DEF Local

\* What U holds and what Q has yet to give, when nothing or the next message is written.
Feed(U, Q, c, V, R, d) ==
  /\ d = c
  /\ \/ V = U /\ R = Q
     \/ Q # <<>> /\ V = U \o Parts(Head(Q)) /\ R = Tail(Q)

\* V is what now is under the other end.
Sends(e, r, V, d) ==
  LET U == Under(Other(e))
      Q == Queue(ch[e])
      c == sent[e]
  IN IF r.pipe = "closed" THEN d \in {c, c + 1} /\ \E B \in Seq(Part) : U = V \o B
     ELSE \/ Feed(U, Q, c, V, Queue(r), d)
          \/ \E m \in Message : m.n = c + 1 /\ Feed(U, Append(Q, m), c + 1, V, Queue(r), d)

\* X remains of Z when P is taken off.
Consumes(Z, P, X) == Z = P \o X

\* W is what is on the wire to e now, and g what e has got.
Receives(e, r, W, g) ==
  Deaf(r) \/
  \E P \in Seq(Part) : /\ Consumes(In(ch[e]) \o wire[e], P, In(r) \o W)
                       /\ Len(g) = NextNumber(P, Len(got[e]))

PipeOrder(s, r) ==
  /\ r.obj # "none"
  /\ Deaf(s) => Deaf(r)
  /\ s.pipe = "closed" => r.pipe = "closed"
  /\ s.pipe # "none" => r.pipe # "none"

LEMMA Ends2 ==
  ASSUME NEW e \in End
  PROVE  Other(e) \in End /\ Other(e) # e /\ Other(Other(e)) = e
         /\ \A f \in End : f = e \/ f = Other(e)
  BY DEF End, Other

LEMMA FlowParts ==
  ASSUME IInv, PInv, NEW e \in End
  PROVE  /\ ch[e] \in ChannelObject /\ wire[e] \in Seq(Part)
         /\ ch[e].overflow \in Seq(Part) /\ ch[e].outOp \in Seq(Part)
         /\ ch[e].port \in Seq(Packet) /\ ch[e].outq \in Seq(Message)
         /\ Data(ch[e]) \in Seq(Part) /\ In(ch[e]) \in Seq(Part)
         /\ Under(e) \in Seq(Part) /\ Flow(e) \in Seq(Part)
         /\ Queue(ch[e]) \in Seq(Message)
         /\ got[e] \in Seq(0..MaxSends) /\ Len(got[e]) \in Nat /\ sent[e] \in Nat
<1>1. /\ ch[e] \in ChannelObject /\ wire[e] \in Seq(Part) /\ got[e] \in Seq(0..MaxSends)
      /\ sent[e] \in 0..MaxSends
  BY DEF PInv, TypeOK
<1>2. Other(e) \in End /\ ch[Other(e)] \in ChannelObject
  BY Ends2 DEF PInv, TypeOK
<1>3. \A s \in ChannelObject :
        /\ s.overflow \in Seq(Part) /\ s.outOp \in Seq(Part) /\ s.port \in Seq(Packet)
        /\ s.outq \in Seq(Message) /\ s.outPending \in BOOLEAN
  BY DEF ChannelObject
<1>4. Data(ch[e]) \in Seq(Part)
  BY <1>1, <1>3, DataParts
<1>5. In(ch[e]) \in Seq(Part)
  BY <1>1, <1>3, <1>4, Joined DEF In
<1>6. Under(e) \in Seq(Part)
  BY <1>1, <1>2, <1>3, Joined DEF Under
<1>7. Flow(e) \in Seq(Part)
  BY <1>5, <1>6, Joined DEF Flow
<1>8. Queue(ch[e]) \in Seq(Message)
  <2>1. HelloMessage \in Message
    BY PipeAssumption DEF HelloMessage, Message, Hello
  <2>2. <<HelloMessage>> \in Seq(Message)
    BY <2>1
  <2> DEFINE q == ch[e].outq
  <2>3. q \in Seq(Message)
    BY <1>1, <1>3
  <2>4. ch[e].outPending => q # <<>>
    BY DEF IInv, Good
  <2> HIDE DEF q
  <2>5. q # <<>> => Tail(q) \in Seq(Message)
    BY <2>3
  <2>7. QED
    BY <2>2, <2>3, <2>4, <2>5 DEF Queue, q
<1>9. Len(got[e]) \in Nat /\ sent[e] \in Nat
  <2>1. \A x \in 0..MaxSends : x \in Nat
    OBVIOUS
  <2>2. \A T : \A q \in Seq(T) : Len(q) \in Nat
    OBVIOUS
  <2>3. QED
    BY <1>1, <2>1, <2>2
<1>10. QED
  BY <1>1, <1>3, <1>4, <1>5, <1>6, <1>7, <1>8, <1>9

Reassociated(A, B, C) == (A \o B) \o C = A \o (B \o C)

LEMMA Reassociate ==
  ASSUME NEW A \in Seq(Part), NEW B \in Seq(Part), NEW C \in Seq(Part)
  PROVE  Reassociated(A, B, C)
  BY ConcatAssociative DEF Reassociated

LEMMA JoinedTwice ==
  ASSUME NEW A \in Seq(Part), NEW B \in Seq(Part), NEW C \in Seq(Part)
  PROVE  (A \o B) \o C = A \o (B \o C)
<1>1. Reassociated(A, B, C)
  BY Reassociate
<1>2. QED
  BY ONLY <1>1 DEF Reassociated

\* The parts that are consumed, then the ones at hand, then the ones under way.
LEMMA ConsumedLine ==
  ASSUME NEW A \in Seq(Part), NEW B \in Seq(Part), NEW P \in Seq(Part), NEW C \in Seq(Part),
         NEW D \in Seq(Part), NEW x \in Seq(Part), NEW n \in Nat, NEW m \in Nat,
         NEW Q, NEW c, NEW p,
         Consumes(A \o B, P, C \o D), m = NextNumber(P, n),
         Follows(A \o (B \o x), n, Q, c, p)
  PROVE  Follows(C \o (D \o x), m, Q, c, p)
<1>0. (P \o (C \o D)) \o x = P \o ((C \o D) \o x)
  <2>1. PICK y : y = C \o D
    OBVIOUS
  <2>2. P \in Seq(Part) /\ y \in Seq(Part) /\ x \in Seq(Part)
    BY <2>1, Joined
  <2>3. (P \o y) \o x = P \o (y \o x)
    <3>1. Reassociated(P, y, x)
      BY ONLY <2>2, Reassociate
    <3>2. QED
      BY ONLY <3>1 DEF Reassociated
  <2>4. QED
    BY <2>1, <2>3
<1> DEFINE G == C \o (D \o x)
           F == A \o (B \o x)
<1>1. /\ D \o x \in Seq(Part) /\ C \o D \in Seq(Part) /\ B \o x \in Seq(Part)
  BY Joined
<1>2. G \in Seq(Part) /\ F \in Seq(Part)
  BY <1>1, Joined
<1>3. F = P \o G
  <2>1. F = (A \o B) \o x
    <3>1. Reassociated(A, B, x)
      BY ONLY A \in Seq(Part), B \in Seq(Part), x \in Seq(Part), Reassociate
    <3>2. QED
      BY ONLY <3>1 DEF Reassociated
  <2>3. (C \o D) \o x = G
    <3>1. Reassociated(C, D, x)
      BY ONLY C \in Seq(Part), D \in Seq(Part), x \in Seq(Part), Reassociate
    <3>2. QED
      BY ONLY <3>1 DEF Reassociated
  <2>4. QED
    BY <1>0, <2>1, <2>3 DEF Consumes
<1>4. /\ Consecutive(F, n) /\ Short(F) /\ Below(F, c) /\ (p # "closed" => Line(F, n, Q, c))
  BY DEF Follows
<1> HIDE DEF F, G
<1>5. Consecutive(G, m) /\ NextNumber(F, n) = NextNumber(G, m)
  BY <1>2, <1>3, <1>4, JoinedConsecutive
<1>6. Short(G) /\ Below(G, c)
  BY <1>2, <1>3, <1>4, JoinedWhole
<1>7. Whole(F) => Whole(G)
  <2>1. CASE G = <<>>
    BY <2>1 DEF Whole
  <2>2. CASE G # <<>>
    BY <1>2, <1>3, <2>2, JoinedWhole
  <2>3. QED
    BY <2>1, <2>2
<1>8. p # "closed" => Line(G, m, Q, c)
  BY <1>4, <1>5, <1>7 DEF Line
<1>9. QED
  BY <1>5, <1>6, <1>8 DEF Follows, G

\* What is on its way to the end that took the step.
LEMMA ComingHere ==
  ASSUME IInv, PInv, NEW e \in End, NEW r, Put(e, r), r \in ChannelObject,
         PipeOrder(ch[e], r), wire'[e] \in Seq(Part), got'[e] \in Seq(0..MaxSends),
         Receives(e, r, wire'[e], got'[e]), sent'[Other(e)] = sent[Other(e)]
  PROVE  Coming(e)'
<1>0. PICK o : o = Other(e)
  OBVIOUS
<1>1. o \in End /\ o # e /\ DOMAIN ch = End
  BY <1>0, Ends2 DEF IInv
<1>2. ch'[e] = r /\ ch'[o] = ch[o]
  BY <1>1 DEF Put
<1>3. SUFFICES ASSUME ~Deaf(r) PROVE Coming(e)'
  BY <1>2 DEF Coming
<1>4. PICK A, B, C, D, x, n, m, Q, c, p :
        /\ A = In(ch[e]) /\ B = wire[e] /\ C = In(r) /\ D = wire'[e] /\ x = ch[o].outOp
        /\ n = Len(got[e]) /\ m = Len(got'[e]) /\ Q = Queue(ch[o]) /\ c = sent[o]
        /\ p = ch[o].pipe
  OBVIOUS
<1>5. PICK P \in Seq(Part) : Consumes(A \o B, P, C \o D) /\ m = NextNumber(P, n)
  BY <1>3, <1>4 DEF Receives
<1>6. ~Deaf(ch[e])
  BY <1>3 DEF PipeOrder
<1>7. /\ A \in Seq(Part) /\ B \in Seq(Part) /\ C \in Seq(Part) /\ D \in Seq(Part)
      /\ x \in Seq(Part) /\ n \in Nat /\ m \in Nat
  <2>1. r.overflow \in Seq(Part) /\ r.port \in Seq(Packet)
    BY DEF ChannelObject
  <2>2. In(r) \in Seq(Part)
    BY <2>1, DataParts, Joined DEF In
  <2>3. In(ch[e]) \in Seq(Part) /\ wire[e] \in Seq(Part) /\ n \in Nat
    BY <1>4, FlowParts
  <2>4. x \in Seq(Part)
    BY <1>1, <1>4, FlowParts
  <2>5. m \in Nat
    BY <1>4
  <2>6. QED
    BY <1>4, <2>2, <2>3, <2>4, <2>5
<1>8. Flow(e) = A \o (B \o x)
  BY <1>0, <1>4 DEF Flow, Under
<1>9. Flow(e)' = C \o (D \o x)
  <2>1. In(ch[e])' = In(ch'[e])
    BY DEF In, Data, Packets
  <2>2. Flow(e)' = In(ch'[e]) \o (wire'[e] \o ch'[o].outOp)
    BY <1>0, <2>1 DEF Flow, Under
  <2>3. QED
    BY <1>2, <1>4, <2>2
<1>10. Coming(e)
  BY DEF PInv
<1>11. Follows(A \o (B \o x), n, Q, c, p)
  BY <1>0, <1>4, <1>6, <1>8, <1>10 DEF Coming
<1>12. Follows(C \o (D \o x), m, Q, c, p)
  BY ONLY <1>5, <1>7, <1>11, ConsumedLine
<1>13. Queue(ch[o])' = Q /\ sent'[o] = c /\ p = ch'[o].pipe
  BY <1>0, <1>2, <1>4 DEF Queue
<1>14. QED
  BY <1>0, <1>4, <1>9, <1>12, <1>13 DEF Coming

\* F is joined by V instead of U.
LEMMA FeedLine ==
  ASSUME NEW I \in Seq(Part), NEW U \in Seq(Part), NEW V \in Seq(Part), NEW n \in Nat,
         NEW Q \in Seq(Message), NEW c \in Nat, NEW R, NEW d, Feed(U, Q, c, V, R, d),
         Line(I \o U, n, Q, c), Consecutive(I \o U, n), Short(I \o U), Below(I \o U, c)
  PROVE  /\ Line(I \o V, n, R, d) /\ Consecutive(I \o V, n) /\ Short(I \o V)
         /\ Below(I \o V, d)
<1>1. CASE V = U /\ R = Q
  BY <1>1 DEF Feed
<1>2. CASE Q # <<>> /\ V = U \o Parts(Head(Q)) /\ R = Tail(Q)
  <2> DEFINE F == I \o U
             p == Parts(Head(Q))
  <2>1. F \in Seq(Part)
    BY Joined
  <2>2. p \in Seq(Part)
    <3>1. Head(Q) \in Message
      BY <1>2
    <3>2. QED
      BY <3>1, PartsAre
  <2>3. /\ Line(F \o p, n, R, c) /\ Consecutive(F \o p, n) /\ Short(F \o p)
        /\ Below(F \o p, c)
    <3> HIDE DEF F
    <3>1. Line(F, n, Q, c) /\ Consecutive(F, n) /\ Short(F) /\ Below(F, c)
      BY DEF F
    <3>2. QED
      BY <1>2, <2>1, <3>1, LineStart
  <2>4. F \o p = I \o V
    <3> HIDE DEF p
    <3>1. (I \o U) \o p = I \o (U \o p)
      BY <2>2, JoinedTwice
    <3>2. QED
      BY <1>2, <3>1 DEF p
  <2>5. d = c
    BY DEF Feed
  <2> HIDE DEF F, p
  <2>6. QED
    BY <2>3, <2>4, <2>5
<1>3. QED
  BY <1>1, <1>2 DEF Feed

\* The same with one more message, and the end that is cut off.
LEMMA FeedMore ==
  ASSUME NEW I \in Seq(Part), NEW U \in Seq(Part), NEW V \in Seq(Part), NEW n \in Nat,
         NEW Q \in Seq(Message), NEW c \in Nat, NEW R, NEW d, NEW m \in Message,
         m.n = c + 1, Feed(U, Append(Q, m), c + 1, V, R, d),
         Line(I \o U, n, Q, c), Consecutive(I \o U, n), Short(I \o U), Below(I \o U, c)
  PROVE  /\ Line(I \o V, n, R, d) /\ Consecutive(I \o V, n) /\ Short(I \o V)
         /\ Below(I \o V, d)
<1> DEFINE F == I \o U
           q == Append(Q, m)
<1>1. F \in Seq(Part) /\ q \in Seq(Message) /\ c + 1 \in Nat
  BY Joined
<1>2. Line(F, n, q, c + 1)
  <2> HIDE DEF F
  <2>1. Line(F, n, Q, c)
    BY DEF F
  <2>2. QED
    BY <1>1, <2>1, LineSend
<1>3. Below(F, c + 1)
  <2>1. \A k \in 1..Len(F) : F[k].n \in Nat
    BY <1>1, SeqParts
  <2>2. \A k \in 1..Len(F) : F[k].n <= c
    BY DEF Below
  <2> HIDE DEF F
  <2>3. QED
    BY <2>1, <2>2 DEF Below
<1>4. QED
  BY <1>1, <1>2, <1>3, FeedLine

LEMMA CutLine ==
  ASSUME NEW I \in Seq(Part), NEW V \in Seq(Part), NEW B \in Seq(Part), NEW n \in Nat,
         NEW c \in Nat, NEW d \in {c, c + 1},
         Consecutive(I \o (V \o B), n), Short(I \o (V \o B)), Below(I \o (V \o B), c)
  PROVE  Consecutive(I \o V, n) /\ Short(I \o V) /\ Below(I \o V, d)
<1> DEFINE F == I \o V
<1>1. F \in Seq(Part)
  BY Joined
<1>2. Consecutive(F \o B, n) /\ Short(F \o B) /\ Below(F \o B, c)
  <2>1. F \o B = I \o (V \o B)
    BY JoinedTwice
  <2>2. QED
    BY <2>1
<1> HIDE DEF F
<1>3. Consecutive(F, n) /\ Short(F) /\ Below(F, c)
  BY <1>1, <1>2, JoinedConsecutive, JoinedWhole
<1>4. \A k \in 1..Len(F) : F[k].n \in Nat
  BY <1>1, SeqParts
<1>5. QED
  BY <1>3, <1>4 DEF Below, F

\* What is on its way to the other end.
LEMMA ComingThere ==
  ASSUME IInv, PInv, NEW e \in End, NEW r, Put(e, r), r \in ChannelObject,
         PipeOrder(ch[e], r), wire'[Other(e)] \in Seq(Part),
         NEW V, V = wire'[Other(e)] \o r.outOp,
         ch[Other(e)].pipe = "closed" \/ Sends(e, r, V, sent'[e]),
         got'[Other(e)] = got[Other(e)]
  PROVE  Coming(Other(e))'
<1>0. PICK o : o = Other(e)
  OBVIOUS
<1>1. o \in End /\ o # e /\ DOMAIN ch = End /\ Other(o) = e
  BY <1>0, Ends2 DEF IInv
<1>2. ch'[e] = r /\ ch'[o] = ch[o]
  BY <1>1 DEF Put
<1>3. SUFFICES ASSUME ~Deaf(ch[o]) PROVE Coming(o)'
  BY <1>0, <1>2 DEF Coming, Deaf
<1>4. PICK I, U, n, Q, c, R, d :
        /\ I = In(ch[o]) /\ U = Under(o) /\ n = Len(got[o]) /\ Q = Queue(ch[e])
        /\ c = sent[e] /\ R = Queue(r) /\ d = sent'[e]
  OBVIOUS
<1>5. /\ I \in Seq(Part) /\ U \in Seq(Part) /\ n \in Nat /\ c \in Nat /\ Q \in Seq(Message)
      /\ V \in Seq(Part)
  <2>1. I \in Seq(Part) /\ U \in Seq(Part) /\ n \in Nat
    BY <1>1, <1>4, FlowParts
  <2>2. Q \in Seq(Message) /\ c \in Nat
    BY <1>4, FlowParts
  <2>3. r.outOp \in Seq(Part) /\ wire'[o] \in Seq(Part)
    BY <1>0 DEF ChannelObject
  <2>4. V \in Seq(Part)
    BY <1>0, <2>3, Joined
  <2>5. QED
    BY <2>1, <2>2, <2>4
<1>6. /\ Flow(o) = I \o U /\ Flow(o)' = I \o V
  <2>1. In(ch[o])' = In(ch'[o])
    BY DEF In, Data, Packets
  <2>2. Flow(o)' = In(ch'[o]) \o (wire'[o] \o ch'[e].outOp)
    BY <1>1, <2>1 DEF Flow, Under
  <2>3. Flow(o)' = I \o V
    BY <1>0, <1>2, <1>4, <2>2
  <2>4. QED
    BY <1>4, <2>3 DEF Flow
<1>7. Coming(o)
  BY <1>1 DEF PInv
<1>8. /\ Consecutive(I \o U, n) /\ Short(I \o U) /\ Below(I \o U, c)
      /\ ch[e].pipe # "closed" => Line(I \o U, n, Q, c)
  BY <1>1, <1>3, <1>4, <1>6, <1>7 DEF Coming, Follows
<1>9. Queue(ch[e])' = R /\ Len(got'[o]) = n /\ sent'[e] = d
  BY <1>0, <1>2, <1>4 DEF Queue
<1>10. Sends(e, r, V, d)
  <2>1. LocalAt(o)
    BY <1>1 DEF PInv
  <2>2. ch[o].pipe # "closed"
    BY <1>3, <2>1 DEF LocalAt, Local, Deaf, NoChannel
  <2>3. QED
    BY <1>0, <1>4, <2>2
<1>11. CASE r.pipe = "closed"
  <2>1. d \in {c, c + 1} /\ \E B \in Seq(Part) : U = V \o B
    BY <1>0, <1>4, <1>10, <1>11 DEF Sends
  <2>2. PICK B \in Seq(Part) : U = V \o B
    BY <2>1
  <2>3. Consecutive(I \o V, n) /\ Short(I \o V) /\ Below(I \o V, d)
    BY ONLY <1>5, <1>8, <2>1, <2>2, CutLine
  <2>4. QED
    BY <1>1, <1>2, <1>4, <1>6, <1>9, <1>11, <2>3 DEF Coming, Follows
<1>12. CASE r.pipe # "closed"
  <2>1. Line(I \o U, n, Q, c)
    BY <1>8, <1>12 DEF PipeOrder
  <2>2. \/ Feed(U, Q, c, V, R, d)
        \/ \E m \in Message : m.n = c + 1 /\ Feed(U, Append(Q, m), c + 1, V, R, d)
    BY <1>0, <1>4, <1>10, <1>12 DEF Sends
  <2>3. /\ Line(I \o V, n, R, d) /\ Consecutive(I \o V, n)
        /\ Short(I \o V) /\ Below(I \o V, d)
    <3>1. CASE Feed(U, Q, c, V, R, d)
      BY ONLY <1>5, <1>8, <2>1, <3>1, FeedLine
    <3>2. CASE \E m \in Message : m.n = c + 1 /\ Feed(U, Append(Q, m), c + 1, V, R, d)
      <4>1. PICK m \in Message : m.n = c + 1 /\ Feed(U, Append(Q, m), c + 1, V, R, d)
        BY <3>2
      <4>2. QED
        BY ONLY <1>5, <1>8, <2>1, <4>1, FeedMore
    <3>3. QED
      BY <2>2, <3>1, <3>2
  <2>4. QED
    BY <1>1, <1>2, <1>4, <1>6, <1>9, <2>3 DEF Coming, Follows
<1>13. QED
  BY <1>11, <1>12

\* A step of e that is like that keeps the invariant.
LEMMA StepInv ==
  ASSUME IInv, PInv, NEW e \in End, NEW r, NEW g, NEW t, NEW c, Put(e, r),
         PipeOrder(ch[e], r), Local(e, r, ch[Other(e)].pipe, g, t, c),
         wire' \in [End -> Seq(Part)],
         got' = [got EXCEPT ![e] = g], told' = [told EXCEPT ![e] = t],
         sent' = [sent EXCEPT ![e] = c],
         Receives(e, r, wire'[e], g),
         ch[Other(e)].pipe = "closed" \/ Sends(e, r, wire'[Other(e)] \o r.outOp, c)
  PROVE  PInv'
<1> DEFINE o == Other(e)
<1>1. o \in End /\ o # e /\ DOMAIN ch = End /\ Other(o) = e /\ \A f \in End : f = e \/ f = o
  BY Ends2 DEF IInv
<1>2. /\ ch \in [End -> ChannelObject] /\ sent \in [End -> 0..MaxSends]
      /\ got \in [End -> Seq(0..MaxSends)] /\ told \in [End -> Nat]
  BY DEF PInv, TypeOK
<1>3. /\ r \in ChannelObject /\ g \in Seq(0..MaxSends) /\ t \in {0, 1} /\ c \in 0..MaxSends
  BY DEF Local
<1>4. /\ ch'[e] = r /\ ch'[o] = ch[o] /\ got'[e] = g /\ got'[o] = got[o] /\ told'[e] = t
      /\ told'[o] = told[o] /\ sent'[e] = c /\ sent'[o] = sent[o]
  BY <1>1, <1>2 DEF Put
<1>5. TypeOK'
  <2>1. ch' \in [End -> ChannelObject]
    BY <1>2, <1>3 DEF Put
  <2>2. got' \in [End -> Seq(0..MaxSends)]
    BY <1>2, <1>3
  <2>3. told' \in [End -> Nat] /\ sent' \in [End -> 0..MaxSends]
    BY <1>2, <1>3
  <2>4. QED
    BY <2>1, <2>2, <2>3 DEF TypeOK
<1>6. LocalAt(e)'
  <2>1. LocalAt(e)' <=> Local(e, ch'[e], ch'[Other(e)].pipe, got'[e], told'[e], sent'[e])
    BY DEF LocalAt, Local, Data, Packets
  <2>2. ch'[Other(e)].pipe = ch[Other(e)].pipe
    BY <1>4
  <2>3. Local(e, ch'[e], ch'[Other(e)].pipe, got'[e], told'[e], sent'[e])
    BY <1>4, <2>2
  <2>4. QED
    BY <2>1, <2>3
<1>7. LocalAt(o)'
  <2>1. Local(o, ch[o], ch[e].pipe, got[o], told[o], sent[o])
    BY <1>1 DEF PInv, LocalAt
  <2>2. ch[e].pipe = "closed" => r.pipe = "closed"
    BY DEF PipeOrder
  <2>3. ch[e].pipe # "none" => r.pipe # "none"
    BY DEF PipeOrder
  <2>4. Local(o, ch[o], r.pipe, got[o], told[o], sent[o])
    BY <2>1, <2>2, <2>3, LocalMonotone
  <2>5. LocalAt(o)' <=> Local(o, ch'[o], ch'[Other(o)].pipe, got'[o], told'[o], sent'[o])
    BY DEF LocalAt, Local, Data, Packets
  <2>6. QED
    BY <1>1, <1>4, <2>4, <2>5
<1>8. wire'[e] \in Seq(Part) /\ wire'[o] \in Seq(Part)
  BY <1>1
<1>9. Coming(e)'
  BY <1>3, <1>4, <1>8, ComingHere
<1>10. Coming(o)'
  BY <1>3, <1>4, <1>8, ComingThere
<1>11. QED
  BY <1>1, <1>5, <1>6, <1>7, <1>9, <1>10 DEF PInv

(***************************************************************************)
(* What the steps are for MessagePipe.                                     *)
(***************************************************************************)
Ending(s, t) ==
  IF s.pipe # "closed" THEN "open"
  ELSE IF t > 0 \/ s.closing = "error" THEN "lost" ELSE "closed"

PipeEnds == [x \in End |-> EndState(x)]

LEMMA EndChange ==
  ASSUME IInv, PInv, NEW e \in End, NEW r, Put(e, r),
         \A x \in End : x # e => told'[x] = told[x]
  PROVE  /\ PipeEnds' = [PipeEnds EXCEPT ![e] = Ending(r, told'[e])]
         /\ PipeEnds[e] = Ending(ch[e], told[e])
         /\ PipeEnds[Other(e)] # "open" <=> ch[Other(e)].pipe = "closed"
         /\ Ending(r, told'[e]) = Ending(ch[e], told[e]) => PipeEnds' = PipeEnds
<1>1. DOMAIN ch = End /\ DOMAIN told = End /\ Other(e) \in End
  BY Ends2 DEF IInv, PInv, TypeOK
<1>2. \A x \in End : EndState(x) = Ending(ch[x], told[x])
  BY DEF EndState, Ending
<1>3. \A x \in End : EndState(x)' = Ending(ch'[x], told'[x])
  BY DEF EndState, Ending
<1>4. \A x \in End : /\ ch'[x] = IF x = e THEN r ELSE ch[x]
                     /\ x # e => told'[x] = told[x]
  BY <1>1 DEF Put
<1>5. \A x \in End : EndState(x)' = IF x = e THEN Ending(r, told'[e]) ELSE EndState(x)
  BY <1>2, <1>3, <1>4
<1>6. PipeEnds' = [x \in End |-> EndState(x)']
  BY DEF PipeEnds
<1>7. /\ PipeEnds' = [PipeEnds EXCEPT ![e] = Ending(r, told'[e])]
      /\ PipeEnds[e] = Ending(ch[e], told[e])
  BY <1>2, <1>5, <1>6 DEF PipeEnds
<1>8. PipeEnds[Other(e)] # "open" <=> ch[Other(e)].pipe = "closed"
  BY <1>1, <1>2 DEF PipeEnds, Ending
<1>9. Ending(r, told'[e]) = Ending(ch[e], told[e]) => PipeEnds' = PipeEnds
  BY <1>2, <1>5, <1>6 DEF PipeEnds
<1>10. QED
  BY <1>7, <1>8, <1>9

PipeStep == [Pipe!PipeNext]_(Pipe!pipeVars)

LEMMA StutterStep ==
  ASSUME IInv, PInv, NEW e \in End, NEW r, Put(e, r), Ending(r, told[e]) = Ending(ch[e], told[e]),
         UNCHANGED <<sent, got, told>>
  PROVE  PipeStep
<1>1. told'[e] = told[e] /\ \A x \in End : told'[x] = told[x]
  BY DEF PInv, TypeOK
<1>2. PipeEnds' = PipeEnds
  BY <1>1, EndChange
<1>3. QED
  BY <1>2 DEF PipeStep, Pipe!pipeVars, PipeEnds

LEMMA SendStep ==
  ASSUME IInv, PInv, NEW e \in End, NEW r, Put(e, r), Ending(r, told[e]) = Ending(ch[e], told[e]),
         sent[e] < MaxSends, sent' = [sent EXCEPT ![e] = @ + 1], UNCHANGED <<got, told>>
  PROVE  PipeStep
<1>1. told'[e] = told[e] /\ \A x \in End : told'[x] = told[x]
  BY DEF PInv, TypeOK
<1>2. PipeEnds' = PipeEnds
  BY <1>1, EndChange
<1>3. Pipe!SendMessage(e)
  BY <1>2 DEF Pipe!SendMessage, PipeEnds
<1>4. QED
  BY <1>3 DEF PipeStep, Pipe!PipeNext

LEMMA TellStep ==
  ASSUME IInv, PInv, NEW e \in End, NEW r, Put(e, r), ch[e].closing = "error",
         r.pipe = ch[e].pipe, told' = [told EXCEPT ![e] = @ + 1], UNCHANGED <<sent, got>>
  PROVE  PipeStep
<1>1. told[e] = 0 /\ ch[e].pipe = "closed" /\ told \in [End -> Nat]
  BY DEF PInv, LocalAt, Local, TypeOK
<1>2. told' = [told EXCEPT ![e] = 1] /\ told'[e] = 1 /\ \A x \in End : x # e => told'[x] = told[x]
  BY <1>1
<1>3. PipeEnds[e] = "lost" /\ PipeEnds' = PipeEnds
  <2>1. Ending(r, 1) = "lost" /\ Ending(ch[e], told[e]) = "lost"
    BY <1>1 DEF Ending
  <2>2. QED
    BY <1>2, <2>1, EndChange
<1>4. Pipe!Tell(e)
  BY <1>1, <1>2, <1>3 DEF Pipe!Tell, PipeEnds
<1>5. QED
  BY <1>4 DEF PipeStep, Pipe!PipeNext

\* The owner closes the end, or its process dies.
LEMMA CloseStep ==
  ASSUME IInv, PInv, NEW e \in End, NEW r, Put(e, r), r.closing # "error",
         r.pipe = IF ch[e].pipe = "none" THEN "none" ELSE "closed",
         UNCHANGED <<sent, got, told>>
  PROVE  PipeStep
<1>1. told[e] \in {0, 1} /\ told \in [End -> Nat] /\ (ch[e].pipe # "closed" => told[e] = 0)
  BY DEF PInv, LocalAt, Local, TypeOK
<1>2. told'[e] = told[e] /\ \A x \in End : told'[x] = told[x]
  BY <1>1
<1>3. CASE Ending(r, told[e]) = Ending(ch[e], told[e])
  BY <1>3, StutterStep
<1>4. CASE Ending(r, told[e]) # Ending(ch[e], told[e])
  <2>1. told[e] = 0 /\ Ending(r, told[e]) = "closed" /\ Ending(ch[e], told[e]) # "closed"
    BY <1>1, <1>4 DEF Ending
  <2>2. PipeEnds' = [PipeEnds EXCEPT ![e] = "closed"] /\ PipeEnds[e] # "closed"
    <3>1. /\ PipeEnds' = [PipeEnds EXCEPT ![e] = Ending(r, told[e])]
          /\ PipeEnds[e] = Ending(ch[e], told[e])
      BY <1>2, EndChange
    <3>2. QED
      BY <2>1, <3>1
  <2>3. Pipe!CloseEnd(e)
    BY <2>1, <2>2 DEF Pipe!CloseEnd, PipeEnds
  <2>4. QED
    BY <2>3 DEF PipeStep, Pipe!PipeNext
<1>5. QED
  BY <1>3, <1>4

\* What the listener has got is what it had, or the next messages that were sent, too.
Heard(e, g) ==
  \/ g = got[e]
  \/ /\ ch[e].pipe = "open"
     /\ \E k \in 1..(MaxSends + 1) :
          /\ Len(got[e]) + k <= sent[Other(e)] + 1
          /\ g = got[e] \o [j \in 1..k |-> Len(got[e]) + j - 1]

\* Why a handler gives up.
Reason(e, g) ==
  \/ ch[Other(e)].pipe = "closed"
  \/ e = "server" /\ Validate /\ FALSE \in SecretOK /\ g = got[e]
  \/ ~MessagesFit

LEMMA HandlerStep ==
  ASSUME IInv, PInv, MessagesFit, NEW e \in End, NEW r, NEW g, Put(e, r), Heard(e, g),
         got' = [got EXCEPT ![e] = g], UNCHANGED <<sent, told>>,
         \/ r.pipe = ch[e].pipe /\ r.closing = ch[e].closing
         \/ /\ ch[e].pipe = "open" /\ r.pipe = "closed" /\ r.closing = "error"
            /\ Reason(e, g)
  PROVE  PipeStep
<1>1. told \in [End -> Nat] /\ got \in [End -> Seq(0..MaxSends)]
  BY DEF PInv, TypeOK
<1>2. told'[e] = told[e] /\ \A x \in End : told'[x] = told[x]
  BY <1>1
<1>5. /\ PipeEnds' = [PipeEnds EXCEPT ![e] = Ending(r, told[e])]
      /\ PipeEnds[e] = Ending(ch[e], told[e])
      /\ PipeEnds[Other(e)] # "open" <=> ch[Other(e)].pipe = "closed"
      /\ Ending(r, told[e]) = Ending(ch[e], told[e]) => PipeEnds' = PipeEnds
  BY <1>2, EndChange
<1> DEFINE more(k) == [j \in 1..k |-> Len(got[e]) + j - 1]
<1>3. CASE r.pipe = ch[e].pipe /\ r.closing = ch[e].closing
  <2>1. Ending(r, told[e]) = Ending(ch[e], told[e])
    BY <1>3 DEF Ending
  <2>2. CASE g = got[e]
    <3>1. got' = got
      BY <1>1, <2>2
    <3>2. QED
      BY <2>1, <3>1, StutterStep
  <2>3. CASE g # got[e]
    <3>1. PICK k \in 1..(MaxSends + 1) :
            /\ Len(got[e]) + k <= sent[Other(e)] + 1
            /\ g = got[e] \o more(k)
      BY <2>3 DEF Heard
    <3>2. ch[e].pipe = "open"
      BY <2>3 DEF Heard
    <3>3. PipeEnds' = PipeEnds /\ PipeEnds[e] = "open"
      BY <1>5, <2>1, <3>2 DEF Ending
    <3>4. got' = [got EXCEPT ![e] = @ \o more(k)]
      BY <1>1, <3>1
    <3>5. Pipe!Deliver(e, k)
      BY <3>1, <3>3, <3>4 DEF Pipe!Deliver, PipeEnds
    <3>6. QED
      BY <3>5 DEF PipeStep, Pipe!PipeNext
  <2>4. QED
    BY <2>2, <2>3
<1>4. CASE ch[e].pipe = "open" /\ r.pipe = "closed" /\ r.closing = "error" /\ Reason(e, g)
  <2>1. PipeEnds' = [PipeEnds EXCEPT ![e] = "lost"] /\ PipeEnds[e] = "open"
    BY <1>4, <1>5 DEF Ending
  <2>2. \/ PipeEnds[Other(e)] # "open"
        \/ e \in (IF Validate /\ FALSE \in SecretOK THEN {"server"} ELSE {}) /\ g = got[e]
    BY <1>4, <1>5 DEF Reason
  <2>3. CASE g = got[e]
    <3>1. got' = got
      BY <1>1, <2>3
    <3>2. Pipe!Lose(e)
      BY <2>1, <2>2, <3>1 DEF Pipe!Lose, PipeEnds
    <3>3. QED
      BY <3>2 DEF PipeStep, Pipe!PipeNext
  <2>4. CASE g # got[e]
    <3>1. PICK k \in 1..(MaxSends + 1) :
            /\ Len(got[e]) + k <= sent[Other(e)] + 1
            /\ g = got[e] \o more(k)
      BY <2>4 DEF Heard
    <3>2. got' = [got EXCEPT ![e] = @ \o more(k)]
      BY <1>1, <3>1
    <3>3. Pipe!DeliverAndLose(e, k)
      BY <2>1, <2>2, <2>4, <3>1, <3>2 DEF Pipe!DeliverAndLose, PipeEnds
    <3>4. QED
      BY <3>3 DEF PipeStep, Pipe!PipeNext
  <2>5. QED
    BY <2>3, <2>4
<1>6. QED
  BY <1>3, <1>4

(***************************************************************************)
(* The handlers.  Turn: what one makes of the object, s, on its way, and   *)
(* the listener has got g.                                                 *)
(***************************************************************************)
Turn(e, s, g) ==
  /\ Local(e, s, ch[Other(e)].pipe, g, told[e], sent[e])
  /\ s.obj # "none" /\ ch[e].obj # "none" /\ s.pipe = ch[e].pipe /\ s.closing = ch[e].closing
  /\ Heard(e, g)
  /\ ch[Other(e)].pipe = "closed" \/ Sends(e, s, wire[Other(e)] \o s.outOp, sent[e])

StepRight == PInv' /\ (MessagesFit => PipeStep)

\* Updates that leave the queue and the port alone.
LEMMA SameFlow ==
  ASSUME NEW e, NEW s, NEW r, r.obj # "none", s.obj # "none",
         r.outPending = s.outPending, r.outq = s.outq
  PROVE  /\ Queue(r) = Queue(s)
         /\ r.pipe = s.pipe => \A V, d : Sends(e, s, V, d) => Sends(e, r, V, d)
  BY DEF Queue, Sends

LEMMA SameIn ==
  ASSUME NEW s, NEW r, r.port = s.port, r.overflow = s.overflow
  PROVE  In(r) = In(s)
  BY DEF In, Data, Packets

LEMMA PutTurn ==
  ASSUME IInv, PInv, NEW e \in End, NEW s, NEW g, Turn(e, s, g), Receives(e, s, wire[e], g),
         Put(e, s), got' = [got EXCEPT ![e] = g], UNCHANGED <<wire, sent, told>>
  PROVE  StepRight
<1>1. PipeOrder(ch[e], s)
  BY DEF Turn, PipeOrder, Deaf
<1>2. /\ wire \in [End -> Seq(Part)] /\ told \in [End -> Nat] /\ sent \in [End -> 0..MaxSends]
  BY DEF PInv, TypeOK
<1>3. PInv'
  <2>1. told' = [told EXCEPT ![e] = told[e]] /\ sent' = [sent EXCEPT ![e] = sent[e]]
    BY <1>2
  <2>2. wire' \in [End -> Seq(Part)] /\ wire'[e] = wire[e] /\ wire'[Other(e)] = wire[Other(e)]
    BY <1>2
  <2>3. Local(e, s, ch[Other(e)].pipe, g, told[e], sent[e])
    BY DEF Turn
  <2>4. /\ Receives(e, s, wire'[e], g)
        /\ ch[Other(e)].pipe = "closed" \/ Sends(e, s, wire'[Other(e)] \o s.outOp, sent[e])
    BY <2>2 DEF Turn
  <2>5. QED
    BY <1>1, <2>1, <2>2, <2>3, <2>4, StepInv
<1>4. MessagesFit => PipeStep
  BY HandlerStep DEF Turn
<1>5. QED
  BY <1>3, <1>4 DEF StepRight

LEMMA BrokenTurn ==
  ASSUME IInv, PInv, NEW e \in End, NEW s, NEW g, Turn(e, s, g), Broken(e, s),
         s.pipe = "open" => /\ Reason(e, g)
                            /\ ch[Other(e)].pipe = "closed" \/ s.outOp = ch[e].outOp,
         got' = [got EXCEPT ![e] = g], UNCHANGED <<sent, told>>
  PROVE  StepRight
<1>1. CASE s.pipe # "open"
  <2>1. Put(e, s) /\ UNCHANGED wire
    BY <1>1 DEF Broken
  <2>2. Receives(e, s, wire[e], g)
    BY <1>1 DEF Receives, Deaf, Turn
  <2>3. QED
    BY <2>1, <2>2, PutTurn
<1>2. CASE s.pipe = "open"
  <2> DEFINE r == BeginClose(s, "error")
             o == Other(e)
  <2>1. Put(e, r) /\ wire' = [wire EXCEPT ![e] = <<>>]
    BY <1>2 DEF Broken
  <2>2. Local(e, s, ch[o].pipe, g, told[e], sent[e]) /\ s \in ChannelObject
    BY DEF Turn, Local
  <2>3. r = [s EXCEPT !.pipe = "closed", !.closing = "error"]
    BY <1>2, <2>2 DEF BeginClose, ChannelObject
  <2>4. /\ r \in ChannelObject /\ r.pipe = "closed" /\ r.closing = "error"
        /\ r.obj = s.obj /\ r.waiting = s.waiting /\ r.validate = s.validate
        /\ r.secret = s.secret /\ r.outOp = s.outOp /\ r.outPending = s.outPending
        /\ r.overflow = s.overflow /\ r.inOp = s.inOp /\ r.port = s.port
    BY <2>2, <2>3 DEF ChannelObject
  <2> HIDE DEF r
  <2>5. Data(r) = Data(s) /\ \A io : Packets(r, io) = Packets(s, io)
    BY <2>4, DataSame
  <2>6. Local(e, r, ch[o].pipe, g, told[e], sent[e])
    BY <1>2, <2>2, <2>4, <2>5 DEF Local, Turn
  <2>7. PipeOrder(ch[e], r) /\ Receives(e, r, wire'[e], g)
    BY <2>4 DEF PipeOrder, Deaf, Receives, Turn
  <2>8. o \in End /\ o # e
    BY Ends2
  <2>9. /\ wire \in [End -> Seq(Part)] /\ told \in [End -> Nat] /\ sent \in [End -> 0..MaxSends]
    BY DEF PInv, TypeOK
  <2>10. wire'[o] = wire[o] /\ wire' \in [End -> Seq(Part)]
    BY <2>1, <2>8, <2>9, EmptyParts
  <2>11. ch[o].pipe = "closed" \/ Sends(e, r, wire'[o] \o r.outOp, sent[e])
    <3>1. SUFFICES ASSUME s.outOp = ch[e].outOp
                   PROVE  Sends(e, r, wire'[o] \o r.outOp, sent[e])
      BY <1>2
    <3>2. Under(o) = wire[o] \o ch[e].outOp /\ Under(o) \in Seq(Part)
      BY <2>8, Ends2, FlowParts DEF Under
    <3>3. Under(o) = (wire'[o] \o r.outOp) \o <<>>
      BY <2>4, <2>10, <3>1, <3>2, Joined, EmptyParts
    <3>4. QED
      BY <2>4, <3>3, EmptyParts DEF Sends
  <2>12. told' = [told EXCEPT ![e] = told[e]] /\ sent' = [sent EXCEPT ![e] = sent[e]]
    BY <2>9
  <2>13. PInv'
    BY <2>1, <2>6, <2>7, <2>10, <2>11, <2>12, StepInv
  <2>14. MessagesFit => PipeStep
    BY <1>2, <2>1, <2>4, HandlerStep DEF Turn
  <2>15. QED
    BY <2>13, <2>14 DEF StepRight
<1>3. QED
  BY <1>1, <1>2

\* The turn ends with a read, or with the loss of the pipe.
LEMMA ReadTurn ==
  ASSUME IInv, PInv, NEW e \in End, NEW s, NEW g, Turn(e, s, g), Receives(e, s, wire[e], g),
         ~s.waiting, Packets(s, "in") = {}, ProcessIncoming(e, s),
         got' = [got EXCEPT ![e] = g], UNCHANGED <<sent, told>>
  PROVE  StepRight
<1>1. CASE ReadFails(e, s)
  <2>1. Broken(e, s) /\ (s.pipe = "open" => ch[Other(e)].pipe = "closed")
    BY <1>1 DEF ProcessIncoming, ReadFails, OtherGone
  <2>2. QED
    BY <2>1, BrokenTurn DEF Reason
<1>2. CASE ~ReadFails(e, s)
  <2> DEFINE r == ReadData(s)
  <2>1. Put(e, r) /\ UNCHANGED wire /\ s.pipe = "open"
    BY <1>2 DEF ProcessIncoming, ReadFails
  <2>2. Local(e, s, ch[Other(e)].pipe, g, told[e], sent[e]) /\ s \in ChannelObject
    BY DEF Turn, Local
  <2>3. /\ r \in ChannelObject /\ r.pipe = s.pipe /\ r.closing = s.closing
        /\ r.obj = s.obj /\ r.waiting = s.waiting /\ r.validate = s.validate
        /\ r.secret = s.secret /\ r.outOp = s.outOp /\ r.outPending = s.outPending
        /\ r.overflow = s.overflow /\ r.inOp = "read" /\ r.port = s.port
        /\ r.outq = s.outq /\ r.init = s.init
    BY <2>2 DEF ChannelObject, ReadData
  <2> HIDE DEF r
  <2>4. Data(r) = Data(s) /\ (\A io : Packets(r, io) = Packets(s, io)) /\ In(r) = In(s)
    BY <2>3, DataSame, SameIn
  <2>5. Local(e, r, ch[Other(e)].pipe, g, told[e], sent[e])
    <3>1. sent[e] \in 0..MaxSends /\ s.obj # "none" /\ (s.outPending => ch[Other(e)].pipe # "none")
      BY <2>2 DEF Local, Turn
    <3>2. QED
      BY <2>1, <2>2, <2>3, <3>1, LocalKept
  <2>6. Receives(e, r, wire[e], g)
    BY <2>3, <2>4 DEF Receives, Deaf
  <2>7. \A V, d : Sends(e, s, V, d) => Sends(e, r, V, d)
    BY <2>3, SameFlow DEF Turn
  <2>8. Turn(e, r, g)
    BY <2>3, <2>5, <2>7 DEF Turn
  <2>9. QED
    BY <2>1, <2>6, <2>8, PutTurn
<1>3. QED
  BY <1>1, <1>2

\* ProcessOutgoingMessages, with no write pending.
LEMMA OutgoingIs ==
  ASSUME NEW e, NEW s \in ChannelObject, ~s.outPending, s.outOp = <<>>, s.obj # "none"
  PROVE  LET r == ProcessOutgoing(e, s) IN
           /\ r \in ChannelObject
           /\ r.obj = s.obj /\ r.pipe = s.pipe /\ r.waiting = s.waiting
           /\ r.validate = s.validate /\ r.secret = s.secret /\ r.inPending = s.inPending
           /\ r.outq = s.outq /\ r.overflow = s.overflow /\ r.init = s.init
           /\ r.closing = s.closing /\ r.inOp = s.inOp /\ r.port = s.port
           /\ r.outPending => s.pipe = "open" /\ ch[Other(e)].pipe = "open"
           /\ s.pipe = "closed" => r = s
           /\ \A W \in Seq(Part) : \A c : Feed(W, Queue(s), c, W \o r.outOp, Queue(r), c)
<1> DEFINE r == ProcessOutgoing(e, s)
<1>1. CASE s.outq = <<>> \/ WriteFails(e, s)
  <2>1. r = s
    BY <1>1 DEF ProcessOutgoing
  <2> HIDE DEF r
  <2>2. \A W \in Seq(Part) : \A c : Feed(W, Queue(s), c, W \o r.outOp, Queue(r), c)
    <3>1. ASSUME NEW W \in Seq(Part) PROVE W \o r.outOp = W
      BY <2>1, Joined, EmptyParts
    <3>2. QED
      BY <2>1, <3>1 DEF Feed
  <2>3. QED
    BY <2>1, <2>2 DEF r
<1>2. CASE ~(s.outq = <<>> \/ WriteFails(e, s))
  <2> DEFINE d == Parts(Head(s.outq))
  <2>1. s.outq \in Seq(Message) /\ s.outq # <<>> /\ s.pipe = "open"
        /\ ch[Other(e)].pipe = "open"
    BY <1>2 DEF ChannelObject, WriteFails
  <2>2. Head(s.outq) \in Message
    BY <2>1
  <2>3. d \in Seq(Part)
    BY <2>2, PartsAre
  <2>4. r = [s EXCEPT !.outPending = TRUE, !.outOp = d]
    BY <1>2 DEF ProcessOutgoing
  <2> HIDE DEF r, d
  <2>5. /\ r \in ChannelObject /\ r.outPending = TRUE /\ r.outOp = d
        /\ r.obj = s.obj /\ r.pipe = s.pipe /\ r.waiting = s.waiting
        /\ r.validate = s.validate /\ r.secret = s.secret /\ r.inPending = s.inPending
        /\ r.outq = s.outq /\ r.overflow = s.overflow /\ r.init = s.init
        /\ r.closing = s.closing /\ r.inOp = s.inOp /\ r.port = s.port
    BY <2>3, <2>4 DEF ChannelObject
  <2>6. Queue(s) = s.outq /\ Queue(r) = Tail(s.outq)
    BY <2>5 DEF Queue
  <2>7. \A W, c : Feed(W, Queue(s), c, W \o r.outOp, Queue(r), c)
    BY <2>1, <2>5, <2>6 DEF Feed, d
  <2>8. QED
    BY <2>1, <2>5, <2>7 DEF r
<1>3. QED
  BY <1>1, <1>2

LEMMA OutgoingTurn ==
  ASSUME IInv, PInv, NEW e \in End, NEW s, NEW g, Turn(e, s, g), ~s.outPending,
         s.outOp = <<>>, ch[e].outOp = <<>>, Queue(s) = Queue(ch[e])
  PROVE  LET r == ProcessOutgoing(e, s) IN
           /\ Turn(e, r, g) /\ In(r) = In(s) /\ r.pipe = s.pipe /\ r.waiting = s.waiting
           /\ Packets(r, "in") = Packets(s, "in") /\ r.inPending = s.inPending
           /\ Deaf(r) = Deaf(s)
<1> DEFINE r == ProcessOutgoing(e, s)
           o == Other(e)
<1>1. Local(e, s, ch[o].pipe, g, told[e], sent[e]) /\ s \in ChannelObject /\ s.obj # "none"
  BY DEF Turn, Local
<1>2. /\ r \in ChannelObject
      /\ r.obj = s.obj /\ r.pipe = s.pipe /\ r.waiting = s.waiting
      /\ r.validate = s.validate /\ r.secret = s.secret /\ r.inPending = s.inPending
      /\ r.outq = s.outq /\ r.overflow = s.overflow /\ r.init = s.init
      /\ r.closing = s.closing /\ r.inOp = s.inOp /\ r.port = s.port
      /\ r.outPending => s.pipe = "open" /\ ch[o].pipe = "open"
      /\ s.pipe = "closed" => r = s
      /\ \A W \in Seq(Part) : \A c : Feed(W, Queue(s), c, W \o r.outOp, Queue(r), c)
  BY <1>1, OutgoingIs
<1> HIDE DEF r
<1>3. In(r) = In(s) /\ Packets(r, "in") = Packets(s, "in") /\ Data(r) = Data(s)
  BY <1>2, SameIn, DataSame
<1>4. Local(e, r, ch[o].pipe, g, told[e], sent[e])
  <2>1. /\ sent[e] \in 0..MaxSends
        /\ s.pipe = "none" => ~s.inPending /\ ~s.init
        /\ s.inOp = "connect" => s.waiting
        /\ s.waiting => s.inOp # "read"
    BY <1>1 DEF Local
  <2>2. r.outPending => ch[o].pipe # "none"
    BY <1>2
  <2>3. s.pipe = "none" => ~r.inPending /\ ~r.outPending /\ ~r.init
    BY <1>2, <2>1
  <2>4. QED
    BY <1>1, <1>2, <2>1, <2>2, <2>3, LocalKept
<1>5. ch[o].pipe = "closed" \/ Sends(e, r, wire[o] \o r.outOp, sent[e])
  <2>1. CASE s.pipe = "closed"
    BY <1>2, <2>1 DEF Turn
  <2>2. CASE s.pipe # "closed"
    <3>1. o \in End /\ Other(o) = e
      BY Ends2
    <3>2. wire[o] \in Seq(Part)
      BY <3>1, FlowParts
    <3>3. Under(o) = wire[o]
      <4>1. Under(o) = wire[o] \o <<>>
        BY <3>1 DEF Under
      <4>2. wire[o] \o <<>> = wire[o]
        BY <3>2, Joined, EmptyParts
      <4>3. QED
        BY <4>1, <4>2
    <3>4. Feed(Under(o), Queue(ch[e]), sent[e], wire[o] \o r.outOp, Queue(r), sent[e])
      BY <1>2, <3>2, <3>3
    <3>5. QED
      BY <1>2, <2>2, <3>4 DEF Sends
  <2>3. QED
    BY <2>1, <2>2
<1>6. Turn(e, r, g)
  BY <1>2, <1>4, <1>5 DEF Turn
<1>7. Deaf(r) = Deaf(s)
  BY <1>2 DEF Deaf
<1>8. QED
  BY <1>2, <1>3, <1>6, <1>7 DEF r

\* OnIOCompleted while the connection is awaited.
LEMMA ConnectedTurn ==
  ASSUME IInv, PInv, NEW e \in End, NEW s, NEW g, Turn(e, s, g), Receives(e, s, wire[e], g),
         s.inOp = "none", Packets(s, "in") = {}, s.outPending = ch[e].outPending,
         s.outOp = ch[e].outOp, s.outq = ch[e].outq, s.waiting, ~s.init,
         Connected(e, s), got' = [got EXCEPT ![e] = g], UNCHANGED <<sent, told>>
  PROVE  StepRight
<1> DEFINE o == Other(e)
           c == ProcessConnection(e, s)
           q == IF c.outPending THEN c ELSE ProcessOutgoing(e, c)
<1>1. Local(e, s, ch[o].pipe, g, told[e], sent[e]) /\ s \in ChannelObject /\ s.obj # "none"
  BY DEF Turn, Local
<1>2. \/ c = [s EXCEPT !.inPending = FALSE]
      \/ /\ s.pipe = "open"
         /\ \/ c = [s EXCEPT !.inPending = TRUE, !.inOp = "connect"]
            \/ c = [s EXCEPT !.inPending = FALSE, !.waiting = FALSE]
  BY DEF ProcessConnection, ConnectionFails
<1>3. \/ Put(e, c) /\ UNCHANGED wire
      \/ Put(e, q) /\ UNCHANGED wire
      \/ s.pipe = "open" /\ ~c.waiting /\ ProcessIncoming(e, q)
  <2>1. CASE ConnectionFails(e, s)
    BY <2>1 DEF Connected
  <2>2. CASE ~ConnectionFails(e, s) /\ c.inPending
    BY <2>2 DEF Connected
  <2>3. CASE ~ConnectionFails(e, s) /\ ~c.inPending
    <3>1. ProcessIncoming(e, q)
      BY <2>3 DEF Connected
    <3>2. c = [s EXCEPT !.inPending = FALSE, !.waiting = FALSE] /\ s.pipe = "open"
      <4>1. c # [s EXCEPT !.inPending = TRUE, !.inOp = "connect"]
        <5>1. [s EXCEPT !.inPending = TRUE, !.inOp = "connect"].inPending = TRUE
          BY <1>1 DEF ChannelObject
        <5> HIDE DEF c
        <5>2. QED
          BY <2>3, <5>1
      <4>2. QED
        BY <2>3, <4>1 DEF ProcessConnection, ConnectionFails
    <3> HIDE DEF c, q
    <3>3. ~c.waiting
      BY <1>1, <3>2 DEF ChannelObject
    <3>4. QED
      BY <3>1, <3>2, <3>3
  <2>4. QED
    BY <2>1, <2>2, <2>3
<1> HIDE DEF c
<1>4. /\ c \in ChannelObject
      /\ c.obj = s.obj /\ c.pipe = s.pipe /\ c.validate = s.validate /\ c.secret = s.secret
      /\ c.outPending = s.outPending /\ c.outq = s.outq /\ c.overflow = s.overflow
      /\ c.init = s.init /\ c.closing = s.closing /\ c.outOp = s.outOp /\ c.port = s.port
      /\ c.inOp = "connect" => c.waiting
      /\ c.inOp \in {"none", "connect"}
      /\ s.pipe = "none" => c.inPending = FALSE
  <2>1. CASE c = [s EXCEPT !.inPending = FALSE]
    BY ONLY <1>1, <2>1, s.inOp = "none" DEF ChannelObject
  <2>2. CASE c = [s EXCEPT !.inPending = TRUE, !.inOp = "connect"] /\ s.pipe = "open"
    BY ONLY <1>1, <2>2, s.waiting DEF ChannelObject
  <2>3. CASE c = [s EXCEPT !.inPending = FALSE, !.waiting = FALSE]
    BY ONLY <1>1, <2>3, s.inOp = "none" DEF ChannelObject
  <2>4. QED
    BY <1>2, <2>1, <2>2, <2>3
<1>5. Queue(c) = Queue(s) /\ Queue(s) = Queue(ch[e]) /\ In(c) = In(s) /\ Deaf(c) = Deaf(s)
      /\ Packets(c, "in") = {} /\ \A V, d : Sends(e, s, V, d) => Sends(e, c, V, d)
  <2>1. Queue(c) = Queue(s) /\ \A V, d : Sends(e, s, V, d) => Sends(e, c, V, d)
    BY <1>1, <1>4, SameFlow
  <2>2. Queue(s) = Queue(ch[e])
    BY DEF Queue, Turn
  <2>3. In(c) = In(s) /\ Packets(c, "in") = {}
    BY <1>4, SameIn, DataSame
  <2>4. Deaf(c) = Deaf(s)
    BY <1>4 DEF Deaf
  <2>5. QED
    BY <2>1, <2>2, <2>3, <2>4
<1>6. Local(e, c, ch[o].pipe, g, told[e], sent[e])
  <2>1. /\ sent[e] \in 0..MaxSends
        /\ s.pipe = "none" => ~c.inPending /\ ~c.outPending /\ ~c.init
        /\ c.outPending => ch[o].pipe # "none"
    BY <1>1, <1>4 DEF Local
  <2>2. c.waiting => s.waiting /\ c.inOp # "read"
    BY <1>4
  <2>3. QED
    BY <1>1, <1>4, <2>1, <2>2, LocalKept
<1>7. Turn(e, c, g)
  BY <1>4, <1>5, <1>6 DEF Turn
<1>8. Receives(e, c, wire[e], g)
  BY <1>5 DEF Receives
<1>9. /\ Turn(e, q, g) /\ Receives(e, q, wire[e], g) /\ Packets(q, "in") = {}
      /\ q.waiting = c.waiting
  <2>1. CASE c.outPending
    <3>1. q = c
      BY <2>1
    <3> HIDE DEF q
    <3>2. QED
      BY <1>5, <1>7, <1>8, <3>1
  <2>2. CASE ~c.outPending
    <3>1. q = ProcessOutgoing(e, c)
      BY <2>2
    <3>2. c.outOp = <<>> /\ ch[e].outOp = <<>>
      BY <1>4, <2>2 DEF IInv, Good, Pending, Outstanding
    <3> HIDE DEF q
    <3>3. /\ Turn(e, q, g) /\ In(q) = In(c) /\ q.waiting = c.waiting
          /\ Packets(q, "in") = Packets(c, "in") /\ Deaf(q) = Deaf(c)
      BY <1>5, <1>7, <2>2, <3>1, <3>2, OutgoingTurn
    <3>4. QED
      BY <1>5, <1>8, <3>3 DEF Receives
  <2>3. QED
    BY <2>1, <2>2
<1> HIDE DEF q
<1>10. CASE Put(e, c) /\ UNCHANGED wire
  BY <1>7, <1>8, <1>10, PutTurn
<1>11. CASE Put(e, q) /\ UNCHANGED wire
  BY <1>9, <1>11, PutTurn
<1>12. CASE ~c.waiting /\ ProcessIncoming(e, q)
  BY <1>9, <1>12, ReadTurn
<1>13. QED
  BY <1>3, <1>10, <1>11, <1>12

LEMMA EndsFinite ==
  ASSUME NEW F \in Seq(Part)
  PROVE  IsFiniteSet(Ends(F)) /\ (Ends(F) # {} => Cardinality(Ends(F)) # 0)
<1>1. Len(F) \in Nat
  OBVIOUS
<1>2. IsFiniteSet(Ends(F))
  BY <1>1, CountSteps
<1>3. QED
  BY <1>2, FS_EmptySet

\* The next number counts the messages that have ended.
LEMMA NextIsCount ==
  ASSUME NEW F \in Seq(Part), NEW n \in Nat, Consecutive(F, n)
  PROVE  Cardinality(Ends(F)) \in Nat /\ NextNumber(F, n) = n + Cardinality(Ends(F))
<1> DEFINE z == Len(F)
<1>1. z \in Nat /\ (F = <<>> <=> z = 0) /\ DOMAIN F = 1..z
  OBVIOUS
<1>2. Count(F, z) = Cardinality(Ends(F)) /\ Count(F, z) \in Nat
  BY <1>1, CountSteps DEF Count
<1>3. CASE z = 0
  <2>1. Count(F, 0) = 0
    BY CountSteps
  <2>2. QED
    BY <1>1, <1>2, <1>3, <2>1 DEF NextNumber
<1>4. CASE z # 0
  <2> DEFINE m == z - 1
  <2>1. m \in Nat /\ m + 1 = z
    BY <1>1, <1>4
  <2>2. F[z].n = n + Count(F, m)
    BY <2>1, NumberIsRank
  <2>3. /\ Count(F, m) \in Nat
        /\ m + 1 \in Ends(F) => Count(F, m + 1) = Count(F, m) + 1
        /\ m + 1 \notin Ends(F) => Count(F, m + 1) = Count(F, m)
    BY <2>1, CountSteps
  <2>4. z \in Ends(F) <=> F[z].last
    BY <1>1, <1>4 DEF Ends
  <2>5. NextNumber(F, n) = After(F[z])
    BY <1>1, <1>4 DEF NextNumber
  <2> HIDE DEF m, z
  <2>6. QED
    BY <1>2, <2>1, <2>2, <2>3, <2>4, <2>5 DEF After
<1>5. QED
  BY <1>3, <1>4

\* What a buffer that begins what follows n messages gives the listener, P, and keeps, t.
Yields(buf, w, n, Q, c, p) ==
  LET d == Arrived(buf)
      k == Len(d)
      t == Rest(buf)
  IN /\ k \in Nat /\ d \in Seq(0..MaxSends) /\ d = [j \in 1..k |-> n + j - 1]
     /\ k # 0 => n + k <= c + 1 /\ Head(d) = n
     /\ k # 0 /\ p # "closed" /\ Q = <<HelloMessage>> => c # n
     /\ t \in Seq(Part) /\ \A i \in 1..Len(t) : ~t[i].last
     /\ \E P \in Seq(Part) : Consumes(buf \o w, P, t \o w) /\ NextNumber(P, n) = n + k

LEMMA Dispatched ==
  ASSUME NEW buf \in Seq(Part), NEW U \in Seq(Part), NEW n \in Nat, NEW Q, NEW c \in Nat,
         NEW p, Follows(buf \o U, n, Q, c, p), NEW w \in Seq(Part)
  PROVE  Yields(buf, w, n, Q, c, p)
<1> DEFINE d == Arrived(buf)
           k == Cardinality(Ends(buf))
           t == Rest(buf)
           F == buf \o U
<1>1. F \in Seq(Part) /\ Consecutive(F, n) /\ Below(F, c) /\ (p # "closed" => Line(F, n, Q, c))
  BY Joined DEF Follows
<1>2. Consecutive(buf, n) /\ Below(buf, c)
  <2> HIDE DEF F
  <2>1. Consecutive(buf \o U, n) /\ Below(buf \o U, c)
    BY DEF Follows
  <2>2. QED
    BY <2>1, JoinedConsecutive, JoinedWhole
<1>3. /\ k \in Nat /\ Len(d) = k /\ d \in Seq(0..MaxSends)
      /\ k # 0 <=> Ends(buf) # {}
      /\ d = [j \in 1..k |-> n + j - 1]
  BY <1>2, ArrivedIs
<1>4. t \in Seq(Part) /\ \A i \in 1..Len(t) : ~t[i].last
  BY RestIs
<1>5. PICK P \in Seq(Part) : buf = P \o t /\ Whole(P) /\ NextNumber(P, n) = n + k
  BY <1>2, RestIs
<1> HIDE DEF d, k, t, F
<1>6. Consumes(buf \o w, P, t \o w)
  <2>1. (P \o t) \o w = P \o (t \o w)
    BY <1>4, JoinedTwice
  <2>2. QED
    BY <1>5, <2>1 DEF Consumes
<1>7. k # 0 => n + k <= c + 1
  <2>1. SUFFICES ASSUME k # 0 PROVE n + k <= c + 1
    OBVIOUS
  <2>2. P # <<>> /\ After(P[Len(P)]) = n + k
    BY <1>3, <1>5, <2>1 DEF NextNumber
  <2>3. Len(P) \in 1..Len(P) /\ P[Len(P)].n \in Nat
    BY <2>2, SeqParts
  <2>4. Below(P, c)
    BY <1>2, <1>4, <1>5, JoinedWhole
  <2>5. P[Len(P)].n <= c
    BY <2>3, <2>4 DEF Below
  <2>6. QED
    BY <1>3, <2>2, <2>3, <2>5 DEF After
<1>8. k # 0 => Head(d) = n
  BY <1>3
<1>9. k # 0 /\ p # "closed" /\ Q = <<HelloMessage>> => c # n
  <2>1. SUFFICES ASSUME k # 0, p # "closed", Q = <<HelloMessage>> PROVE c # n
    OBVIOUS
  <2>2. Cardinality(Ends(F)) \in Nat /\ NextNumber(F, n) = n + Cardinality(Ends(F))
    BY <1>1, NextIsCount
  <2>3. Ends(F) # {}
    <3>1. PICK i \in Ends(buf) : TRUE
      BY <1>3, <2>1
    <3>2. i \in 1..Len(buf) /\ buf[i].last
      BY <3>1, SeqParts DEF Ends
    <3>3. F[i] = buf[i] /\ i \in 1..Len(F) /\ DOMAIN F = 1..Len(F)
      BY <1>1, <3>2, Joined DEF F
    <3>4. QED
      BY <3>2, <3>3 DEF Ends
  <2>4. Cardinality(Ends(F)) # 0
    BY <1>1, <2>3, EndsFinite
  <2>5. NextNumber(F, n) + 1 = c + 1
    BY <1>1, <2>1 DEF Line
  <2>6. QED
    BY <2>2, <2>4, <2>5
<1>10. QED
  BY <1>3, <1>4, <1>5, <1>6, <1>7, <1>8, <1>9 DEF Yields, d, k, t

\* DispatchInputData: what has arrived goes to the listener, the rest is kept.
LEMMA DispatchTurn ==
  ASSUME IInv, PInv, NEW e \in End, NEW s, NEW data, Turn(e, s, got[e]), s.pipe = "open",
         Packets(s, "in") = {}, ~s.waiting, s.overflow = ch[e].overflow, data = Data(ch[e]),
         s.outOp = ch[e].outOp, DispatchInput(e, s, data), UNCHANGED <<sent, told>>
  PROVE  StepRight
<1>0. PICK o, n, U, w, Q, c, p, buf :
        /\ o = Other(e) /\ n = Len(got[e]) /\ U = Under(e) /\ w = wire[e]
        /\ Q = Queue(ch[o]) /\ c = sent[o] /\ p = ch[o].pipe
        /\ buf = s.overflow \o data
  OBVIOUS
<1> DEFINE done == Arrived(buf)
           t == Rest(buf)
           b == [s EXCEPT !.overflow = <<>>]
           r == [s EXCEPT !.overflow = t, !.validate = @ /\ done = <<>>]
           g == got[e] \o done
<1>1. o \in End /\ Other(o) = e
  BY <1>0, Ends2
<1>2. /\ buf \in Seq(Part) /\ U \in Seq(Part) /\ w \in Seq(Part) /\ n \in Nat /\ c \in Nat
      /\ s.overflow \in Seq(Part) /\ data \in Seq(Part) /\ buf = In(ch[e])
      /\ got[e] \in Seq(0..MaxSends) /\ c <= MaxSends
  <2>1. c \in 0..MaxSends
    BY <1>0, <1>1 DEF PInv, TypeOK
  <2>2. U \in Seq(Part) /\ w \in Seq(Part) /\ n \in Nat /\ got[e] \in Seq(0..MaxSends)
    BY <1>0, FlowParts
  <2>3. s.overflow \in Seq(Part) /\ data \in Seq(Part)
    BY FlowParts
  <2>4. buf \in Seq(Part) /\ buf = In(ch[e])
    BY <1>0, <2>3, Joined DEF In
  <2>5. QED
    BY <2>1, <2>2, <2>3, <2>4, PipeAssumption
<1>3. Follows(buf \o U, n, Q, c, p)
  <2>1. Coming(e) /\ ~Deaf(ch[e])
    BY DEF PInv, Turn, Deaf
  <2>2. QED
    BY <1>0, <1>2, <2>1 DEF Coming, Flow
<1>4. got \in [End -> Seq(0..MaxSends)]
  BY DEF PInv, TypeOK
<1>5. Local(e, s, p, got[e], told[e], sent[e]) /\ s \in ChannelObject /\ s.obj # "none"
  BY <1>0 DEF Turn, Local
<1>6. \/ Broken(e, b) /\ UNCHANGED got /\ Len(buf) > MaxMessage /\ s.overflow # <<>>
      \/ /\ Broken(e, s) /\ UNCHANGED got /\ s.validate /\ done # <<>>
         /\ ~(Head(done) = Hello /\ ch[o].secret)
      \/ ProcessIncoming(e, r) /\ got' = [got EXCEPT ![e] = g]
  <2> HIDE DEF b, r, done
  <2>1. QED
    BY <1>0 DEF DispatchInput, b, r, done
<1>7. CASE Broken(e, b) /\ UNCHANGED got /\ Len(buf) > MaxMessage /\ s.overflow # <<>>
  <2>1. ~MessagesFit
    <3>1. SUFFICES ASSUME MessagesFit PROVE FALSE
      OBVIOUS
    <3>0. PICK a : a = s.overflow
      OBVIOUS
    <3> DEFINE l == Len(a)
    <3>2. /\ l \in Nat /\ l # 0 /\ Len(buf) = l + Len(data) /\ Len(data) <= ReadBuf
          /\ Len(data) \in Nat
      <4>1. Len(data) <= ReadBuf
        BY DEF PInv, LocalAt, Local
      <4>0. a \in Seq(Part) /\ data \in Seq(Part) /\ buf = a \o data
        BY <1>0, <1>2, <3>0
      <4>2. /\ l \in Nat /\ Len(buf) = l + Len(data) /\ Len(data) \in Nat
        BY ONLY <4>0, Joined
      <4>3. l # 0
        BY <1>2, <1>7, <3>0, SeqParts
      <4>4. QED
        BY <4>1, <4>2, <4>3
    <3>3. \A i \in 1..l : buf[i] = a[i] /\ ~a[i].last
      <4>1. a \in Seq(Part) /\ data \in Seq(Part) /\ buf = a \o data
        BY <1>0, <1>2, <3>0
      <4>2. \A i \in 1..l : buf[i] = a[i]
        BY ONLY <4>1, Joined
      <4>3. \A i \in 1..l : ~a[i].last
        BY <1>5, <3>0 DEF Local
      <4>4. QED
        BY <4>2, <4>3
    <3>4. Short(buf)
      <4>1. Short(buf \o U)
        BY <1>3 DEF Follows
      <4>2. QED
        BY <1>2, <4>1, JoinedWhole
    <3> HIDE DEF l
    <3>5. l - 1 + 1 + ReadBuf <= MaxMessage
      <4>1. 1 \in 1..Len(buf) /\ l \in 1..Len(buf) /\ 1 <= l
        BY <3>2
      <4>2. \A i \in 1..l : ~buf[i].last
        BY <3>3
      <4>3. QED
        BY <3>1, <3>4, <4>1, <4>2 DEF Short
    <3>6. QED
      BY <1>7, <3>2, <3>5, PipeAssumption
  <2>2. /\ b \in ChannelObject /\ b.pipe = s.pipe /\ b.closing = s.closing
        /\ b.obj = s.obj /\ b.waiting = s.waiting /\ b.validate = s.validate
        /\ b.secret = s.secret /\ b.outOp = s.outOp /\ b.outPending = s.outPending
        /\ b.overflow = <<>> /\ b.inOp = s.inOp /\ b.port = s.port
        /\ b.outq = s.outq /\ b.init = s.init /\ b.inPending = s.inPending
    BY <1>5, EmptyParts DEF ChannelObject
  <2> HIDE DEF b
  <2>3. Data(b) = Data(s) /\ \A io : Packets(b, io) = Packets(s, io)
    BY <2>2, DataSame
  <2>4. Local(e, b, p, got[e], told[e], sent[e])
    <3>1. \A k \in 1..Len(b.overflow) : ~b.overflow[k].last
      <4>1. Len(b.overflow) = 0
        BY <2>2, EmptyParts, SeqParts
      <4>2. QED
        BY <4>1
    <3>2. QED
      BY <1>5, <2>2, <2>3, <3>1 DEF Local
  <2>5. \A V, d : Sends(e, s, V, d) => Sends(e, b, V, d)
    BY <1>5, <2>2, SameFlow
  <2>6. Turn(e, b, got[e])
    BY <1>0, <2>2, <2>4, <2>5 DEF Turn
  <2>7. got' = [got EXCEPT ![e] = got[e]]
    BY <1>4, <1>7
  <2>8. QED
    BY <1>7, <2>1, <2>2, <2>6, <2>7, BrokenTurn DEF Reason
<1>8. /\ Len(done) \in Nat /\ done \in Seq(0..MaxSends)
      /\ done = [j \in 1..Len(done) |-> n + j - 1]
      /\ Len(done) # 0 => n + Len(done) <= c + 1 /\ Head(done) = n
      /\ Len(done) # 0 /\ p # "closed" /\ Q = <<HelloMessage>> => c # n
      /\ t \in Seq(Part) /\ \A i \in 1..Len(t) : ~t[i].last
      /\ \E P \in Seq(Part) : /\ Consumes(buf \o w, P, t \o w)
                              /\ NextNumber(P, n) = n + Len(done)
  <2>1. Yields(buf, w, n, Q, c, p)
    BY ONLY <1>2, <1>3, Dispatched
  <2>2. QED
    BY <2>1 DEF Yields
<1> HIDE DEF done, t
<1>9. CASE /\ Broken(e, s) /\ UNCHANGED got /\ s.validate /\ done # <<>>
           /\ ~(Head(done) = Hello /\ ch[o].secret)
  <2>1. e = "server" /\ Validate /\ got[e] = <<>>
    BY <1>5, <1>9 DEF Local
  <2>2. n = 0 /\ Len(done) # 0 /\ Head(done) = 0
    BY <1>0, <1>8, <1>9, <2>1
  <2>3. ~ch[o].secret
    BY <1>9, <2>2 DEF Hello
  <2>4. LocalAt(o)
    BY <1>1 DEF PInv
  <2>5. CASE ch[o].obj = "none"
    <3>1. ch[o] = NoChannel /\ c = 0
      BY <1>0, <2>4, <2>5 DEF LocalAt, Local
    <3>2. p # "closed" /\ Q = <<HelloMessage>>
      BY <1>0, <2>5, <3>1 DEF NoChannel, Queue
    <3>3. QED
      BY <1>8, <2>2, <3>1, <3>2
  <2>6. CASE ch[o].obj # "none"
    <3>1. FALSE \in SecretOK
      BY <2>3, <2>4, <2>6 DEF LocalAt, Local
    <3>2. Reason(e, got[e])
      BY <2>1, <3>1 DEF Reason
    <3>3. got' = [got EXCEPT ![e] = got[e]]
      BY <1>4, <1>9
    <3>4. QED
      BY <1>9, <3>2, <3>3, BrokenTurn
  <2>7. QED
    BY <2>5, <2>6
<1>10. CASE ProcessIncoming(e, r) /\ got' = [got EXCEPT ![e] = g]
  <2>1. /\ r \in ChannelObject /\ r.pipe = s.pipe /\ r.closing = s.closing
        /\ r.obj = s.obj /\ r.waiting = s.waiting
        /\ r.validate = (s.validate /\ done = <<>>)
        /\ r.secret = s.secret /\ r.outOp = s.outOp /\ r.outPending = s.outPending
        /\ r.overflow = t /\ r.inOp = s.inOp /\ r.port = s.port
        /\ r.outq = s.outq /\ r.init = s.init /\ r.inPending = s.inPending
    BY <1>5, <1>8 DEF ChannelObject
  <2> HIDE DEF r
  <2>2. Data(r) = Data(s) /\ \A io : Packets(r, io) = Packets(s, io)
    BY <2>1, DataSame
  <2>3. g \in Seq(0..MaxSends) /\ Len(g) = n + Len(done)
    BY <1>0, <1>2, <1>8
  <2>4. r.validate => s.validate /\ g = <<>>
    <3>1. SUFFICES ASSUME s.validate, done = <<>> PROVE g = <<>>
      BY <2>1
    <3>2. got[e] = <<>>
      BY <1>5, <3>1 DEF Local
    <3>3. QED
      BY <3>1, <3>2
  <2> HIDE DEF g
  <2>5. Local(e, r, p, g, told[e], sent[e])
    BY <1>5, <1>8, <2>1, <2>2, <2>3, <2>4 DEF Local
  <2>6. \A V, d : Sends(e, s, V, d) => Sends(e, r, V, d)
    BY <1>5, <2>1, SameFlow
  <2>7. Heard(e, g)
    <3>1. CASE Len(done) = 0
      <4>1. done = <<>>
        BY <1>8, <3>1
      <4>2. g = got[e]
        BY <1>2, <4>1 DEF g
      <4>3. QED
        BY <4>2 DEF Heard
    <3>2. CASE Len(done) # 0
      <4> DEFINE k == Len(done)
      <4>1. k \in 1..(MaxSends + 1) /\ Len(got[e]) + k <= sent[Other(e)] + 1
        <5>1. k \in Nat /\ k # 0 /\ n + k <= c + 1 /\ n \in Nat /\ c \in Nat /\ c <= MaxSends
          BY <1>2, <1>8, <3>2
        <5>2. MaxSends \in Nat
          BY PipeAssumption
        <5> HIDE DEF k
        <5>3. k \in 1..(MaxSends + 1)
          BY ONLY <5>1, <5>2
        <5>4. n = Len(got[e]) /\ c = sent[Other(e)]
          BY <1>0
        <5>5. QED
          BY ONLY <5>1, <5>3, <5>4
      <4>2. g = got[e] \o [j \in 1..k |-> Len(got[e]) + j - 1]
        BY <1>0, <1>8 DEF g
      <4>3. ch[e].pipe = "open"
        BY DEF Turn
      <4> HIDE DEF k
      <4>4. QED
        BY <4>1, <4>2, <4>3 DEF Heard
    <3>3. QED
      BY <3>1, <3>2
  <2>8. Turn(e, r, g)
    BY <1>0, <2>1, <2>5, <2>6, <2>7 DEF Turn
  <2>9. Receives(e, r, wire[e], g)
    <3>1. PICK P \in Seq(Part) : Consumes(buf \o w, P, t \o w) /\ NextNumber(P, n) = n + Len(done)
      BY <1>8
    <3>2. Data(s) = <<>>
      BY DEF Data
    <3>3. In(r) = t
      BY <1>8, <2>1, <2>2, <3>2, Joined, EmptyParts DEF In
    <3>4. Consumes(In(ch[e]) \o wire[e], P, In(r) \o wire[e]) /\ Len(g) = NextNumber(P, Len(got[e]))
      BY <1>0, <1>2, <2>3, <3>1, <3>3
    <3>5. QED
      BY <3>4 DEF Receives
  <2>10. QED
    BY <1>10, <2>1, <2>2, <2>8, <2>9, ReadTurn
<1>11. QED
  BY <1>6, <1>7, <1>9, <1>10

\* A packet is taken off the port.
LEMMA LocalTail ==
  ASSUME NEW e, NEW s, NEW r, NEW p, NEW g, NEW t, NEW c,
         Local(e, s, p, g, t, c), r \in ChannelObject, s.obj # "none", r.obj # "none",
         \A j, k \in Packets(s, "in") : j = k, s.port # <<>>, Taken(s, r),
         r.pipe = s.pipe, r.closing = s.closing, r.validate = s.validate,
         r.secret = s.secret, r.overflow = s.overflow, r.waiting = s.waiting,
         r.inOp = s.inOp, r.init = s.init,
         r.inPending => s.inPending, r.outPending => s.outPending
  PROVE  Local(e, r, p, g, t, c)
<1>1. s.port \in Seq(Packet)
  BY DEF Local, ChannelObject
<1>2. /\ Head(s.port).io = "in" => Packets(r, "in") = {} /\ Data(r) = <<>>
      /\ Head(s.port).io # "in" =>
           Data(r) = Data(s) /\ (Packets(r, "in") = {} <=> Packets(s, "in") = {})
  BY <1>1, DataTail
<1>3. \A k \in Packets(r, "out") : k + 1 \in Packets(s, "out") /\ r.port[k] = s.port[k + 1]
  BY <1>1, DataTail
<1>4. \A k \in Packets(r, "out") : r.port[k].ok \/ r.pipe # "open" \/ p = "closed"
  BY <1>3 DEF Local
<1>5. Len(Data(r)) <= ReadBuf
  BY <1>2, EmptyParts, SeqParts, PipeAssumption DEF Local
<1>6. r.waiting => r.inOp # "read" /\ Data(r) = <<>>
  BY <1>2 DEF Local
<1>7. Packets(r, "in") # {} /\ Data(r) = <<>> /\ ~r.waiting => r.pipe # "open" \/ p = "closed"
  BY <1>2 DEF Local
<1>8. QED
  BY <1>4, <1>5, <1>6, <1>7 DEF Local

\* Nothing is taken.
LEMMA NothingTaken ==
  ASSUME IInv, PInv, NEW e \in End, NEW s, In(s) = In(ch[e])
  PROVE  Receives(e, s, wire[e], got[e])
<1>1. PICK Z : Z = In(ch[e]) \o wire[e]
  OBVIOUS
<1>2. Z \in Seq(Part)
  BY <1>1, FlowParts, Joined
<1>3. Consumes(Z, <<>>, Z)
  BY <1>2, Joined, EmptyParts DEF Consumes
<1>4. NextNumber(<<>>, Len(got[e])) = Len(got[e])
  BY DEF NextNumber
<1>5. QED
  BY <1>1, <1>3, <1>4, EmptyParts DEF Receives

\* The handler has not written anything yet.
LEMMA Begins ==
  ASSUME IInv, PInv, NEW e \in End, NEW s, ch[e].obj # "none", s.obj # "none",
         Local(e, s, ch[Other(e)].pipe, got[e], told[e], sent[e]), s.pipe = ch[e].pipe,
         s.closing = ch[e].closing, Queue(s) = Queue(ch[e]), s.outOp = ch[e].outOp
  PROVE  Turn(e, s, got[e])
<1> DEFINE o == Other(e)
<1>1. o \in End /\ Other(o) = e
  BY Ends2
<1>2. Under(o) = wire[o] \o s.outOp /\ Under(o) \in Seq(Part)
  BY <1>1, FlowParts DEF Under
<1>3. Sends(e, s, wire[o] \o s.outOp, sent[e])
  <2>1. Under(o) = (wire[o] \o s.outOp) \o <<>>
    BY <1>2, Joined, EmptyParts
  <2>2. Feed(Under(o), Queue(ch[e]), sent[e], wire[o] \o s.outOp, Queue(s), sent[e])
    BY <1>2 DEF Feed
  <2>3. QED
    BY <2>1, <2>2, EmptyParts DEF Sends
<1>4. QED
  BY <1>3 DEF Turn, Heard

\* The handler has only looked at the input of the object.
LEMMA Begun ==
  ASSUME IInv, PInv, NEW e \in End, NEW s, ch[e].obj # "none", s.obj # "none",
         Local(e, s, ch[Other(e)].pipe, got[e], told[e], sent[e]), s.pipe = ch[e].pipe,
         s.closing = ch[e].closing, s.outPending = ch[e].outPending, s.outq = ch[e].outq,
         s.outOp = ch[e].outOp
  PROVE  Turn(e, s, got[e])
<1>1. Queue(s) = Queue(ch[e])
  BY DEF Queue
<1>2. QED
  BY <1>1, Begins

LEMMA InitSignalStep ==
  ASSUME IInv, PInv, NEW e \in End, InitSignal(e)
  PROVE  StepRight
<1> DEFINE s == [ch[e] EXCEPT !.init = FALSE]
           o == Other(e)
<1>1. /\ ch[e].obj = "connected" /\ ch[e].init /\ OnInput(e, s, <<>>)
      /\ UNCHANGED <<sent, told>>
  BY DEF InitSignal, Running
<1>2. /\ ch[e] \in ChannelObject /\ ~ch[e].inPending /\ Packets(ch[e], "in") = {}
      /\ ch[e].inOp = "none" /\ got \in [End -> Seq(0..MaxSends)]
      /\ Local(e, ch[e], ch[o].pipe, got[e], told[e], sent[e])
  BY <1>1 DEF IInv, Good, Pending, Outstanding, PInv, TypeOK, LocalAt
<1>3. /\ s \in ChannelObject /\ s.obj = ch[e].obj /\ s.pipe = ch[e].pipe
      /\ s.waiting = ch[e].waiting /\ s.validate = ch[e].validate
      /\ s.secret = ch[e].secret /\ s.inPending = ch[e].inPending
      /\ s.outPending = ch[e].outPending /\ s.outq = ch[e].outq
      /\ s.overflow = ch[e].overflow /\ s.init = FALSE /\ s.closing = ch[e].closing
      /\ s.inOp = ch[e].inOp /\ s.outOp = ch[e].outOp /\ s.port = ch[e].port
  BY <1>2 DEF ChannelObject
<1> HIDE DEF s
<1>4. In(s) = In(ch[e]) /\ Packets(s, "in") = {}
  BY <1>2, <1>3, SameIn, DataSame
<1>5. Local(e, s, ch[o].pipe, got[e], told[e], sent[e])
  <2>1. /\ sent[e] \in 0..MaxSends
        /\ s.pipe = "none" => ~s.inPending /\ ~s.outPending
        /\ s.inOp = "connect" => s.waiting
        /\ s.waiting => s.inOp # "read"
        /\ s.outPending => ch[o].pipe # "none"
    BY <1>2, <1>3 DEF Local
  <2>2. QED
    BY <1>1, <1>2, <1>3, <2>1, LocalKept
<1>6. Turn(e, s, got[e]) /\ Receives(e, s, wire[e], got[e])
  BY <1>1, <1>3, <1>4, <1>5, Begun, NothingTaken
<1>7. \/ s.waiting /\ Connected(e, s) /\ UNCHANGED got
      \/ ~s.waiting /\ ProcessIncoming(e, s) /\ UNCHANGED got
  BY <1>1, <1>2, <1>3 DEF OnInput
<1>8. got' = [got EXCEPT ![e] = got[e]]
  BY <1>2, <1>7
<1>9. CASE s.waiting /\ Connected(e, s)
  BY <1>1, <1>2, <1>3, <1>4, <1>6, <1>8, <1>9, ConnectedTurn
<1>10. CASE ~s.waiting /\ ProcessIncoming(e, s)
  BY <1>1, <1>4, <1>6, <1>8, <1>10, ReadTurn
<1>11. QED
  BY <1>7, <1>9, <1>10

LEMMA InputCompletedStep ==
  ASSUME IInv, PInv, NEW e \in End, InputCompleted(e)
  PROVE  StepRight
<1> DEFINE s == [ch[e] EXCEPT !.port = Tail(@)]
           r == [s EXCEPT !.inPending = FALSE]
           o == Other(e)
<1>0. PICK data : data = Head(ch[e].port).data
  OBVIOUS
<1>1. /\ ch[e].port # <<>> /\ Head(ch[e].port).io = "in" /\ OnInput(e, s, data)
      /\ UNCHANGED <<sent, told>>
  BY <1>0 DEF InputCompleted, NextPacket
<1>2. /\ ch[e] \in ChannelObject /\ got \in [End -> Seq(0..MaxSends)]
      /\ ch[e].port \in Seq(Packet) /\ \A j, k \in Packets(ch[e], "in") : j = k
      /\ Local(e, ch[e], ch[o].pipe, got[e], told[e], sent[e])
  BY DEF IInv, Good, Pending, Outstanding, PInv, TypeOK, LocalAt, ChannelObject
<1>3. Data(ch[e]) = data /\ Packets(ch[e], "in") # {}
  <2>1. Taken(ch[e], [ch[e] EXCEPT !.port = Tail(@)])
    BY <1>2 DEF Taken, ChannelObject
  <2>2. QED
    BY <1>0, <1>1, <1>2, <2>1, DataTail
<1>4. ch[e].inPending /\ ch[e].inOp = "none" /\ ch[e].obj = "connected" /\ ~ch[e].init
  BY <1>3 DEF IInv, Good, Pending, Outstanding
<1>5. Tail(ch[e].port) \in Seq(Packet)
  BY <1>1, <1>2
<1>6. /\ s \in ChannelObject /\ s.obj = ch[e].obj /\ s.pipe = ch[e].pipe
      /\ s.waiting = ch[e].waiting /\ s.validate = ch[e].validate
      /\ s.secret = ch[e].secret /\ s.inPending = ch[e].inPending
      /\ s.outPending = ch[e].outPending /\ s.outq = ch[e].outq
      /\ s.overflow = ch[e].overflow /\ s.init = ch[e].init /\ s.closing = ch[e].closing
      /\ s.inOp = ch[e].inOp /\ s.outOp = ch[e].outOp /\ s.port = Tail(ch[e].port)
  BY <1>2, <1>5 DEF ChannelObject
<1>7. /\ r \in ChannelObject /\ r.obj = ch[e].obj /\ r.pipe = ch[e].pipe
      /\ r.waiting = ch[e].waiting /\ r.validate = ch[e].validate
      /\ r.secret = ch[e].secret /\ r.inPending = FALSE
      /\ r.outPending = ch[e].outPending /\ r.outq = ch[e].outq
      /\ r.overflow = ch[e].overflow /\ r.init = ch[e].init /\ r.closing = ch[e].closing
      /\ r.inOp = ch[e].inOp /\ r.outOp = ch[e].outOp /\ r.port = Tail(ch[e].port)
  <2> HIDE DEF s
  <2>1. QED
    BY <1>6 DEF ChannelObject
<1>8. \/ s.waiting /\ Connected(e, s) /\ UNCHANGED got
      \/ ~s.waiting /\ data = <<>> /\ Broken(e, r) /\ UNCHANGED got
      \/ ~s.waiting /\ r.pipe # "open" /\ ProcessIncoming(e, r) /\ UNCHANGED got
      \/ ~s.waiting /\ r.pipe = "open" /\ DispatchInput(e, r, data)
  <2> HIDE DEF s
  <2>1. QED
    BY <1>1, <1>4, <1>6 DEF OnInput
<1> HIDE DEF s, r
<1>18. Taken(ch[e], s) /\ Taken(ch[e], r)
  BY <1>6, <1>7 DEF Taken
<1>9. /\ Local(e, s, ch[o].pipe, got[e], told[e], sent[e])
      /\ Local(e, r, ch[o].pipe, got[e], told[e], sent[e])
  <2>1. Local(e, s, ch[o].pipe, got[e], told[e], sent[e])
    BY <1>1, <1>2, <1>4, <1>6, <1>18, LocalTail
  <2>2. Local(e, r, ch[o].pipe, got[e], told[e], sent[e])
    BY <1>1, <1>2, <1>4, <1>7, <1>18, LocalTail
  <2>3. QED
    BY <2>1, <2>2
<1>10. Turn(e, s, got[e]) /\ Turn(e, r, got[e])
  BY <1>4, <1>6, <1>7, <1>9, Begun
<1>11. /\ Packets(s, "in") = {} /\ Data(s) = <<>>
       /\ Packets(r, "in") = {} /\ Data(r) = <<>>
  BY <1>1, <1>2, <1>6, <1>7, <1>18, DataTail
<1>12. UNCHANGED got => got' = [got EXCEPT ![e] = got[e]]
  BY <1>2
<1>13. CASE s.waiting /\ Connected(e, s) /\ UNCHANGED got
  <2>1. data = <<>>
    BY <1>2, <1>3, <1>6, <1>13 DEF Local
  <2>2. In(s) = In(ch[e])
    BY <1>3, <1>6, <1>11, <2>1 DEF In
  <2>3. Receives(e, s, wire[e], got[e])
    BY <2>2, NothingTaken
  <2>4. QED
    BY <1>1, <1>4, <1>6, <1>10, <1>11, <1>12, <1>13, <2>3, ConnectedTurn
<1>14. CASE ~s.waiting /\ data = <<>> /\ Broken(e, r) /\ UNCHANGED got
  <2>1. r.pipe = "open" => ch[o].pipe = "closed"
    BY <1>2, <1>3, <1>6, <1>7, <1>14 DEF Local
  <2>2. r.pipe = "open" => Reason(e, got[e])
    BY <2>1 DEF Reason
  <2>3. QED
    BY <1>1, <1>7, <1>10, <1>12, <1>14, <2>2, BrokenTurn
<1>15. CASE ~s.waiting /\ r.pipe # "open" /\ ProcessIncoming(e, r) /\ UNCHANGED got
  <2>1. Receives(e, r, wire[e], got[e])
    BY <1>4, <1>7, <1>15 DEF Receives, Deaf
  <2>2. QED
    BY <1>1, <1>6, <1>7, <1>10, <1>11, <1>12, <1>15, <2>1, ReadTurn
<1>16. CASE ~s.waiting /\ r.pipe = "open" /\ DispatchInput(e, r, data)
  BY <1>1, <1>3, <1>6, <1>7, <1>10, <1>11, <1>16, DispatchTurn
<1>17. QED
  BY <1>8, <1>13, <1>14, <1>15, <1>16

LEMMA OutputCompletedStep ==
  ASSUME IInv, PInv, NEW e \in End, OutputCompleted(e)
  PROVE  StepRight
<1> DEFINE s == [ch[e] EXCEPT !.port = Tail(@), !.outPending = FALSE]
           t == [s EXCEPT !.outq = Tail(@)]
           o == Other(e)
<1>1. /\ ch[e].port # <<>> /\ Head(ch[e].port).io = "out" /\ UNCHANGED <<sent, told, got>>
      /\ \/ ~Head(ch[e].port).ok /\ Broken(e, s)
         \/ t.outq # <<>> /\ WriteFails(e, t) /\ Broken(e, t)
         \/ Put(e, ProcessOutgoing(e, t)) /\ UNCHANGED wire
  BY DEF OutputCompleted, NextPacket
<1>2. /\ ch[e] \in ChannelObject /\ got \in [End -> Seq(0..MaxSends)]
      /\ ch[e].port \in Seq(Packet) /\ \A j, k \in Packets(ch[e], "in") : j = k
      /\ Local(e, ch[e], ch[o].pipe, got[e], told[e], sent[e])
  BY DEF IInv, Good, Pending, Outstanding, PInv, TypeOK, LocalAt, ChannelObject
<1>3. 1 \in Packets(ch[e], "out") /\ Head(ch[e].port) = ch[e].port[1]
  <2> DEFINE q == ch[e].port
  <2>1. q \in Seq(Packet) /\ q # <<>> /\ Head(q).io = "out"
    BY <1>1, <1>2
  <2> HIDE DEF q
  <2>2. Head(q) = q[1] /\ 1 \in DOMAIN q
    BY <2>1
  <2>3. QED
    BY <2>1, <2>2 DEF Packets, q
<1>4. /\ ch[e].outPending /\ ch[e].outOp = <<>> /\ ch[e].obj = "connected"
      /\ ch[e].outq # <<>> /\ ch[e].outq \in Seq(Message)
  BY <1>2, <1>3 DEF IInv, Good, Pending, Outstanding, ChannelObject
<1>5. Tail(ch[e].port) \in Seq(Packet) /\ Tail(ch[e].outq) \in Seq(Message)
  BY <1>1, <1>2, <1>4
<1>6. /\ s \in ChannelObject /\ s.obj = ch[e].obj /\ s.pipe = ch[e].pipe
      /\ s.waiting = ch[e].waiting /\ s.validate = ch[e].validate
      /\ s.secret = ch[e].secret /\ s.inPending = ch[e].inPending
      /\ s.outPending = FALSE /\ s.outq = ch[e].outq
      /\ s.overflow = ch[e].overflow /\ s.init = ch[e].init /\ s.closing = ch[e].closing
      /\ s.inOp = ch[e].inOp /\ s.outOp = ch[e].outOp /\ s.port = Tail(ch[e].port)
  BY <1>2, <1>5 DEF ChannelObject
<1>7. /\ t \in ChannelObject /\ t.obj = ch[e].obj /\ t.pipe = ch[e].pipe
      /\ t.waiting = ch[e].waiting /\ t.validate = ch[e].validate
      /\ t.secret = ch[e].secret /\ t.inPending = ch[e].inPending
      /\ t.outPending = FALSE /\ t.outq = Tail(ch[e].outq)
      /\ t.overflow = ch[e].overflow /\ t.init = ch[e].init /\ t.closing = ch[e].closing
      /\ t.inOp = ch[e].inOp /\ t.outOp = ch[e].outOp /\ t.port = Tail(ch[e].port)
  <2> HIDE DEF s
  <2>1. QED
    BY <1>5, <1>6 DEF ChannelObject
<1> HIDE DEF s, t
<1>8. Taken(ch[e], s) /\ Taken(ch[e], t)
  BY <1>6, <1>7 DEF Taken
<1>9. /\ Local(e, s, ch[o].pipe, got[e], told[e], sent[e])
      /\ Local(e, t, ch[o].pipe, got[e], told[e], sent[e])
  <2>1. Local(e, s, ch[o].pipe, got[e], told[e], sent[e])
    BY <1>1, <1>2, <1>4, <1>6, <1>8, LocalTail
  <2>2. Local(e, t, ch[o].pipe, got[e], told[e], sent[e])
    BY <1>1, <1>2, <1>4, <1>7, <1>8, LocalTail
  <2>3. QED
    BY <2>1, <2>2
<1>10. In(t) = In(ch[e])
  <2>1. Data(t) = Data(ch[e])
    BY <1>1, <1>2, <1>8, DataTail
  <2>2. QED
    BY <1>7, <2>1 DEF In
<1>11. ch[o].pipe # "none" /\ ch[o].pipe \in {"none", "open", "closed"} /\ ch[e].pipe # "none"
  <2>1. ch[o] \in ChannelObject
    BY Ends2, FlowParts
  <2>2. QED
    BY <1>2, <1>4, <2>1 DEF Local, ChannelObject
<1>12. Turn(e, t, got[e])
  <2>1. Queue(t) = Queue(ch[e])
    BY <1>4, <1>7 DEF Queue
  <2>2. QED
    BY <1>4, <1>7, <1>9, <2>1, Begins
<1>13. got' = [got EXCEPT ![e] = got[e]]
  BY <1>1, <1>2
<1>14. CASE ~Head(ch[e].port).ok /\ Broken(e, s)
  <2>1. s.pipe = "open" => ch[o].pipe = "closed"
    BY <1>2, <1>3, <1>6, <1>14 DEF Local
  <2>2. ch[o].pipe = "closed" \/ Sends(e, s, wire[o] \o s.outOp, sent[e])
    <3>1. SUFFICES ASSUME ch[o].pipe # "closed"
                   PROVE  Sends(e, s, wire[o] \o s.outOp, sent[e])
      OBVIOUS
    <3>2. s.pipe = "closed"
      BY <1>6, <1>11, <2>1, <3>1 DEF ChannelObject
    <3>3. Under(o) = wire[o] \o s.outOp /\ Under(o) \in Seq(Part)
      BY <1>6, Ends2, FlowParts DEF Under
    <3>4. Under(o) = (wire[o] \o s.outOp) \o <<>>
      BY <3>3, Joined, EmptyParts
    <3>5. QED
      BY <3>2, <3>4, EmptyParts DEF Sends
  <2>3. Turn(e, s, got[e])
    BY <1>4, <1>6, <1>9, <2>2 DEF Turn, Heard
  <2>4. QED
    BY <1>1, <1>6, <1>13, <1>14, <2>1, <2>3, BrokenTurn DEF Reason
<1>15. CASE t.outq # <<>> /\ WriteFails(e, t) /\ Broken(e, t)
  <2>1. t.pipe = "open" => ch[o].pipe = "closed"
    BY <1>11, <1>15 DEF WriteFails
  <2>2. QED
    BY <1>1, <1>7, <1>12, <1>13, <1>15, <2>1, BrokenTurn DEF Reason
<1>16. CASE Put(e, ProcessOutgoing(e, t)) /\ UNCHANGED wire
  <2> DEFINE r == ProcessOutgoing(e, t)
  <2>1. Queue(t) = Queue(ch[e])
    BY <1>4, <1>7 DEF Queue
  <2>2. Turn(e, r, got[e]) /\ In(r) = In(t)
    BY <1>4, <1>7, <1>12, <2>1, OutgoingTurn
  <2>3. Put(e, r)
    BY <1>16
  <2> HIDE DEF r
  <2>4. Receives(e, r, wire[e], got[e])
    BY <1>10, <2>2, NothingTaken
  <2>5. QED
    BY <1>1, <1>13, <1>16, <2>2, <2>3, <2>4, PutTurn
<1>17. QED
  BY <1>1, <1>14, <1>15, <1>16

LEMMA ConnectStep ==
  ASSUME IInv, PInv, NEW e \in End, Connect(e)
  PROVE  StepRight
<1> DEFINE s == [ch[e] EXCEPT !.obj = "connected"]
           c == IF s.waiting THEN ProcessConnection(e, s) ELSE s
           i == [c EXCEPT !.init = ~c.inPending]
           o == Other(e)
<1>1. /\ ch[e].obj = "created" /\ ch[e].closing = "no"
      /\ UNCHANGED <<wire, sent, got, told>>
      /\ \/ Put(e, s)
         \/ s.pipe = "open" /\ Put(e, i)
         \/ s.pipe = "open" /\ Put(e, ProcessOutgoing(e, i))
  BY DEF Connect, Running
<1>2. /\ ch[e] \in ChannelObject /\ got \in [End -> Seq(0..MaxSends)]
      /\ Local(e, ch[e], ch[o].pipe, got[e], told[e], sent[e])
  BY DEF PInv, TypeOK, LocalAt
<1>3. /\ ~ch[e].inPending /\ ~ch[e].outPending /\ ~ch[e].init /\ ch[e].outOp = <<>>
      /\ ch[e].inOp = "none" /\ Packets(ch[e], "in") = {}
  BY <1>1 DEF IInv, Good, Pending, Outstanding
<1>4. /\ s \in ChannelObject /\ s.obj = "connected" /\ s.pipe = ch[e].pipe
      /\ s.waiting = ch[e].waiting /\ s.validate = ch[e].validate
      /\ s.secret = ch[e].secret /\ s.inPending = ch[e].inPending
      /\ s.outPending = ch[e].outPending /\ s.outq = ch[e].outq
      /\ s.overflow = ch[e].overflow /\ s.init = ch[e].init /\ s.closing = ch[e].closing
      /\ s.inOp = ch[e].inOp /\ s.outOp = ch[e].outOp /\ s.port = ch[e].port
  BY <1>2 DEF ChannelObject
<1> HIDE DEF s
<1>5. \/ c = s
      \/ c = [s EXCEPT !.inPending = FALSE]
      \/ s.waiting /\ c = [s EXCEPT !.inPending = TRUE, !.inOp = "connect"]
      \/ c = [s EXCEPT !.inPending = FALSE, !.waiting = FALSE]
  BY DEF ProcessConnection
<1> HIDE DEF c
<1>6. /\ c \in ChannelObject /\ c.obj = "connected" /\ c.pipe = ch[e].pipe
      /\ c.validate = ch[e].validate
      /\ c.secret = ch[e].secret
      /\ c.outPending = ch[e].outPending /\ c.outq = ch[e].outq
      /\ c.overflow = ch[e].overflow /\ c.init = ch[e].init /\ c.closing = ch[e].closing
      /\ c.outOp = ch[e].outOp /\ c.port = ch[e].port
      /\ c.waiting => ch[e].waiting
      /\ c.inOp \in {"none", "connect"} /\ (c.inOp = "connect" => c.waiting)
  <2>1. /\ c \in ChannelObject /\ c.obj = s.obj /\ c.pipe = s.pipe
        /\ c.validate = s.validate /\ c.secret = s.secret
        /\ c.outPending = s.outPending /\ c.outq = s.outq /\ c.overflow = s.overflow
        /\ c.init = s.init /\ c.closing = s.closing /\ c.outOp = s.outOp /\ c.port = s.port
        /\ c.waiting => s.waiting
        /\ c.inOp = s.inOp \/ (c.inOp = "connect" /\ c.waiting)
    <3>1. CASE c = s
      BY <1>4, <3>1
    <3>2. CASE c = [s EXCEPT !.inPending = FALSE]
      BY <1>4, <3>2 DEF ChannelObject
    <3>3. CASE s.waiting /\ c = [s EXCEPT !.inPending = TRUE, !.inOp = "connect"]
      BY <1>4, <3>3 DEF ChannelObject
    <3>4. CASE c = [s EXCEPT !.inPending = FALSE, !.waiting = FALSE]
      BY <1>4, <3>4 DEF ChannelObject
    <3>5. QED
      BY <1>5, <3>1, <3>2, <3>3, <3>4
  <2>2. QED
    BY <1>3, <1>4, <2>1
<1>7. /\ i \in ChannelObject /\ i.obj = "connected" /\ i.pipe = ch[e].pipe
      /\ i.validate = ch[e].validate
      /\ i.secret = ch[e].secret
      /\ i.outPending = ch[e].outPending /\ i.outq = ch[e].outq
      /\ i.overflow = ch[e].overflow /\ i.closing = ch[e].closing
      /\ i.outOp = ch[e].outOp /\ i.port = ch[e].port
      /\ i.waiting => ch[e].waiting
      /\ i.inOp \in {"none", "connect"} /\ (i.inOp = "connect" => i.waiting)
  BY <1>6 DEF ChannelObject
<1> HIDE DEF i
<1>8. got' = [got EXCEPT ![e] = got[e]] /\ sent[e] \in 0..MaxSends
  BY <1>1, <1>2 DEF Local
<1>9. Local(e, s, ch[o].pipe, got[e], told[e], sent[e])
  <2>1. s.pipe = "none" => ~s.inPending /\ ~s.outPending /\ ~s.init
    BY <1>3, <1>4
  <2>2. QED
    BY <1>1, <1>2, <1>3, <1>4, <1>8, <2>1, LocalKept
<1>10. s.pipe = "open" => Local(e, i, ch[o].pipe, got[e], told[e], sent[e])
  <2>1. s.pipe = "open" /\ i.pipe = "none" => FALSE
    BY <1>4, <1>7
  <2>2. QED
    BY <1>1, <1>2, <1>3, <1>4, <1>7, <1>8, <2>1, LocalKept
<1>11. /\ Turn(e, s, got[e]) /\ Receives(e, s, wire[e], got[e])
  BY <1>1, <1>4, <1>9, Begun, SameIn, NothingTaken
<1>12. s.pipe = "open" => /\ Turn(e, i, got[e]) /\ Receives(e, i, wire[e], got[e])
                          /\ In(i) = In(ch[e])
  BY <1>1, <1>7, <1>10, Begun, SameIn, NothingTaken
<1>13. CASE Put(e, s)
  BY <1>1, <1>8, <1>11, <1>13, PutTurn
<1>14. CASE s.pipe = "open" /\ Put(e, i)
  BY <1>1, <1>8, <1>12, <1>14, PutTurn
<1>15. CASE s.pipe = "open" /\ Put(e, ProcessOutgoing(e, i))
  <2> DEFINE r == ProcessOutgoing(e, i)
  <2>1. Queue(i) = Queue(ch[e])
    BY <1>1, <1>7 DEF Queue
  <2>2. Turn(e, r, got[e]) /\ In(r) = In(i)
    BY <1>3, <1>7, <1>12, <1>15, <2>1, OutgoingTurn
  <2>3. Put(e, r)
    BY <1>15
  <2> HIDE DEF r
  <2>4. Receives(e, r, wire[e], got[e])
    BY <1>12, <1>15, <2>2, NothingTaken
  <2>5. QED
    BY <1>1, <1>8, <2>2, <2>3, <2>4, PutTurn
<1>16. QED
  BY <1>1, <1>13, <1>14, <1>15

LEMMA CreateStep ==
  ASSUME IInv, PInv, NEW e \in End, NEW secret \in IF e = "server" THEN {TRUE} ELSE SecretOK,
         Create(e, secret)
  PROVE  StepRight
<1> DEFINE opens == e = "server" \/ ch["server"].pipe = "open"
           r == [ch[e] EXCEPT !.obj = "created",
                              !.pipe = IF opens THEN "open" ELSE @,
                              !.waiting = e = "server",
                              !.validate = e = "server" /\ Validate, !.secret = secret,
                              !.outq = IF opens THEN <<HelloMessage>> ELSE @]
           o == Other(e)
<1>1. /\ ch[e].obj = "none" /\ (e = "client" => ch["server"].obj # "none")
      /\ Put(e, r) /\ UNCHANGED <<wire, sent, got, told>>
  BY DEF Create, HelloMessage
<1>2. /\ ch[e] \in ChannelObject /\ got \in [End -> Seq(0..MaxSends)]
      /\ told \in [End -> Nat] /\ sent \in [End -> 0..MaxSends] /\ wire \in [End -> Seq(Part)]
      /\ Local(e, ch[e], ch[o].pipe, got[e], told[e], sent[e])
  BY DEF PInv, TypeOK, LocalAt
<1>3. ch[e] = NoChannel /\ got[e] = <<>> /\ told[e] \in {0, 1} /\ sent[e] \in 0..MaxSends
      /\ told[e] = 0
  BY <1>1, <1>2 DEF Local, NoChannel
<1>4. <<HelloMessage>> \in Seq(Message) /\ <<>> \in Seq(Message) /\ secret \in BOOLEAN
  <2>1. HelloMessage \in Message
    BY PipeAssumption DEF HelloMessage, Message, Hello
  <2>2. <<HelloMessage>> \in Seq(Message) /\ <<>> \in Seq(Message)
    BY <2>1
  <2>3. secret \in BOOLEAN
    BY PipeAssumption
  <2>4. QED
    BY <2>2, <2>3
<1>5. /\ r \in ChannelObject /\ r.obj = "created" /\ r.pipe = (IF opens THEN "open" ELSE "none")
      /\ r.waiting = (e = "server") /\ r.validate = (e = "server" /\ Validate)
      /\ r.secret = secret /\ r.inPending = FALSE /\ r.outPending = FALSE
      /\ r.outq = (IF opens THEN <<HelloMessage>> ELSE <<>>)
      /\ r.overflow = <<>> /\ r.init = FALSE /\ r.closing = "no"
      /\ r.inOp = "none" /\ r.outOp = <<>> /\ r.port = <<>>
  <2>1. /\ ch[e].inPending = FALSE /\ ch[e].outPending = FALSE /\ ch[e].outq = <<>>
        /\ ch[e].overflow = <<>> /\ ch[e].init = FALSE /\ ch[e].closing = "no"
        /\ ch[e].inOp = "none" /\ ch[e].outOp = <<>> /\ ch[e].port = <<>>
        /\ ch[e].pipe = "none"
    BY <1>3 DEF NoChannel
  <2>2. (e = "server" /\ Validate) \in BOOLEAN /\ (e = "server") \in BOOLEAN
    BY PipeAssumption
  <2> DEFINE q == IF opens THEN <<HelloMessage>> ELSE <<>>
             p == IF opens THEN "open" ELSE "none"
             v == e = "server" /\ Validate
             w == e = "server"
  <2>3. q \in Seq(Message) /\ p \in {"none", "open"} /\ v \in BOOLEAN /\ w \in BOOLEAN
    BY <1>4, <2>2
  <2>4. r = [ch[e] EXCEPT !.obj = "created", !.pipe = p, !.waiting = w, !.validate = v,
                          !.secret = secret, !.outq = q]
    BY <1>2, <2>1 DEF ChannelObject
  <2> HIDE DEF r, q, p, v, w
  <2>5. /\ r \in ChannelObject /\ r.obj = "created" /\ r.pipe = p /\ r.waiting = w
        /\ r.validate = v /\ r.secret = secret /\ r.outq = q
        /\ r.inPending = ch[e].inPending /\ r.outPending = ch[e].outPending
        /\ r.overflow = ch[e].overflow /\ r.init = ch[e].init /\ r.closing = ch[e].closing
        /\ r.inOp = ch[e].inOp /\ r.outOp = ch[e].outOp /\ r.port = ch[e].port
    <3>1. secret \in BOOLEAN /\ ch[e] \in ChannelObject
      BY <1>2, <1>4
    <3>2. PICK a : a = ch[e]
      OBVIOUS
    <3>3. a \in ChannelObject /\ r = [a EXCEPT !.obj = "created", !.pipe = p, !.waiting = w,
                                        !.validate = v, !.secret = secret, !.outq = q]
      BY <2>4, <3>1, <3>2
    <3>4. r \in ChannelObject
      <4>1. PICK l : l = [a EXCEPT !.obj = "created", !.pipe = p, !.waiting = w]
        OBVIOUS
      <4>2. l \in ChannelObject
        BY ONLY <2>3, <3>3, <4>1 DEF ChannelObject
      <4>3. r = [l EXCEPT !.validate = v, !.secret = secret, !.outq = q]
        BY ONLY <3>3, <4>1 DEF ChannelObject
      <4>4. QED
        BY ONLY <2>3, <3>1, <4>2, <4>3 DEF ChannelObject
    <3>5. /\ r.obj = "created" /\ r.pipe = p /\ r.waiting = w
          /\ r.validate = v /\ r.secret = secret /\ r.outq = q
      BY ONLY <3>3 DEF ChannelObject
    <3>6. /\ r.inPending = a.inPending /\ r.outPending = a.outPending
          /\ r.overflow = a.overflow /\ r.init = a.init /\ r.closing = a.closing
          /\ r.inOp = a.inOp /\ r.outOp = a.outOp /\ r.port = a.port
      BY ONLY <3>3 DEF ChannelObject
    <3>7. QED
      BY <3>2, <3>4, <3>5, <3>6
  <2>6. QED
    BY <2>1, <2>5 DEF q, p, v, w
<1>6. r.pipe = "none" => ch[o].pipe = "closed" /\ ~opens
  <2>1. SUFFICES ASSUME ~opens PROVE ch[o].pipe = "closed"
    BY <1>5
  <2>2. e = "client" /\ o = "server" /\ "server" \in End /\ Other("server") = "client"
    BY <2>1 DEF End, Other
  <2>3. LocalAt(o) /\ ch[o].obj # "none" /\ ch[o].pipe # "open" /\ ch[o] \in ChannelObject
    BY <1>1, <2>1, <2>2 DEF PInv, TypeOK
  <2>4. ch[Other(o)].pipe = "none"
    BY <1>3, <2>2 DEF NoChannel
  <2>5. QED
    BY <2>3, <2>4 DEF LocalAt, Local, ChannelObject
<1> HIDE DEF opens, r
<1>7. /\ \A io : Packets(r, io) = {} /\ Packets(ch[e], io) = {}
      /\ Data(r) = <<>> /\ In(r) = In(ch[e])
  <2>1. \A io : Packets(r, io) = {} /\ Packets(ch[e], io) = {}
    BY <1>3, <1>5 DEF Packets, NoChannel
  <2>2. Data(r) = <<>> /\ Data(ch[e]) = <<>>
    BY <2>1 DEF Data
  <2>3. QED
    BY <1>3, <1>5, <2>1, <2>2 DEF In, NoChannel
<1>8. Local(e, r, ch[o].pipe, got[e], told[e], sent[e])
  <2>1. ~r.secret => e = "client" /\ FALSE \in SecretOK
    BY <1>4, <1>5 DEF End
  <2>2. Len(Data(r)) <= ReadBuf /\ \A k \in 1..Len(r.overflow) : ~r.overflow[k].last
    BY <1>5, <1>7, EmptyParts, SeqParts, PipeAssumption
  <2>3. QED
    BY <1>2, <1>3, <1>5, <1>6, <1>7, <2>1, <2>2 DEF Local
<1>9. PipeOrder(ch[e], r)
  BY <1>1, <1>3, <1>5 DEF PipeOrder, Deaf, NoChannel
<1>10. Receives(e, r, wire[e], got[e])
  BY <1>7, NothingTaken
<1>11. ch[o].pipe = "closed" \/ Sends(e, r, wire[o] \o r.outOp, sent[e])
  <2>1. SUFFICES ASSUME ch[o].pipe # "closed"
                 PROVE  Sends(e, r, wire[o] \o r.outOp, sent[e])
    OBVIOUS
  <2>2. opens
    BY <1>5, <1>6, <2>1
  <2>3. Queue(r) = <<HelloMessage>> /\ Queue(ch[e]) = <<HelloMessage>>
    BY <1>1, <1>5, <2>2 DEF Queue
  <2>4. Under(o) = wire[o] \o r.outOp /\ Under(o) \in Seq(Part)
    <3>1. r.outOp = ch[e].outOp
      BY <1>3, <1>5 DEF NoChannel
    <3>2. QED
      BY <3>1, Ends2, FlowParts DEF Under
  <2>5. Feed(Under(o), Queue(ch[e]), sent[e], wire[o] \o r.outOp, Queue(r), sent[e])
    BY <2>3, <2>4 DEF Feed
  <2>6. r.pipe # "closed"
    BY <1>5
  <2>7. QED
    BY <2>5, <2>6 DEF Sends
<1>12. /\ got' = [got EXCEPT ![e] = got[e]] /\ told' = [told EXCEPT ![e] = told[e]]
       /\ sent' = [sent EXCEPT ![e] = sent[e]] /\ wire' \in [End -> Seq(Part)]
       /\ wire'[e] = wire[e] /\ wire'[o] = wire[o]
  BY <1>1, <1>2
<1>13. PInv'
  BY <1>1, <1>8, <1>9, <1>10, <1>11, <1>12, StepInv
<1>14. PipeStep
  <2>1. Ending(r, told[e]) = "open" /\ Ending(ch[e], told[e]) = "open"
    BY <1>3, <1>5 DEF Ending, NoChannel
  <2>2. QED
    BY <1>1, <2>1, StutterStep
<1>15. QED
  BY <1>13, <1>14 DEF StepRight

LEMMA SendStepRight ==
  ASSUME IInv, PInv, NEW e \in End, NEW size \in Sizes, Send(e, size)
  PROVE  StepRight
<1> DEFINE m == [n |-> sent[e] + 1, size |-> size]
           s == [ch[e] EXCEPT !.outq = Append(@, m)]
           o == Other(e)
           c == sent[e]
<1>1. /\ ch[e].obj = "connected" /\ ch[e].closing = "no" /\ c < MaxSends
      /\ sent' = [sent EXCEPT ![e] = @ + 1] /\ UNCHANGED <<wire, got, told>>
      /\ \/ Put(e, s)
         \/ ~s.outPending /\ Put(e, ProcessOutgoing(e, s))
  BY DEF Send, Running
<1>2. /\ ch[e] \in ChannelObject /\ got \in [End -> Seq(0..MaxSends)]
      /\ told \in [End -> Nat] /\ sent \in [End -> 0..MaxSends] /\ wire \in [End -> Seq(Part)]
      /\ Local(e, ch[e], ch[o].pipe, got[e], told[e], c)
  BY DEF PInv, TypeOK, LocalAt
<1>3. c \in Nat /\ c + 1 \in 0..MaxSends /\ m \in Message /\ m.n = c + 1
  <2>1. MaxSends \in Nat /\ c \in 0..MaxSends
    BY <1>2, PipeAssumption
  <2>2. c + 1 \in 0..MaxSends
    BY <1>1, <2>1
  <2>3. QED
    BY <2>1, <2>2 DEF Message
<1> HIDE DEF m
<1>4. ch[e].outq \in Seq(Message) /\ Append(ch[e].outq, m) \in Seq(Message)
  <2>1. ch[e].outq \in Seq(Message)
    BY <1>2 DEF ChannelObject
  <2>2. QED
    BY <1>3, <2>1
<1>5. /\ s \in ChannelObject /\ s.obj = "connected" /\ s.pipe = ch[e].pipe
      /\ s.waiting = ch[e].waiting /\ s.validate = ch[e].validate
      /\ s.secret = ch[e].secret /\ s.inPending = ch[e].inPending
      /\ s.outPending = ch[e].outPending /\ s.outq = Append(ch[e].outq, m)
      /\ s.overflow = ch[e].overflow /\ s.init = ch[e].init /\ s.closing = ch[e].closing
      /\ s.inOp = ch[e].inOp /\ s.outOp = ch[e].outOp /\ s.port = ch[e].port
  BY <1>1, <1>2, <1>4 DEF ChannelObject
<1> HIDE DEF s
<1>6. Queue(s) = Append(Queue(ch[e]), m)
  <2>1. CASE ch[e].outPending
    <3> DEFINE q == ch[e].outq
    <3>1. q # <<>> /\ q \in Seq(Message)
      BY <1>4, <2>1 DEF IInv, Good
    <3> HIDE DEF q
    <3>2. Tail(Append(q, m)) = Append(Tail(q), m)
      BY <3>1
    <3>3. QED
      BY <1>1, <1>5, <2>1, <3>2 DEF Queue, q
  <2>2. CASE ~ch[e].outPending
    BY <1>1, <1>5, <2>2 DEF Queue
  <2>3. QED
    BY <2>1, <2>2
<1>7. PICK r : Put(e, r) /\ (r = s \/ (~s.outPending /\ r = ProcessOutgoing(e, s)))
  BY <1>1
<1>8. /\ o \in End /\ Other(o) = e /\ wire[o] \in Seq(Part)
      /\ Under(o) = wire[o] \o ch[e].outOp /\ Under(o) \in Seq(Part)
  BY Ends2, FlowParts DEF Under
<1>9. /\ r \in ChannelObject /\ r.obj = "connected" /\ r.pipe = s.pipe
      /\ r.waiting = s.waiting /\ r.validate = s.validate /\ r.secret = s.secret
      /\ r.inPending = s.inPending /\ r.overflow = s.overflow
      /\ r.init = s.init /\ r.closing = s.closing /\ r.inOp = s.inOp /\ r.port = s.port
      /\ r.outPending => s.outPending \/ (s.pipe = "open" /\ ch[o].pipe = "open")
      /\ s.pipe = "closed" => r = s
      /\ Feed(Under(o), Queue(s), c + 1, wire[o] \o r.outOp, Queue(r), c + 1)
  <2>1. CASE r = s
    <3>1. Feed(Under(o), Queue(s), c + 1, wire[o] \o r.outOp, Queue(r), c + 1)
      BY <1>5, <1>8, <2>1 DEF Feed
    <3>2. QED
      BY <1>5, <2>1, <3>1
  <2>2. CASE ~s.outPending /\ r = ProcessOutgoing(e, s)
    <3>1. s.outOp = <<>> /\ ch[e].outOp = <<>>
      BY <1>5, <2>2 DEF IInv, Good, Pending, Outstanding
    <3>2. Under(o) = wire[o]
      BY <1>8, <3>1, Joined, EmptyParts
    <3>3. /\ \A W \in Seq(Part) : \A d : Feed(W, Queue(s), d, W \o r.outOp, Queue(r), d)
          /\ r \in ChannelObject
          /\ r.obj = s.obj /\ r.pipe = s.pipe /\ r.waiting = s.waiting
          /\ r.validate = s.validate /\ r.secret = s.secret /\ r.inPending = s.inPending
          /\ r.overflow = s.overflow /\ r.init = s.init
          /\ r.closing = s.closing /\ r.inOp = s.inOp /\ r.port = s.port
          /\ r.outPending => s.pipe = "open" /\ ch[o].pipe = "open"
          /\ s.pipe = "closed" => r = s
      <4>1. s \in ChannelObject /\ s.obj # "none"
        BY <1>5
      <4>2. QED
        BY ONLY <2>2, <3>1, <4>1, OutgoingIs
    <3>4. Feed(Under(o), Queue(s), c + 1, wire[o] \o r.outOp, Queue(r), c + 1)
      <4>1. Feed(wire[o], Queue(s), c + 1, wire[o] \o r.outOp, Queue(r), c + 1)
        BY <1>8, <3>3
      <4>2. QED
        BY <3>2, <4>1
    <3>5. QED
      BY <1>5, <3>3, <3>4
  <2>3. QED
    BY <1>7, <2>1, <2>2
<1>10. In(r) = In(ch[e])
  BY <1>5, <1>9, SameIn
<1>11. Local(e, r, ch[o].pipe, got[e], told[e], c + 1)
  <2>1. /\ r.pipe = ch[e].pipe /\ r.closing = ch[e].closing /\ r.validate = ch[e].validate
        /\ r.secret = ch[e].secret /\ r.port = ch[e].port /\ r.overflow = ch[e].overflow
        /\ r.waiting = ch[e].waiting /\ r.inOp = ch[e].inOp
    BY <1>5, <1>9
  <2>2. /\ ch[e].pipe = "none" => ~ch[e].inPending /\ ~ch[e].outPending /\ ~ch[e].init
        /\ ch[e].outPending => ch[o].pipe # "none"
        /\ ch[e].inOp = "connect" => ch[e].waiting
        /\ ch[e].waiting => ch[e].inOp # "read"
    BY <1>1, <1>2 DEF Local
  <2>3. ch[e].pipe = "none" => ~r.inPending /\ ~r.outPending /\ ~r.init
    BY <1>5, <1>9, <2>2
  <2>4. r.outPending => ch[o].pipe # "none"
    BY <1>5, <1>9, <2>2
  <2>5. r \in ChannelObject /\ ch[e].obj # "none" /\ r.obj # "none"
    BY <1>1, <1>9
  <2> DEFINE d == c + 1
  <2>6. d \in 0..MaxSends
    BY <1>3
  <2> HIDE DEF d
  <2>7. Local(e, r, ch[o].pipe, got[e], told[e], d)
    BY <1>2, <2>1, <2>2, <2>3, <2>4, <2>5, <2>6, LocalKept
  <2>8. QED
    BY <2>7 DEF d
<1>12. PipeOrder(ch[e], r)
  BY <1>5, <1>9 DEF PipeOrder, Deaf
<1>13. Receives(e, r, wire[e], got[e])
  BY <1>10, NothingTaken
<1>14. Sends(e, r, wire[o] \o r.outOp, c + 1)
  <2>1. CASE r.pipe = "closed"
    <3>1. r.outOp = ch[e].outOp
      BY <1>5, <1>9, <2>1
    <3>2. Under(o) = (wire[o] \o r.outOp) \o <<>>
      BY <1>8, <3>1, Joined, EmptyParts
    <3>3. QED
      BY <2>1, <3>2, EmptyParts DEF Sends
  <2>2. CASE r.pipe # "closed"
    <3>1. Feed(Under(o), Append(Queue(ch[e]), m), c + 1, wire[o] \o r.outOp, Queue(r), c + 1)
      BY <1>6, <1>9
    <3>2. QED
      BY <1>3, <2>2, <3>1 DEF Sends
  <2>3. QED
    BY <2>1, <2>2
<1>15. /\ got' = [got EXCEPT ![e] = got[e]] /\ told' = [told EXCEPT ![e] = told[e]]
       /\ sent' = [sent EXCEPT ![e] = c + 1] /\ wire' \in [End -> Seq(Part)]
       /\ wire'[e] = wire[e] /\ wire'[o] = wire[o]
  BY <1>1, <1>2
<1>16. PInv'
  BY <1>7, <1>11, <1>12, <1>13, <1>14, <1>15, StepInv
<1>17. PipeStep
  <2>1. Ending(r, told[e]) = Ending(ch[e], told[e])
    BY <1>5, <1>9 DEF Ending
  <2>2. QED
    BY <1>1, <1>7, <2>1, SendStep
<1>18. QED
  BY <1>16, <1>17 DEF StepRight

\* The owner's Close, and the loop of a Close that ends.
LEMMA CloseStepRight ==
  ASSUME IInv, PInv, NEW e \in End, NEW why \in {"close", "destroy"}, Close(e, why)
  PROVE  StepRight
<1> DEFINE r == BeginClose(ch[e], why)
           o == Other(e)
<1>1. /\ ch[e].obj \in {"created", "connected"} /\ ch[e].closing = "no"
      /\ Put(e, r) /\ wire' = [wire EXCEPT ![e] = <<>>] /\ UNCHANGED <<sent, got, told>>
  BY DEF Close, Running
<1>2. /\ ch[e] \in ChannelObject /\ got \in [End -> Seq(0..MaxSends)]
      /\ told \in [End -> Nat] /\ sent \in [End -> 0..MaxSends] /\ wire \in [End -> Seq(Part)]
      /\ Local(e, ch[e], ch[o].pipe, got[e], told[e], sent[e])
  BY DEF PInv, TypeOK, LocalAt
<1>3. /\ r \in ChannelObject /\ r.obj = ch[e].obj
      /\ r.pipe = (IF ch[e].pipe = "none" THEN "none" ELSE "closed")
      /\ r.waiting = ch[e].waiting /\ r.validate = ch[e].validate
      /\ r.secret = ch[e].secret /\ r.inPending = ch[e].inPending
      /\ r.outPending = ch[e].outPending /\ r.outq = ch[e].outq
      /\ r.overflow = ch[e].overflow /\ r.init = ch[e].init /\ r.closing = why
      /\ r.inOp = ch[e].inOp /\ r.outOp = ch[e].outOp /\ r.port = ch[e].port
  BY <1>2 DEF ChannelObject, BeginClose
<1> HIDE DEF r
<1>4. Data(r) = Data(ch[e]) /\ \A io : Packets(r, io) = Packets(ch[e], io)
  BY <1>3, DataSame
<1>5. Local(e, r, ch[o].pipe, got[e], told[e], sent[e])
  BY <1>1, <1>2, <1>3, <1>4 DEF Local
<1>6. PipeOrder(ch[e], r) /\ Receives(e, r, wire'[e], got[e])
  BY <1>1, <1>3 DEF PipeOrder, Deaf, Receives
<1>7. o \in End /\ o # e /\ wire'[o] = wire[o] /\ wire' \in [End -> Seq(Part)]
  BY <1>1, <1>2, Ends2, EmptyParts
<1>8. ch[o].pipe = "closed" \/ Sends(e, r, wire'[o] \o r.outOp, sent[e])
  <2>1. CASE r.pipe = "none"
    BY <1>1, <1>2, <1>3, <2>1 DEF Local
  <2>2. CASE r.pipe = "closed"
    <3>1. Under(o) = wire'[o] \o r.outOp /\ Under(o) \in Seq(Part)
      BY <1>3, <1>7, Ends2, FlowParts DEF Under
    <3>2. Under(o) = (wire'[o] \o r.outOp) \o <<>>
      BY <3>1, Joined, EmptyParts
    <3>3. QED
      BY <2>2, <3>2, EmptyParts DEF Sends
  <2>3. QED
    BY <1>3, <2>1, <2>2
<1>9. /\ got' = [got EXCEPT ![e] = got[e]] /\ told' = [told EXCEPT ![e] = told[e]]
      /\ sent' = [sent EXCEPT ![e] = sent[e]]
  BY <1>1, <1>2
<1>10. PInv'
  BY <1>1, <1>5, <1>6, <1>7, <1>8, <1>9, StepInv
<1>11. PipeStep
  <2>1. r.closing # "error"
    BY <1>3
  <2>2. QED
    BY <1>1, <1>3, <2>1, CloseStep
<1>12. QED
  BY <1>10, <1>11 DEF StepRight

LEMMA CloseDoneStep ==
  ASSUME IInv, PInv, NEW e \in End, CloseDone(e)
  PROVE  StepRight
<1> DEFINE r == [ch[e] EXCEPT !.outq = <<>>, !.closing = "no",
                              !.obj = IF ch[e].closing = "destroy" THEN "gone" ELSE @]
           t == IF ch[e].closing = "error" THEN told[e] + 1 ELSE told[e]
           o == Other(e)
<1>1. /\ ch[e].closing # "no" /\ ~ch[e].inPending /\ ~ch[e].outPending
      /\ Put(e, r) /\ told' = [told EXCEPT ![e] = IF ch[e].closing = "error" THEN @ + 1 ELSE @]
      /\ UNCHANGED <<wire, sent, got>>
  BY DEF CloseDone
<1>2. /\ ch[e] \in ChannelObject /\ got \in [End -> Seq(0..MaxSends)]
      /\ told \in [End -> Nat] /\ sent \in [End -> 0..MaxSends] /\ wire \in [End -> Seq(Part)]
      /\ Local(e, ch[e], ch[o].pipe, got[e], told[e], sent[e])
  BY DEF PInv, TypeOK, LocalAt
<1>3. /\ r \in ChannelObject /\ r.obj \in {"gone", ch[e].obj} /\ r.pipe = ch[e].pipe
      /\ r.waiting = ch[e].waiting /\ r.validate = ch[e].validate
      /\ r.secret = ch[e].secret /\ r.inPending = ch[e].inPending
      /\ r.outPending = ch[e].outPending
      /\ r.overflow = ch[e].overflow /\ r.init = ch[e].init /\ r.closing = "no"
      /\ r.inOp = ch[e].inOp /\ r.outOp = ch[e].outOp /\ r.port = ch[e].port
  <2>1. <<>> \in Seq(Message)
    OBVIOUS
  <2>2. QED
    BY <1>2, <2>1 DEF ChannelObject
<1>4. ch[e].obj # "none" /\ ch[e].pipe # "open" /\ ch[e].pipe \in {"none", "closed"}
      /\ (ch[e].pipe = "none" => ch[o].pipe = "closed")
      /\ ch[e].outOp = <<>>
  <2>1. ch[e].obj # "none"
    BY <1>1, <1>2 DEF Local, NoChannel
  <2>2. ch[e].outOp = <<>>
    BY <1>1 DEF IInv, Good, Pending, Outstanding
  <2>3. QED
    BY <1>1, <1>2, <2>1, <2>2 DEF Local, ChannelObject
<1> HIDE DEF r
<1>5. Data(r) = Data(ch[e]) /\ \A io : Packets(r, io) = Packets(ch[e], io)
  BY <1>3, DataSame
<1>6. t \in {0, 1} /\ (ch[e].pipe # "closed" => t = 0)
      /\ told' = [told EXCEPT ![e] = t]
  BY <1>1, <1>2 DEF Local
<1> HIDE DEF t
<1>7. Local(e, r, ch[o].pipe, got[e], t, sent[e])
  <2>1. Local(e, r, ch[o].pipe, got[e], told[e], sent[e])
    <3>1. /\ sent[e] \in 0..MaxSends /\ r.obj # "none"
          /\ ch[e].pipe = "none" => ~r.inPending /\ ~r.outPending /\ ~r.init
          /\ r.inOp = "connect" => r.waiting
          /\ r.waiting => ch[e].waiting /\ r.inOp # "read"
          /\ Packets(ch[e], "in") # {} /\ ~r.waiting => ~ch[e].waiting
          /\ ~r.outPending
      BY <1>1, <1>2, <1>3, <1>4 DEF Local
    <3>2. QED
      BY <1>1, <1>2, <1>3, <1>4, <3>1, LocalKept
  <2>2. QED
    BY <1>3, <1>4, <1>6, <2>1 DEF Local
<1>8. PipeOrder(ch[e], r) /\ Receives(e, r, wire'[e], got[e])
  BY <1>1, <1>3, <1>4 DEF PipeOrder, Deaf, Receives
<1>9. ch[o].pipe = "closed" \/ Sends(e, r, wire'[o] \o r.outOp, sent[e])
  <2>1. Under(o) = wire'[o] \o r.outOp /\ Under(o) \in Seq(Part)
    BY <1>1, <1>3, Ends2, FlowParts DEF Under
  <2>2. Under(o) = (wire'[o] \o r.outOp) \o <<>>
    BY <2>1, Joined, EmptyParts
  <2>3. QED
    BY <1>3, <1>4, <2>2, EmptyParts DEF Sends
<1>10. /\ got' = [got EXCEPT ![e] = got[e]] /\ sent' = [sent EXCEPT ![e] = sent[e]]
       /\ wire' \in [End -> Seq(Part)]
  BY <1>1, <1>2
<1>11. PInv'
  BY <1>1, <1>6, <1>7, <1>8, <1>9, <1>10, StepInv
<1>12. PipeStep
  <2>1. CASE ch[e].closing = "error"
    BY <1>1, <1>3, <2>1, TellStep
  <2>2. CASE ch[e].closing # "error"
    <3>1. Ending(r, told[e]) = Ending(ch[e], told[e])
      BY <1>3, <2>2 DEF Ending
    <3>2. UNCHANGED <<sent, got, told>>
      BY <1>1, <1>2, <2>2
    <3>3. QED
      BY <1>1, <3>1, <3>2, StutterStep
  <2>3. QED
    BY <2>1, <2>2
<1>13. QED
  BY <1>11, <1>12 DEF StepRight

LEMMA DieStep ==
  ASSUME IInv, PInv, NEW e \in End, Die(e)
  PROVE  StepRight
<1> DEFINE r == [NoChannel EXCEPT !.obj = "dead", !.secret = ch[e].secret,
                                  !.pipe = IF ch[e].pipe = "none" THEN @ ELSE "closed"]
           o == Other(e)
<1>1. /\ ch[e].obj \notin {"none", "dead"}
      /\ Put(e, r) /\ wire' = [wire EXCEPT ![e] = <<>>] /\ UNCHANGED <<sent, got, told>>
  BY DEF Die
<1>2. /\ ch[e] \in ChannelObject /\ got \in [End -> Seq(0..MaxSends)]
      /\ told \in [End -> Nat] /\ sent \in [End -> 0..MaxSends] /\ wire \in [End -> Seq(Part)]
      /\ Local(e, ch[e], ch[o].pipe, got[e], told[e], sent[e])
  BY DEF PInv, TypeOK, LocalAt
<1>3. /\ r.obj = "dead" /\ r.secret = ch[e].secret
      /\ r.pipe = (IF ch[e].pipe = "none" THEN "none" ELSE "closed")
      /\ r.waiting = FALSE /\ r.validate = FALSE /\ r.inPending = FALSE
      /\ r.outPending = FALSE /\ r.outq = <<>> /\ r.overflow = <<>> /\ r.init = FALSE
      /\ r.closing = "no" /\ r.inOp = "none" /\ r.outOp = <<>> /\ r.port = <<>>
  BY DEF NoChannel
<1>4. r \in ChannelObject
  <2>1. <<>> \in Seq(Message) /\ <<>> \in Seq(Packet) /\ <<>> \in Seq(Part)
    OBVIOUS
  <2>2. ch[e].secret \in BOOLEAN
    BY <1>2 DEF ChannelObject
  <2>3. QED
    BY <2>1, <2>2 DEF ChannelObject, NoChannel
<1> HIDE DEF r
<1>5. Data(r) = <<>> /\ \A io : Packets(r, io) = {}
  BY <1>3 DEF Data, Packets
<1>6. Local(e, r, ch[o].pipe, got[e], told[e], sent[e])
  <2>1. Len(Data(r)) <= ReadBuf /\ \A k \in 1..Len(r.overflow) : ~r.overflow[k].last
    BY <1>3, <1>5, EmptyParts, SeqParts, PipeAssumption
  <2>2. QED
    BY <1>1, <1>2, <1>3, <1>4, <1>5, <2>1 DEF Local
<1>7. PipeOrder(ch[e], r) /\ Receives(e, r, wire'[e], got[e])
  BY <1>3 DEF PipeOrder, Deaf, Receives
<1>8. o \in End /\ o # e /\ wire'[o] = wire[o] /\ wire' \in [End -> Seq(Part)]
  BY <1>1, <1>2, Ends2, EmptyParts
<1>9. ch[o].pipe = "closed" \/ Sends(e, r, wire'[o] \o r.outOp, sent[e])
  <2>1. CASE r.pipe = "none"
    BY <1>1, <1>2, <1>3, <2>1 DEF Local
  <2>2. CASE r.pipe = "closed"
    <3>1. Under(o) = wire[o] \o ch[e].outOp /\ wire[o] \in Seq(Part) /\ ch[e].outOp \in Seq(Part)
      BY <1>8, Ends2, FlowParts DEF Under
    <3>2. wire'[o] \o r.outOp = wire[o]
      BY <1>3, <1>8, <3>1, Joined, EmptyParts
    <3>3. QED
      BY <2>2, <3>1, <3>2 DEF Sends
  <2>3. QED
    BY <1>3, <2>1, <2>2
<1>10. /\ got' = [got EXCEPT ![e] = got[e]] /\ told' = [told EXCEPT ![e] = told[e]]
       /\ sent' = [sent EXCEPT ![e] = sent[e]]
  BY <1>1, <1>2
<1>11. PInv'
  BY <1>1, <1>6, <1>7, <1>8, <1>9, <1>10, StepInv
<1>12. PipeStep
  <2>1. r.closing # "error"
    BY <1>3
  <2>2. QED
    BY <1>1, <1>3, <2>1, CloseStep
<1>13. QED
  BY <1>11, <1>12 DEF StepRight

(***************************************************************************)
(* The kernel.                                                             *)
(***************************************************************************)

\* The input operation ends with a packet that brings d, taken off the wire.
LEMMA InputEndsStep ==
  ASSUME IInv, PInv, NEW e \in End, NEW d \in Seq(Part), NEW W \in Seq(Part),
         ch[e].inOp # "none", Len(d) <= ReadBuf, ch[e].waiting => d = <<>>,
         d = <<>> /\ ~ch[e].waiting => ch[e].pipe # "open" \/ ch[Other(e)].pipe = "closed",
         Complete(e, [ch[e] EXCEPT !.inOp = "none"], InPacket(d)),
         wire' = [wire EXCEPT ![e] = W], wire[e] = d \o W, UNCHANGED <<sent, got, told>>
  PROVE  StepRight
<1> DEFINE s == [ch[e] EXCEPT !.inOp = "none"]
           r == [s EXCEPT !.port = Append(@, InPacket(d))]
           o == Other(e)
<1>1. Put(e, r)
  BY DEF Complete
<1>2. /\ ch[e] \in ChannelObject /\ got \in [End -> Seq(0..MaxSends)]
      /\ told \in [End -> Nat] /\ sent \in [End -> 0..MaxSends] /\ wire \in [End -> Seq(Part)]
      /\ ch[e].port \in Seq(Packet)
      /\ Local(e, ch[e], ch[o].pipe, got[e], told[e], sent[e])
  BY DEF PInv, TypeOK, LocalAt, ChannelObject
<1>3. /\ Packets(ch[e], "in") = {} /\ ch[e].obj = "connected"
      /\ \A j, k \in Packets(ch[e], "in") : j = k
  BY DEF IInv, Good, Pending, Outstanding
<1>4. PICK p : p = InPacket(d)
  OBVIOUS
<1>5. p \in Packet /\ p.io = "in" /\ p.data = d
  BY <1>4 DEF Packet, InPacket
<1>6. Append(ch[e].port, p) \in Seq(Packet)
  BY <1>2, <1>5
<1>7. /\ s \in ChannelObject /\ s.obj = ch[e].obj /\ s.pipe = ch[e].pipe
      /\ s.waiting = ch[e].waiting /\ s.validate = ch[e].validate
      /\ s.secret = ch[e].secret /\ s.inPending = ch[e].inPending
      /\ s.outPending = ch[e].outPending /\ s.outq = ch[e].outq
      /\ s.overflow = ch[e].overflow /\ s.init = ch[e].init /\ s.closing = ch[e].closing
      /\ s.inOp = "none" /\ s.outOp = ch[e].outOp /\ s.port = ch[e].port
  BY <1>2 DEF ChannelObject
<1> HIDE DEF s
<1>8. /\ r \in ChannelObject /\ r.obj = ch[e].obj /\ r.pipe = ch[e].pipe
      /\ r.waiting = ch[e].waiting /\ r.validate = ch[e].validate
      /\ r.secret = ch[e].secret /\ r.inPending = ch[e].inPending
      /\ r.outPending = ch[e].outPending /\ r.outq = ch[e].outq
      /\ r.overflow = ch[e].overflow /\ r.init = ch[e].init /\ r.closing = ch[e].closing
      /\ r.inOp = "none" /\ r.outOp = ch[e].outOp /\ r.port = Append(ch[e].port, p)
  BY <1>4, <1>6, <1>7 DEF ChannelObject
<1> HIDE DEF r
<1>9. Added(ch[e], r, p)
  BY <1>8 DEF Added
<1>10. /\ Data(r) = d /\ Packets(r, "in") # {} /\ Data(ch[e]) = <<>>
       /\ Packets(r, "out") = Packets(ch[e], "out")
       /\ \A k \in Packets(r, "out") : r.port[k] = ch[e].port[k]
  <2>0. PICK a, b : a = ch[e] /\ b = r
    OBVIOUS
  <2>1. /\ p \in Packet /\ a.port \in Seq(Packet) /\ Added(a, b, p)
        /\ \A j, k \in Packets(a, "in") : j = k
    BY <1>2, <1>3, <1>5, <1>9, <2>0
  <2>2. /\ p.io = "in" /\ Packets(a, "in") = {} =>
             /\ Data(b) = p.data /\ Packets(b, "in") # {} /\ Data(a) = <<>>
             /\ Packets(b, "out") = Packets(a, "out")
        /\ \A k \in Packets(b, "out") :
             b.port[k] = p \/ (k \in Packets(a, "out") /\ b.port[k] = a.port[k])
    BY ONLY <2>1, DataAppend
  <2>3. \A k \in Packets(r, "out") : r.port[k].io = "out"
    BY DEF Packets
  <2>4. QED
    BY <1>3, <1>5, <2>0, <2>2, <2>3
<1>11. Local(e, r, ch[o].pipe, got[e], told[e], sent[e])
  <2>1. r.pipe = "none" => FALSE
    BY <1>2, <1>3, <1>8 DEF Local, IInv, Good, Pending, Outstanding
  <2>2. QED
    BY <1>2, <1>3, <1>8, <1>10, <2>1 DEF Local
<1>12. PipeOrder(ch[e], r)
  BY <1>3, <1>8 DEF PipeOrder, Deaf
<1>13. /\ wire'[e] = W /\ wire' \in [End -> Seq(Part)] /\ wire'[o] = wire[o]
  BY <1>2, Ends2
<1>14. Receives(e, r, wire'[e], got[e])
  <2>1. PICK v, Z : v = ch[e].overflow /\ Z = In(r) \o W
    OBVIOUS
  <2>2. v \in Seq(Part)
    BY <2>1, FlowParts
  <2>3. In(r) = v \o d /\ In(ch[e]) = v
    <3>1. In(ch[e]) = v \o <<>>
      BY <1>10, <2>1 DEF In
    <3>2. v \o <<>> = v
      BY ONLY <2>2, Joined, EmptyParts
    <3>3. In(r) = v \o d
      BY <1>8, <1>10, <2>1 DEF In
    <3>4. QED
      BY <3>1, <3>2, <3>3
  <2>4. In(ch[e]) \o wire[e] = Z /\ Z \in Seq(Part)
    <3>1. (v \o d) \o W = v \o (d \o W)
      BY ONLY <2>2, d \in Seq(Part), W \in Seq(Part), JoinedTwice
    <3>2. v \o d \in Seq(Part)
      BY ONLY <2>2, d \in Seq(Part), Joined
    <3>3. (v \o d) \o W \in Seq(Part)
      BY ONLY <3>2, W \in Seq(Part), Joined
    <3>4. QED
      BY <2>1, <2>3, <3>1, <3>3
  <2>5. Consumes(Z, <<>>, Z)
    BY <2>4, Joined, EmptyParts DEF Consumes
  <2>6. NextNumber(<<>>, Len(got[e])) = Len(got[e])
    BY DEF NextNumber
  <2>7. Consumes(In(ch[e]) \o wire[e], <<>>, In(r) \o wire'[e])
    BY <1>13, <2>1, <2>4, <2>5
  <2>8. QED
    BY <2>6, <2>7, EmptyParts DEF Receives
<1>15. Turn(e, r, got[e])
  BY <1>3, <1>8, <1>11, Begun
<1>16. ch[o].pipe = "closed" \/ Sends(e, r, wire'[o] \o r.outOp, sent[e])
  BY <1>13, <1>15 DEF Turn
<1>17. /\ got' = [got EXCEPT ![e] = got[e]] /\ told' = [told EXCEPT ![e] = told[e]]
       /\ sent' = [sent EXCEPT ![e] = sent[e]]
  BY <1>2
<1>18. PInv'
  BY <1>1, <1>11, <1>12, <1>13, <1>14, <1>16, <1>17, StepInv
<1>19. PipeStep
  <2>1. Ending(r, told[e]) = Ending(ch[e], told[e])
    BY <1>8 DEF Ending
  <2>2. QED
    BY <1>1, <2>1, StutterStep
<1>20. QED
  BY <1>18, <1>19 DEF StepRight

LEMMA ClientArrivesStep ==
  ASSUME IInv, PInv, ClientArrives
  PROVE  StepRight
<1> DEFINE e == "server"
<1>1. /\ e \in End /\ ch[e].inOp = "connect"
      /\ Complete(e, [ch[e] EXCEPT !.inOp = "none"], InPacket(<<>>))
      /\ UNCHANGED <<wire, sent, got, told>>
  BY DEF End, ClientArrives
<1>2. ch[e].waiting
  BY <1>1 DEF PInv, LocalAt, Local
<1>3. wire[e] \in Seq(Part) /\ wire' = [wire EXCEPT ![e] = wire[e]] /\ <<>> \o wire[e] = wire[e]
  <2>1. wire[e] \in Seq(Part) /\ wire \in [End -> Seq(Part)]
    BY <1>1 DEF PInv, TypeOK
  <2>2. QED
    BY <1>1, <2>1, Joined, EmptyParts
<1>4. Len(<<>>) <= ReadBuf
  BY PipeAssumption
<1> HIDE DEF e
<1>5. QED
  BY <1>1, <1>2, <1>3, <1>4, EmptyParts, InputEndsStep

LEMMA ReadCompletesStep ==
  ASSUME IInv, PInv, NEW e \in End, ReadCompletes(e)
  PROVE  StepRight
<1>1. PICK k, w : /\ w = wire[e] /\ k = IF Len(wire[e]) < ReadBuf THEN Len(wire[e]) ELSE ReadBuf
  OBVIOUS
<1>2. w \in Seq(Part) /\ Len(w) \in Nat /\ w # <<>> /\ ch[e].inOp = "read"
  BY <1>1 DEF ReadCompletes, PInv, TypeOK
<1>3. k \in Nat /\ k <= Len(w) /\ k <= ReadBuf /\ k >= 1
  BY <1>1, <1>2, PipeAssumption
<1>4. PICK d, W : d = SubSeq(w, 1, k) /\ W = SubSeq(w, k + 1, Len(w))
  OBVIOUS
<1>5. d \in Seq(Part) /\ W \in Seq(Part) /\ Len(d) = k /\ d # <<>>
  <2>1. k + 1 \in 1..(Len(w) + 1) /\ k \in 0..Len(w)
    BY <1>2, <1>3
  <2>2. d \in Seq(Part) /\ Len(d) = k
    BY <1>2, <1>3, <1>4
  <2>3. W \in Seq(Part)
    BY <1>2, <1>4, <2>1
  <2>4. d # <<>>
    BY <1>3, <2>2, SeqParts
  <2>5. QED
    BY <2>2, <2>3, <2>4
<1>6. w = d \o W
  <2>1. 1 \in 1..(Len(w) + 1) /\ k \in (1 - 1)..Len(w) /\ Len(w) \in k..Len(w)
    BY <1>2, <1>3
  <2>2. d \o W = SubSeq(w, 1, Len(w))
    BY <1>2, <1>4, <2>1, ConcatAdjacentSubSeq
  <2>3. QED
    BY <1>2, <2>2, SubSeqFull
<1>7. /\ Complete(e, [ch[e] EXCEPT !.inOp = "none"], InPacket(d))
      /\ wire' = [wire EXCEPT ![e] = W] /\ UNCHANGED <<sent, got, told>>
  BY <1>1, <1>4 DEF ReadCompletes
<1>8. ~ch[e].waiting
  BY <1>2 DEF PInv, LocalAt, Local
<1>9. QED
  BY <1>1, <1>2, <1>3, <1>5, <1>6, <1>7, <1>8, InputEndsStep

LEMMA InputFailsStep ==
  ASSUME IInv, PInv, NEW e \in End, InputFails(e)
  PROVE  StepRight
<1>1. /\ ch[e].inOp # "none" /\ Complete(e, [ch[e] EXCEPT !.inOp = "none"], InPacket(<<>>))
      /\ ch[e].pipe # "open" \/ ch[Other(e)].pipe = "closed"
      /\ UNCHANGED <<wire, sent, got, told>>
  BY DEF InputFails, OtherGone
<1>2. wire[e] \in Seq(Part) /\ wire' = [wire EXCEPT ![e] = wire[e]] /\ <<>> \o wire[e] = wire[e]
  <2>1. wire[e] \in Seq(Part) /\ wire \in [End -> Seq(Part)]
    BY DEF PInv, TypeOK
  <2>2. QED
    BY <1>1, <2>1, Joined, EmptyParts
<1>3. Len(<<>>) <= ReadBuf
  BY PipeAssumption
<1>4. QED
  BY <1>1, <1>2, <1>3, EmptyParts, InputEndsStep

\* The first of q is put behind w.
LEMMA PassesOn ==
  ASSUME NEW w \in Seq(Part), NEW q \in Seq(Part), q # <<>>
  PROVE  /\ Append(w, Head(q)) \in Seq(Part) /\ Tail(q) \in Seq(Part)
         /\ Append(w, Head(q)) \o Tail(q) = w \o q
<1>1. Head(q) \in Part /\ Tail(q) \in Seq(Part)
  OBVIOUS
<1>2. PICK x, y : x = <<Head(q)>> /\ y = Tail(q)
  OBVIOUS
<1>3. x \in Seq(Part) /\ y \in Seq(Part)
  BY <1>1, <1>2
<1>4. Append(w, Head(q)) = w \o x
  BY <1>1, <1>2, AppendIsConcat
<1>5. x \o y = q
  <2>1. /\ Len(q) \in Nat /\ Len(q) >= 1 /\ Len(x) = 1 /\ x[1] = q[1]
        /\ Len(y) = Len(q) - 1 /\ \A k \in 1..(Len(q) - 1) : y[k] = q[k + 1]
    BY <1>2
  <2>2. /\ x \o y \in Seq(Part) /\ Len(x \o y) = Len(x) + Len(y)
        /\ \A k \in 1..Len(x) : (x \o y)[k] = x[k]
        /\ \A k \in 1..Len(y) : (x \o y)[Len(x) + k] = y[k]
    BY ONLY <1>3, Joined
  <2>3. PICK z : z = x \o y
    OBVIOUS
  <2>4. z \in Seq(Part) /\ Len(z) = Len(q) /\ z[1] = q[1]
    BY <2>1, <2>2, <2>3
  <2>5. \A k \in 1..(Len(q) - 1) : z[1 + k] = q[k + 1]
    BY <2>1, <2>2, <2>3
  <2>6. ASSUME NEW i \in 1..Len(q) PROVE z[i] = q[i]
    <3>1. CASE i = 1
      BY <2>4, <3>1
    <3>2. CASE i # 1
      <4> DEFINE k == i - 1
      <4>1. k \in 1..(Len(q) - 1) /\ 1 + k = i /\ k + 1 = i
        BY <2>1, <3>2
      <4> HIDE DEF k
      <4>2. QED
        BY <2>5, <4>1
    <3>3. QED
      BY <3>1, <3>2
  <2>7. z = q
    BY ONLY q \in Seq(Part), <2>4, <2>6, SeqEqual
  <2>8. QED
    BY <2>3, <2>7
<1>6. (w \o x) \o y = w \o (x \o y)
  BY ONLY w \in Seq(Part), <1>3, JoinedTwice
<1>7. w \o x \in Seq(Part)
  BY ONLY w \in Seq(Part), <1>3, Joined
<1>8. QED
  BY <1>1, <1>2, <1>4, <1>5, <1>6, <1>7

\* The kernel has gone on with the write, or ended it.
LEMMA OutputMoves ==
  ASSUME IInv, PInv, NEW e \in End, NEW r \in ChannelObject, Put(e, r), ch[e].outOp # <<>>,
         r.obj = ch[e].obj, r.pipe = ch[e].pipe, r.waiting = ch[e].waiting,
         r.validate = ch[e].validate, r.secret = ch[e].secret,
         r.inPending = ch[e].inPending, r.outPending = ch[e].outPending,
         r.overflow = ch[e].overflow, r.init = ch[e].init, r.closing = ch[e].closing,
         r.inOp = ch[e].inOp,
         \/ r.port = ch[e].port
         \/ \E p \in Packet : /\ Added(ch[e], r, p) /\ p.io = "out"
                              /\ p.ok \/ ch[e].pipe # "open" \/ ch[Other(e)].pipe = "closed",
         wire' \in [End -> Seq(Part)], wire'[e] = wire[e], UNCHANGED <<sent, got, told>>,
         ch[Other(e)].pipe = "closed" \/ Sends(e, r, wire'[Other(e)] \o r.outOp, sent[e])
  PROVE  StepRight
<1> DEFINE o == Other(e)
<1>1. /\ ch[e] \in ChannelObject /\ got \in [End -> Seq(0..MaxSends)]
      /\ told \in [End -> Nat] /\ sent \in [End -> 0..MaxSends] /\ wire \in [End -> Seq(Part)]
      /\ ch[e].port \in Seq(Packet)
      /\ Local(e, ch[e], ch[o].pipe, got[e], told[e], sent[e])
  BY DEF PInv, TypeOK, LocalAt, ChannelObject
<1>2. ch[e].obj = "connected" /\ ch[e].outPending /\ \A j, k \in Packets(ch[e], "in") : j = k
  BY DEF IInv, Good, Pending, Outstanding
<1>3. /\ Data(r) = Data(ch[e]) /\ Packets(r, "in") = Packets(ch[e], "in")
      /\ \A k \in Packets(r, "out") : r.port[k].ok \/ r.pipe # "open" \/ ch[o].pipe = "closed"
  <2>1. CASE r.port = ch[e].port
    <3>1. Data(r) = Data(ch[e]) /\ \A io : Packets(r, io) = Packets(ch[e], io)
      BY <2>1, DataSame
    <3>2. QED
      BY <1>1, <2>1, <3>1 DEF Local
  <2>2. CASE \E p \in Packet : /\ Added(ch[e], r, p) /\ p.io = "out"
                               /\ p.ok \/ ch[e].pipe # "open" \/ ch[o].pipe = "closed"
    <3>1. PICK p \in Packet : /\ Added(ch[e], r, p) /\ p.io = "out"
                              /\ p.ok \/ ch[e].pipe # "open" \/ ch[o].pipe = "closed"
      BY <2>2
    <3>2. PICK a : a = ch[e]
      OBVIOUS
    <3>3. /\ p \in Packet /\ a.port \in Seq(Packet) /\ Added(a, r, p)
          /\ \A j, k \in Packets(a, "in") : j = k
      BY <1>1, <1>2, <3>1, <3>2
    <3>4. /\ p.io = "out" => Data(r) = Data(a) /\ Packets(r, "in") = Packets(a, "in")
          /\ \A k \in Packets(r, "out") :
               r.port[k] = p \/ (k \in Packets(a, "out") /\ r.port[k] = a.port[k])
      BY ONLY <3>3, DataAppend
    <3>5. \A k \in Packets(a, "out") : a.port[k].ok \/ a.pipe # "open" \/ ch[o].pipe = "closed"
      BY <1>1, <3>2 DEF Local
    <3>6. QED
      BY <3>1, <3>2, <3>4, <3>5
  <2>3. QED
    BY <2>1, <2>2
<1>4. Local(e, r, ch[o].pipe, got[e], told[e], sent[e])
  BY <1>1, <1>2, <1>3 DEF Local
<1>5. PipeOrder(ch[e], r)
  BY <1>2 DEF PipeOrder, Deaf
<1>6. Receives(e, r, wire'[e], got[e])
  <2>1. In(r) = In(ch[e])
    BY <1>3 DEF In
  <2>2. QED
    BY <2>1, NothingTaken
<1>7. /\ got' = [got EXCEPT ![e] = got[e]] /\ told' = [told EXCEPT ![e] = told[e]]
      /\ sent' = [sent EXCEPT ![e] = sent[e]]
  BY <1>1
<1>8. PInv'
  <2>1. /\ IInv /\ PInv /\ Put(e, r) /\ wire' \in [End -> Seq(Part)]
        /\ ch[o].pipe = "closed" \/ Sends(e, r, wire'[o] \o r.outOp, sent[e])
    OBVIOUS
  <2>2. QED
    BY ONLY e \in End, <1>4, <1>5, <1>6, <1>7, <2>1, StepInv
<1>9. PipeStep
  <2>1. Ending(r, told[e]) = Ending(ch[e], told[e])
    BY DEF Ending
  <2>2. QED
    BY <2>1, StutterStep
<1>10. QED
  BY <1>8, <1>9 DEF StepRight

LEMMA WritesPartStep ==
  ASSUME IInv, PInv, NEW e \in End, WritesPart(e)
  PROVE  StepRight
<1> DEFINE s == [ch[e] EXCEPT !.outOp = Tail(@)]
           o == Other(e)
<1>1. /\ ch[e].outOp # <<>> /\ UNCHANGED <<sent, got, told>>
      /\ wire' = [wire EXCEPT ![o] = Append(@, Head(ch[e].outOp))]
      /\ \/ Put(e, s)
         \/ Complete(e, s, OutPacket(TRUE))
  BY DEF WritesPart
<1>2. /\ ch[e] \in ChannelObject /\ ch[e].outOp \in Seq(Part) /\ ch[e].port \in Seq(Packet)
      /\ wire \in [End -> Seq(Part)] /\ o \in End /\ o # e /\ Other(o) = e
      /\ ch[e].obj = "connected"
  BY <1>1, Ends2 DEF PInv, TypeOK, ChannelObject, IInv, Good, Pending, Outstanding
<1>3. PICK q, w : q = ch[e].outOp /\ w = wire[o]
  OBVIOUS
<1>4. q \in Seq(Part) /\ w \in Seq(Part) /\ q # <<>>
  BY <1>1, <1>2, <1>3
<1>5. /\ Append(w, Head(q)) \in Seq(Part) /\ Tail(q) \in Seq(Part)
      /\ Append(w, Head(q)) \o Tail(q) = w \o q
  BY ONLY <1>4, PassesOn
<1>6. /\ s \in ChannelObject /\ s.obj = ch[e].obj /\ s.pipe = ch[e].pipe
      /\ s.waiting = ch[e].waiting /\ s.validate = ch[e].validate
      /\ s.secret = ch[e].secret /\ s.inPending = ch[e].inPending
      /\ s.outPending = ch[e].outPending /\ s.outq = ch[e].outq
      /\ s.overflow = ch[e].overflow /\ s.init = ch[e].init /\ s.closing = ch[e].closing
      /\ s.inOp = ch[e].inOp /\ s.outOp = Tail(q) /\ s.port = ch[e].port
  BY <1>2, <1>3, <1>5 DEF ChannelObject
<1> HIDE DEF s
<1>7. /\ wire' \in [End -> Seq(Part)] /\ wire'[e] = wire[e] /\ wire'[o] = Append(w, Head(q))
  BY <1>1, <1>2, <1>3, <1>5
<1>8. ASSUME NEW r, r.outPending = s.outPending, r.outq = s.outq, r.obj = s.obj,
             r.outOp = s.outOp
      PROVE  Sends(e, r, wire'[o] \o r.outOp, sent[e])
  <2>1. Queue(r) = Queue(ch[e])
    BY <1>6, <1>8 DEF Queue
  <2>2. Under(o) = wire'[o] \o r.outOp
    BY <1>2, <1>3, <1>5, <1>6, <1>7, <1>8 DEF Under
  <2>3. Under(o) = (wire'[o] \o r.outOp) \o <<>>
    BY <1>2, <2>2, FlowParts, Joined, EmptyParts
  <2>4. Feed(Under(o), Queue(ch[e]), sent[e], wire'[o] \o r.outOp, Queue(r), sent[e])
    BY <2>1, <2>2 DEF Feed
  <2>5. QED
    BY <2>3, <2>4, EmptyParts DEF Sends
<1>9. CASE Put(e, s)
  <2>1. Sends(e, s, wire'[o] \o s.outOp, sent[e])
    BY <1>8
  <2>2. QED
    BY <1>1, <1>6, <1>7, <1>9, <2>1, OutputMoves
<1>10. CASE Complete(e, s, OutPacket(TRUE))
  <2> DEFINE r == [s EXCEPT !.port = Append(@, OutPacket(TRUE))]
  <2>1. Put(e, r)
    BY <1>10 DEF Complete
  <2>2. PICK p : p = OutPacket(TRUE)
    OBVIOUS
  <2>3. p \in Packet /\ p.io = "out" /\ p.ok
    BY <2>2, EmptyParts DEF Packet, OutPacket
  <2>4. Append(ch[e].port, p) \in Seq(Packet)
    BY <1>2, <2>3
  <2>5. /\ r \in ChannelObject /\ r.obj = ch[e].obj /\ r.pipe = ch[e].pipe
        /\ r.waiting = ch[e].waiting /\ r.validate = ch[e].validate
        /\ r.secret = ch[e].secret /\ r.inPending = ch[e].inPending
        /\ r.outPending = ch[e].outPending /\ r.outq = ch[e].outq
        /\ r.overflow = ch[e].overflow /\ r.init = ch[e].init /\ r.closing = ch[e].closing
        /\ r.inOp = ch[e].inOp /\ r.outOp = s.outOp /\ r.port = Append(ch[e].port, p)
    BY <1>6, <2>2, <2>4 DEF ChannelObject
  <2> HIDE DEF r
  <2>6. Added(ch[e], r, p)
    BY <2>5 DEF Added
  <2>7. Sends(e, r, wire'[o] \o r.outOp, sent[e])
    BY <1>6, <1>8, <2>5
  <2>8. \E x \in Packet : /\ Added(ch[e], r, x) /\ x.io = "out"
                          /\ x.ok \/ ch[e].pipe # "open" \/ ch[Other(e)].pipe = "closed"
    BY <2>3, <2>6
  <2>9. QED
    BY <1>1, <1>7, <2>1, <2>5, <2>7, <2>8, OutputMoves
<1>11. QED
  BY <1>1, <1>9, <1>10

LEMMA WriteBreaksStep ==
  ASSUME IInv, PInv, NEW e \in End, WriteBreaks(e)
  PROVE  StepRight
<1> DEFINE s == [ch[e] EXCEPT !.outOp = <<>>]
           r == [s EXCEPT !.port = Append(@, OutPacket(FALSE))]
           o == Other(e)
<1>1. /\ ch[e].outOp # <<>> /\ UNCHANGED <<wire, sent, got, told>>
      /\ ch[e].pipe # "open" \/ ch[o].pipe # "open"
      /\ Put(e, r)
  BY DEF WriteBreaks, Complete
<1>2. /\ ch[e] \in ChannelObject /\ ch[o] \in ChannelObject /\ ch[e].port \in Seq(Packet)
      /\ wire \in [End -> Seq(Part)] /\ o \in End /\ o # e /\ Other(o) = e
      /\ ch[e].outPending /\ Local(e, ch[e], ch[o].pipe, got[e], told[e], sent[e])
  BY <1>1, Ends2 DEF PInv, LocalAt, TypeOK, ChannelObject, IInv, Good, Pending, Outstanding
<1>3. PICK p : p = OutPacket(FALSE)
  OBVIOUS
<1>4. p \in Packet /\ p.io = "out"
  BY <1>3, EmptyParts DEF Packet, OutPacket
<1>5. Append(ch[e].port, p) \in Seq(Packet)
  BY <1>2, <1>4
<1>6. /\ s \in ChannelObject /\ s.obj = ch[e].obj /\ s.pipe = ch[e].pipe
      /\ s.waiting = ch[e].waiting /\ s.validate = ch[e].validate
      /\ s.secret = ch[e].secret /\ s.inPending = ch[e].inPending
      /\ s.outPending = ch[e].outPending /\ s.outq = ch[e].outq
      /\ s.overflow = ch[e].overflow /\ s.init = ch[e].init /\ s.closing = ch[e].closing
      /\ s.inOp = ch[e].inOp /\ s.outOp = <<>> /\ s.port = ch[e].port
  BY <1>2, EmptyParts DEF ChannelObject
<1> HIDE DEF s
<1>7. /\ r \in ChannelObject /\ r.obj = ch[e].obj /\ r.pipe = ch[e].pipe
      /\ r.waiting = ch[e].waiting /\ r.validate = ch[e].validate
      /\ r.secret = ch[e].secret /\ r.inPending = ch[e].inPending
      /\ r.outPending = ch[e].outPending /\ r.outq = ch[e].outq
      /\ r.overflow = ch[e].overflow /\ r.init = ch[e].init /\ r.closing = ch[e].closing
      /\ r.inOp = ch[e].inOp /\ r.outOp = <<>> /\ r.port = Append(ch[e].port, p)
  BY <1>3, <1>5, <1>6 DEF ChannelObject
<1> HIDE DEF r
<1>8. ch[e].pipe = "closed" \/ ch[o].pipe = "closed"
  BY <1>1, <1>2 DEF Local, ChannelObject
<1>9. \E x \in Packet : /\ Added(ch[e], r, x) /\ x.io = "out"
                        /\ x.ok \/ ch[e].pipe # "open" \/ ch[Other(e)].pipe = "closed"
  BY <1>4, <1>7, <1>8 DEF Added
<1>10. ch[o].pipe = "closed" \/ Sends(e, r, wire'[o] \o r.outOp, sent[e])
  <2>1. SUFFICES ASSUME r.pipe = "closed" PROVE Sends(e, r, wire'[o] \o r.outOp, sent[e])
    BY <1>7, <1>8
  <2>2. Under(o) = wire[o] \o ch[e].outOp /\ wire[o] \in Seq(Part) /\ ch[e].outOp \in Seq(Part)
    BY <1>2, FlowParts DEF Under
  <2>3. wire'[o] \o r.outOp = wire[o]
    BY <1>1, <1>7, <2>2, Joined, EmptyParts
  <2>4. QED
    BY <2>1, <2>2, <2>3 DEF Sends
<1>11. wire' \in [End -> Seq(Part)] /\ wire'[e] = wire[e]
  BY <1>1, <1>2
<1>12. QED
  BY <1>1, <1>7, <1>9, <1>10, <1>11, OutputMoves

(***************************************************************************)
(* The invariant holds at first, and every step keeps it.                  *)
(***************************************************************************)
LEMMA InitPipe == ASSUME Init PROVE PInv /\ Pipe!PipeInit
<1>1. /\ \A e \in End : /\ ch[e] = NoChannel /\ wire[e] = <<>> /\ sent[e] = 0
                        /\ got[e] = <<>> /\ told[e] = 0
      /\ DOMAIN ch = End /\ DOMAIN wire = End /\ DOMAIN sent = End /\ DOMAIN got = End
      /\ DOMAIN told = End
  BY DEF Init
<1>2. 0 \in 0..MaxSends /\ 0 <= ReadBuf
  BY PipeAssumption
<1>3. NoChannel \in ChannelObject
  <2>1. <<>> \in Seq(Message) /\ <<>> \in Seq(Packet) /\ <<>> \in Seq(Part)
    OBVIOUS
  <2>2. QED
    BY <2>1 DEF ChannelObject, NoChannel
<1>4. TypeOK
  <2>1. <<>> \in Seq(Part) /\ <<>> \in Seq(0..MaxSends)
    OBVIOUS
  <2>2. QED
    BY <1>2, <1>3, <2>1 DEF TypeOK, Init
<1>5. Data(NoChannel) = <<>> /\ \A io : Packets(NoChannel, io) = {}
  BY DEF Data, Packets, NoChannel
<1>6. ASSUME NEW e \in End PROVE LocalAt(e)
  <2>1. <<>> \in Seq(0..MaxSends) /\ Len(<<>>) = 0
    OBVIOUS
  <2>2. \A k \in 1..Len(NoChannel.overflow) : ~NoChannel.overflow[k].last
    BY <2>1 DEF NoChannel
  <2>3. Len(Data(NoChannel)) <= ReadBuf
    BY <1>2, <1>5, <2>1
  <2>4. Local(e, NoChannel, "none", <<>>, 0, 0)
    BY <1>2, <1>3, <1>5, <2>1, <2>2, <2>3 DEF Local, NoChannel
  <2>5. ch[Other(e)].pipe = "none"
    BY <1>1, Ends2 DEF NoChannel
  <2>6. QED
    BY <1>1, <2>4, <2>5 DEF LocalAt
<1>7. ASSUME NEW e \in End PROVE Coming(e)
  <2>1. Other(e) \in End
    BY Ends2
  <2>2. Flow(e) = <<>>
    <3>1. In(ch[e]) = <<>> \o <<>> /\ Under(e) = <<>> \o <<>>
      <4>1. /\ ch[e] = NoChannel /\ ch[Other(e)] = NoChannel /\ wire[e] = <<>>
            /\ NoChannel.overflow = <<>> /\ NoChannel.outOp = <<>>
        BY <1>1, <2>1 DEF NoChannel
      <4>2. In(NoChannel) = <<>> \o <<>>
        BY <1>5, <4>1 DEF In
      <4>3. Under(e) = <<>> \o <<>>
        BY <4>1 DEF Under
      <4>4. QED
        BY <4>1, <4>2, <4>3
    <3>2. <<>> \o <<>> = <<>>
      BY Joined, EmptyParts
    <3>3. QED
      BY <3>1, <3>2 DEF Flow
  <2>3. Queue(ch[Other(e)]) = <<HelloMessage>>
    BY <1>1, <2>1 DEF Queue, NoChannel
  <2>4. Len(got[e]) = 0 /\ sent[Other(e)] = 0
    BY <1>1, <2>1
  <2>5. Follows(<<>>, 0, <<HelloMessage>>, 0, ch[Other(e)].pipe)
    <3>1. Len(<<>>) = 0 /\ Len(<<HelloMessage>>) = 1 /\ <<HelloMessage>>[1].n = 0
      BY DEF HelloMessage, Hello
    <3>2. Line(<<>>, 0, <<HelloMessage>>, 0)
      <4>1. NextNumber(<<>>, 0) = 0
        BY DEF NextNumber
      <4>2. Whole(<<>>)
        BY DEF Whole
      <4>3. \A k \in 1..Len(<<HelloMessage>>) :
              <<HelloMessage>>[k].n + Len(<<HelloMessage>>) = 0 + k
        BY <3>1
      <4>4. QED
        BY <3>1, <4>1, <4>2, <4>3 DEF Line
    <3>3. Consecutive(<<>>, 0)
      BY <3>1 DEF Consecutive
    <3>4. Short(<<>>) /\ Below(<<>>, 0)
      BY <3>1 DEF Short, Below
    <3>5. QED
      BY <3>2, <3>3, <3>4 DEF Follows
  <2>6. QED
    BY <2>2, <2>3, <2>4, <2>5 DEF Coming
<1>8. Pipe!PipeInit
  <2>1. \A e \in End : EndState(e) = "open"
    BY <1>1 DEF EndState, NoChannel
  <2>2. QED
    BY <2>1 DEF Pipe!PipeInit, Init
<1>9. QED
  BY <1>4, <1>6, <1>7, <1>8 DEF PInv

LEMMA NextPipe ==
  ASSUME Inductive, PInv, [Next]_vars
  PROVE  PInv' /\ (MessagesFit => PipeStep)
<1>1. IInv
  BY DEF Inductive
<1>2. CASE UNCHANGED vars
  <2>1. UNCHANGED <<ch, wire, sent, got, told>>
    BY <1>2 DEF vars
  <2>2. TypeOK'
    BY <2>1 DEF PInv, TypeOK
  <2>3. \A e \in End : LocalAt(e)'
    <3>1. ASSUME NEW e \in End PROVE LocalAt(e)'
      <4>1. LocalAt(e)
        BY DEF PInv
      <4>2. LocalAt(e)' <=>
              Local(e, ch'[e], ch'[Other(e)].pipe, got'[e], told'[e], sent'[e])
        BY DEF LocalAt, Local, Data, Packets
      <4>3. QED
        BY <2>1, <4>1, <4>2 DEF LocalAt
    <3>2. QED
      BY <3>1
  <2>4. \A e \in End : Coming(e)'
    <3>1. ASSUME NEW e \in End PROVE Coming(e)'
      <4>1. In(ch[e])' = In(ch'[e])
        BY DEF In, Data, Packets
      <4>2. Flow(e)' = Flow(e)
        BY <2>1, <4>1 DEF Flow, Under
      <4>3. Queue(ch[Other(e)])' = Queue(ch[Other(e)])
        BY <2>1 DEF Queue
      <4>4. Coming(e)
        BY DEF PInv
      <4>5. QED
        BY <2>1, <4>2, <4>3, <4>4 DEF Coming, Deaf, Follows
    <3>2. QED
      BY <3>1
  <2>5. PipeStep
    <3>1. PipeEnds' = PipeEnds
      BY <2>1 DEF PipeEnds, EndState
    <3>2. QED
      BY <2>1, <3>1 DEF PipeStep, Pipe!pipeVars, PipeEnds
  <2>6. QED
    BY <2>2, <2>3, <2>4, <2>5 DEF PInv
<1>3. ASSUME NEW e \in End, IoThread(e) PROVE StepRight
  BY <1>1, <1>3, InitSignalStep, InputCompletedStep, OutputCompletedStep, CloseDoneStep
     DEF IoThread
<1>4. ASSUME NEW e \in End, Kernel(e) PROVE StepRight
  BY <1>1, <1>4, ReadCompletesStep, InputFailsStep, WritesPartStep, WriteBreaksStep DEF Kernel
<1>5. ASSUME NEW e \in End, Owner(e) PROVE StepRight
  BY <1>1, <1>5, CreateStep, ConnectStep, DieStep, SendStepRight, CloseStepRight
     DEF Owner, Constructs
<1>6. CASE Next
  <2>1. StepRight
    BY <1>1, <1>3, <1>4, <1>5, <1>6, ClientArrivesStep DEF Next
  <2>2. QED
    BY <2>1 DEF StepRight
<1>7. QED
  BY <1>2, <1>6

LEMMA PipeReachable == Spec => [](Inductive /\ PInv)
<1>1. Init => Inductive /\ PInv
  BY InitInv, InitPipe
<1>2. Inductive /\ PInv /\ [Next]_vars => Inductive' /\ PInv'
  BY NextInv, NextPipe
<1>3. QED
  BY <1>1, <1>2, PTL DEF Spec

\* Every field always has the shape the code's data structure gives it: no message has a
\* number that was never sent, no buffer holds what is not part of one.
THEOREM TypeCorrect == Spec => []TypeOK
<1>1. PInv => TypeOK
  BY DEF PInv
<1>2. QED
  BY <1>1, PipeReachable, PTL

\* The two channels are a MessagePipe: whatever parts messages are written and read in,
\* whichever end is created, connected, closed or dies first, each listener receives the
\* hello and the messages of the other end once, in order, and none after an error or a
\* close; it is told of one error at most, and only when the other end is gone or the
\* server refuses the client.  No message may be too big for the reader, see MessagesFit.
THEOREM PipeImplemented == MessagesFit => (Spec => ImplementsMessagePipe)
<1> SUFFICES ASSUME MessagesFit PROVE Spec => ImplementsMessagePipe
  OBVIOUS
<1>1. Init => Pipe!PipeInit
  BY InitPipe
<1>2. Inductive /\ PInv /\ [Next]_vars => [Pipe!PipeNext]_(Pipe!pipeVars)
  BY NextPipe DEF PipeStep
<1>3. QED
  BY <1>1, <1>2, PipeReachable, PTL DEF Spec, ImplementsMessagePipe, Pipe!PipeSpec
=============================================================================
