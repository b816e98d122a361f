----------------------------- MODULE ChannelWin -----------------------------
(***************************************************************************)
(* IPC::Channel on Windows: the two ends of one named pipe, each driven by *)
(* overlapped operations on the IO thread of its process.                  *)
(*                                                                         *)
(* Every read, write and connect the channel starts ends with a completion *)
(* packet on the thread's port, also when it succeeds at once, and         *)
(* OnIOCompleted handles one packet at a time; is_pending remembers that a *)
(* packet is to come.  Close cancels the operations and runs a loop of its *)
(* own until their packets are in, because the kernel holds pointers into  *)
(* the channel until then.  A read ends wherever the buffer does, so that  *)
(* messages are put together again from parts.                             *)
(*                                                                         *)
(* The kernel (named pipe, completion port) is external.  A message is a   *)
(* number, the hello is 0; its data is a number of parts.                  *)
(***************************************************************************)
EXTENDS Naturals, FiniteSets, Sequences, SequencesExt

CONSTANTS
  MaxSends,    \* bound: messages handed to Send at each end
  MaxTotal,    \* bound: messages handed to Send at both ends
  Sizes,       \* parts of a message
  ReadBuf,     \* kReadBufferSize, in parts
  Quota,       \* parts the kernel buffers in each direction
  MaxMessage,  \* kMaximumMessageSize, in parts
  Validate,    \* the server was created with a secret
  SecretOK,    \* whether the client may know that secret, or may not
  MayClose,    \* ends whose owner may close or delete the channel
  MayDie       \* ends whose process may die

ASSUME PipeAssumption ==
  /\ MaxSends \in Nat /\ MaxTotal \in Nat /\ Sizes \subseteq Nat \ {0}
  /\ ReadBuf \in Nat \ {0} /\ Quota \in Nat \ {0} /\ MaxMessage \in Nat
  /\ Validate \in BOOLEAN /\ SecretOK \subseteq BOOLEAN

End == {"server", "client"}
ASSUME EndsAssumption == MayClose \subseteq End /\ MayDie \subseteq End

Other(e) == IF e = "server" THEN "client" ELSE "server"

VARIABLES
  ch,      \* the channel object of each end, its kernel operations and its port
  wire,    \* parts written and not read, by the end they go to
  sent,    \* history: messages handed to Send
  got,     \* history: messages given to the listener
  told     \* history: calls of OnChannelError

vars == <<ch, wire, sent, got, told>>

Hello   == 0
Message == [n : 0..MaxSends, size : Sizes \cup {1}]
Part    == [n : 0..MaxSends, last : BOOLEAN]
\* ok: bytes_transfered is not 0.
Packet  == [io : {"in", "out"}, ok : BOOLEAN, data : Seq(Part)]

ChannelObject ==
  [obj        : {"none", "created", "connected", "gone", "dead"},
   pipe       : {"none", "open", "closed"},     \* pipe_, invalid unless "open"
   waiting    : BOOLEAN,                        \* waiting_connect_
   validate   : BOOLEAN,                        \* validate_client_
   secret     : BOOLEAN,                        \* client_secret_ is the server's
   inPending  : BOOLEAN,                        \* input_state_.is_pending
   outPending : BOOLEAN,                        \* output_state_.is_pending
   outq       : Seq(Message),                   \* output_queue_
   overflow   : Seq(Part),                      \* input_overflow_buf_
   init       : BOOLEAN,                        \* the initialization signal is posted
   closing    : {"no", "error", "close", "destroy"},  \* in the loop of Close, and why
   inOp       : {"none", "connect", "read"},    \* kernel: operation on input_state_
   outOp      : Seq(Part),                      \* kernel: parts still to be written
   port       : Seq(Packet)]                    \* kernel: completion packets

\* Wrong: the parts of the next message.
Parts_OfNext(m) == [k \in 1..m.size |-> [n |-> m.n + 1, last |-> k = m.size]]

Parts(m) == [k \in 1..m.size |-> [n |-> m.n, last |-> k = m.size]]
InPacket(d)   == [io |-> "in", ok |-> d # <<>>, data |-> d]
OutPacket(ok) == [io |-> "out", ok |-> ok, data |-> <<>>]

OtherGone(e) == ch[Other(e)].pipe = "closed"
Put(e, s) == ch' = [ch EXCEPT ![e] = s]

(***************************************************************************)
(* Steps of the handlers: what they make of the channel object s of end e. *)
(***************************************************************************)

\* Wrong: output_queue_ is emptied before the operations have ended.
BeginClose_DropsQueue(s, why) ==
  [s EXCEPT !.pipe = IF @ = "open" THEN "closed" ELSE @, !.closing = why, !.outq = <<>>]

\* Close, up to its loop: CancelIo and CloseHandle.
BeginClose(s, why) == [s EXCEPT !.pipe = IF @ = "open" THEN "closed" ELSE @, !.closing = why]

\* ReadFile fails at once when nothing is left to read and the other end is gone.
ReadFails(e, s) == s.pipe # "open" \/ (wire[e] = <<>> /\ OtherGone(e))

\* Wrong: a read that succeeds at once is not pending.
ReadData_NotPending(s) == [s EXCEPT !.inOp = "read"]

ReadData(s) == [s EXCEPT !.inPending = TRUE, !.inOp = "read"]

WriteFails(e, s) == s.pipe # "open" \/ ch[Other(e)].pipe # "open"

\* ProcessOutgoingMessages with no write pending; on failure the message stays queued.
ProcessOutgoing(e, s) ==
  IF s.outq = <<>> \/ WriteFails(e, s) THEN s
  ELSE [s EXCEPT !.outPending = TRUE, !.outOp = Parts(Head(s.outq))]

ConnectionFails(e, s) == s.pipe # "open" \/ OtherGone(e)

\* Wrong: is_pending is cleared only when the pipe is still valid.
ProcessConnection_CheckFirst(e, s) ==
  IF s.pipe # "open" THEN s
  ELSE IF ConnectionFails(e, s) THEN [s EXCEPT !.inPending = FALSE]
  ELSE IF ch[Other(e)].pipe = "none" THEN [s EXCEPT !.inPending = TRUE, !.inOp = "connect"]
  ELSE [s EXCEPT !.inPending = FALSE, !.waiting = FALSE]

ProcessConnection(e, s) ==
  IF ConnectionFails(e, s) THEN [s EXCEPT !.inPending = FALSE]
  ELSE IF ch[Other(e)].pipe = "none" THEN [s EXCEPT !.inPending = TRUE, !.inOp = "connect"]
  ELSE [s EXCEPT !.inPending = FALSE, !.waiting = FALSE]

\* Wrong: an error does not close the channel.
Broken_Ignored(e, s) == Put(e, s) /\ UNCHANGED wire

\* OnIOCompleted with ok = false: Close, unless the pipe is closed already.
Broken(e, s) ==
  /\ Put(e, IF s.pipe = "open" THEN BeginClose(s, "error") ELSE s)
  /\ wire' = IF s.pipe = "open" THEN [wire EXCEPT ![e] = <<>>] ELSE wire

ProcessIncoming(e, s) ==
  IF ReadFails(e, s) THEN Broken(e, s) ELSE Put(e, ReadData(s)) /\ UNCHANGED wire

\* OnIOCompleted while waiting_connect_: whatever was queued is sent first.
Connected(e, s) ==
  LET c == ProcessConnection(e, s)
      q == IF c.outPending THEN c ELSE ProcessOutgoing(e, c)
  IN IF ConnectionFails(e, s) THEN Put(e, c) /\ UNCHANGED wire
     ELSE IF c.inPending THEN Put(e, q) /\ UNCHANGED wire
     ELSE ProcessIncoming(e, q)

\* Where messages end in the bytes at hand.
Ends(buf) == {k \in DOMAIN buf : buf[k].last}

\* The messages that are complete, by number and in their order.
Arrived(buf) ==
  [j \in 1..Cardinality(Ends(buf)) |->
     buf[CHOOSE k \in Ends(buf) : Cardinality({i \in Ends(buf) : i <= k}) = j].n]

\* The beginning of the message after them.
Rest(buf) == SubSeq(buf, Max(Ends(buf) \cup {0}) + 1, Len(buf))

\* DispatchInputData, then the next read.
DispatchInput(e, s, data) ==
  LET buf  == s.overflow \o data
      done == Arrived(buf)
  IN IF s.overflow # <<>> /\ Len(buf) > MaxMessage
     THEN Broken(e, [s EXCEPT !.overflow = <<>>]) /\ UNCHANGED got
     ELSE IF s.validate /\ done # <<>> /\ ~(Head(done) = Hello /\ ch[Other(e)].secret)
     THEN Broken(e, s) /\ UNCHANGED got
     ELSE /\ got' = [got EXCEPT ![e] = @ \o done]
          /\ ProcessIncoming(e, [s EXCEPT !.overflow = Rest(buf),
                                          !.validate = @ /\ done = <<>>])

\* OnIOCompleted for input_state_.
OnInput(e, s, data) ==
  IF s.waiting THEN Connected(e, s) /\ UNCHANGED got
  ELSE IF ~s.inPending THEN ProcessIncoming(e, s) /\ UNCHANGED got
  ELSE LET r == [s EXCEPT !.inPending = FALSE] IN
       IF data = <<>> THEN Broken(e, r) /\ UNCHANGED got
       ELSE IF r.pipe # "open" THEN ProcessIncoming(e, r) /\ UNCHANGED got
       ELSE DispatchInput(e, r, data)

(***************************************************************************)
(* The IO thread.                                                          *)
(***************************************************************************)
Running(e, objs) == ch[e].obj \in objs /\ ch[e].closing = "no"

\* The constructor: CreatePipe, and the hello that Connect will send.
Create(e, secret) ==
  /\ ch[e].obj = "none" /\ (e = "client" => ch["server"].obj # "none")
  /\ LET opens == e = "server" \/ ch["server"].pipe = "open" IN
       Put(e, [ch[e] EXCEPT !.obj = "created",
                            !.pipe = IF opens THEN "open" ELSE @,
                            !.waiting = e = "server",
                            !.validate = e = "server" /\ Validate, !.secret = secret,
                            !.outq = IF opens THEN <<[n |-> Hello, size |-> 1]>> ELSE @])
  /\ UNCHANGED <<wire, sent, got, told>>

Connect(e) ==
  /\ Running(e, {"created"})
  /\ LET s == [ch[e] EXCEPT !.obj = "connected"]
         c == IF s.waiting THEN ProcessConnection(e, s) ELSE s
         i == [c EXCEPT !.init = ~c.inPending]
     IN Put(e, IF s.pipe # "open" THEN s
               ELSE IF i.waiting THEN i ELSE ProcessOutgoing(e, i))
  /\ UNCHANGED <<wire, sent, got, told>>

\* Send returns false when ProcessOutgoingMessages fails; nobody else hears of it.
Send(e, size) ==
  /\ Running(e, {"connected"}) /\ sent[e] < MaxSends /\ sent[e] + sent[Other(e)] < MaxTotal
  /\ sent' = [sent EXCEPT ![e] = @ + 1]
  /\ LET s == [ch[e] EXCEPT !.outq = Append(@, [n |-> sent[e] + 1, size |-> size])] IN
       Put(e, IF s.waiting \/ s.outPending THEN s ELSE ProcessOutgoing(e, s))
  /\ UNCHANGED <<wire, got, told>>

\* The posted OnIOCompleted; its weak pointer is gone when the channel is.
InitSignal(e) ==
  /\ Running(e, {"connected"}) /\ ch[e].init
  /\ OnInput(e, [ch[e] EXCEPT !.init = FALSE], <<>>)
  /\ UNCHANGED <<sent, told>>

NextPacket(e, io) == ch[e].port # <<>> /\ Head(ch[e].port).io = io

\* A packet handled by the message loop, or by the loop of Close.
InputCompleted(e) ==
  /\ NextPacket(e, "in")
  /\ OnInput(e, [ch[e] EXCEPT !.port = Tail(@)], Head(ch[e].port).data)
  /\ UNCHANGED <<sent, told>>

\* Wrong: the message that was sent is not popped.
OutputCompleted_Keeps(e) ==
  /\ NextPacket(e, "out")
  /\ LET s == [ch[e] EXCEPT !.port = Tail(@), !.outPending = FALSE] IN
       IF ~Head(ch[e].port).ok \/ WriteFails(e, s) THEN Broken(e, s)
       ELSE Put(e, ProcessOutgoing(e, s)) /\ UNCHANGED wire
  /\ UNCHANGED <<sent, got, told>>

OutputCompleted(e) ==
  /\ NextPacket(e, "out")
  /\ LET s == [ch[e] EXCEPT !.port = Tail(@), !.outPending = FALSE]
         t == [s EXCEPT !.outq = Tail(@)]
     IN IF ~Head(ch[e].port).ok THEN Broken(e, s)
        ELSE IF t.outq # <<>> /\ WriteFails(e, t) THEN Broken(e, t)
        ELSE Put(e, ProcessOutgoing(e, t)) /\ UNCHANGED wire
  /\ UNCHANGED <<sent, got, told>>

\* Close is called by the owner, or by the destructor.
Close(e, why) ==
  /\ Running(e, {"created", "connected"}) /\ e \in MayClose
  /\ why = "destroy" \/ ch[e].pipe = "open"
  /\ Put(e, BeginClose(ch[e], why))
  /\ wire' = [wire EXCEPT ![e] = <<>>]
  /\ UNCHANGED <<sent, got, told>>

\* Wrong: Close waits for the read only.
CloseDone_NoWait(e) ==
  /\ ch[e].closing # "no" /\ ~ch[e].inPending
  /\ Put(e, [ch[e] EXCEPT !.outq = <<>>, !.closing = "no",
                          !.obj = IF ch[e].closing = "destroy" THEN "gone" ELSE @])
  /\ told' = [told EXCEPT ![e] = IF ch[e].closing = "error" THEN @ + 1 ELSE @]
  /\ UNCHANGED <<wire, sent, got>>

\* The loop of Close ends; after an error the listener is told.
CloseDone(e) ==
  /\ ch[e].closing # "no" /\ ~ch[e].inPending /\ ~ch[e].outPending
  /\ Put(e, [ch[e] EXCEPT !.outq = <<>>, !.closing = "no",
                          !.obj = IF ch[e].closing = "destroy" THEN "gone" ELSE @])
  /\ told' = [told EXCEPT ![e] = IF ch[e].closing = "error" THEN @ + 1 ELSE @]
  /\ UNCHANGED <<wire, sent, got>>

(***************************************************************************)
(* The kernel, and the death of a process.                                 *)
(***************************************************************************)
Complete(e, s, pkt) == Put(e, [s EXCEPT !.port = Append(@, pkt)])

ClientArrives ==
  /\ ch["server"].inOp = "connect" /\ ch["server"].pipe = "open"
  /\ ch["client"].pipe # "none"
  /\ Complete("server", [ch["server"] EXCEPT !.inOp = "none"], InPacket(<<>>))
  /\ UNCHANGED <<wire, sent, got, told>>

ReadCompletes(e) ==
  /\ ch[e].inOp = "read" /\ ch[e].pipe = "open" /\ wire[e] # <<>>
  /\ LET k == IF Len(wire[e]) < ReadBuf THEN Len(wire[e]) ELSE ReadBuf IN
       /\ Complete(e, [ch[e] EXCEPT !.inOp = "none"], InPacket(SubSeq(wire[e], 1, k)))
       /\ wire' = [wire EXCEPT ![e] = SubSeq(@, k + 1, Len(@))]
  /\ UNCHANGED <<sent, got, told>>

\* Canceled by Close, or the other end is gone.
InputFails(e) ==
  /\ ch[e].inOp # "none"
  /\ \/ ch[e].pipe # "open"
     \/ ch[e].inOp = "read" /\ wire[e] = <<>> /\ OtherGone(e)
  /\ Complete(e, [ch[e] EXCEPT !.inOp = "none"], InPacket(<<>>))
  /\ UNCHANGED <<wire, sent, got, told>>

WritesPart(e) ==
  /\ ch[e].outOp # <<>> /\ ch[e].pipe = "open" /\ ch[Other(e)].pipe = "open"
  /\ Len(wire[Other(e)]) < Quota
  /\ wire' = [wire EXCEPT ![Other(e)] = Append(@, Head(ch[e].outOp))]
  /\ LET s == [ch[e] EXCEPT !.outOp = Tail(@)] IN
       IF s.outOp = <<>> THEN Complete(e, s, OutPacket(TRUE)) ELSE Put(e, s)
  /\ UNCHANGED <<sent, got, told>>

WriteBreaks(e) ==
  /\ ch[e].outOp # <<>>
  /\ ch[e].pipe # "open" \/ ch[Other(e)].pipe # "open"
  /\ Complete(e, [ch[e] EXCEPT !.outOp = <<>>], OutPacket(FALSE))
  /\ UNCHANGED <<wire, sent, got, told>>

NoChannel ==
  [obj |-> "none", pipe |-> "none", waiting |-> FALSE, validate |-> FALSE, secret |-> FALSE,
   inPending |-> FALSE, outPending |-> FALSE, outq |-> <<>>, overflow |-> <<>>,
   init |-> FALSE, closing |-> "no", inOp |-> "none", outOp |-> <<>>, port |-> <<>>]

Die(e) ==
  /\ ch[e].obj \notin {"none", "dead"} /\ e \in MayDie
  /\ Put(e, [NoChannel EXCEPT !.obj = "dead", !.secret = ch[e].secret,
                              !.pipe = IF ch[e].pipe = "none" THEN @ ELSE "closed"])
  /\ wire' = [wire EXCEPT ![e] = <<>>]
  /\ UNCHANGED <<sent, got, told>>

(***************************************************************************)
(* Specification.                                                          *)
(***************************************************************************)
Init ==
  /\ ch = [e \in End |-> NoChannel]
  /\ wire = [e \in End |-> <<>>]
  /\ sent = [e \in End |-> 0]
  /\ got = [e \in End |-> <<>>]
  /\ told = [e \in End |-> 0]

IoThread(e) ==
  InitSignal(e) \/ InputCompleted(e) \/ OutputCompleted(e) \/ CloseDone(e)

Kernel(e) == ReadCompletes(e) \/ InputFails(e) \/ WritesPart(e) \/ WriteBreaks(e)

Constructs(e) == \E secret \in IF e = "server" THEN {TRUE} ELSE SecretOK : Create(e, secret)

Owner(e) ==
  \/ Constructs(e) \/ Connect(e) \/ Die(e)
  \/ \E size \in Sizes : Send(e, size)
  \/ \E why \in {"close", "destroy"} : Close(e, why)

Next == ClientArrives \/ \E e \in End : IoThread(e) \/ Kernel(e) \/ Owner(e)

Spec == Init /\ [][Next]_vars

\* Both ends are created and connected, their threads run and the kernel
\* completes what it can; nobody has to send, close or die.
Fairness ==
  /\ WF_vars(ClientArrives)
  /\ \A e \in End :
       /\ WF_vars(Constructs(e)) /\ WF_vars(Connect(e)) /\ WF_vars(IoThread(e))
       /\ WF_vars(ReadCompletes(e) \/ InputFails(e))
       /\ WF_vars(WritesPart(e) \/ WriteBreaks(e))

FairSpec == Spec /\ Fairness

(***************************************************************************)
(* Properties.                                                             *)
(***************************************************************************)

\* Every field has the shape the code's data structure gives it.
TypeOK ==
  /\ ch \in [End -> ChannelObject]
  /\ wire \in [End -> Seq(Part)]
  /\ sent \in [End -> 0..MaxSends]
  /\ got \in [End -> Seq(0..MaxSends)]
  /\ told \in [End -> Nat]

Packets(s, io) == {k \in DOMAIN s.port : s.port[k].io = io}

\* An operation is outstanding, as an operation or as a packet, never as both or twice.
Outstanding(s, io, busy, pending) ==
  /\ pending <=> (busy \/ Packets(s, io) # {})
  /\ busy => Packets(s, io) = {}
  /\ \A j, k \in Packets(s, io) : j = k

\* is_pending says exactly whether the kernel still owes a packet: the loop of Close
\* neither waits for one that never comes nor leaves one behind, and no operation is
\* started on an OVERLAPPED that is in use.
PendingMatchesKernel ==
  \A e \in End : /\ Outstanding(ch[e], "in", ch[e].inOp # "none", ch[e].inPending)
                 /\ Outstanding(ch[e], "out", ch[e].outOp # <<>>, ch[e].outPending)

\* The kernel and the port hold no pointer to a deleted channel.
GoneMeansQuiet ==
  \A e \in End : ch[e].obj = "gone" =>
    ch[e].port = <<>> /\ ch[e].inOp = "none" /\ ch[e].outOp = <<>>

\* The data being written belongs to the head of output_queue_, which is therefore not
\* deleted before the write has ended, and nothing is written before the connection
\* (the DCHECKs of ProcessOutgoingMessages).
WritesTheHead ==
  \A e \in End : ch[e].outPending =>
    /\ ch[e].outq # <<>> /\ ~ch[e].waiting
    /\ IsSuffix(ch[e].outOp, Parts(Head(ch[e].outq)))

\* A connected channel never stops listening: a read, or the signal that starts the
\* first one, is always on its way.
AlwaysReading ==
  \A e \in End :
    Running(e, {"connected"}) /\ ch[e].pipe = "open" /\ ~ch[e].waiting =>
      ch[e].inPending \/ ch[e].init

\* An operation that is on its way stays what it was: the write owns the head of the
\* queue, the read is never given up.
OperationsKept == WritesTheHead /\ AlwaysReading

\* What the listener sees is a MessagePipe: messages in order, once, and none after an
\* error or a close; one error at most, and for a reason.
EndState(e) ==
  IF ch[e].pipe # "closed" THEN "open"
  ELSE IF told[e] > 0 \/ ch[e].closing = "error" THEN "lost" ELSE "closed"

Pipe == INSTANCE MessagePipe WITH
          end <- [e \in End |-> EndState(e)],
          MayRefuse <- IF Validate /\ FALSE \in SecretOK THEN {"server"} ELSE {}
ImplementsMessagePipe == Pipe!PipeSpec

\* While both ends stay open every message sent is received, whichever end starts
\* first and however the parts of messages meet the buffers.
AllDelivered ==
  \A e \in End :
    []<>((\E x \in End : ch[x].pipe = "closed") \/ Len(got[e]) = sent[Other(e)] + 1)

\* An end that was connected learns that the other end is gone.
LossNoticed ==
  \A e \in End :
    (ch[e].obj = "connected" /\ ch[e].pipe = "open" /\ ~ch[e].waiting /\ OtherGone(e))
      ~> ch[e].pipe # "open"

\* The pipe is never silent for ever: data arrives, or the loss of the peer does.
PeerIsHeard == AllDelivered /\ LossNoticed

\* Close returns: its loop gets the packets it waits for.
CloseReturns == \A e \in End : (ch[e].closing # "no") ~> (ch[e].closing = "no")

\* ipc_listener.h:27: OnChannelError is called when an error is detected that causes
\* the channel to close.  So an end that waits for messages, connected or still waiting
\* for the connection, learns that its peer has come and gone.
PeerLossReported ==
  \A e \in End :
    (ch[e].obj = "connected" /\ ch[e].pipe = "open" /\ OtherGone(e)) ~> ch[e].pipe # "open"
=============================================================================
