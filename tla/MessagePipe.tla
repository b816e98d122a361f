---------------------------- MODULE MessagePipe ----------------------------
(***************************************************************************)
(* What IPC::Channel promises the listeners at its two ends: the hello and *)
(* then the messages of the other end arrive once each and in the order of *)
(* the Send calls; the listener is told at most once that the channel is   *)
(* lost, only when there is a reason, and nothing arrives after that or    *)
(* after the end was closed.  Pipes, buffers and overlapped operations are *)
(* absent here; module ChannelWin implements this one.                     *)
(***************************************************************************)
EXTENDS Naturals, Sequences

CONSTANTS End, Other(_), MaxSends, MayRefuse

VARIABLES
  sent,    \* how many messages were handed to Send
  got,     \* what the listener received; 0 is the hello
  end,     \* "open", "lost" (an error was detected) or "closed"
  told     \* calls of OnChannelError

pipeVars == <<sent, got, end, told>>

PipeInit ==
  /\ sent = [e \in End |-> 0]
  /\ got = [e \in End |-> <<>>]
  /\ end = [e \in End |-> "open"]
  /\ told = [e \in End |-> 0]

SendMessage(e) ==
  /\ sent[e] < MaxSends
  /\ sent' = [sent EXCEPT ![e] = @ + 1]
  /\ UNCHANGED <<got, end, told>>

\* The next k messages of the other end arrive in one go.
Deliver(e, k) ==
  /\ end[e] = "open"
  /\ Len(got[e]) + k <= sent[Other(e)] + 1
  /\ got' = [got EXCEPT ![e] = @ \o [j \in 1..k |-> Len(@) + j - 1]]
  /\ UNCHANGED <<sent, end, told>>

\* The same, and then the other end turns out to be gone.
DeliverAndLose(e, k) ==
  /\ end[e] = "open" /\ end[Other(e)] # "open"
  /\ Len(got[e]) + k <= sent[Other(e)] + 1
  /\ got' = [got EXCEPT ![e] = @ \o [j \in 1..k |-> Len(@) + j - 1]]
  /\ end' = [end EXCEPT ![e] = "lost"]
  /\ UNCHANGED <<sent, told>>

Lose(e) ==
  /\ end[e] = "open"
  /\ end[Other(e)] # "open" \/ e \in MayRefuse
  /\ end' = [end EXCEPT ![e] = "lost"]
  /\ UNCHANGED <<sent, got, told>>

Tell(e) ==
  /\ end[e] = "lost" /\ told[e] = 0
  /\ told' = [told EXCEPT ![e] = 1]
  /\ UNCHANGED <<sent, got, end>>

\* The owner closes the end, or its process dies.
CloseEnd(e) ==
  /\ end[e] # "closed" /\ told[e] = 0
  /\ end' = [end EXCEPT ![e] = "closed"]
  /\ UNCHANGED <<sent, got, told>>

PipeNext ==
  \E e \in End :
    \/ SendMessage(e) \/ Lose(e) \/ Tell(e) \/ CloseEnd(e)
    \/ \E k \in 1..(MaxSends + 1) : Deliver(e, k) \/ DeliverAndLose(e, k)

PipeSpec == PipeInit /\ [][PipeNext]_pipeVars
=============================================================================
