----------------------------- MODULE SyncCall -----------------------------
(***************************************************************************)
(* What SyncChannel::Send promises its caller (ipc_sync_channel.h): a Send *)
(* returns like a function call, the innermost call of a process first,    *)
(* and it returns true only if the peer's handler answered that very call. *)
(* It may return false at any time: an error reply, a timeout, a dead or   *)
(* closed channel, or a shutdown.  Threads, queues and channels are absent *)
(* here; module SyncChannel implements this one.                           *)
(***************************************************************************)
EXTENDS Naturals

CONSTANTS Proc, MaxSends

VARIABLES outcome, answered

callVars == <<outcome, answered>>

CallIds == 1..MaxSends

CallInit ==
  /\ outcome = [p \in Proc |-> [i \in CallIds |-> "none"]]
  /\ answered = {}

\* The caller's numbers are handed out in order (g_next_id).
Fresh(p, i) == /\ outcome[p][i] = "none"
               /\ \A j \in CallIds : outcome[p][j] = "none" => i <= j

Innermost(p, i) == /\ outcome[p][i] = "pending"
                   /\ \A j \in CallIds : outcome[p][j] = "pending" => j <= i

Begin(p, i) ==
  /\ Fresh(p, i)
  /\ outcome' = [outcome EXCEPT ![p][i] = "pending"]
  /\ UNCHANGED answered

\* After the shutdown a call is refused without being sent.
Refuse(p, i) ==
  /\ Fresh(p, i)
  /\ outcome' = [outcome EXCEPT ![p][i] = "false"]
  /\ UNCHANGED answered

\* The caller may have given up already; a call that was never sent has no answer.
Answer(p, i) ==
  /\ outcome[p][i] # "none"
  /\ <<p, i>> \notin answered
  /\ answered' = answered \cup {<<p, i>>}
  /\ UNCHANGED outcome

ReturnTrue(p, i) ==
  /\ Innermost(p, i) /\ <<p, i>> \in answered
  /\ outcome' = [outcome EXCEPT ![p][i] = "true"]
  /\ UNCHANGED answered

ReturnFalse(p, i) ==
  /\ Innermost(p, i)
  /\ outcome' = [outcome EXCEPT ![p][i] = "false"]
  /\ UNCHANGED answered

CallNext ==
  \E p \in Proc, i \in CallIds :
    \/ Begin(p, i) \/ Refuse(p, i) \/ Answer(p, i)
    \/ ReturnTrue(p, i) \/ ReturnFalse(p, i)

CallSpec == CallInit /\ [][CallNext]_callVars
=============================================================================
