--------------------------- MODULE MCSyncChannel ---------------------------
(***************************************************************************)
(* Instances of SyncChannel for TLC: two processes joined by one channel,  *)
(* and a process with two channels to two others.                          *)
(***************************************************************************)
EXTENDS SyncChannel

CONSTANTS P, Q, R, a1, b1, a2, b2, None, G1, G2

\* One channel: P's context a1 and Q's context b1.
PairOwner == a1 :> P @@ b1 :> Q
PairPeer  == a1 :> b1 @@ b1 :> a1
PairGroup == a1 :> None @@ b1 :> None
Budget21  == P :> 2 @@ Q :> 1

\* The first message of P has a timeout: the outer Send, or the one before the next.
OneOfP    == {<<P, 1>>}

\* Two channels of P's thread: a1 to Q's b1 and a2 to R's b2, in groups of their own.
ForkOwner == a1 :> P @@ b1 :> Q @@ a2 :> P @@ b2 :> R
ForkPeer  == a1 :> b1 @@ b1 :> a1 @@ a2 :> b2 @@ b2 :> a2
TwoGroups == a1 :> G1 @@ b1 :> None @@ a2 :> G2 @@ b2 :> None
Budget111 == P :> 1 @@ Q :> 1 @@ R :> 1

\* All messages unblock, or some of Q's do not.
Unblocking  == [p \in Proc |-> {TRUE}]
PlainFromQ  == P :> {TRUE} @@ Q :> {TRUE, FALSE}

\* In the fork Q's side is as good as R's: exchanging them maps behaviours to behaviours.
Sides  == {Q, R, b1, b2, a1, a2, G1, G2}
Swap   == Q :> R @@ R :> Q @@ b1 :> b2 @@ b2 :> b1 @@ a1 :> a2 @@ a2 :> a1
            @@ G1 :> G2 @@ G2 :> G1
Mirror == {f \in Permutations(Sides) : f = Swap \/ f = [s \in Sides |-> s]}
=============================================================================
