---------------------------- MODULE MCMessageLoop ----------------------------
(***************************************************************************)
(* Kinds of tasks for instances of MessageLoop.                            *)
(***************************************************************************)
EXTENDS MessageLoop

Kind(n, d) == [nestable |-> n, delay |-> d]

\* A task that a nested loop has to defer, and one that has to wait for its time.
DeferredAndDelayed == {Kind(FALSE, 0), Kind(TRUE, 1)}
=============================================================================
