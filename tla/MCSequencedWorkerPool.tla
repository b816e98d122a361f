----------------------- MODULE MCSequencedWorkerPool -----------------------
(***************************************************************************)
(* Kinds of tasks for instances of SequencedWorkerPool.                    *)
(***************************************************************************)
EXTENDS SequencedWorkerPool

Kind(tok, beh, d) == [token |-> tok, shutdown |-> beh, delay |-> d]

\* A sequence of tasks that block shutdown or are skipped, and free and delayed ones.
Mixed == <<{Kind(1, "block", 0)},
           {Kind(1, "block", 0), Kind(1, "skip", 0), Kind(0, "skip", 1)},
           {Kind(1, "block", 0), Kind(0, "continue", 0)}>>
=============================================================================
