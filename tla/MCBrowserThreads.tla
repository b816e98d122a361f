-------------------------- MODULE MCBrowserThreads --------------------------
(***************************************************************************)
(* BrowserThreads with the two threads of CServerPortDlg: members are      *)
(* destroyed in the reverse order of their declaration, the launcher's     *)
(* thread before the IO thread.                                            *)
(***************************************************************************)
EXTENDS BrowserThreads

CONSTANT W

AsTheDialog == {<<5, 7>>}
OwnerTwice == [a \in Actor |-> IF a = Owner THEN 2 ELSE 1]
=============================================================================
