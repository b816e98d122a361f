\* The process launcher's thread (5) and the IO thread (7), destroyed in the
\* order of the dialog: the launcher's thread first.
SPECIFICATION Spec
CONSTANTS
  Id = {5, 7}
  Owner = Owner
  Worker = {}
  Nobody = Nobody
  Quit = Quit
  DiesFirst <- AsTheDialog
  MaxPosts <- OwnerTwice
  W = W
  MayFail = {5}
INVARIANT NoRaceConditions
CHECK_DEADLOCK FALSE
