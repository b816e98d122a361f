\* Two run loops on top of each other, and tasks to defer or delay from two threads.
SPECIFICATION FairSpec
CONSTANTS
  Pumps = {"default", "io"}
  Poster = {p}
  Loop = Loop
  Kinds <- DeferredAndDelayed
  MaxTasks = 3
  MaxRuns = 2
  MaxClock = 2
INVARIANTS
  TypeOK
  OnlyIdleSleeps
  TasksStartRightly
PROPERTIES
  LoopsEndRightly
  EveryTaskRuns
CHECK_DEADLOCK FALSE
