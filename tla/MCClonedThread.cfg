CONSTANTS
  Task <- MCTask
  Boot <- MCBoot
  MaxTime = 2
  MaxCtx = 2
  U32Size = 4
  NoCtx = NoCtx
SPECIFICATION CausalSpec
INVARIANT ThreadsInherit
CHECK_DEADLOCK FALSE
