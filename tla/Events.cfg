SPECIFICATION Spec
CONSTANTS
  FrameTime = 3
  Slack = 2
  Delays = {1, 2}
  MaxStep = 2
INVARIANTS NothingOverdue PromptExit SwitchStops RebaseHolds DmaWithSlave
PROPERTIES InTemporalOrder
