SPECIFICATION FairSpec
CONSTANTS
  NUM_LOAD_RS = 1
  NUM_STORE_RS = 1
  NUM_ADD_SUB_RS = 2
  NUM_MUL_DIV_RS = 1
  LW_CYCLE = 2
  SW_CYCLE = 2
  ADD_SUB_CYCLE = 2
  MUL_CYCLE = 4
  DIV_CYCLE = 6
  MAX_INST_NUM = 4
  MaxCycle = 40
  Lines <- HazardLines
INVARIANTS
  TypeOK StationOwnership NoLostWakeup Timestamps
  CommitIndexInTable RightWhenRenamed WedgedOnlyByStore
PROPERTIES CoreSpec FinishesOrWedges
CHECK_DEADLOCK FALSE
