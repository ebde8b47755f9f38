SPECIFICATION Spec
CONSTANTS
  Machines <- BothMachines
INVARIANTS SetsSound
PROPERTIES ReplacementWaits FilledFromLevel2 NoWriteLost RecencySpec
