SPECIFICATION Spec
CONSTANT Configs <- MCConfigs
INVARIANTS TwoBitCounters
