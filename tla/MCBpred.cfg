SPECIFICATION Spec
CONSTANT Configs <- MCConfigs
INVARIANTS TablesSound TOSRecovered ReturnsToCaller
PROPERTIES TakenLast RightPathTrains
