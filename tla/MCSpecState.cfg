SPECIFICATION Spec
CONSTANTS
    MD_PAGE_SIZE = 2
    MEM_PTAB_SIZE = 1
    Bytes = {0, 1}
    STORE_HASH_SIZE = 2
    Addrs <- MCAddrs
    Valid <- MCValid
    Accesses <- MCAccesses
    Blocks <- MCBlocks
    MaxEntries = 2
INVARIANTS TablesSound
PROPERTIES WrongPathLeavesMemory IsCheckpointed
