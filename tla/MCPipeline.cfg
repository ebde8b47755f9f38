SPECIFICATION FairSpec
CONSTANTS
    RUU_size = 4
    LSQ_size = 3
    NA = NA
    DTMP = DTMP
    MD_NOP_INST <- ZeroAdd
    Regs <- MCRegs
    Setups <- SetupSet
    ruu_decode_width = 2
    ruu_issue_width = 2
    ruu_commit_width = 2
    fetch_speed = 1
    ruu_ifq_size = 2
    ruu_branch_penalty = 1
    fu_pool <- FUs
    MAX_RS_LINKS = 20
    MissLatencies = {2}
    DataLatencies = {1, 5}
    TLBLatencies = {1}
INVARIANTS TypeOK RingsInStep OperandsAwaited CreatorsAreLatest ScheduledOnce LinksConserved LoadsAfterStores SpeculationContained
PROPERTIES InProgramOrder Exits
