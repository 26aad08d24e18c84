SPECIFICATION Spec
CONSTANT Configs <- ConfigsMC
INVARIANTS
    TypeOK
    RetriesJustified
CHECK_DEADLOCK FALSE
