SPECIFICATION FairSpec
CONSTANTS
    MaxSends = 5
    MaxBurst = 3
INVARIANTS
    TypeOK
    LinesMeetTheirStage
    ReadyInTurn
PROPERTIES
    ImplementsFifo
    LinkComesUp
    CommandsArrive
CHECK_DEADLOCK FALSE
