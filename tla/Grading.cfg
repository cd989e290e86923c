SPECIFICATION Spec
CONSTANTS
    MaxBatches = 2
    Work = {a, b}
    MaxTries = 2
    Patient = TRUE
    NoWork = NoWork
SYMMETRY Symmetry
INVARIANTS
    OwnResults
    StatsTrue
    QueuedAreGraded
PROPERTIES
    DeletionFinal
    LeavingCancels
