SPECIFICATION Spec
CONSTANTS
    Project = {p}
    Request = {r1, r2, r3}
    NoProject = NoProject
SYMMETRY Symmetry
INVARIANTS
    RowsTrue
    NoOrphans
    ListTrue
PROPERTIES
    StatusForward
