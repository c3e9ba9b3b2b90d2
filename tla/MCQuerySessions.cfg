\* One session used, closed, swept and shut down by two requests of its owner
\* and one of another user.
CONSTANTS
    r1 = r1
    r2 = r2
    r3 = r3
    ada = ada
    bob = bob
    Session = {s1}
    Request = {r1, r2, r3}
    Sweeper = Sweeper
    Disposer = Disposer
    None = None
    OwnerOf <- MCOwnerOf
    Uses = {"get", "stream", "command"}
    Limit = 1

SPECIFICATION Spec
SYMMETRY MCSymmetry

INVARIANTS
    TypeOK
    GateDiscipline
    NoOrphanConnection
    NoResurrection
    RecordedIsReal

PROPERTIES
    StatementSurvivesExpiry
