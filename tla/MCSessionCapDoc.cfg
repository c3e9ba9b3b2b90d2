\* Up to three sessions opened, closed and swept by two requests at once while
\* the options allow one: the limit is overrun.
CONSTANTS
    r1 = r1
    r2 = r2
    r3 = r3
    ada = ada
    bob = bob
    Session = {s1, s2, s3}
    Request = {r1, r2}
    Sweeper = Sweeper
    Disposer = Disposer
    None = None
    OwnerOf <- MCOwnerOf
    Uses = {}
    Limit = 1

SPECIFICATION Spec
SYMMETRY MCSymmetry

INVARIANTS
    SessionCap
