\* One session and two requests of a user who may come back to it or not.
CONSTANTS
    r1 = r1
    r2 = r2
    r3 = r3
    ada = ada
    bob = bob
    Session = {s1}
    Request = {r1, r2}
    Sweeper = Sweeper
    Disposer = Disposer
    None = None
    OwnerOf <- MCOwnerOf
    Uses = {"get", "stream"}
    Limit = 1

SPECIFICATION FairSpec

PROPERTIES
    AbandonedIsClosed
