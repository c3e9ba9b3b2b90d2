\* Three jobs of a user and of anonymous callers compete for two slots, the
\* user having a share of one.  A manager that has shut down may stop.
CONSTANTS
    Job = {j1, j2, j3}
    Owner = {ada}
    Anonymous = Anonymous
    MaxJobs = 2
    MaxPerOwner = 1
    MaxEvents = 1
    PageSize = 1
    Emits = {}
    Fits = {TRUE}
    Poller = {}
    Nothing = Nothing

SPECIFICATION Spec
SYMMETRY MCSymmetry

INVARIANTS
    CapacityBound
    NoSourceReleasedInUse
    ShutdownReachesEveryJob

PROPERTIES
    OnlyOwnResultsEvicted

CHECK_DEADLOCK FALSE
