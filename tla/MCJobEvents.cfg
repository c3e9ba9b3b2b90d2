\* The event stream of one job, cancelled, truncated, swept and shut down while
\* a reader polls it.  Once the only job is gone nothing need happen any more.
CONSTANTS
    Job = {j1}
    Owner = {}
    Anonymous = Anonymous
    MaxJobs = 1
    MaxPerOwner = 1
    MaxEvents = 2
    PageSize = 2
    Emits = {"rows", "completed", "error"}
    Fits = {TRUE, FALSE}
    Poller = {p1}
    Nothing = Nothing

SPECIFICATION FairSpec

INVARIANTS
    TypeOK
    OutcomeRetained
    AuditPrecedesOutcome
    EventBound
    NoLostWakeup

PROPERTIES
    OutcomeIsFinal
    SourcesReclaimed
    ReaderSeesOutcome
    ImplementsJobService

CHECK_DEADLOCK FALSE
