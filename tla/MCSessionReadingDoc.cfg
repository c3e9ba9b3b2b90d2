CONSTANTS
    Tab = {t1, t2, t3}
    None = None
    Ephemeral = {t1}
    MaxAnswers = 0
    MaxReloads = 1

SPECIFICATION Spec

INVARIANTS
    SessionSurvivesItsReading

CHECK_DEADLOCK FALSE
