CONSTANTS
    None = None
    Stored <- OneFile
    Typed = {}
    PropsOf <- NoProps
    Sheets <- MarkedSheet
    Formulas = {}
    Wanted = {}
    Elsewhere = {}
    MaxControls = 1
    MaxSelected = 1
    MaxEdits = 2
    MaxCopies = 0
SPECIFICATION Spec
INVARIANT StylesAreCarried
CHECK_DEADLOCK FALSE
