CONSTANT None = None
SPECIFICATION Spec
INVARIANTS
    TypesOK
    FormulasMeanOneThing
    ShowsWhatItHolds
    ScriptRuns
PROPERTIES
    ValuesFollow
    RunSettles
    FiltersAreWhatIsTicked
CHECK_DEADLOCK FALSE
