SPECIFICATION Spec
CONSTANTS
    None = None
    Failed = Failed
    Rows = {1, 2}
    Vacancies = {1, 2, 3}
    MaxCalls = 2
    MaxClicks = 7
    Views <- Pages
    Fewer <- FewerSteps
INVARIANTS
    FlagsComeDown
    OnePressOneChange
    SettledIsCurrent
    
    SubmittedIsComplete
    ReadIsRead
    NoEmptyPage
CHECK_DEADLOCK FALSE
