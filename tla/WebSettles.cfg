SPECIFICATION Spec
CONSTANTS
    None = None
    Failed = Failed
    Rows = {1, 2}
    Vacancies = {1, 2}
    MaxCalls = 2
    MaxClicks = 5
    Views <- Pages
    Fewer <- FewerSteps
PROPERTIES
    ComesToRest
CHECK_DEADLOCK FALSE
