SPECIFICATION Spec
CONSTANTS
    Processors = 1
    Number <- MCNumber
INVARIANT
    HelpPrintsHelp
CHECK_DEADLOCK FALSE
