SPECIFICATION BudgetSpec
CONSTANTS
    Documents <- MCDocuments
    FirstDocuments <- MCFirstDocuments
    CONTINUATION_LINES = 3
    BudgetSteps = 3
PROPERTY NewSilencingIsDeliberate
CHECK_DEADLOCK FALSE
