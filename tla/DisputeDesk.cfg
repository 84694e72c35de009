SPECIFICATION Spec
CONSTANTS
    Case = {"CBD-5102", "CBD-5105", "CBD-4835"}
    File = {"consumer_statement.tiff", "non_ownership_affidavit.tiff"}
    Book <- MCBook
    Today = {12, 17, 20}
    MaxEdits = 1
CONSTRAINT EditBound
INVARIANTS ResolvedAtTheEnd BlockedIsExplained StripCountsRows DecisionOnOneScreen
PROPERTY ImplementsWorkflow
CHECK_DEADLOCK FALSE
