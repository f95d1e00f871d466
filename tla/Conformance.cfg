SPECIFICATION Spec
CONSTANT None = None
INVARIANT
    SuiteDiscriminates
CHECK_DEADLOCK FALSE
