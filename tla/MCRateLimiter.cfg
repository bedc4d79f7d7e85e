SPECIFICATION Spec
CONSTANTS
    Interval = 3
    Late = 1
    MaxJobs = 5
    MaxTime = 22
INVARIANTS
    IInv
    Rate
    FirstComeFirstServed
    BoundedWait
PROPERTY ImplementsGate
CHECK_DEADLOCK FALSE
