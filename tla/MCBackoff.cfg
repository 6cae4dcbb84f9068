SPECIFICATION Spec
CONSTANTS
    MaxDuration = 31
    AttemptCap = 8
    AgeCap = 0
INVARIANT DelayIsDocumentedDelay
