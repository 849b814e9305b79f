SPECIFICATION Spec
CONSTANT MaxSource = 1
INVARIANT FailedChecksNotified
