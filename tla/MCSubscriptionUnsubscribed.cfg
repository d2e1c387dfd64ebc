SPECIFICATION Spec
CONSTANTS
    Clients = {c1}
    RetryMax = 1
    MaxCopies = 1
INVARIANT UnsubscribedStaysSo
CHECK_DEADLOCK FALSE
