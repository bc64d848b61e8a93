SPECIFICATION Spec
CONSTANTS
    MaxRows = 3
    MaxRequests = 2
    Expiring = {2}
    MaxFailures = 1
    Tables = {"grants", "shares"}
INVARIANTS NoSurvivingDescendant RevokedByOne
PROPERTIES ExpiredIsRevoked
CHECK_DEADLOCK FALSE
