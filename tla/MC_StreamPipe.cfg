CONSTANTS
    None = None
    Cap = 2
    MaxEvents = 5
    MaxSends = 4
    UpstreamStatus = {200, 400, 401, 429, 500, 503}
SPECIFICATION GatewayFairSpec
INVARIANTS GatewayTypeOK NothingLost StatusTellsFault ChargedIfServed
PROPERTIES ImplementsRelay RelayGoesOn RequestEnds
CHECK_DEADLOCK FALSE
