CONSTANTS
    Caller = {c1, c2, c3, c4}
    NoCaller = NoCaller
SPECIFICATION FairSpec
INVARIANTS
    TypeOK
    OneFlight
    JoinedFlightIsLive
PROPERTY CallsEnd
