SPECIFICATION FairSpec
CONSTANTS
    MaxSockets = 4
    MaxDrills = 2
INVARIANTS
    TypeOK
    OnlyCurrentLive
    NoLocationBeforeLogin
    LiveWhenLoggedIn
    OnePositionSource
    SignedOutStaysOut
PROPERTIES
    SignInEnds
