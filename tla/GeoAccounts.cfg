SPECIFICATION GeoFairSpec
CONSTANTS
    c1 = c1
    c2 = c2
    user1 = user1
    ann = ann
    p1 = p1
    Nil = Nil
    NoCall = NoCall
    Conns = {c1, c2}
    MaxClients = 1
    Users = {user1, ann}
    Places = {p1}
    Inputs <- AccountInputs
    MaxIn = 1
    SendBuf = 1
    KeepAlive = TRUE
    Faults = {"abort", "interrupt"}
    Passwords <- OnePassword
    Levels = {}
    Demo1 <- User1
    Demo2 <- User1
    MaxPosts = 2
INVARIANTS
    LoggedInUsersExist
    LocationsHaveOwners
    MapAndTableAgree
PROPERTIES
    ServerImplemented
