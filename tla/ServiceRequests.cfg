SPECIFICATION Spec
CONSTANTS
    user1 = user1
    p1 = p1
    user2 = user2
    NoCall = NoCall
    Users = {user1, user2}
    Passwords <- Passwords2
    Places = {p1}
    Demo1 <- User1
    Demo2 <- User2
    Levels = {"INFO"}
    MaxPosts = 3
INVARIANTS
    TypeOK
    OneOwner
    ConfirmedAccounts
    ConfirmedInOrder
    StatsConsistent
PROPERTIES
    Implemented
