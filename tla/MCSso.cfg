\* One instance after the other or both at once, one caller.
SPECIFICATION Spec
CONSTANTS
    Instances = {i1, i2}
    Nowhere = Nowhere
    Clients = {c1}
    Emails = {"admin", "guest"}
    Passwords = {"p1", "p2", "long"}
    TooLong = {"long"}
    AdminEmail = "admin"
    AdminPassword = "p1"
    Apps = {1, 2}
    OwnApp = 1
    Secrets = {"s1", "s2"}
    NoSecret = NoSecret
    Foreign <- ForeignTokens
    NoToken = NoToken
    Malformed = Malformed
    TTL = 1
    MaxTime = 1
    MaxTokens = 1
    MaxFaults = 1
INVARIANTS
    ServingIsReady
    RegisteredStays
    LoginIsLinearizable
    VerifyIsLinearizable
PROPERTIES
    StartsAgain
    ImplementsAuthority
