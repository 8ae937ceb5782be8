CONSTANTS
    Passes = {p1, p2}
    Accounts = {"admin", "a1"}
    Owner = "admin"
    Named = {"a1", None}
    None = None
    TTL = 2
    MaxClients = 6
    MaxChanges = 1
SPECIFICATION FairSpec
INVARIANT TypeOK
INVARIANT CacheKeyed
INVARIANT RightAccount
PROPERTY LimitsRefreshed
