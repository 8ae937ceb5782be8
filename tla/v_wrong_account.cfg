CONSTANTS
    Passes = {p1, p2}
    Accounts = {"admin", "a1", "a2"}
    Owner = "admin"
    Named = {"a1", "a2"}
    None = None
    TTL = 2
    MaxClients = 7
    MaxChanges = 0
SPECIFICATION Spec
INVARIANT RightAccount
