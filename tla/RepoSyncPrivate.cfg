SPECIFICATION SyncSpec
CONSTANTS
    Repos = {r1}
    Names = {n1}
    Users = {u1}
    Syncs = {s1}
    NoName = NoName
    MaxChanges = 1
INVARIANT
    PrivateNeverListed
