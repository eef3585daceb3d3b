SPECIFICATION CreationSpec
CONSTANTS
    alice = alice
    bob = bob
    r1 = r1
    r2 = r2
    r3 = r3
    s1 = s1
    s2 = s2
    NoSha = NoSha
    Users = {alice, bob}
    Requests = {r1, r2, r3}
    UserOf <- TwoUsers
    Shas = {s1, s2}
    MaxReviews = 3
INVARIANTS
    OneLivePerSnapshot
PROPERTIES
    ReplacedInOneCommit
SYMMETRY Alike
