CONSTANTS
    s1 = s1
    s2 = s2
    s3 = s3
    t1 = t1
    t2 = t2
    alice = alice
    bob = bob
    Spellings = {s1, s2, s3}
    Tokens = {t1, t2}
    TokenMap <- MCTokenMap
    None = None
    Faults = {"open"}
    MaxIds = 4
    MaxSessions = 3
SPECIFICATION Spec
INVARIANTS
    TypeOK
    LoginKeepsItsPlayer
    PlayersAreDistinct
    SessionPlayersAreSaved
