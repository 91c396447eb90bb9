SPECIFICATION FairSpec
CONSTANTS
    f1 = f1
    n1 = n1
    ShortName = {r1, r2, r3}
    DiscordName = {n1}
    Filter = {f1, wild}
    Wildcard = wild
    SyncValue = {"0", "1", "false", "true", "False"}
    Color = {"0"}
    RoleSpec <- MCRoleSpec
    FieldUpdate <- MCFieldUpdate
    Absent = Absent
    OldHash <- MCOldHash
    MaxChanges = 2
    MaxFaults = 2
INVARIANTS
    TypeOK
    CleanStartAgrees
PROPERTIES
    OnlyFillsIn
    EventuallyUpdated
