SPECIFICATION Spec
CONSTANTS
    f1 = f1
    f2 = f2
    n1 = n1
    n2 = n2
    r1 = r1
    r2 = r2
    ShortName = {r1, r2}
    DiscordName = {n1, n2}
    Filter = {f1, f2, wild}
    Wildcard = wild
    SyncValue = {"0", "1", "false", "true"}
    Color = {"0"}
    RoleSpec <- MCRoleSpec
    FieldUpdate <- MCFieldUpdate
    Absent = Absent
    User = {1, 2}
    PageSize = 1
    NoSync = {2}
    Ignored = {}
    InitialRoles <- MCInitialRoles
    InitialMembers <- MCInitialMembers
    InitialLists <- MCCurrentList
    MaxChanges = 2
    MaxFaults = 1
PROPERTY NoSyncRespected
