SPECIFICATION Spec
CONSTANTS
    f1 = f1
    n1 = n1
    ShortName = {r1}
    DiscordName = {n1}
    Filter = {f1, wild}
    Wildcard = wild
    SyncValue = {"0", "1"}
    Color = {"0"}
    RoleSpec <- MCRoleSpec
    FieldUpdate <- MCFieldUpdate
    Absent = Absent
    User = {u1}
    Client = {c1}
    NoCommand = NoCommand
INVARIANT LeaveChecksJoinable
