SPECIFICATION FairSpec
CONSTANTS
    f1 = f1
    n1 = n1
    n2 = n2
    bot = bot
    ShortName = {r1, r2}
    DiscordName = {n1, n2, bot}
    Filter = {f1, wild}
    Wildcard = wild
    SyncValue = {"0", "1", "false", "true"}
    Color = {"0", "7", "x"}
    RoleSpec <- MCRoleSpec
    FieldUpdate <- MCFieldUpdate
    Absent = Absent
    Protected = {bot}
    Numeral = {"0", "7"}
    Zero = "0"
    NoRole = NoRole
    MaxChanges = 2
    MaxFaults = 1
INVARIANTS
    TypeOK
    SteadyRoleKept
    QuietPassConverges
    TwoPassesConverge
PROPERTIES
    ProtectedUntouched
    PassJustified
    ConvergedStays
    EventuallyConverged
