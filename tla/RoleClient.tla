----------------------------- MODULE RoleClient ------------------------------
(***************************************************************************)
(* The chat commands.  A command is a sequence of calls to the role        *)
(* service: it may ask for the sender's permission, read the role or the   *)
(* filter it is about, make one change, and ask for a synchronisation.     *)
(* Each call is one step, as RoleAPI has it; the registry may change       *)
(* between two calls of one command.                                       *)
(*                                                                         *)
(* A call may be refused or fail without effect, or take effect though its *)
(* answer is an error.  UpdateRole answers nil though its write was lost,  *)
(* and AddMembers and RemoveMembers answer with the outcome of their last  *)
(* user.  A command may die between two calls.                             *)
(***************************************************************************)
EXTENDS Registry

CONSTANTS
    Client,      \* the commands that can run at one time
    NoCommand    \* the command of an idle client

VARIABLES
    pc,          \* the call each command makes next
    cmd,         \* what it was asked to do
    target,      \* the filter whose members it changes
    users,       \* the users it adds or removes
    dirty,       \* history: roles or members changed since the last request
    lapsed,      \* history: ... and a command ended that should have asked
    quiet,       \* history: no other command changed the registry since the
                 \* command read its role
    spared       \* history: the users RemoveAllMembers did not get at: its
                 \* call failed for them, or they were added after it read

commandVars == <<pc, cmd, target, users>>
vars == <<storeVars, commandVars, dirty, lapsed, quiet, spared>>

SIGOp == {"AddSIG", "RemoveSIG", "JoinSIG", "LeaveSIG"}
Joins == {"AddMember", "AddSIG", "JoinSIG"}
AskPermission == {"AddRole", "RemoveRole", "AddFilter", "RemoveFilter",
                  "AddMember", "RemoveMember"}

Command ==
    [op : {"AddRole"}, role : ShortName, spec : RoleSpec]
    \cup [op : {"RemoveRole"}, role : ShortName, sig : BOOLEAN]
    \cup [op : {"Set"}, role : ShortName, set : FieldUpdate]
    \cup [op : {"AddFilter", "RemoveFilter", "RemoveAllMembers"}, filter : Filter]
    \cup [op : {"AddMember", "RemoveMember"}, filter : Filter, user : User]
    \cup [op : SIGOp, role : ShortName, user : User]
    \cup [op : {"Sync"}]

ASSUME RoleClientAssumption == NoCommand \notin Command

Step == {"idle", "CanPerform", "GetRole", "GetRoleAgain", "GetMembers",
         "change", "sync", "MapName", "success", "error"}

\* A command acts on members only of a filter it was given or has read.
TypeOK ==
    /\ RegistryTypeOK
    /\ pc \in [Client -> Step]
    /\ cmd \in [Client -> Command \cup {NoCommand}]
    /\ target \in [Client -> Filter \cup {Empty}]
    /\ users \in [Client -> SUBSET User]
    /\ dirty \in BOOLEAN
    /\ lapsed \in BOOLEAN
    /\ quiet \in [Client -> BOOLEAN]
    /\ spared \in [Client -> SUBSET User]

API == INSTANCE RoleAPI

Init ==
    /\ API!Init
    /\ pc = [c \in Client |-> "idle"]
    /\ cmd = [c \in Client |-> NoCommand]
    /\ target = [c \in Client |-> Empty]
    /\ users = [c \in Client |-> {}]
    /\ dirty = FALSE /\ lapsed = FALSE
    /\ quiet = [c \in Client |-> TRUE]
    /\ spared = [c \in Client |-> {}]

-----------------------------------------------------------------------------
GoTo(c, step) == pc' = [pc EXCEPT ![c] = step]

Op(c) == IF cmd[c] = NoCommand THEN "none" ELSE cmd[c].op

\* The fields Set accepts; UpdateRole accepts Name too.
validKeys == roleKeys \ {"Name"}

FirstCall(q) ==
    CASE q.op \in AskPermission     -> "CanPerform"
      [] q.op \in SIGOp             -> "GetRole"
      [] q.op = "RemoveAllMembers"  -> "GetMembers"
      [] q.op = "Set"               -> IF q.set[1] \in validKeys
                                       THEN "change" ELSE "error"
      [] q.op = "Sync"              -> "sync"

Begin(c) ==
    /\ pc[c] = "idle"
    /\ \E q \in Command :
          /\ cmd' = [cmd EXCEPT ![c] = q]
          /\ GoTo(c, FirstCall(q))
          /\ target' = [target EXCEPT ![c] = IF "filter" \in DOMAIN q
                                             THEN q.filter ELSE Empty]
          /\ users' = [users EXCEPT ![c] = IF "user" \in DOMAIN q
                                           THEN {q.user} ELSE {}]
    /\ UNCHANGED <<storeVars, dirty, lapsed, quiet, spared>>

\* The sender has the permission.
CanPerform(c) ==
    /\ pc[c] = "CanPerform"
    /\ GoTo(c, IF Op(c) = "RemoveRole" THEN "GetRole" ELSE "change")
    /\ UNCHANGED <<storeVars, cmd, target, users, dirty, lapsed, quiet, spared>>

\* The kind of the role does not matter.
GetRole_MutantAnyKind(c) ==
    /\ pc[c] = "GetRole"
    /\ RoleExists(cmd[c].role)
    /\ GoTo(c, IF Op(c) = "RemoveRole" THEN "change" ELSE "GetRoleAgain")
    /\ UNCHANGED <<storeVars, cmd, target, users, dirty, lapsed, quiet, spared>>

\* GetRole, for the field Sig: RemoveRole is for SIGs or for roles, sigAction
\* for SIGs.
GetRole(c) ==
    /\ pc[c] = "GetRole"
    /\ RoleExists(cmd[c].role)
    /\ LET sig == IsSIG(HGetAll(cmd[c].role)) IN
       GoTo(c, IF Op(c) = "RemoveRole"
               THEN IF sig = cmd[c].sig THEN "change" ELSE "error"
               ELSE IF sig THEN "GetRoleAgain" ELSE "error")
    /\ UNCHANGED <<storeVars, cmd, target, users, dirty, lapsed, quiet, spared>>

\* The other filter is taken.
GetRoleAgain_MutantFilterA(c) ==
    /\ pc[c] = "GetRoleAgain"
    /\ RoleExists(cmd[c].role)
    /\ LET h == HGetAll(cmd[c].role) IN
          /\ target' = [target EXCEPT ![c] = h["FilterA"]]
          /\ GoTo(c, IF Op(c) = "JoinSIG" /\ ~IsJoinable(h)
                     THEN "error" ELSE "change")
    /\ UNCHANGED <<storeVars, cmd, users, dirty, lapsed, quiet, spared>>

\* sigAction's second GetRole, for Joinable (looked at by JoinSIG only) and
\* for FilterB, which holds the members of a SIG.
GetRoleAgain(c) ==
    /\ pc[c] = "GetRoleAgain"
    /\ RoleExists(cmd[c].role)
    /\ LET h == HGetAll(cmd[c].role) IN
          /\ target' = [target EXCEPT ![c] = h["FilterB"]]
          /\ GoTo(c, IF Op(c) = "JoinSIG" /\ ~IsJoinable(h)
                     THEN "error" ELSE "change")
    /\ UNCHANGED <<storeVars, cmd, users, dirty, lapsed, quiet, spared>>

\* The list of members is cut short.
GetMembers_MutantCut(c) ==
    /\ pc[c] = "GetMembers"
    /\ \E S \in SUBSET MembersOf(target[c]) :
          (\A u, v \in S : u = v) /\ users' = [users EXCEPT ![c] = S]
    /\ GoTo(c, "change")
    /\ UNCHANGED <<storeVars, cmd, target, dirty, lapsed, quiet, spared>>

\* RemoveAllMembers reads whom to remove.
GetMembers(c) ==
    /\ pc[c] = "GetMembers"
    /\ users' = [users EXCEPT ![c] = MembersOf(target[c])]
    /\ GoTo(c, "change")
    /\ UNCHANGED <<storeVars, cmd, target, dirty, lapsed, quiet, spared>>

\* A call is refused (no permission, no such role, a check of the handler) or
\* fails, without effect.
Refused(c) ==
    /\ pc[c] \in {"CanPerform", "GetRole", "GetRoleAgain", "GetMembers", "change"}
    /\ GoTo(c, "error")
    /\ UNCHANGED <<storeVars, cmd, target, users, dirty, lapsed, quiet, spared>>

-----------------------------------------------------------------------------
(* The change.                                                             *)

HasReadRole(d) ==
    /\ Op(d) \in SIGOp \cup {"RemoveRole"}
    /\ pc[d] \notin {"CanPerform", "GetRole", "error"}

\* What the other commands see of a change by c.
Noticed(c) ==
    /\ dirty' = (dirty \/ <<roles, members>>' # <<roles, members>>)
    /\ lapsed' = (lapsed \/ (pc'[c] = "error" /\ <<roles, members>>' # <<roles, members>>))
    /\ quiet' = [d \in Client |->
                    quiet[d] /\ (d = c \/ ~HasReadRole(d) \/ storeVars' = storeVars)]

\* AddMembers or RemoveMembers for the users of c, of whom `done` are served.
MembersCall(c, done) ==
    /\ target[c] \in filters
    /\ members' = [members EXCEPT ![target[c]] =
                      IF Op(c) \in Joins THEN @ \cup done ELSE @ \ done]
    /\ UNCHANGED <<roles, filters>>

\* The call may have failed for any of the users; it answers nil, and the
\* command goes on, when it did not fail for the last one.
ChangeMembersThen(c, next) ==
    /\ pc[c] = "change"
    /\ Op(c) \in SIGOp \cup {"AddMember", "RemoveMember", "RemoveAllMembers"}
    /\ \E done \in SUBSET users[c] :
          /\ MembersCall(c, done)
          /\ \/ GoTo(c, "error")
             \/ (done # {} \/ users[c] = {}) /\ GoTo(c, next)
          /\ spared' = [d \in Client |->
                IF d = c THEN spared[c] \cup (users[c] \ done)
                ELSE IF Op(d) = "RemoveAllMembers" /\ pc[d] \notin {"GetMembers", "error"}
                THEN spared[d] \cup (members'[target[d]] \ members[target[d]])
                ELSE spared[d]]
    /\ Noticed(c)
    /\ UNCHANGED <<cmd, target, users>>

\* No synchronisation is asked for.
ChangeMembers_MutantNoSync(c) == ChangeMembersThen(c, "success")

ChangeMembers(c) == ChangeMembersThen(c, "sync")

\* The other changes; those of filters need no synchronisation.
Change(c) ==
    /\ pc[c] = "change"
    /\ LET q == cmd[c] IN
       \/ /\ \/ q.op = "AddRole"    /\ API!AddRole(q.role, q.spec)
             \/ q.op = "RemoveRole" /\ API!RemoveRole(q.role)
             \/ q.op = "Set"        /\ API!UpdateRole(q.role, q.set)
          /\ GoTo(c, "sync") \/ GoTo(c, "error")
       \/ /\ \/ q.op = "AddFilter"    /\ API!AddFilter(q.filter)
             \/ q.op = "RemoveFilter" /\ API!RemoveFilter(q.filter)
          /\ GoTo(c, "success") \/ GoTo(c, "error")
    /\ Noticed(c)
    /\ UNCHANGED <<cmd, target, users, spared>>

\* UpdateRole answers nil though its HSET did nothing.
SetLost(c) ==
    /\ pc[c] = "change"
    /\ Op(c) = "Set"
    /\ RoleExists(cmd[c].role)
    /\ GoTo(c, "sync")
    /\ UNCHANGED <<storeVars, cmd, target, users, dirty, lapsed, quiet, spared>>

-----------------------------------------------------------------------------
(* The request and the answer.                                             *)

\* SyncToChatService: the request is queued, whatever its caller hears of it.
Sync(c) ==
    /\ pc[c] = "sync"
    /\ GoTo(c, IF Op(c) \in SIGOp THEN "MapName" ELSE "success") \/ GoTo(c, "error")
    /\ dirty' = FALSE /\ lapsed' = FALSE
    /\ UNCHANGED <<storeVars, cmd, target, users, quiet, spared>>

SyncFails(c) ==
    /\ pc[c] = "sync"
    /\ GoTo(c, "error")
    /\ lapsed' = dirty
    /\ UNCHANGED <<storeVars, cmd, target, users, dirty, quiet, spared>>

\* sigAction looks up the name of the user for its answer, and panics when the
\* list of Discord users does not come or does not have him (Ends).
MapName(c) ==
    /\ pc[c] = "MapName"
    /\ GoTo(c, "success")
    /\ UNCHANGED <<storeVars, cmd, target, users, dirty, lapsed, quiet, spared>>

\* The command has answered, or it dies.
Ends(c) ==
    /\ pc[c] # "idle"
    /\ GoTo(c, "idle")
    /\ cmd' = [cmd EXCEPT ![c] = NoCommand]
    /\ target' = [target EXCEPT ![c] = Empty]
    /\ users' = [users EXCEPT ![c] = {}]
    /\ quiet' = [quiet EXCEPT ![c] = TRUE]
    /\ spared' = [spared EXCEPT ![c] = {}]
    /\ lapsed' = (lapsed \/ (dirty /\ pc[c] = "sync"))
    /\ UNCHANGED <<storeVars, dirty>>

Next ==
    \E c \in Client :
       \/ Begin(c) \/ CanPerform(c) \/ GetRole(c) \/ GetRoleAgain(c)
       \/ GetMembers(c) \/ Refused(c)
       \/ ChangeMembers(c) \/ Change(c) \/ SetLost(c)
       \/ Sync(c) \/ SyncFails(c) \/ MapName(c) \/ Ends(c)

Spec == Init /\ [][Next]_vars

-----------------------------------------------------------------------------
(***************************************************************************)
(* A change of the roles or of the members does not go unnoticed: until a  *)
(* request follows it, some command is about to make one, or a command saw *)
(* an error or died after its change.  A late answer, a loop that failed   *)
(* for its last user and a lost SyncToChatService are the only ways.       *)
(***************************************************************************)
ChangesAskedFor == dirty /\ ~lapsed => \E c \in Client : pc[c] = "sync"

(***************************************************************************)
(* What GetRole told a command still binds its change: unless another      *)
(* command got in between, RemoveRole removes a role of its own kind, and  *)
(* sigAction changes only the FilterB of a role that is a SIG, and lets    *)
(* users join only a joinable one.                                         *)
(***************************************************************************)
KindRespected ==
    [][\A c \in Client :
          /\ quiet[c] /\ pc[c] = "change" /\ pc'[c] # "change"
          /\ storeVars' # storeVars
          /\ Op(c) \in SIGOp \cup {"RemoveRole"}
          => LET h == HGetAll(cmd[c].role) IN
                /\ RoleExists(cmd[c].role)
                /\ IsSIG(h) = (IF Op(c) = "RemoveRole" THEN cmd[c].sig ELSE TRUE)
                /\ Op(c) = "JoinSIG" => IsJoinable(h)
                /\ \A f \in Filter : members'[f] # members[f] => f = h["FilterB"]]_vars

(***************************************************************************)
(* A SIG command that nobody disturbed does what it answers: who left does *)
(* not hold the role, and who joined holds it exactly if he passes its     *)
(* other filter.  (A SIG whose FilterB is the wildcard has no members of   *)
(* its own to add or remove.)                                              *)
(***************************************************************************)
SIGAnswerTrue ==
    \A c \in Client : pc[c] = "success" /\ quiet[c] /\ Op(c) \in SIGOp =>
        LET h == HGetAll(cmd[c].role)
            passesA == h["FilterA"] = Wildcard \/ cmd[c].user \in MembersOf(h["FilterA"])
        IN  h["FilterB"] # Wildcard =>
              (cmd[c].user \in Membership(h) <=> Op(c) \in Joins /\ passesA)

(***************************************************************************)
(* When RemoveAllMembers succeeds, whoever is left in the filter was added *)
(* after it read the members, or the removal failed for him.               *)
(***************************************************************************)
RemoveAllEmpties ==
    \A c \in Client : pc[c] = "success" /\ Op(c) = "RemoveAllMembers" =>
        MembersOf(target[c]) \subseteq spared[c]

(***************************************************************************)
(* What the comment in sigAction says ("Is this a joinable role? Only      *)
(* check on Join/Leave not Add/Remove"): LeaveSIG, too, is refused for a   *)
(* SIG that is not joinable.                                               *)
(***************************************************************************)
LeaveChecksJoinable ==
    \A c \in Client : pc[c] = "success" /\ quiet[c] /\ Op(c) = "LeaveSIG" =>
        IsJoinable(HGetAll(cmd[c].role))
=============================================================================
