------------------------------- MODULE StartUp -------------------------------
(***************************************************************************)
(* From main to the first request: NewRolesHandler pings Redis, sees to    *)
(* the descriptions of the two groups of admins, and updateSchema gives a  *)
(* Sync value to the roles that an older release stored without one.  No   *)
(* request is served before, so nothing else writes meanwhile.             *)
(*                                                                         *)
(* Redis commands may fail, writes with or without effect: a failing PING  *)
(* is a panic, a failing read ends updateSchema, and other errors are only *)
(* logged or dropped.  The process may die at any time and start again.    *)
(***************************************************************************)
EXTENDS RoleTable, Naturals

CONSTANTS
    OldHash,     \* the hashes an older release may have left
    MaxChanges,  \* bound: writes of request handlers
    MaxFaults    \* bound: failing commands and deaths of the process

ASSUME StartUpAssumption ==
    /\ OldHash \subseteq Hash
    /\ MaxChanges \in Nat
    /\ MaxFaults \in Nat

Admins == {"role_admins", "sig_admins"}

VARIABLES
    described,   \* the admin groups that have a description
    pc,          \* the command start-up executes next
    todo,        \* the roles updateSchema has still to read
    role,        \* the one it is about to write
    clean,       \* history: since the process started no command failed and
                 \* no handler wrote
    changes, faults    \* for the bounds

vars == <<roles, described, pc, todo, role, clean, changes, faults>>

Step == {"down", "ping", "role_admins", "set_role_admins", "sig_admins",
         "set_sig_admins", "keys", "hgetall", "hset", "serving"}

TypeOK ==
    /\ RolesTypeOK
    /\ described \subseteq Admins
    /\ pc \in Step
    /\ todo \subseteq ShortName
    /\ role \in ShortName \cup {Absent}
    /\ clean \in BOOLEAN
    /\ changes \in 0..MaxChanges
    /\ faults \in 0..MaxFaults

Init ==
    /\ roles \in [ShortName -> OldHash \cup {Absent}]
    /\ described \in SUBSET Admins
    /\ pc = "down"
    /\ todo = {} /\ role = Absent
    /\ clean = TRUE
    /\ changes = 0 /\ faults = 0

-----------------------------------------------------------------------------
(* main and NewRolesHandler.                                               *)

Boot ==
    /\ pc = "down"
    /\ pc' = "ping"
    /\ clean' = TRUE
    /\ UNCHANGED <<roles, described, todo, role, changes, faults>>

\* A step that reads and goes on.
Goes(here, next) ==
    /\ pc = here
    /\ pc' = next
    /\ UNCHANGED <<roles, described, todo, role, clean, changes, faults>>

Ping == Goes("ping", "role_admins")

\* EXISTS description:<g>, for each of the two groups.
After(g) == IF g = "role_admins" THEN "sig_admins" ELSE "keys"

SetStep(g) == IF g = "role_admins" THEN "set_role_admins" ELSE "set_sig_admins"

Exists(g) == Goes(g, IF g \in described THEN After(g) ELSE SetStep(g))

\* SET description:<g>
SetAdmins(g) ==
    /\ pc = SetStep(g)
    /\ described' = described \cup {g}
    /\ pc' = After(g)
    /\ UNCHANGED <<roles, todo, role, clean, changes, faults>>

-----------------------------------------------------------------------------
(* updateSchema.                                                           *)

Keys ==
    /\ pc = "keys"
    /\ todo' = getRoles
    /\ pc' = "hgetall"
    /\ UNCHANGED <<roles, described, role, clean, changes, faults>>

\* A value that is not "1" counts as none.
HGetAllRole_MutantNotOne(r) ==
    /\ pc = "hgetall"
    /\ r \in todo
    /\ todo' = todo \ {r}
    /\ IF HGetAll(r)["Sync"] # "1"
       THEN pc' = "hset" /\ role' = r
       ELSE UNCHANGED <<pc, role>>
    /\ UNCHANGED <<roles, described, clean, changes, faults>>

HGetAllRole(r) ==
    /\ pc = "hgetall"
    /\ r \in todo
    /\ todo' = todo \ {r}
    /\ IF HGetAll(r)["Sync"] = Empty
       THEN pc' = "hset" /\ role' = r
       ELSE UNCHANGED <<pc, role>>
    /\ UNCHANGED <<roles, described, clean, changes, faults>>

\* The first role that is updated is the last.
SetSync_MutantReturns ==
    /\ pc = "hset"
    /\ HSet(role, <<"Sync", "1">>)
    /\ pc' = "hgetall"
    /\ role' = Absent
    /\ todo' = {}
    /\ UNCHANGED <<described, clean, changes, faults>>

SetSync ==
    /\ pc = "hset"
    /\ HSet(role, <<"Sync", "1">>)
    /\ pc' = "hgetall"
    /\ role' = Absent
    /\ UNCHANGED <<described, todo, clean, changes, faults>>

\* syncThread is started and the handler is registered.
Serve ==
    /\ todo = {}
    /\ Goes("hgetall", "serving")

-----------------------------------------------------------------------------
(* Failures.                                                               *)

\* Where start-up goes on when a command fails.
Fallback ==
    CASE pc = "ping" -> "down"
      [] pc \in {"role_admins", "set_role_admins"} -> "sig_admins"
      [] pc \in {"sig_admins", "set_sig_admins"}   -> "keys"
      [] pc \in {"keys", "hgetall"}                -> "serving"
      [] pc = "hset"                               -> "hgetall"

\* (When updateSchema has read all roles it makes no call that could fail.)
CommandFails ==
    /\ faults < MaxFaults
    /\ pc \notin {"down", "serving"}
    /\ pc = "hgetall" => todo # {}
    /\ faults' = faults + 1
    /\ clean' = FALSE
    /\ pc' = Fallback
    /\ role' = Absent
    /\ todo' = IF pc = "hset" THEN todo ELSE {}
    /\ \/ UNCHANGED <<roles, described>>
       \/ pc = "hset" /\ HSet(role, <<"Sync", "1">>) /\ UNCHANGED described
       \/ /\ \E g \in Admins : pc = SetStep(g) /\ described' = described \cup {g}
          /\ UNCHANGED roles
    /\ UNCHANGED changes

Dies ==
    /\ faults < MaxFaults
    /\ pc # "down"
    /\ faults' = faults + 1
    /\ pc' = "down"
    /\ todo' = {} /\ role' = Absent
    /\ UNCHANGED <<roles, described, clean, changes>>

\* A request handler writes.
HandlerWrites ==
    /\ pc = "serving"
    /\ changes < MaxChanges
    /\ changes' = changes + 1
    /\ RoleWrite
    /\ clean' = FALSE
    /\ UNCHANGED <<described, pc, todo, role, faults>>

\* The process is stopped and started again, for a new release, say.
Redeploy == Goes("serving", "down")

Start ==
    \/ Boot \/ Ping \/ (\E g \in Admins : Exists(g) \/ SetAdmins(g))
    \/ Keys \/ (\E r \in ShortName : HGetAllRole(r)) \/ SetSync \/ Serve

Next == Start \/ CommandFails \/ Dies \/ HandlerWrites \/ Redeploy

Spec == Init /\ [][Next]_vars

\* The service manager starts the process, and Go executes it.
FairSpec == Spec /\ WF_vars(Start)

-----------------------------------------------------------------------------
(***************************************************************************)
(* Start-up never overrules anybody: whatever fails, it changes nothing in *)
(* a role but a Sync that is not set, and creates no role.                 *)
(***************************************************************************)
OnlyFillsIn ==
    [][pc # "serving" =>
          \A r \in ShortName : roles'[r] # roles[r] =>
              /\ RoleExists(r) /\ roles[r]["Sync"] = Empty
              /\ roles'[r] = [roles[r] EXCEPT !["Sync"] = "1"]]_vars

(***************************************************************************)
(* When a start without failures is over, both groups of admins are        *)
(* described, and the two synchronisations agree on every role, whatever   *)
(* earlier starts and handlers left, but for a Sync that somebody stored   *)
(* and that neither of them knows: such a value stays.  Without any value  *)
(* syncRoles would leave a role out and syncMembers would give it to its   *)
(* members.                                                                *)
(***************************************************************************)
PassesAgree(h) == SyncedBySyncRoles(h) <=> ~SkippedBySyncMembers(h)

CleanStartAgrees ==
    pc = "serving" /\ clean =>
        /\ described = Admins
        /\ \A r \in ShortName : RoleExists(r) =>
              PassesAgree(roles[r]) \/ (SyncUnknown(roles[r]) /\ roles[r]["Sync"] # Empty)

(***************************************************************************)
(* Starts that were cut short are made up for: unless handlers write, the  *)
(* roles agree in the end if the service is started once more.             *)
(***************************************************************************)
EventuallyUpdated ==
    (pc = "down" /\ faults = MaxFaults /\ changes = MaxChanges) ~>
        (\A r \in ShortName : RoleExists(r) => roles[r]["Sync"] # Empty)
=============================================================================
