------------------------------ MODULE RoleReads ------------------------------
(***************************************************************************)
(* The listings: GetRoles, GetFilters, ListUserRoles and the commands that *)
(* show them, and ListMembers, which puts names to the members of a        *)
(* filter.  A listing asks Redis for the keys and then reads them one by   *)
(* one, while the handlers write to the registry.  One reader stands for   *)
(* all: listings do not disturb one another.                               *)
(***************************************************************************)
EXTENDS Registry, Naturals

CONSTANTS
    InitialMembers,  \* what the filters may hold at the beginning
    MaxChanges       \* bound: writes to the registry

ASSUME RoleReadsAssumption ==
    /\ InitialMembers \subseteq [Filter -> SUBSET User]
    /\ MaxChanges \in Nat
    /\ ShortName \cap Filter = {}  \* two kinds of keys: `kept` holds both
    /\ Empty \notin ShortName      \* AddRole insists on a ShortName
    /\ Absent \notin ShortName

VARIABLES
    rd,       \* the reader: its query `op` for `who`; the step `pc`; the keys
              \* still `todo` and the `item` being read; the filters `pair` it
              \* names; what is `shown` and who is `omitted`; the users
              \* `known` to Discord and whether one was `found`; and whether
              \* a call failed (`broke`)
    kept,     \* history: the roles and filters that stood since it began
    held,     \* history: the roles that `who` held all the time
    ever,     \* history: the roles that `who` held at some time
    changes   \* for the bound

vars == <<storeVars, rd, kept, held, ever, changes>>

\* One element of GetRoles' answer.
RoleEntry == [role : ShortName, sig : BOOLEAN, joinable : BOOLEAN]

Reader ==
    [op : {"none", "GetRoles", "GetFilters", "ListUserRoles", "ListMembers"},
     who : User \cup Filter \cup {Absent},
     pc : {"idle", "keys", "next", "description", "members", "exists", "info",
           "users", "names", "done", "failed"},
     todo : SUBSET (ShortName \cup Filter \cup User),
     item : ShortName \cup Filter \cup {Absent},
     pair : (Filter \cup {Empty}) \X (Filter \cup {Empty}),
     shown : SUBSET (RoleEntry \cup ShortName \cup Filter \cup User
                        \cup {Absent}),
     omitted : SUBSET User, known : SUBSET User, found : BOOLEAN,
     broke : BOOLEAN]

Idle == [op |-> "none", who |-> Absent, pc |-> "idle", todo |-> {},
         item |-> Absent, pair |-> <<Empty, Empty>>, shown |-> {},
         omitted |-> {}, known |-> {}, found |-> FALSE, broke |-> FALSE]

TypeOK ==
    /\ RegistryTypeOK
    /\ rd \in Reader
    /\ kept \subseteq ShortName \cup Filter
    /\ held \subseteq ShortName /\ ever \subseteq ShortName
    /\ changes \in 0..MaxChanges

\* The roles a user holds.
HeldBy(u) == {r \in ShortName : RoleExists(r) /\ u \in Membership(roles[r])}

Init ==
    /\ roles \in [ShortName -> {h \in RoleSpec : RequiredFields(h)} \cup {Absent}]
    /\ filters = Filter \ {Wildcard}
    /\ members \in InitialMembers
    /\ rd = Idle
    /\ kept = {} /\ held = {} /\ ever = {}
    /\ changes = 0

-----------------------------------------------------------------------------
(* The reader.  Each step is one Redis command or one call.                *)

Query == [op : {"GetRoles", "GetFilters"}, who : {Absent}]
            \cup [op : {"ListUserRoles"}, who : User]
            \cup [op : {"ListMembers"}, who : Filter]

Begin ==
    /\ rd.pc = "idle"
    /\ \E q \in Query :
          /\ rd' = [Idle EXCEPT !.op = q.op, !.who = q.who, !.pc = "keys"]
          /\ held' = IF q.op = "ListUserRoles" THEN HeldBy(q.who) ELSE {}
          /\ ever' = held'
    /\ kept' = getRoles \cup filters
    /\ UNCHANGED <<storeVars, changes>>

\* KEYS; for ListMembers, the SMEMBERS of GetMembers.
Keys ==
    /\ rd.pc = "keys"
    /\ rd' = [rd EXCEPT
                !.todo = CASE rd.op = "GetFilters"  -> filters
                           [] rd.op = "ListMembers" -> MembersOf(rd.who)
                           [] OTHER                 -> getRoles,
                !.pc = IF rd.op = "ListMembers" THEN "users" ELSE "next"]

Takes(x, op) == rd.pc = "next" /\ rd.op = op /\ x \in rd.todo

\* Joinable is put where Sig belongs.
GetRolesEntry_MutantJoinable(r) ==
    /\ Takes(r, "GetRoles")
    /\ rd' = [rd EXCEPT !.todo = @ \ {r},
                        !.shown = @ \cup {[role |-> r,
                           sig |-> HGetAll(r)["Joinable"] # "0",
                           joinable |-> HGetAll(r)["Joinable"] # "0"]}]

\* GetRoles: HGETALL of one role.  A value other than "0" is true, also the
\* one that is not there because the role is gone.
GetRolesEntry(r) ==
    /\ Takes(r, "GetRoles")
    /\ rd' = [rd EXCEPT !.todo = @ \ {r},
                        !.shown = @ \cup {[role |-> r,
                           sig |-> HGetAll(r)["Sig"] # "0",
                           joinable |-> HGetAll(r)["Joinable"] # "0"]}]

\* GetFilters: GET of one description; one that is gone is an error.
GetDescription(f) ==
    /\ Takes(f, "GetFilters")
    /\ rd' = IF f \in filters
             THEN [rd EXCEPT !.todo = @ \ {f}, !.shown = @ \cup {f}]
             ELSE [rd EXCEPT !.item = f, !.pc = "failed"]

\* ListUserRoles: getRoleMembership begins with HGETALL.
ReadFilters(r) ==
    /\ Takes(r, "ListUserRoles")
    /\ LET h == HGetAll(r) IN
       rd' = [rd EXCEPT !.todo = @ \ {r}, !.item = r,
                        !.pair = <<h["FilterA"], h["FilterB"]>>,
                        !.pc = IF Wildcard \in {h["FilterA"], h["FilterB"]}
                               THEN "description" ELSE "members"]

ProperFilter == IF rd.pair[2] = Wildcard THEN rd.pair[1] ELSE rd.pair[2]

\* The description of the wildcard is asked for instead.
ReadDescription_MutantWildcard ==
    /\ rd.pc = "description"
    /\ rd' = [rd EXCEPT !.pc = IF Wildcard \in filters
                               THEN "members" ELSE "failed"]

\* EXISTS filter_description: a missing one fails the listing, for any role.
ReadDescription ==
    /\ rd.pc = "description"
    /\ rd' = [rd EXCEPT !.pc = IF ProperFilter \in filters
                               THEN "members" ELSE "failed"]

\* The wildcard is taken for a filter like the others.
ReadMembers_MutantSInter ==
    /\ rd.pc = "members"
    /\ rd' = [rd EXCEPT !.pc =
                IF rd.who \in MembersOf(rd.pair[1]) \cap MembersOf(rd.pair[2])
                THEN "exists" ELSE "next"]

\* SMEMBERS, or SINTER when no filter is the wildcard.
ReadMembers ==
    /\ rd.pc = "members"
    /\ LET set == IF Wildcard \in {rd.pair[1], rd.pair[2]} THEN MembersOf(ProperFilter)
                  ELSE MembersOf(rd.pair[1]) \cap MembersOf(rd.pair[2])
       IN  rd' = [rd EXCEPT !.pc = IF rd.who \in set THEN "exists" ELSE "next"]

\* getRole: EXISTS ...
CheckRole ==
    /\ rd.pc = "exists"
    /\ rd' = [rd EXCEPT !.pc = IF RoleExists(rd.item) THEN "info" ELSE "failed"]

\* The field ShortName at role:r, Absent for a blank one.  AddRole stores it with
\* the filters and no update changes either, so a hash that has one has the other.
ShortNameIn(r) == IF HGetAll(r)["FilterA"] = Empty THEN Absent ELSE r

\* The Discord name is listed in place of the ShortName.
ReadInfo_MutantName ==
    /\ rd.pc = "info"
    /\ rd' = [rd EXCEPT !.pc = "next", !.shown = @ \cup {HGetAll(rd.item)["Name"]}]

\* ... and HGETALL, for the answer: blank if the role has gone since.
ReadInfo ==
    /\ rd.pc = "info"
    /\ rd' = [rd EXCEPT !.pc = "next", !.shown = @ \cup {ShortNameIn(rd.item)}]

\* MapName asks which users Discord knows.
GetDiscordUserList ==
    /\ rd.pc = "users"
    /\ \E S \in SUBSET User : rd' = [rd EXCEPT !.known = S, !.pc = "names"]

\* One turn of MapName's loop, which shows u or leaves him out.
PutName(u, show) ==
    /\ rd.pc = "names" /\ u \in rd.todo
    /\ rd' = [rd EXCEPT !.todo = @ \ {u},
                        !.shown = IF show THEN @ \cup {u} ELSE @,
                        !.omitted = IF show THEN @ ELSE @ \cup {u},
                        !.found = @ \/ u \in rd.known]

\* One name is enough.
MapName_MutantBreak(u) == PutName(u, ~rd.found)

\* A user without a name is shown by id.  `found` is not reset: after the first
\* user who has a name, those who have none are left out.
MapName(u) == PutName(u, u \in rd.known \/ ~rd.found)

Finish ==
    /\ rd.pc \in {"next", "names"}
    /\ rd.todo = {}
    /\ rd' = [rd EXCEPT !.pc = "done", !.item = Absent]

\* Any Redis command or call may fail, and ends the listing: with an error, or
\* (GetDiscordUserList, whose error MapName looks at too late) in a panic.
Fails ==
    /\ rd.pc \notin {"idle", "done", "failed"}
    /\ rd' = [rd EXCEPT !.pc = "failed", !.broke = TRUE]

Again == rd.pc \in {"done", "failed"} /\ rd' = Idle

Read ==
    /\ \/ Keys
       \/ \E r \in ShortName : GetRolesEntry(r) \/ ReadFilters(r)
       \/ \E f \in Filter : GetDescription(f)
       \/ ReadDescription \/ ReadMembers \/ CheckRole \/ ReadInfo
       \/ GetDiscordUserList \/ (\E u \in User : MapName(u))
       \/ Finish \/ Fails \/ Again
    /\ UNCHANGED <<storeVars, kept, held, ever, changes>>

\* A request handler writes to the registry.
HandlerWrites ==
    /\ changes < MaxChanges
    /\ changes' = changes + 1
    /\ RegistryWrite
    /\ UNCHANGED rd
    /\ kept' = {x \in kept : IF x \in Filter THEN x \in filters'
                             ELSE roles'[x] = roles[x]}
    /\ LET now == IF rd.op = "ListUserRoles" THEN HeldBy(rd.who)' ELSE {} IN
          held' = held \cap now /\ ever' = ever \cup now

Next == Begin \/ Read \/ HandlerWrites

Spec == Init /\ [][Next]_vars

-----------------------------------------------------------------------------
(***************************************************************************)
(* ListUserRoles tells the truth about every role that was not rewritten   *)
(* while it ran: a role the user held throughout is listed, by the name    *)
(* its hash holds, and one that is listed he held at some time.            *)
(***************************************************************************)
ListingTrue ==
    rd.pc = "done" /\ rd.op = "ListUserRoles" =>
        \A r \in kept \cap ShortName :
            /\ r \in held => ShortNameIn(r) \in rd.shown
            /\ r \in rd.shown => r \in ever

(***************************************************************************)
(* The command ListRoles puts every role that stood throughout, and whose  *)
(* hash is whole, where GetRole would: with the SIGs or with the roles,    *)
(* and the closed SIGs only when all are asked for.  GetRoles and GetRole  *)
(* read the two flags differently.                                         *)
(***************************************************************************)
ListRoles(all, sig) ==
    {e.role : e \in {x \in rd.shown : x.sig = sig /\ (sig /\ ~x.joinable => all)}}

ListedByKind ==
    rd.pc = "done" /\ rd.op = "GetRoles" =>
        \A r \in kept \cap ShortName : roles[r]["Sig"] # Empty =>
            \A all, sig \in BOOLEAN :
                r \in ListRoles(all, sig) <=>
                    /\ IsSIG(roles[r]) = sig
                    /\ sig /\ ~IsJoinable(roles[r]) => all

(***************************************************************************)
(* A listing fails only if Redis failed, or over a key that was removed or *)
(* rewritten while it ran, or over a role whose filter is not there.       *)
(***************************************************************************)
FailureExplained ==
    rd.pc = "failed" /\ ~rd.broke =>
        \/ rd.item \notin kept
        \/ rd.op = "ListUserRoles" /\ ProperFilter \notin kept

(***************************************************************************)
(* ListMembers leaves out nobody whom Discord knows, and nobody at all as  *)
(* long as it has found none of the members.                               *)
(***************************************************************************)
OnlyStrangersOmitted ==
    rd.op = "ListMembers" =>
        /\ rd.omitted \cap rd.known = {}
        /\ rd.omitted # {} => rd.shown \cap rd.known # {}
=============================================================================
