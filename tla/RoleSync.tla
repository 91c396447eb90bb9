------------------------------ MODULE RoleSync ------------------------------
(***************************************************************************)
(* syncRoles: one pass makes the roles of the Discord guild follow the     *)
(* role hashes.  It lists the hashes and reads them one by one, asks the   *)
(* Discord gateway for the guild's roles, and then creates, deletes and    *)
(* edits roles, one call each, in the order Go iterates a map in: any.     *)
(* Request handlers write to the registry all the while.                   *)
(*                                                                         *)
(* The gateway is outside the repository.  Its list of roles may be cached *)
(* and lag behind the guild; its calls may fail, with or without effect.   *)
(***************************************************************************)
EXTENDS RoleTable, Integers

CONSTANTS
    Protected,   \* names syncRoles leaves alone: bot.botRole, @everyone and
                 \* bot.ignoredRoles
    Numeral,     \* the colours strconv.ParseInt accepts
    Zero,        \* the colour 0, which a new Discord role has
    NoRole,      \* no Discord role of that name
    MaxChanges,  \* bound: writes to the registry and changes made on Discord
    MaxFaults    \* bound: failures of Redis and of the gateway

ASSUME RoleSyncAssumption ==
    /\ Protected \subseteq DiscordName
    /\ Zero \in Numeral
    /\ Numeral \subseteq Color
    /\ NoRole \notin Numeral
    /\ MaxChanges \in Nat
    /\ MaxFaults \in Nat

VARIABLES
    guild,       \* the guild's roles by name: the colour, or NoRole
    cache,       \* the names the gateway lists
    pc,          \* where the pass is
    todo,        \* the hashes it still has to read
    chremoasRoleData,  \* the hashes to be synchronised, by their Name
    toAdd, toDelete, toUpdate,
    steady,      \* history: the pairs <<r, n>> such that role:r was to be
                 \* synchronised as n ever since the pass began
    ever,        \* history: the pairs <<n, c>> such that some hash asked for
                 \* the role n with the colour c while the pass read them
    alone,       \* history: nothing but the pass acted since it began
    quiet,       \* history: and the list that it got was current
    settled,     \* history: both are true of the pass before it, too
    fresh,       \* history: the roles it created
    changes, faults    \* for the bounds

passVars == <<pc, todo, chremoasRoleData, toAdd, toDelete, toUpdate>>
historyVars == <<steady, ever, alone, quiet, settled, fresh>>
vars == <<roles, guild, cache, passVars, historyVars, changes, faults>>

TypeOK ==
    /\ RolesTypeOK
    /\ guild \in [DiscordName -> Numeral \cup {NoRole}]
    /\ cache \subseteq DiscordName
    /\ pc \in {"idle", "list", "read", "add", "delete", "update", "done"}
    /\ todo \subseteq ShortName
    /\ chremoasRoleData \in [DiscordName -> Hash \cup {Absent}]
    /\ toAdd \subseteq DiscordName
    /\ toDelete \subseteq DiscordName
    /\ toUpdate \subseteq DiscordName
    /\ steady \subseteq ShortName \X DiscordName
    /\ ever \subseteq DiscordName \X Numeral
    /\ alone \in BOOLEAN
    /\ quiet \in BOOLEAN
    /\ settled \in BOOLEAN
    /\ fresh \subseteq DiscordName
    /\ changes \in 0..MaxChanges
    /\ faults \in 0..MaxFaults

NoData == [n \in DiscordName |-> Absent]

\* strconv.ParseInt with its error ignored.
ParseInt(s) == IF s \in Numeral THEN s ELSE Zero

InGuild == {n \in DiscordName : guild[n] # NoRole}

\* role:r is to be synchronised as the Discord role n.
Wants(r, n) ==
    /\ RoleExists(r)
    /\ roles[r]["Name"] = n
    /\ SyncedBySyncRoles(roles[r])

Wanted == {n \in DiscordName : \E r \in ShortName : Wants(r, n)}

AllWants == {p \in ShortName \X DiscordName : Wants(p[1], p[2])}

\* The attributes that hashes ask for the Discord role n.
Colours(n) == {ParseInt(roles[r]["Color"]) : r \in {x \in ShortName : Wants(x, n)}}

AllAsked == {p \in DiscordName \X Numeral : p[2] \in Colours(p[1])}

\* The service starts with what Redis and Discord held before.
Init ==
    /\ roles \in [ShortName -> {h \in RoleSpec : RequiredFields(h)} \cup {Absent}]
    /\ guild \in [DiscordName -> {Zero, NoRole}]
    /\ cache = InGuild
    /\ pc = "idle"
    /\ todo = {}
    /\ chremoasRoleData = NoData
    /\ toAdd = {} /\ toDelete = {} /\ toUpdate = {}
    /\ steady = {} /\ ever = {}
    /\ alone = FALSE /\ quiet = FALSE /\ settled = FALSE
    /\ fresh = {}
    /\ changes = 0
    /\ faults = 0

-----------------------------------------------------------------------------
(* The pass.  D_Mutant... is a plausible slip in D, with which the run is  *)
(* repeated to see that a property notices.                                *)

\* syncRoles returns: its variables are gone.
PassEnds ==
    /\ pc' = "done"
    /\ todo' = {}
    /\ chremoasRoleData' = NoData
    /\ toAdd' = {} /\ toDelete' = {} /\ toUpdate' = {}
    /\ steady' = {} /\ ever' = {}

\* The pass is not alone any more.
Disturbed == alone' = FALSE /\ quiet' = FALSE /\ settled' = FALSE

\* Some Redis or gateway call fails and syncRoles returns the error.
Fails ==
    /\ faults < MaxFaults
    /\ faults' = faults + 1
    /\ Disturbed
    /\ PassEnds

\* syncThread waits in the receive: a pass begins only when somebody has asked
\* for one, whatever became of the pass before.
Receive ==
    /\ pc = "idle"
    /\ pc' = "list"
    /\ UNCHANGED <<roles, guild, cache, todo, chremoasRoleData, toAdd, toDelete,
                   toUpdate, historyVars, changes, faults>>

\* getRoles: KEYS role:*
ListHashes ==
    /\ pc = "list"
    /\ pc' = "read"
    /\ todo' = getRoles
    /\ chremoasRoleData' = NoData
    /\ toAdd' = {} /\ toDelete' = {} /\ toUpdate' = {}
    /\ steady' = AllWants
    /\ ever' = AllAsked
    /\ alone' = TRUE /\ quiet' = TRUE
    /\ fresh' = {}
    /\ UNCHANGED <<roles, guild, cache, settled, changes, faults>>

\* Roles that are not to be synchronised are not told apart.
ReadHash_MutantAnySync(r) ==
    /\ pc = "read"
    /\ r \in todo
    /\ todo' = todo \ {r}
    /\ LET c == HGetAll(r) IN
       chremoasRoleData' = IF c["Name"] # Empty
                           THEN [chremoasRoleData EXCEPT ![c["Name"]] = c]
                           ELSE chremoasRoleData
    /\ UNCHANGED <<roles, guild, cache, pc, toAdd, toDelete, toUpdate,
                   historyVars, changes, faults>>

\* HGETALL of one listed role.  If two hashes have one Name the later one
\* read is kept; a hash without a Name (or one that is gone) adds nothing.
ReadHash(r) ==
    /\ pc = "read"
    /\ r \in todo
    /\ todo' = todo \ {r}
    /\ LET c == HGetAll(r) IN
       chremoasRoleData' =
          IF SyncedBySyncRoles(c) /\ c["Name"] # Empty
          THEN [chremoasRoleData EXCEPT ![c["Name"]] = c]
          ELSE chremoasRoleData
    /\ UNCHANGED <<roles, guild, cache, pc, toAdd, toDelete, toUpdate,
                   historyVars, changes, faults>>

chremoasRoleSet == {n \in DiscordName : chremoasRoleData[n] # Absent}

\* The list may lag behind the guild: the pass may still be alone then.
ListCurrent ==
    /\ quiet' = (quiet /\ cache = InGuild)
    /\ settled' = (settled /\ cache = InGuild)
    /\ UNCHANGED alone

\* The protected names are not taken out of the list.
GetAllRoles_MutantIgnoreNobody ==
    /\ pc = "read" /\ todo = {}
    /\ toAdd' = chremoasRoleSet \ cache
    /\ toDelete' = cache \ chremoasRoleSet
    /\ toUpdate' = cache \cap chremoasRoleSet
    /\ ListCurrent
    /\ pc' = "add"
    /\ UNCHANGED <<roles, guild, cache, todo, chremoasRoleData, steady, ever,
                   fresh, changes, faults>>

\* The pass works with the hashes it has read when the list comes back early.
GetAllRoles_MutantPartial ==
    /\ pc = "read"
    /\ LET discordRoleSet == cache \ Protected IN
          /\ toAdd' = chremoasRoleSet \ discordRoleSet
          /\ toDelete' = discordRoleSet \ chremoasRoleSet
          /\ toUpdate' = discordRoleSet \cap chremoasRoleSet
    /\ ListCurrent
    /\ pc' = "add"
    /\ UNCHANGED <<roles, guild, cache, todo, chremoasRoleData, steady, ever,
                   fresh, changes, faults>>

\* Only the roles that are about to be created get their attributes.
GetAllRoles_MutantUpdateNew ==
    /\ pc = "read" /\ todo = {}
    /\ LET discordRoleSet == cache \ Protected IN
          /\ toAdd' = chremoasRoleSet \ discordRoleSet
          /\ toDelete' = discordRoleSet \ chremoasRoleSet
          /\ toUpdate' = chremoasRoleSet \ discordRoleSet
    /\ ListCurrent
    /\ pc' = "add"
    /\ UNCHANGED <<roles, guild, cache, todo, chremoasRoleData, steady, ever,
                   fresh, changes, faults>>

\* GetAllRoles: what the gateway lists, without the protected names, is
\* compared with what was read.  A protected name is not taken out of the
\* other side.
GetAllRoles ==
    /\ pc = "read" /\ todo = {}
    /\ LET discordRoleSet == cache \ Protected IN
          /\ toAdd' = chremoasRoleSet \ discordRoleSet
          /\ toDelete' = discordRoleSet \ chremoasRoleSet
          /\ toUpdate' = discordRoleSet \cap chremoasRoleSet
    /\ ListCurrent
    /\ pc' = "add"
    /\ UNCHANGED <<roles, guild, cache, todo, chremoasRoleData, steady, ever,
                   fresh, changes, faults>>

\* "already exists" ends the pass like any other error.
CreateRole_MutantBail(n) ==
    /\ pc = "add"
    /\ n \in toAdd
    /\ IF guild[n] = NoRole
       THEN /\ guild' = [guild EXCEPT ![n] = Zero]
            /\ fresh' = fresh \cup {n}
            /\ toAdd' = toAdd \ {n}
            /\ UNCHANGED <<pc, todo, chremoasRoleData, toDelete, toUpdate,
                           steady, ever>>
       ELSE PassEnds /\ UNCHANGED <<guild, fresh>>
    /\ UNCHANGED <<roles, cache, alone, quiet, settled, changes, faults>>

\* A role that exists already is created anew.
CreateRole_MutantAnew(n) ==
    /\ pc = "add"
    /\ n \in toAdd
    /\ guild' = [guild EXCEPT ![n] = Zero]
    /\ fresh' = fresh \cup {n}
    /\ toAdd' = toAdd \ {n}
    /\ UNCHANGED <<roles, cache, pc, todo, chremoasRoleData, toDelete, toUpdate,
                   steady, ever, alone, quiet, settled, changes, faults>>

\* CreateRole sends the name only.  A role that exists already, which the
\* list did not show, is passed over.
CreateRole(n) ==
    /\ pc = "add"
    /\ n \in toAdd
    /\ IF guild[n] = NoRole
       THEN guild' = [guild EXCEPT ![n] = Zero] /\ fresh' = fresh \cup {n}
       ELSE UNCHANGED <<guild, fresh>>
    /\ toAdd' = toAdd \ {n}
    /\ UNCHANGED <<roles, cache, pc, todo, chremoasRoleData, toDelete, toUpdate,
                   steady, ever, alone, quiet, settled, changes, faults>>

AddsDone ==
    /\ pc = "add" /\ toAdd = {}
    /\ pc' = "delete"
    /\ UNCHANGED <<roles, guild, cache, todo, chremoasRoleData, toAdd, toDelete,
                   toUpdate, historyVars, changes, faults>>

\* DeleteRole of a role that is not there any more is an error, which ends
\* the pass.
DeleteRole(n) ==
    /\ pc = "delete"
    /\ n \in toDelete
    /\ IF guild[n] # NoRole
       THEN /\ guild' = [guild EXCEPT ![n] = NoRole]
            /\ toDelete' = toDelete \ {n}
            /\ UNCHANGED <<pc, todo, chremoasRoleData, toAdd, toUpdate,
                           steady, ever>>
       ELSE PassEnds /\ UNCHANGED guild
    /\ UNCHANGED <<roles, cache, alone, quiet, settled, fresh, changes, faults>>

DeletesDone ==
    /\ pc = "delete" /\ toDelete = {}
    /\ pc' = "update"
    /\ UNCHANGED <<roles, guild, cache, todo, chremoasRoleData, toAdd, toDelete,
                   toUpdate, historyVars, changes, faults>>

\* The colour is sent as it was stored.
EditRole_MutantRaw(n) ==
    /\ pc = "update"
    /\ n \in toUpdate
    /\ guild' = [guild EXCEPT ![n] = chremoasRoleData[n]["Color"]]
    /\ toUpdate' = toUpdate \ {n}
    /\ UNCHANGED <<pc, todo, chremoasRoleData, toAdd, toDelete>>
    /\ UNCHANGED <<roles, cache, historyVars, changes, faults>>

\* EditRole writes the attributes that were read at the beginning.
EditRole(n) ==
    /\ pc = "update"
    /\ n \in toUpdate
    /\ IF guild[n] # NoRole
       THEN /\ guild' = [guild EXCEPT ![n] = ParseInt(chremoasRoleData[n]["Color"])]
            /\ toUpdate' = toUpdate \ {n}
            /\ UNCHANGED <<pc, todo, chremoasRoleData, toAdd, toDelete,
                           steady, ever>>
       ELSE PassEnds /\ UNCHANGED guild
    /\ UNCHANGED <<roles, cache, alone, quiet, settled, fresh, changes, faults>>

UpdatesDone ==
    /\ pc = "update" /\ toUpdate = {}
    /\ PassEnds
    /\ UNCHANGED <<roles, guild, cache, alone, quiet, settled, fresh, changes,
                   faults>>

\* Any call may fail, and a gateway call may fail after it took effect.
CallFails ==
    /\ pc \in {"list", "read", "add", "delete", "update"}
    /\ Fails
    /\ \/ UNCHANGED guild
       \/ pc = "add" /\ \E n \in toAdd :
            guild[n] = NoRole /\ guild' = [guild EXCEPT ![n] = Zero]
       \/ pc = "delete" /\ \E n \in toDelete :
            guild' = [guild EXCEPT ![n] = NoRole]
       \/ pc = "update" /\ \E n \in toUpdate :
            /\ guild[n] # NoRole
            /\ guild' = [guild EXCEPT ![n] = ParseInt(chremoasRoleData[n]["Color"])]
    /\ UNCHANGED <<roles, cache, fresh, changes>>

\* syncThread has gone on, whether the pass failed or not, and waits for the
\* next request.  Nothing is retried.
Again ==
    /\ pc = "done"
    /\ pc' = "idle"
    /\ alone' = FALSE /\ quiet' = FALSE /\ settled' = quiet
    /\ fresh' = {}
    /\ UNCHANGED <<roles, guild, cache, todo, chremoasRoleData, toAdd, toDelete,
                   toUpdate, steady, ever, changes, faults>>

-----------------------------------------------------------------------------
(* The surroundings.                                                       *)

\* A request handler writes to the registry.
HandlerWrites ==
    /\ changes < MaxChanges
    /\ changes' = changes + 1
    /\ RoleWrite
    /\ steady' = steady \cap AllWants'
    /\ ever' = IF pc = "read" THEN ever \cup AllAsked' ELSE ever
    /\ Disturbed
    /\ UNCHANGED <<guild, cache, passVars, fresh, faults>>

\* Somebody creates or deletes a role on Discord itself.
GuildChanges ==
    /\ changes < MaxChanges
    /\ changes' = changes + 1
    /\ \E n \in DiscordName :
          guild' = [guild EXCEPT ![n] = IF @ = NoRole THEN Zero ELSE NoRole]
    /\ Disturbed
    /\ UNCHANGED <<roles, cache, passVars, steady, ever, fresh, faults>>

\* The gateway's list catches up.
CacheRefreshes ==
    /\ cache # InGuild
    /\ cache' = InGuild
    /\ UNCHANGED <<roles, guild, passVars, historyVars, changes, faults>>

\* What syncThread does by itself once it has received a request.
PassStep ==
    \/ ListHashes
    \/ \E r \in ShortName : ReadHash(r)
    \/ GetAllRoles
    \/ \E n \in DiscordName : CreateRole(n) \/ DeleteRole(n) \/ EditRole(n)
    \/ AddsDone \/ DeletesDone \/ UpdatesDone
    \/ Again

Pass == Receive \/ PassStep

Next == Pass \/ CallFails \/ HandlerWrites \/ GuildChanges \/ CacheRefreshes

Spec == Init /\ [][Next]_vars

\* A pass that has begun goes on, and the gateway does not serve one list for
\* ever.  Nobody is obliged to ask for a pass: Receive has no fairness.
FairSpec == Spec /\ WF_vars(PassStep) /\ WF_vars(CacheRefreshes)

-----------------------------------------------------------------------------
(***************************************************************************)
(* However the registry is written to during a pass, the pass never sets   *)
(* out to delete the Discord role of a role that was to be synchronised    *)
(* under that name from its beginning until now.                           *)
(***************************************************************************)
SteadyRoleKept ==
    \A p \in steady : pc \in {"add", "delete", "update"} => p[2] \notin toDelete

(***************************************************************************)
(* A pass that nothing disturbed (no write, no change on Discord, no       *)
(* failure, a current list) leaves the guild with exactly the wanted roles *)
(* beside the protected ones, each with the attributes of one of its       *)
(* hashes, but for those it created: they wait for the next pass.          *)
(***************************************************************************)
QuietPassConverges ==
    pc = "done" /\ quiet =>
        \A n \in DiscordName \ Protected :
            /\ n \in InGuild <=> n \in Wanted
            /\ n \in Wanted \ fresh => guild[n] \in Colours(n)

(***************************************************************************)
(* What a pass writes was asked for.  Each role it creates, and each       *)
(* colour it gives to a role, is one that some hash asked for at a moment  *)
(* when the pass was reading the hashes: however handlers write meanwhile, *)
(* nothing is invented and nothing of an earlier pass is left over.        *)
(***************************************************************************)
PassJustified ==
    [][Pass => \A n \in DiscordName : guild'[n] \notin {guild[n], NoRole} =>
          IF guild[n] = NoRole THEN \E c \in Numeral : <<n, c>> \in ever
          ELSE <<n, guild'[n]>> \in ever]_vars

(***************************************************************************)
(* syncRoles never deletes or edits a protected role, not even when a role *)
(* hash has its name.                                                      *)
(***************************************************************************)
ProtectedUntouched ==
    [][Pass => \A n \in Protected : guild[n] # NoRole => guild'[n] = guild[n]]_vars

(***************************************************************************)
(* Nothing but a request makes syncThread try again, and a pass that meets *)
(* an error stops where it is.  But if requests do not cease, then once    *)
(* the registry and the guild are left alone and calls succeed, the passes *)
(* bring the guild to the wanted roles with their attributes, and it stays *)
(* so.                                                                     *)
(***************************************************************************)
Converged ==
    \A n \in DiscordName \ Protected :
        /\ n \in InGuild <=> n \in Wanted
        /\ n \in Wanted => guild[n] \in Colours(n)

EventuallyConverged == []<><<Receive>>_vars => <>[]Converged

(***************************************************************************)
(* Two passes in a row that nothing disturbed are enough: the first brings *)
(* the names, the second the attributes of what the first created.         *)
(***************************************************************************)
TwoPassesConverge == pc = "done" /\ settled => Converged

(***************************************************************************)
(* And it stays so: no step of a pass that nothing disturbs, its calls in  *)
(* any order, takes the guild away from what is wanted, not even when the  *)
(* list it works with lags behind the guild.  It may then try to create a  *)
(* role that exists, or to delete one that is gone.                        *)
(***************************************************************************)
ConvergedStays == [][Pass /\ alone /\ Converged => Converged']_vars
=============================================================================
