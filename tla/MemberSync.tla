----------------------------- MODULE MemberSync -----------------------------
(***************************************************************************)
(* syncMembers: one pass gives the members of the Discord guild the roles  *)
(* that the registry says they have.  It pages through the members of the  *)
(* guild, lists the guild's roles, reads each role hash and its filters    *)
(* from Redis, and then overwrites the roles of the members that differ.   *)
(* Each action is one Redis command or one gateway call; request handlers  *)
(* and people on Discord act between any two of them.                      *)
(*                                                                         *)
(* The gateway is outside the repository.  Its list of roles may be cached *)
(* and lag behind the guild: it may lack a role that was just created, and *)
(* show one, with its old id, that was deleted.                            *)
(***************************************************************************)
EXTENDS Registry, Integers

CONSTANTS
    PageSize,    \* members per page (1000 in the code)
    NoSync,      \* the Redis set members:no_sync, which nothing here writes
    Ignored,     \* users whose name is in bot.ignoredRoles
    InitialRoles,    \* the roles that Redis may hold when the service starts
    InitialMembers,  \* what the filters may hold then
    InitialLists,    \* the names the gateway may list then
    MaxChanges,  \* bound: writes to the registry and changes made on Discord
    MaxFaults    \* bound: failing calls

ASSUME MemberSyncAssumption ==
    /\ User \subseteq Nat \ {0}
    /\ IsFiniteSet(User)
    /\ PageSize \in Nat \ {0}
    /\ NoSync \subseteq User
    /\ Ignored \subseteq User
    /\ Absent \notin ShortName
    /\ MaxChanges \in Nat
    /\ MaxFaults \in Nat

ASSUME InitialAssumption ==
    /\ InitialRoles \subseteq
          [ShortName -> {h \in RoleSpec : RequiredFields(h)} \cup {Absent}]
    /\ InitialMembers \subseteq [Filter -> SUBSET User]
    /\ InitialLists \subseteq SUBSET DiscordName

VARIABLES
    inGuild,     \* the members of the guild
    held,        \* held[u]: the Discord roles u has, by name
    guildRoles,  \* the roles of the guild, by name
    cache,       \* the names the gateway lists
    gone,        \* those of them whose role was deleted since: their id is dead
    pc,          \* the call the pass makes next
    memberId,    \* the highest id listed so far
    listed,      \* the users listed so far: the keys of discordMemberships
    discordMemberships,   \* the roles they had when they were listed
    roleNameMap, \* the names for which the pass knows a Discord role id
    deadIds,     \* those of them whose id is dead (kept till the next pass)
    todo,        \* the role hashes still to be read
    role,        \* the one being read
    filterPair,  \* the filters it names
    membership,  \* the users who pass them
    chremoasMemberships,  \* the roles users are to have, by name
    updateMembers,        \* the users still to be updated
    steady,      \* history: <<r, n, u>> such that since the pass began u was
                 \* entitled to n by role:r through the same two filters, and
                 \* n was a role of the guild
    unlisted,    \* history: the roles of the guild that the gateway's list
                 \* did not show when the pass asked for it
    ever,        \* history: <<n, u>> such that u was entitled to n at some time
    redefined,   \* history: a role hash was written since the pass began
    stayed,      \* history: the users in the guild ever since
    quiet,       \* history: nothing but the pass acted, and no call failed
    changes, faults    \* for the bounds

roleVars == <<guildRoles, cache, gone, deadIds>>
discordVars == <<inGuild, held, guildRoles, cache, gone, deadIds>>
listVars == <<memberId, listed, discordMemberships, roleNameMap>>
readVars == <<todo, role, filterPair, membership, chremoasMemberships>>
historyVars == <<steady, unlisted, ever, redefined, stayed, quiet>>
boundVars == <<changes, faults>>
vars == <<storeVars, discordVars, pc, listVars, readVars, updateMembers,
          historyVars, boundVars>>

Step == {"idle", "getAllMembers", "getAllRoles", "getRoles", "nextRole",
         "exists", "sync", "filters", "description", "smembers", "sinter",
         "existsAgain", "name", "update", "done", "failed"}

NoRoles == [u \in User |-> {}]

TypeOK ==
    /\ RegistryTypeOK
    /\ inGuild \subseteq User
    /\ held \in [User -> SUBSET DiscordName]
    /\ guildRoles \subseteq DiscordName
    /\ gone \subseteq cache /\ cache \subseteq DiscordName
    /\ pc \in Step
    /\ memberId \in User \cup {0}
    /\ listed \subseteq User
    /\ discordMemberships \in [User -> SUBSET DiscordName]
    /\ deadIds \subseteq DiscordName /\ roleNameMap \subseteq DiscordName
    /\ todo \subseteq ShortName
    /\ role \in ShortName \cup {Absent}
    /\ filterPair \in (Filter \cup {Empty}) \X (Filter \cup {Empty})
    /\ membership \subseteq User
    /\ chremoasMemberships \in [User -> SUBSET DiscordName]
    /\ updateMembers \subseteq listed
    /\ steady \subseteq ShortName \X DiscordName \X User
    /\ unlisted \subseteq DiscordName
    /\ ever \subseteq DiscordName \X User
    /\ redefined \in BOOLEAN
    /\ stayed \subseteq User
    /\ quiet \in BOOLEAN
    /\ changes \in 0..MaxChanges
    /\ faults \in 0..MaxFaults

\* u is entitled to the Discord role n by role:r.
Entitled(r, n, u) ==
    /\ RoleExists(r)
    /\ roles[r]["Name"] = n
    /\ ~SkippedBySyncMembers(roles[r])
    /\ u \in Membership(roles[r])

Entitlements == {t \in ShortName \X DiscordName \X User : Entitled(t[1], t[2], t[3])}

EntitledTo(u) == {n \in DiscordName : \E r \in ShortName : Entitled(r, n, u)}

Steady == {t \in Entitlements : t[2] \in guildRoles}
Ever == {<<t[2], t[3]>> : t \in Entitlements}

\* The service starts with what Redis holds.
Init ==
    /\ roles \in InitialRoles
    /\ filters = Filter \ {Wildcard}
    /\ members \in InitialMembers
    /\ inGuild = User
    /\ held = NoRoles
    /\ guildRoles = DiscordName
    /\ cache \in InitialLists /\ gone = {}
    /\ pc = "idle"
    /\ memberId = 0 /\ listed = {} /\ discordMemberships = NoRoles
    /\ roleNameMap = {} /\ deadIds = {}
    /\ todo = {} /\ role = Absent /\ filterPair = <<Empty, Empty>>
    /\ membership = {} /\ chremoasMemberships = NoRoles
    /\ updateMembers = {}
    /\ steady = {} /\ unlisted = {} /\ ever = {} /\ redefined = FALSE
    /\ stayed = {} /\ quiet = FALSE
    /\ changes = 0 /\ faults = 0

-----------------------------------------------------------------------------
(* The list of members.  D_Mutant... is a plausible slip in D, with which  *)
(* the run is repeated to see that a property notices.                     *)

GoTo(step) == pc' = step

\* syncMembers returns: its variables are gone.
PassEnds(step) ==
    /\ GoTo(step)
    /\ memberId' = 0 /\ listed' = {} /\ discordMemberships' = NoRoles
    /\ roleNameMap' = {}
    /\ todo' = {} /\ role' = Absent /\ filterPair' = <<Empty, Empty>>
    /\ membership' = {} /\ chremoasMemberships' = NoRoles
    /\ updateMembers' = {}

\* syncThread, which waits in the receive, has got a request: nothing else makes
\* a pass begin.
Begin ==
    /\ pc = "idle"
    /\ GoTo("getAllMembers")
    /\ steady' = Steady /\ unlisted' = {} /\ ever' = Ever /\ redefined' = FALSE
    /\ stayed' = inGuild /\ quiet' = TRUE
    /\ UNCHANGED <<storeVars, discordVars, listVars, readVars, updateMembers,
                   boundVars>>

\* What the gateway returns for After = id: the next members in order of id.
Page(id) ==
    {u \in inGuild : u > id /\ Cardinality({v \in inGuild : id < v /\ v < u}) < PageSize}

Highest(S) == CHOOSE u \in S : \A v \in S : v <= u

\* The pages are counted off instead of following the ids.
GetAllMembers_MutantOffset ==
    /\ pc = "getAllMembers"
    /\ LET before(u) == Cardinality({v \in inGuild : v < u})
           page == {u \in inGuild : before(u) \in memberId..(memberId + PageSize - 1)}
       IN
       IF page = {}
       THEN GoTo("getAllRoles") /\ UNCHANGED listVars
       ELSE /\ listed' = listed \cup page
            /\ discordMemberships' =
                 [u \in User |-> IF u \in page THEN discordMemberships[u] \cup held[u]
                                 ELSE discordMemberships[u]]
            /\ memberId' = memberId + Cardinality(page)
            /\ UNCHANGED <<pc, roleNameMap>>
    /\ UNCHANGED <<storeVars, discordVars, readVars, updateMembers, historyVars,
                   boundVars>>

\* An empty page is taken for an error.
GetAllMembers_MutantEmptyFails ==
    /\ pc = "getAllMembers"
    /\ LET page == Page(memberId) IN
       IF page = {}
       THEN PassEnds("failed")
       ELSE /\ listed' = listed \cup page
            /\ memberId' = Highest(page)
            /\ UNCHANGED <<pc, discordMemberships, roleNameMap, readVars,
                           updateMembers>>
    /\ UNCHANGED <<storeVars, discordVars, historyVars, boundVars>>

\* One page; an empty one ends the loop.
GetAllMembers ==
    /\ pc = "getAllMembers"
    /\ LET page == Page(memberId) IN
       IF page = {}
       THEN GoTo("getAllRoles") /\ UNCHANGED listVars
       ELSE /\ listed' = listed \cup page
            /\ discordMemberships' =
                 [u \in User |-> IF u \in page THEN discordMemberships[u] \cup held[u]
                                 ELSE discordMemberships[u]]
            /\ memberId' = Highest(page)
            /\ UNCHANGED <<pc, roleNameMap>>
    /\ UNCHANGED <<storeVars, discordVars, readVars, updateMembers, historyVars,
                   boundVars>>

\* The names and ids that the gateway lists, whether they are current or not.
GetAllRoles ==
    /\ pc = "getAllRoles"
    /\ roleNameMap' = cache
    /\ deadIds' = gone
    /\ unlisted' = guildRoles \ cache
    /\ GoTo("getRoles")
    /\ UNCHANGED <<storeVars, inGuild, held, guildRoles, cache, gone, memberId,
                   listed, discordMemberships, readVars, updateMembers, steady,
                   ever, redefined, stayed, quiet, boundVars>>

-----------------------------------------------------------------------------
(* The role hashes, one after the other.                                   *)

\* getRoles: KEYS role:*
ListHashes ==
    /\ pc = "getRoles"
    /\ todo' = getRoles
    /\ GoTo("nextRole")
    /\ UNCHANGED <<storeVars, discordVars, listVars, role, filterPair, membership,
                   chremoasMemberships, updateMembers, historyVars, boundVars>>

NextRole(r) ==
    /\ pc = "nextRole"
    /\ r \in todo
    /\ todo' = todo \ {r}
    /\ role' = r
    /\ GoTo("exists")
    /\ UNCHANGED <<storeVars, discordVars, listVars, filterPair, membership,
                   chremoasMemberships, updateMembers, historyVars, boundVars>>

\* A step of the pass that reads Redis and only decides how, and whether, to go
\* on.
Probe(here, next) ==
    /\ pc = here
    /\ IF next = "failed" THEN PassEnds(next)
       ELSE GoTo(next) /\ UNCHANGED <<listVars, readVars, updateMembers>>
    /\ UNCHANGED <<storeVars, discordVars, historyVars, boundVars>>

\* getRole, for the field Sync: EXISTS, then HGETALL.  A role that is gone
\* ends the pass at the first, and has no Sync at the second.
SyncExists == Probe("exists", IF RoleExists(role) THEN "sync" ELSE "failed")

ReadSync_MutantNeverSkip == Probe("sync", "filters")

ReadSync == Probe("sync", IF SkippedBySyncMembers(HGetAll(role))
                          THEN "nextRole" ELSE "filters")

\* getRoleMembership: HGETALL ...
ReadFilters ==
    /\ pc = "filters"
    /\ LET h == HGetAll(role) IN
          /\ filterPair' = <<h["FilterA"], h["FilterB"]>>
          /\ GoTo(IF Wildcard \in {h["FilterA"], h["FilterB"]}
                  THEN "description" ELSE "sinter")
    /\ UNCHANGED <<storeVars, discordVars, listVars, todo, role, membership,
                   chremoasMemberships, updateMembers, historyVars, boundVars>>

\* ... the filter that counts when the other is the wildcard ...
ProperFilter == IF filterPair[2] = Wildcard THEN filterPair[1] ELSE filterPair[2]

\* ... must have a description, or the pass ends ...
ReadDescription ==
    Probe("description", IF ProperFilter \in filters THEN "smembers" ELSE "failed")

SetMembership(here, set) ==
    /\ pc = here
    /\ membership' = set
    /\ GoTo("existsAgain")
    /\ UNCHANGED <<storeVars, discordVars, listVars, todo, role, filterPair,
                   chremoasMemberships, updateMembers, historyVars, boundVars>>

\* ... SMEMBERS, or SINTER of both.
ReadMembers == SetMembership("smembers", MembersOf(ProperFilter))

ReadIntersection_MutantUnion ==
    SetMembership("sinter", MembersOf(filterPair[1]) \cup MembersOf(filterPair[2]))

ReadIntersection ==
    SetMembership("sinter", MembersOf(filterPair[1]) \cap MembersOf(filterPair[2]))

\* getRole again, for the field Name.
NameExists == Probe("existsAgain", IF RoleExists(role) THEN "name" ELSE "failed")

\* The set a user has collected is replaced.
ReadName_MutantOverwrite ==
    /\ pc = "name"
    /\ LET name == HGetAll(role)["Name"] IN
       chremoasMemberships' =
          [u \in User |-> IF u \in membership THEN {name} \ {Empty}
                          ELSE chremoasMemberships[u]]
    /\ membership' = {}
    /\ role' = Absent
    /\ filterPair' = <<Empty, Empty>>
    /\ GoTo("nextRole")
    /\ UNCHANGED <<storeVars, discordVars, listVars, todo, updateMembers,
                   historyVars, boundVars>>

\* The empty name is taken for a name.
ReadName_MutantEmptyName ==
    /\ pc = "name"
    /\ chremoasMemberships' =
          [u \in User |-> IF u \in membership
                          THEN chremoasMemberships[u] \cup {HGetAll(role)["Name"]}
                          ELSE chremoasMemberships[u]]
    /\ membership' = {}
    /\ role' = Absent
    /\ filterPair' = <<Empty, Empty>>
    /\ GoTo("nextRole")
    /\ UNCHANGED <<storeVars, discordVars, listVars, todo, updateMembers,
                   historyVars, boundVars>>

\* StringSet.Add ignores the empty name.
ReadName ==
    /\ pc = "name"
    /\ LET name == HGetAll(role)["Name"] IN
       chremoasMemberships' =
          [u \in User |-> IF u \in membership
                          THEN chremoasMemberships[u] \cup ({name} \ {Empty})
                          ELSE chremoasMemberships[u]]
    /\ membership' = {}
    /\ role' = Absent
    /\ filterPair' = <<Empty, Empty>>
    /\ GoTo("nextRole")
    /\ UNCHANGED <<storeVars, discordVars, listVars, todo, updateMembers,
                   historyVars, boundVars>>

-----------------------------------------------------------------------------
(* The updates.                                                            *)

\* The listed users whose roles differ.  updateMembers gets a key only when
\* there is a role to put under it: users who are to have none are left out.
Compare ==
    /\ pc = "nextRole" /\ todo = {}
    /\ updateMembers' = {u \in listed \ Ignored :
                            /\ chremoasMemberships[u] # discordMemberships[u]
                            /\ chremoasMemberships[u] # {}}
    /\ GoTo("update")
    /\ UNCHANGED <<storeVars, discordVars, listVars, readVars, historyVars,
                   boundVars>>

\* The ids that UpdateMember sends for u.  A name without an id is dropped: if
\* the list did not show that role of the guild yet, u loses it.
RoleIds(u) == chremoasMemberships[u] \cap roleNameMap

\* SISMEMBER members:no_sync, then UpdateMember, which replaces all the roles
\* the member has.  It is refused when the user is gone or one of the ids is
\* dead; that error is logged and the loop goes on.
UpdateMember(u) ==
    /\ pc = "update"
    /\ u \in updateMembers
    /\ updateMembers' = updateMembers \ {u}
    /\ held' = IF u \in inGuild \ NoSync /\ RoleIds(u) \cap deadIds = {}
               THEN [held EXCEPT ![u] = RoleIds(u)] ELSE held
    /\ UNCHANGED <<storeVars, inGuild, roleVars, pc, listVars, readVars,
                   historyVars, boundVars>>

\* Either call fails, with or without effect.  The error of SISMEMBER is
\* dropped, and its answer is then false.
UpdateFails(u) ==
    /\ pc = "update"
    /\ u \in updateMembers
    /\ faults < MaxFaults
    /\ faults' = faults + 1
    /\ quiet' = FALSE
    /\ updateMembers' = updateMembers \ {u}
    /\ \/ UNCHANGED held
       \/ /\ u \in inGuild /\ RoleIds(u) \cap deadIds = {}
          /\ held' = [held EXCEPT ![u] = RoleIds(u)]
    /\ UNCHANGED <<storeVars, inGuild, roleVars, pc, listVars, readVars,
                   steady, unlisted, ever, redefined, stayed, changes>>

UpdatesDone ==
    /\ pc = "update" /\ updateMembers = {}
    /\ PassEnds("done")
    /\ UNCHANGED <<storeVars, discordVars, historyVars, boundVars>>

\* Any earlier call may fail, and ends the pass.
CallFails ==
    /\ pc \notin {"idle", "nextRole", "update", "done", "failed"}
    /\ faults < MaxFaults
    /\ faults' = faults + 1
    /\ PassEnds("failed")
    /\ quiet' = FALSE
    /\ UNCHANGED <<storeVars, discordVars, steady, unlisted, ever, redefined,
                   stayed, changes>>

\* syncThread has gone on, whether the pass failed or not, and waits for the
\* next request.  Nothing is retried.
Again ==
    /\ pc \in {"done", "failed"}
    /\ GoTo("idle")
    /\ deadIds' = {}
    /\ steady' = {} /\ unlisted' = {} /\ ever' = {} /\ redefined' = FALSE
    /\ stayed' = {} /\ quiet' = FALSE
    /\ UNCHANGED <<storeVars, inGuild, held, guildRoles, cache, gone, listVars,
                   readVars, updateMembers, boundVars>>

-----------------------------------------------------------------------------
(* The surroundings.                                                       *)

SameFilters(r) ==
    \A k \in {"FilterA", "FilterB"} : HGetAll(r)'[k] = HGetAll(r)[k]

Disturbed ==
    /\ changes < MaxChanges
    /\ changes' = changes + 1
    /\ quiet' = FALSE
    /\ steady' = {t \in steady \cap Steady' : SameFilters(t[1])}
    /\ ever' = IF pc = "idle" THEN {} ELSE ever \cup Ever'
    /\ stayed' = stayed \cap inGuild'
    /\ redefined' = (redefined \/ (pc # "idle" /\ roles' # roles))
    /\ UNCHANGED <<pc, listVars, readVars, updateMembers, unlisted, faults>>

\* A request handler writes to the registry.
HandlerWrites ==
    /\ RegistryWrite
    /\ UNCHANGED discordVars
    /\ Disturbed

\* Somebody joins or leaves, is given a role by hand, or a role is deleted or
\* created, with a new id.
GuildChanges ==
    /\ \/ \E u \in User \ inGuild :
             inGuild' = inGuild \cup {u} /\ UNCHANGED <<held, roleVars>>
       \/ \E u \in inGuild :
             /\ inGuild' = inGuild \ {u}
             /\ held' = [held EXCEPT ![u] = {}]
             /\ UNCHANGED roleVars
       \/ \E u \in inGuild, n \in guildRoles :
             /\ held' = [held EXCEPT ![u] = @ \cup {n}]
             /\ UNCHANGED <<inGuild, roleVars>>
       \/ \E n \in guildRoles :
             /\ guildRoles' = guildRoles \ {n}
             /\ held' = [u \in User |-> held[u] \ {n}]
             /\ gone' = gone \cup ({n} \cap cache)
             /\ deadIds' = deadIds \cup ({n} \cap roleNameMap)
             /\ UNCHANGED <<inGuild, cache>>
       \/ \E n \in DiscordName \ guildRoles :
             /\ guildRoles' = guildRoles \cup {n}
             /\ UNCHANGED <<inGuild, held, cache, gone, deadIds>>
    /\ UNCHANGED storeVars
    /\ Disturbed

\* The gateway's list catches up.
CacheRefreshes ==
    /\ cache # guildRoles \/ gone # {}
    /\ cache' = guildRoles /\ gone' = {}
    /\ UNCHANGED <<storeVars, inGuild, held, guildRoles, deadIds, pc, listVars,
                   readVars, updateMembers, historyVars, boundVars>>

\* What syncThread does by itself once it has received a request.
PassStep ==
    \/ GetAllMembers \/ GetAllRoles
    \/ ListHashes \/ (\E r \in ShortName : NextRole(r))
    \/ SyncExists \/ ReadSync \/ ReadFilters \/ ReadDescription
    \/ ReadMembers \/ ReadIntersection \/ NameExists \/ ReadName
    \/ Compare \/ (\E u \in User : UpdateMember(u)) \/ UpdatesDone
    \/ Again

Pass == Begin \/ PassStep

Next ==
    \/ Pass
    \/ CallFails \/ (\E u \in User : UpdateFails(u))
    \/ HandlerWrites \/ GuildChanges \/ CacheRefreshes

Spec == Init /\ [][Next]_vars

\* A pass that has begun goes on, and the gateway does not serve one list for
\* ever.  Nobody is obliged to ask for a pass: Begin has no fairness.
FairSpec == Spec /\ WF_vars(PassStep) /\ WF_vars(CacheRefreshes)

-----------------------------------------------------------------------------
(***************************************************************************)
(* Paging misses nobody: a user who was in the guild from the beginning of *)
(* the pass until now is listed once the list is complete, whoever joins   *)
(* or leaves between two pages.                                            *)
(***************************************************************************)
Listing == pc \in {"idle", "getAllMembers", "done", "failed"}

NobodyMissed == ~Listing => stayed \subseteq listed

(***************************************************************************)
(* When the updates are made, no user loses a role to which one role hash  *)
(* entitled him, through the same two filters, from the beginning of the   *)
(* pass until now, whatever else was written to the registry meanwhile,    *)
(* but for a role that the gateway's list did not show yet.  (If the hash  *)
(* gets other filters, the pass may still ask the old ones.)               *)
(***************************************************************************)
SteadyGrantKept ==
    pc = "update" =>
        \A t \in steady : /\ t[2] \in chremoasMemberships[t[3]]
                          /\ t[2] \in roleNameMap \cup unlisted

(***************************************************************************)
(* A user gets a role only if at some moment of the pass he was entitled   *)
(* to it, unless a role hash was rewritten: the filters of a role and its  *)
(* Name are read at different times.                                       *)
(***************************************************************************)
GrantJustified ==
    ~redefined => \A u \in User : \A n \in chremoasMemberships[u] : <<n, u>> \in ever

(***************************************************************************)
(* After a pass that nothing disturbed, every member who is to have roles, *)
(* and whom the pass may touch, has exactly those that the guild has.  A   *)
(* lagging list can only take away what it does not show, or, with a dead  *)
(* id, make the update fail.  And such a pass gives up only over a role    *)
(* that cannot be resolved, which is to be synchronised, has the wildcard  *)
(* as a filter, and whose other filter has no description.  Any two        *)
(* filters without the wildcard, or none, are just intersected.            *)
(***************************************************************************)
InStep(u) == held[u] = EntitledTo(u) \cap guildRoles

InStepAsListed(u) == held[u] = (EntitledTo(u) \cap guildRoles) \ unlisted

MayTouch == inGuild \ (NoSync \cup Ignored)

Unresolvable(h) ==
    /\ ~SkippedBySyncMembers(h)
    /\ \/ h["FilterB"] = Wildcard /\ h["FilterA"] \notin filters
       \/ h["FilterA"] = Wildcard /\ h["FilterB"] \notin filters

Blocked == \E r \in ShortName : RoleExists(r) /\ Unresolvable(roles[r])

QuietPassConverges ==
    quiet =>
        /\ pc = "failed" => Blocked
        /\ pc = "done" =>
              \A u \in MayTouch : EntitledTo(u) # {} =>
                  InStep(u) \/ InStepAsListed(u) \/ EntitledTo(u) \cap deadIds # {}

(***************************************************************************)
(* And it does nothing else: whenever an undisturbed pass changes the      *)
(* roles of a user, he is a member whom it may touch, and from then on he  *)
(* has exactly those he is entitled to that the list showed.  So there is  *)
(* no moment of the pass at which it takes somebody out of step whom the   *)
(* list does not.                                                          *)
(***************************************************************************)
QuietUpdatesExact ==
    [][Pass /\ quiet => \A u \in User : held'[u] # held[u] =>
          u \in MayTouch /\ InStepAsListed(u)']_vars

(***************************************************************************)
(* If requests do not cease (nothing else makes the service try again),    *)
(* then once the registry and the guild are left alone and calls succeed,  *)
(* those members are brought into step and stay so, unless some role that  *)
(* is to be synchronised cannot be resolved: then every pass ends at it.   *)
(***************************************************************************)
EventuallyInStep ==
    []<><<Begin>>_vars =>
        <>[](Blocked \/ \A u \in MayTouch : EntitledTo(u) # {} => InStep(u))

(***************************************************************************)
(* What the comment on the list of members says ("so we can pick up users  *)
(* with no roles"): after such a pass a member who is to have no role has  *)
(* none.                                                                   *)
(***************************************************************************)
UsersWithNoRolesPickedUp ==
    pc = "done" /\ quiet =>
        \A u \in MayTouch : EntitledTo(u) = {} => held[u] = {}

(***************************************************************************)
(* What the comment on members:no_sync says ("Don't sync people who we     *)
(* don't want to mess with"): a pass never changes the roles of its users. *)
(***************************************************************************)
NoSyncRespected ==
    [][Pass \/ CallFails \/ (\E v \in User : UpdateFails(v)) =>
          \A u \in NoSync : held'[u] = held[u]]_vars

(***************************************************************************)
(* What the changelog says was fixed ("roles set to not sync but members   *)
(* were trying to sync them anyway"): the member pass asks only for roles  *)
(* that the role pass synchronises.                                        *)
(***************************************************************************)
OnlySyncedRolesGranted ==
    pc = "update" /\ quiet =>
        \A u \in User : \A n \in chremoasMemberships[u] :
            \E r \in ShortName :
                /\ RoleExists(r)
                /\ roles[r]["Name"] = n
                /\ SyncedBySyncRoles(roles[r])
=============================================================================
