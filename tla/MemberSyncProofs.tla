-------------------------- MODULE MemberSyncProofs --------------------------
(***************************************************************************)
(* Safety of the member pass for every guild, registry, page size and      *)
(* bound.                                                                  *)
(***************************************************************************)
EXTENDS MemberSync, RoleTableProofs, FiniteSetTheorems

(***************************************************************************)
(* The pages.  A non-empty finite set of ids has a highest and a lowest    *)
(* one, so a page that is empty means that nobody is left.                 *)
(***************************************************************************)

(* The loop of syncMembers can go on from the highest id of a page.        *)
LEMMA HighestIs ==
  ASSUME NEW S \in SUBSET User, S # {}
  PROVE  Highest(S) \in S /\ \A v \in S : v <= Highest(S)
  <1> DEFINE Above(u) == {v \in S : u < v}
             T == {Above(u) : u \in S}
  <1>1. S \subseteq Nat /\ IsFiniteSet(S)
    BY MemberSyncAssumption, FS_Subset
  <1>2. T \subseteq FiniteSubsetsOf(S) /\ T # {}
    <2>1. ASSUME NEW u \in S
          PROVE  Above(u) \in SUBSET S /\ IsFiniteSet(Above(u))
      <3>1. Above(u) \in SUBSET S
        OBVIOUS
      <3> HIDE DEF Above
      <3> QED BY <1>1, <3>1, FS_Subset
    <2> HIDE DEF Above
    <2> QED BY <2>1 DEF FiniteSubsetsOf
  <1>3. PICK x \in T : \A y \in T : <<y, x>> \notin StrictSubsetOrdering(S)
    <2> HIDE DEF T
    <2> QED BY <1>2, WFMin, FS_StrictSubsetOrderingWellFounded
  <1>4. PICK u \in S : x = Above(u)
    BY <1>3
  <1>5. ASSUME NEW v \in S, ~(v <= u) PROVE FALSE
    <2>1. u < v
      BY <1>1, <1>5
    <2>2. Above(v) \subseteq Above(u) /\ Above(v) # Above(u)
      <3>1. u \in Nat /\ v \in Nat
        BY <1>1
      <3>2. ASSUME NEW w \in Above(v) PROVE w \in Above(u)
        <4>1. w \in S /\ w \in Nat
          BY <1>1
        <4> QED BY <2>1, <3>1, <4>1
      <3>3. v \in Above(u) /\ v \notin Above(v)
        BY <2>1, <3>1
      <3> HIDE DEF Above
      <3> QED BY <3>2, <3>3
    <2>3. <<Above(v), x>> \in StrictSubsetOrdering(S)
      BY <1>4, <2>2 DEF StrictSubsetOrdering
    <2> QED BY <1>3, <2>3
  <1> QED BY <1>5 DEF Highest

LEMMA LowestIs ==
  ASSUME NEW S \in SUBSET User, S # {}
  PROVE  \E u \in S : \A v \in S : u <= v
  <1> DEFINE Below(u) == {v \in S : v < u}
             T == {Below(u) : u \in S}
  <1>1. S \subseteq Nat /\ IsFiniteSet(S)
    BY MemberSyncAssumption, FS_Subset
  <1>2. T \subseteq FiniteSubsetsOf(S) /\ T # {}
    <2>1. ASSUME NEW u \in S
          PROVE  Below(u) \in SUBSET S /\ IsFiniteSet(Below(u))
      <3>1. Below(u) \in SUBSET S
        OBVIOUS
      <3> HIDE DEF Below
      <3> QED BY <1>1, <3>1, FS_Subset
    <2> HIDE DEF Below
    <2> QED BY <2>1 DEF FiniteSubsetsOf
  <1>3. PICK x \in T : \A y \in T : <<y, x>> \notin StrictSubsetOrdering(S)
    <2> HIDE DEF T
    <2> QED BY <1>2, WFMin, FS_StrictSubsetOrderingWellFounded
  <1>4. PICK u \in S : x = Below(u)
    BY <1>3
  <1>5. ASSUME NEW v \in S, ~(u <= v) PROVE FALSE
    <2>1. v < u
      BY <1>1, <1>5
    <2>2. Below(v) \subseteq Below(u) /\ Below(v) # Below(u)
      <3>1. u \in Nat /\ v \in Nat
        BY <1>1
      <3>2. ASSUME NEW w \in Below(v) PROVE w \in Below(u)
        <4>1. w \in S /\ w \in Nat
          BY <1>1
        <4> QED BY <2>1, <3>1, <4>1
      <3>3. v \in Below(u) /\ v \notin Below(v)
        BY <2>1, <3>1
      <3> HIDE DEF Below
      <3> QED BY <3>2, <3>3
    <2>3. <<Below(v), x>> \in StrictSubsetOrdering(S)
      BY <1>4, <2>2 DEF StrictSubsetOrdering
    <2> QED BY <1>3, <2>3
  <1> QED BY <1>5

(* An empty page: nobody in the guild has a higher id.                     *)
LEMMA EmptyPage ==
  ASSUME inGuild \subseteq User, NEW id \in Nat, Page(id) = {}
  PROVE  \A u \in inGuild : u <= id
  <1> SUFFICES ASSUME NEW w \in inGuild, ~(w <= id) PROVE FALSE
    OBVIOUS
  <1>0. inGuild \subseteq Nat
    BY MemberSyncAssumption
  <1> DEFINE S == {u \in inGuild : u > id}
  <1>1. S \in SUBSET User /\ w \in S
    <2>1. w \in Nat
      BY <1>0
    <2>2. w > id
      BY <2>1
    <2> QED BY <2>2
  <1>2. PICK u \in S : \A v \in S : u <= v
    BY <1>1, LowestIs
  <1>3. {v \in inGuild : id < v /\ v < u} = {}
    <2> SUFFICES ASSUME NEW v \in inGuild, id < v, v < u PROVE FALSE
      OBVIOUS
    <2>1. v \in Nat /\ u \in Nat
      BY <1>0
    <2>2. v \in S
      BY <2>1
    <2> QED BY <1>2, <2>1, <2>2
  <1>4. Cardinality({v \in inGuild : id < v /\ v < u}) < PageSize
    <2>1. PageSize \in Nat \ {0}
      BY MemberSyncAssumption
    <2>2. Cardinality({v \in inGuild : id < v /\ v < u}) = 0
      BY <1>3, FS_EmptySet
    <2> QED BY <2>1, <2>2
  <1> QED BY <1>4 DEF Page

(* A page skips nobody below its highest id.                               *)
LEMMA PageIsDense ==
  ASSUME inGuild \subseteq User, NEW id \in Nat,
         NEW h \in Page(id), NEW u \in inGuild, id < u, u <= h
  PROVE  u \in Page(id)
  <1>0. inGuild \subseteq Nat /\ IsFiniteSet(inGuild) /\ h \in inGuild
    BY MemberSyncAssumption, FS_Subset DEF Page
  <1> DEFINE A == {v \in inGuild : id < v /\ v < u}
             B == {v \in inGuild : id < v /\ v < h}
  <1>1. A \in SUBSET B /\ B \in SUBSET inGuild
    <2>1. h \in Nat /\ u \in Nat
      BY <1>0
    <2>2. ASSUME NEW v \in A PROVE v \in B
      <3>1. v \in inGuild /\ v \in Nat /\ id < v /\ v < u
        BY <1>0
      <3> QED BY <2>1, <3>1
    <2> QED BY <2>2
  <1>2. IsFiniteSet(B) /\ IsFiniteSet(A) /\ Cardinality(A) <= Cardinality(B)
    BY <1>0, <1>1, FS_Subset
  <1>3. Cardinality(A) \in Nat /\ Cardinality(B) \in Nat
    BY <1>2, FS_CardinalityType
  <1>4. Cardinality(B) < PageSize
    BY DEF Page
  <1>5. Cardinality(A) < PageSize
    BY <1>2, <1>3, <1>4, MemberSyncAssumption
  <1> QED BY <1>5 DEF Page
-----------------------------------------------------------------------------
(***************************************************************************)
(* Types.  While a role is being read, `role` is one.                      *)
(***************************************************************************)
WithFilters == {"description", "smembers", "sinter", "existsAgain", "name"}

InRole == WithFilters \cup {"exists", "sync", "filters"}

RoleSet == pc \in InRole => role \in ShortName

TypeInv == TypeOK /\ RoleSet

(* The tuples of the histories are well typed.                             *)
LEMMA EntitlementTypes ==
  /\ Steady \subseteq ShortName \X DiscordName \X User
  /\ Ever \subseteq DiscordName \X User
  BY DEF Steady, Ever, Entitlements

LEMMA MembersOfType ==
  ASSUME RegistryTypeOK, NEW f
  PROVE  MembersOf(f) \subseteq User
  BY DEF RegistryTypeOK, MembersOf

(* Every write of a handler keeps the registry well typed.                 *)
LEMMA RegistryWriteType ==
  ASSUME RegistryTypeOK, RegistryWrite
  PROVE  RegistryTypeOK'
  <1>1. CASE RoleWrite /\ UNCHANGED <<filters, members>>
    BY <1>1, RoleWriteType DEF RegistryTypeOK
  <1>2. ASSUME NEW f \in Filter, UNCHANGED <<roles, members>>,
               SetDescription(f) \/ DelDescription(f)
        PROVE  RegistryTypeOK'
    BY <1>2
    DEF RegistryTypeOK, RolesTypeOK, SetDescription, DelDescription
  <1>3. ASSUME NEW f \in Filter, NEW u \in User, UNCHANGED <<roles, filters>>,
               SAdd(f, u) \/ SRem(f, u)
        PROVE  RegistryTypeOK'
    BY <1>3 DEF RegistryTypeOK, RolesTypeOK, SAdd, SRem
  <1> QED BY <1>1, <1>2, <1>3 DEF RegistryWrite

LEMMA InitType == Init => TypeInv
  <1> SUFFICES ASSUME Init PROVE TypeInv
    OBVIOUS
  <1>1. RolesTypeOK
    <2>1. {h \in RoleSpec : RequiredFields(h)} \subseteq Hash
      BY RoleTableAssumption
    <2> HIDE DEF RequiredFields
    <2> QED BY <2>1, InitialAssumption DEF Init, RolesTypeOK
  <1>2. RegistryTypeOK
    BY <1>1, InitialAssumption DEF Init, RegistryTypeOK
  <1>3. changes \in 0..MaxChanges /\ faults \in 0..MaxFaults
    BY MemberSyncAssumption DEF Init
  <1>4. /\ held \in [User -> SUBSET DiscordName]
        /\ discordMemberships \in [User -> SUBSET DiscordName]
        /\ chremoasMemberships \in [User -> SUBSET DiscordName]
    BY DEF Init, NoRoles
  <1>5. cache \subseteq DiscordName
    BY InitialAssumption DEF Init
  <1> QED
    BY <1>2, <1>3, <1>4, <1>5
    DEF Init, TypeInv, TypeOK, RoleSet, InRole, WithFilters, Step

(* The list of members grows by members of the guild.                      *)
LEMMA GetAllMembersType ==
  ASSUME TypeInv, GetAllMembers
  PROVE  TypeInv'
  <1> DEFINE page == Page(memberId)
  <1>1. page \subseteq User
    BY DEF Page, TypeInv, TypeOK
  <1>2. page # {} => Highest(page) \in User
    BY <1>1, HighestIs
  <1>3. [u \in User |-> IF u \in page THEN discordMemberships[u] \cup held[u]
                        ELSE discordMemberships[u]]
        \in [User -> SUBSET DiscordName]
    BY DEF TypeInv, TypeOK
  <1> HIDE DEF page
  <1>4. /\ memberId' \in User \cup {0}
        /\ listed' \subseteq User /\ listed \subseteq listed'
        /\ discordMemberships' \in [User -> SUBSET DiscordName]
        /\ pc' \in {"getAllMembers", "getAllRoles"}
    BY <1>1, <1>2, <1>3 DEF GetAllMembers, TypeInv, TypeOK, listVars, GoTo, page
  <1>5. UNCHANGED <<storeVars, discordVars, readVars, updateMembers, historyVars,
                    boundVars, roleNameMap>>
    BY DEF GetAllMembers, listVars
  <1> QED
    BY <1>4, <1>5
    DEF TypeInv, TypeOK, RegistryTypeOK, RolesTypeOK, RoleSet, InRole,
        WithFilters, Step, storeVars, discordVars, readVars, historyVars,
        boundVars

(* The steps that read the registry keep what they read in the types.      *)
LEMMA ReadFiltersType ==
  ASSUME TypeInv, ReadFilters
  PROVE  TypeInv'
  <1>1. role \in ShortName /\ HGetAll(role) \in Hash
    BY HGetAllType
    DEF TypeInv, TypeOK, RegistryTypeOK, RoleSet, InRole, ReadFilters
  <1>2. \A h \in Hash : {h["FilterA"], h["FilterB"]} \subseteq Filter \cup {Empty}
    BY DEF Hash, Field, FieldValue
  <1>3. filterPair' \in (Filter \cup {Empty}) \X (Filter \cup {Empty})
    BY <1>1, <1>2 DEF ReadFilters
  <1> QED
    BY <1>1, <1>3
    DEF ReadFilters, GoTo, TypeInv, TypeOK, RegistryTypeOK, RolesTypeOK,
        RoleSet, InRole, WithFilters, Step, storeVars, discordVars, listVars,
        historyVars, boundVars

LEMMA MembershipType ==
  ASSUME TypeInv, ReadMembers \/ ReadIntersection
  PROVE  TypeInv'
  <1>1. /\ membership' \subseteq User
        /\ pc \in {"smembers", "sinter"} /\ pc' = "existsAgain"
    BY MembersOfType
    DEF TypeInv, TypeOK, ReadMembers, ReadIntersection, SetMembership, GoTo
  <1>2. UNCHANGED <<storeVars, discordVars, listVars, todo, role, filterPair,
                    chremoasMemberships, updateMembers, historyVars, boundVars>>
    BY DEF ReadMembers, ReadIntersection, SetMembership
  <1> QED
    BY <1>1, <1>2
    DEF TypeInv, TypeOK, RegistryTypeOK, RolesTypeOK, RoleSet, InRole,
        WithFilters, Step, storeVars, discordVars, listVars, historyVars,
        boundVars

(* The name that is read is that of a Discord role, or none.               *)
LEMMA NameType ==
  ASSUME TypeInv, role \in ShortName
  PROVE  HGetAll(role)["Name"] \in DiscordName \cup {Empty}
  <1>1. HGetAll(role) \in Hash
    BY HGetAllType DEF TypeInv, TypeOK, RegistryTypeOK
  <1> QED BY <1>1 DEF Hash, Field, FieldValue

LEMMA ReadNameType ==
  ASSUME TypeInv, ReadName
  PROVE  TypeInv'
  <1> DEFINE name == HGetAll(role)["Name"]
  <1>1. {name} \ {Empty} \subseteq DiscordName
    BY NameType DEF ReadName, TypeInv, RoleSet, InRole, WithFilters
  <1>2. chremoasMemberships' =
          [u \in User |-> IF u \in membership
                          THEN chremoasMemberships[u] \cup ({name} \ {Empty})
                          ELSE chremoasMemberships[u]]
    BY DEF ReadName
  <1> HIDE DEF name
  <1>3. chremoasMemberships' \in [User -> SUBSET DiscordName]
    BY <1>1, <1>2 DEF TypeInv, TypeOK
  <1> QED
    BY <1>3
    DEF ReadName, GoTo, TypeInv, TypeOK, RegistryTypeOK, RolesTypeOK, RoleSet,
        InRole, WithFilters, Step, storeVars, discordVars, listVars,
        historyVars, boundVars

(* The end of a pass leaves nothing of it but the histories.               *)
LEMMA PassEndsType ==
  ASSUME TypeInv, NEW step \in {"done", "failed"}, PassEnds(step),
         UNCHANGED <<storeVars, discordVars, steady, unlisted, ever, redefined,
                     stayed, changes>>,
         quiet' \in BOOLEAN, faults' \in 0..MaxFaults
  PROVE  TypeInv'
  <1>1. NoRoles \in [User -> SUBSET DiscordName]
    BY DEF NoRoles
  <1> QED
    BY <1>1
    DEF PassEnds, GoTo, TypeInv, TypeOK, RegistryTypeOK, RolesTypeOK, RoleSet,
        InRole, WithFilters, Step, storeVars, discordVars

(* A step that only reads goes on with what it has, or ends the pass.      *)
LEMMA ProbeIs ==
  ASSUME SyncExists \/ ReadSync \/ ReadDescription \/ NameExists
  PROVE  /\ UNCHANGED <<storeVars, discordVars, historyVars, boundVars>>
         /\ \/ PassEnds("failed")
            \/ pc' # "failed" /\ UNCHANGED <<listVars, readVars, updateMembers>>
  BY DEF SyncExists, ReadSync, ReadDescription, NameExists, Probe, GoTo

LEMMA ProbeType ==
  ASSUME TypeInv, SyncExists \/ ReadSync \/ ReadDescription \/ NameExists
  PROVE  TypeInv'
  <1>1. pc \in InRole /\ pc' \in Step
    BY DEF SyncExists, ReadSync, ReadDescription, NameExists, Probe, PassEnds,
           GoTo, InRole, WithFilters, Step
  <1>2. CASE PassEnds("failed")
    BY <1>2, ProbeIs, PassEndsType
    DEF TypeInv, TypeOK, historyVars, boundVars
  <1>3. CASE UNCHANGED <<listVars, readVars, updateMembers>>
    <2>1. UNCHANGED <<storeVars, discordVars, historyVars, boundVars>>
      BY ProbeIs
    <2> QED
      BY <1>1, <1>3, <2>1
      DEF TypeInv, TypeOK, RegistryTypeOK, RolesTypeOK, RoleSet, storeVars,
          discordVars, listVars, readVars, historyVars, boundVars
  <1> QED BY <1>2, <1>3, ProbeIs

LEMMA ListsType ==
  ASSUME TypeInv, Begin \/ GetAllRoles \/ ListHashes \/ Compare
  PROVE  TypeInv'
  <1>1. CASE Begin
    <2>1. /\ steady' \subseteq ShortName \X DiscordName \X User
          /\ ever' \subseteq DiscordName \X User
          /\ stayed' \subseteq User
      BY <1>1, EntitlementTypes DEF Begin, TypeInv, TypeOK
    <2> QED
      BY <1>1, <2>1
      DEF Begin, GoTo, TypeInv, TypeOK, RegistryTypeOK, RolesTypeOK, RoleSet,
          InRole, WithFilters, Step, storeVars, discordVars, listVars,
          readVars, boundVars
  <1>2. CASE GetAllRoles
    BY <1>2
    DEF GetAllRoles, GoTo, TypeInv, TypeOK, RegistryTypeOK, RolesTypeOK,
        RoleSet, InRole, WithFilters, Step, storeVars, discordVars, readVars,
        historyVars, boundVars
  <1>3. CASE ListHashes
    BY <1>3
    DEF ListHashes, getRoles, GoTo, TypeInv, TypeOK, RegistryTypeOK,
        RolesTypeOK, RoleSet, InRole, WithFilters, Step, storeVars,
        discordVars, listVars, historyVars, boundVars
  <1>4. CASE Compare
    BY <1>4
    DEF Compare, GoTo, TypeInv, TypeOK, RegistryTypeOK, RolesTypeOK, RoleSet,
        InRole, WithFilters, Step, storeVars, discordVars, listVars, readVars,
        historyVars, boundVars
  <1> QED BY <1>1, <1>2, <1>3, <1>4

LEMMA NextRoleType ==
  ASSUME TypeInv, NEW r \in ShortName, NextRole(r)
  PROVE  TypeInv'
  BY DEF NextRole, GoTo, TypeInv, TypeOK, RegistryTypeOK, RolesTypeOK, RoleSet,
         InRole, WithFilters, Step, storeVars, discordVars, listVars,
         historyVars, boundVars

LEMMA UpdateType ==
  ASSUME TypeInv, NEW u \in User, UpdateMember(u) \/ UpdateFails(u)
  PROVE  TypeInv'
  <1>1. RoleIds(u) \subseteq DiscordName
    BY DEF RoleIds, TypeInv, TypeOK
  <1>2. held' \in [User -> SUBSET DiscordName]
    BY <1>1 DEF UpdateMember, UpdateFails, TypeInv, TypeOK
  <1>3. faults' \in 0..MaxFaults
    BY MemberSyncAssumption
    DEF UpdateMember, UpdateFails, boundVars, TypeInv, TypeOK
  <1>4. /\ updateMembers' \subseteq updateMembers
        /\ quiet' \in BOOLEAN
        /\ UNCHANGED <<storeVars, inGuild, guildRoles, cache, gone, deadIds, pc,
                       listVars, readVars, steady, unlisted, ever, redefined,
                       stayed, changes>>
    BY DEF UpdateMember, UpdateFails, roleVars, historyVars, boundVars, TypeInv,
           TypeOK
  <1> QED
    BY <1>2, <1>3, <1>4
    DEF TypeInv, TypeOK, RegistryTypeOK, RolesTypeOK, RoleSet, storeVars,
        listVars, readVars

(* The gateway's list is refreshed, or nothing happens at all.             *)
Aside ==
    UNCHANGED <<storeVars, inGuild, held, guildRoles, deadIds, pc, listVars,
                readVars, updateMembers, historyVars, boundVars>>

LEMMA AsideIs ==
  ASSUME CacheRefreshes \/ UNCHANGED vars
  PROVE  /\ Aside
         /\ UNCHANGED <<cache, gone>> \/ (cache' = guildRoles /\ gone' = {})
  BY DEF CacheRefreshes, vars, Aside, discordVars

LEMMA EndType ==
  ASSUME TypeInv,
         UpdatesDone \/ CallFails \/ Again \/ CacheRefreshes \/ UNCHANGED vars
  PROVE  TypeInv'
  <1>1. CASE UpdatesDone
    BY <1>1, PassEndsType DEF UpdatesDone, TypeInv, TypeOK, historyVars, boundVars
  <1>2. CASE CallFails
    <2>1. faults' \in 0..MaxFaults
      BY <1>2, MemberSyncAssumption DEF CallFails, TypeInv, TypeOK
    <2> QED BY <1>2, <2>1, PassEndsType DEF CallFails
  <1>3. CASE Again
    BY <1>3
    DEF Again, GoTo, TypeInv, TypeOK, RegistryTypeOK, RolesTypeOK, RoleSet,
        InRole, WithFilters, Step, storeVars, listVars, readVars, boundVars
  <1>4. CASE CacheRefreshes \/ UNCHANGED vars
    BY <1>4, AsideIs
    DEF Aside, TypeInv, TypeOK, RegistryTypeOK, RolesTypeOK, RoleSet, storeVars,
        listVars, readVars, historyVars, boundVars
  <1> QED BY <1>1, <1>2, <1>3, <1>4

(* What happens around the pass.                                           *)
LEMMA DisturbedType ==
  ASSUME TypeInv, HandlerWrites \/ GuildChanges
  PROVE  TypeInv'
  <1>1. RegistryTypeOK'
    BY RegistryWriteType
    DEF HandlerWrites, GuildChanges, TypeInv, TypeOK, RegistryTypeOK,
        RolesTypeOK, storeVars
  <1>2. /\ inGuild' \subseteq User
        /\ held' \in [User -> SUBSET DiscordName]
        /\ guildRoles' \subseteq DiscordName /\ deadIds' \subseteq DiscordName
        /\ gone' \subseteq cache' /\ cache' = cache
    BY DEF HandlerWrites, GuildChanges, TypeInv, TypeOK, discordVars, roleVars
  <1>3. Disturbed
    BY DEF HandlerWrites, GuildChanges
  <1>4. Ever' \subseteq DiscordName \X User
    BY DEF Ever, Entitlements
  <1>5. /\ steady' \subseteq ShortName \X DiscordName \X User
        /\ ever' \subseteq DiscordName \X User
        /\ stayed' \subseteq User
        /\ redefined' \in BOOLEAN /\ quiet' \in BOOLEAN
    BY <1>3, <1>4 DEF Disturbed, TypeInv, TypeOK
  <1>6. changes' \in 0..MaxChanges
    BY <1>3, MemberSyncAssumption DEF Disturbed, TypeInv, TypeOK
  <1>7. UNCHANGED <<pc, listVars, readVars, updateMembers, unlisted, faults>>
    BY <1>3 DEF Disturbed
  <1> QED
    BY <1>1, <1>2, <1>5, <1>6, <1>7
    DEF TypeInv, TypeOK, RoleSet, listVars, readVars

LEMMA NextType == TypeInv /\ [Next]_vars => TypeInv'
  <1> SUFFICES ASSUME TypeInv, [Next]_vars PROVE TypeInv'
    OBVIOUS
  <1>1. CASE Pass
    BY <1>1, GetAllMembersType, ListsType, NextRoleType, ProbeType,
       ReadFiltersType, MembershipType, ReadNameType, UpdateType, EndType
    DEF Pass, PassStep
  <1>2. CASE CallFails \/ CacheRefreshes \/ UNCHANGED vars
    BY <1>2, EndType
  <1>3. CASE \E u \in User : UpdateFails(u)
    BY <1>3, UpdateType
  <1>4. CASE HandlerWrites \/ GuildChanges
    BY <1>4, DisturbedType
  <1> QED BY <1>1, <1>2, <1>3, <1>4 DEF Next

LEMMA TypeInvariant == Spec => []TypeInv
  BY InitType, NextType, PTL DEF Spec

(* The variables keep their types: what a pass gives to a user are names   *)
(* of Discord roles, and it updates only users it has listed.              *)
THEOREM TypeCorrect == Spec => []TypeOK
  <1>1. TypeInv => TypeOK
    BY DEF TypeInv
  <1> QED BY <1>1, TypeInvariant, PTL
-----------------------------------------------------------------------------
(***************************************************************************)
(* Between two passes nothing of a pass is left.  The ids that the pass    *)
(* knows, and does not know to be dead, are of roles of the guild, as are  *)
(* the roles that anybody has.                                             *)
(***************************************************************************)
Between == {"idle", "done", "failed"}

Cleared ==
    pc \in Between =>
        /\ memberId = 0 /\ listed = {} /\ discordMemberships = NoRoles
        /\ roleNameMap = {} /\ todo = {} /\ chremoasMemberships = NoRoles
        /\ updateMembers = {}

IdsAlive ==
    /\ cache \ gone \subseteq guildRoles
    /\ roleNameMap \ deadIds \subseteq guildRoles

HeldExist == \A u \in User : held[u] \subseteq guildRoles

PassInv == Cleared /\ IdsAlive /\ HeldExist

(* A step of the pass either goes on, or ends it and clears its variables. *)
LEMMA GoesOn ==
  ASSUME \/ Begin \/ GetAllMembers \/ GetAllRoles \/ ListHashes
         \/ (\E r \in ShortName : NextRole(r))
         \/ SyncExists \/ ReadSync \/ ReadFilters \/ ReadDescription
         \/ ReadMembers \/ ReadIntersection \/ NameExists \/ ReadName \/ Compare
         \/ UpdatesDone \/ CallFails
  PROVE  pc' \notin Between \/ PassEnds("done") \/ PassEnds("failed")
  <1>1. CASE GetAllMembers
    BY <1>1, Zenon DEF GetAllMembers, GoTo, Between
  <1>2. CASE SyncExists \/ ReadSync \/ ReadDescription \/ NameExists
    BY <1>2
    DEF SyncExists, ReadSync, ReadDescription, NameExists, Probe, GoTo, Between
  <1>3. CASE UpdatesDone \/ CallFails
    BY <1>3 DEF UpdatesDone, CallFails
  <1>4. CASE \/ Begin \/ GetAllRoles \/ ListHashes \/ ReadFilters \/ ReadMembers
             \/ ReadIntersection \/ ReadName \/ Compare
             \/ \E r \in ShortName : NextRole(r)
    BY <1>4
    DEF Begin, GetAllRoles, ListHashes, NextRole, ReadFilters, ReadMembers,
        ReadIntersection, SetMembership, ReadName, Compare, GoTo, Between
  <1> QED BY <1>1, <1>2, <1>3, <1>4

LEMMA NextCleared ==
  ASSUME Cleared, [Next]_vars
  PROVE  Cleared'
  <1>1. ASSUME pc' \notin Between \/ PassEnds("done") \/ PassEnds("failed")
        PROVE  Cleared'
    BY <1>1 DEF PassEnds, Cleared, NoRoles
  <1>2. ASSUME UNCHANGED <<listVars, readVars, updateMembers>>,
               pc' \in Between => pc \in Between
        PROVE  Cleared'
    BY <1>2 DEF Cleared, NoRoles, listVars, readVars
  <1>3. CASE CacheRefreshes \/ UNCHANGED vars
    BY <1>2, <1>3, AsideIs DEF Aside
  <1>4. CASE HandlerWrites \/ GuildChanges
    BY <1>2, <1>4 DEF HandlerWrites, GuildChanges, Disturbed
  <1>5. CASE Again
    BY <1>2, <1>5 DEF Again, GoTo, Between
  <1>6. CASE \E u \in User : UpdateMember(u) \/ UpdateFails(u)
    BY <1>1, <1>6 DEF UpdateMember, UpdateFails, Between
  <1> QED
    BY <1>1, <1>3, <1>4, <1>5, <1>6, GoesOn DEF Next, Pass, PassStep

LEMMA NextAlive ==
  ASSUME TypeInv, PassInv, [Next]_vars
  PROVE  IdsAlive' /\ HeldExist'
  <1>1. held \in [User -> SUBSET DiscordName]
    BY DEF TypeInv, TypeOK
  <1>2. ASSUME UNCHANGED discordVars, roleNameMap' = roleNameMap \/ roleNameMap' = {}
        PROVE  IdsAlive' /\ HeldExist'
    BY <1>2 DEF PassInv, IdsAlive, HeldExist, discordVars
  <1>3. CASE \/ ListHashes \/ ReadFilters \/ ReadMembers \/ ReadIntersection
             \/ ReadName \/ Compare \/ Begin \/ HandlerWrites
             \/ \E r \in ShortName : NextRole(r)
    BY <1>2, <1>3
    DEF Begin, ListHashes, NextRole, ReadFilters, ReadMembers,
        ReadIntersection, SetMembership, ReadName, Compare, HandlerWrites,
        Disturbed, listVars
  <1>4. CASE GetAllMembers
    <2>1. UNCHANGED discordVars
      BY <1>4, Zenon DEF GetAllMembers
    <2>2. roleNameMap' = roleNameMap
      <3>1. CASE Page(memberId) = {}
        BY <1>4, <3>1, Zenon DEF GetAllMembers, listVars
      <3>2. CASE Page(memberId) # {}
        BY <1>4, <3>2, Zenon DEF GetAllMembers
      <3> QED BY <3>1, <3>2
    <2> QED BY <1>2, <2>1, <2>2
  <1>5. CASE SyncExists \/ ReadSync \/ ReadDescription \/ NameExists
    BY <1>2, <1>5, ProbeIs DEF PassEnds, listVars
  <1>6. CASE UpdatesDone \/ CallFails
    BY <1>2, <1>6 DEF UpdatesDone, CallFails, PassEnds
  <1>7. CASE GetAllRoles
    BY <1>7 DEF GetAllRoles, PassInv, IdsAlive, HeldExist
  <1>8. ASSUME NEW u \in User, UpdateMember(u) \/ UpdateFails(u)
        PROVE  IdsAlive' /\ HeldExist'
    <2>1. UNCHANGED <<guildRoles, cache, gone, deadIds, roleNameMap>>
      BY <1>8 DEF UpdateMember, UpdateFails, roleVars, listVars
    <2>2. \/ held' = held
          \/ held' = [held EXCEPT ![u] = RoleIds(u)] /\ RoleIds(u) \cap deadIds = {}
      BY <1>8 DEF UpdateMember, UpdateFails
    <2>3. RoleIds(u) \cap deadIds = {} => RoleIds(u) \subseteq guildRoles
      BY DEF RoleIds, PassInv, IdsAlive
    <2> HIDE DEF RoleIds
    <2> QED BY <1>1, <2>1, <2>2, <2>3 DEF PassInv, IdsAlive, HeldExist
  <1>9. CASE Again
    <2>1. roleNameMap' = {} /\ UNCHANGED <<held, guildRoles, cache, gone>>
      BY <1>9 DEF Again, PassInv, Cleared, Between, listVars
    <2> QED BY <2>1 DEF PassInv, IdsAlive, HeldExist
  <1>10. CASE GuildChanges
    <2>1. roleNameMap' = roleNameMap
      BY <1>10 DEF GuildChanges, Disturbed, listVars
    <2> QED
      BY <1>1, <1>10, <2>1
      DEF GuildChanges, roleVars, PassInv, IdsAlive, HeldExist
  <1>11. CASE CacheRefreshes \/ UNCHANGED vars
    BY <1>11, AsideIs DEF Aside, listVars, PassInv, IdsAlive, HeldExist
  <1> QED
    BY <1>3, <1>4, <1>5, <1>6, <1>7, <1>8, <1>9, <1>10, <1>11
    DEF Next, Pass, PassStep

LEMMA PassInvariant == Spec => []PassInv
  <1>1. Init => PassInv
    <2> SUFFICES ASSUME Init PROVE PassInv
      OBVIOUS
    <2>1. cache \subseteq DiscordName /\ guildRoles = DiscordName
      BY InitialAssumption DEF Init
    <2> QED
      BY <2>1 DEF Init, PassInv, Cleared, IdsAlive, HeldExist, NoRoles
  <1>2. TypeInv /\ PassInv /\ [Next]_vars => PassInv'
    BY NextCleared, NextAlive DEF PassInv
  <1> QED BY <1>1, <1>2, TypeInvariant, PTL DEF Spec
-----------------------------------------------------------------------------
(***************************************************************************)
(* Paging.  Those who stayed and whose id the loop has passed are listed;  *)
(* at an empty page it has passed them all.                                *)
(***************************************************************************)
PagedInv ==
    /\ stayed \subseteq inGuild
    /\ pc = "getAllMembers" => \A u \in stayed : u <= memberId => u \in listed
    /\ NobodyMissed

LEMMA GetAllMembersPaged ==
  ASSUME TypeInv, PagedInv, GetAllMembers
  PROVE  PagedInv'
  <1>1. /\ inGuild \subseteq User /\ stayed \subseteq inGuild
        /\ inGuild \subseteq Nat /\ memberId \in Nat
    <2>1. inGuild \subseteq User /\ memberId \in User \cup {0} /\ stayed \subseteq inGuild
      BY DEF TypeInv, TypeOK, PagedInv
    <2>2. User \subseteq Nat
      BY MemberSyncAssumption
    <2> QED BY <2>1, <2>2
  <1>2. /\ UNCHANGED <<stayed, inGuild>>
        /\ pc = "getAllMembers"
        /\ \A u \in stayed : u <= memberId => u \in listed
    BY DEF GetAllMembers, PagedInv, historyVars, discordVars
  <1>3. CASE Page(memberId) = {}
    <2>1. pc' = "getAllRoles" /\ listed' = listed
      BY <1>3 DEF GetAllMembers, listVars, GoTo
    <2>2. stayed \subseteq listed
      BY <1>1, <1>2, <1>3, EmptyPage
    <2> QED BY <1>1, <1>2, <2>1, <2>2 DEF PagedInv, NobodyMissed
  <1>4. CASE Page(memberId) # {}
    <2>1. /\ pc' = "getAllMembers"
          /\ listed' = listed \cup Page(memberId)
          /\ memberId' = Highest(Page(memberId))
      BY <1>2, <1>4 DEF GetAllMembers
    <2>2. memberId' \in Page(memberId)
      <3>1. Page(memberId) \in SUBSET User
        BY <1>1 DEF Page
      <3> QED BY <1>4, <2>1, <3>1, HighestIs
    <2>3. ASSUME NEW u \in stayed, u <= memberId' PROVE u \in listed'
      <3>1. u \in Nat /\ u \in inGuild
        BY <1>1
      <3>2. CASE u <= memberId
        BY <1>2, <2>1, <3>2
      <3>3. CASE memberId < u
        <4>1. u \in Page(memberId)
          BY <1>1, <2>2, <2>3, <3>1, <3>3, PageIsDense
        <4> QED BY <2>1, <4>1
      <3> QED BY <1>1, <3>1, <3>2, <3>3
    <2> QED
      BY <1>1, <1>2, <2>1, <2>3 DEF PagedInv, NobodyMissed, Listing
  <1> QED BY <1>3, <1>4

LEMMA NextPaged ==
  ASSUME TypeInv, Cleared, PagedInv, [Next]_vars
  PROVE  PagedInv'
  <1>1. CASE GetAllMembers
    BY <1>1, GetAllMembersPaged
  <1>2. CASE Begin
    <2>1. /\ stayed' = inGuild /\ inGuild' = inGuild
          /\ pc' = "getAllMembers" /\ memberId' = memberId /\ listed' = listed
      BY <1>2 DEF Begin, GoTo, discordVars, listVars
    <2>2. memberId = 0 /\ \A u \in inGuild : ~(u <= 0)
      BY <1>2, MemberSyncAssumption
      DEF Begin, Cleared, Between, TypeInv, TypeOK
    <2> QED BY <2>1, <2>2 DEF PagedInv, NobodyMissed, Listing
  <1>3. CASE Again
    BY <1>3 DEF Again, GoTo, PagedInv, NobodyMissed, Listing
  <1>4. ASSUME UNCHANGED <<stayed, inGuild, memberId, listed>>,
               pc' = pc \/ (~Listing /\ pc' \notin {"idle", "getAllMembers"})
        PROVE  PagedInv'
    BY <1>4 DEF PagedInv, NobodyMissed, Listing
  <1>5. ASSUME UNCHANGED <<stayed, inGuild>>, pc' \in {"done", "failed"}
        PROVE  PagedInv'
    BY <1>5 DEF PagedInv, NobodyMissed, Listing
  <1>6. CASE GetAllRoles \/ ListHashes \/ (\E r \in ShortName : NextRole(r))
             \/ ReadFilters \/ ReadMembers \/ ReadIntersection \/ ReadName
             \/ Compare
    BY <1>4, <1>6
    DEF GetAllRoles, ListHashes, NextRole, ReadFilters, ReadMembers,
        ReadIntersection, SetMembership, ReadName, Compare, GoTo, Listing,
        discordVars, listVars, historyVars
  <1>7. CASE SyncExists \/ ReadSync \/ ReadDescription \/ NameExists
    <2>1. ~Listing /\ pc' \notin {"idle", "getAllMembers"}
      BY <1>7
      DEF SyncExists, ReadSync, ReadDescription, NameExists, Probe, PassEnds,
          GoTo, Listing
    <2>2. UNCHANGED <<stayed, inGuild>>
      BY <1>7, ProbeIs DEF discordVars, historyVars
    <2> QED
      BY <1>4, <1>5, <1>7, <2>1, <2>2, ProbeIs DEF PassEnds, GoTo, listVars
  <1>8. CASE UpdatesDone \/ CallFails
    BY <1>5, <1>8 DEF UpdatesDone, CallFails, PassEnds, GoTo, discordVars, historyVars
  <1>9. CASE \E u \in User : UpdateMember(u) \/ UpdateFails(u)
    BY <1>4, <1>9 DEF UpdateMember, UpdateFails, listVars, historyVars
  <1>10. CASE CacheRefreshes \/ UNCHANGED vars
    BY <1>4, <1>10, AsideIs DEF Aside, listVars, historyVars
  <1>11. CASE HandlerWrites \/ GuildChanges
    <2>1. /\ stayed' = stayed \cap inGuild'
          /\ UNCHANGED <<pc, memberId, listed>>
      BY <1>11 DEF HandlerWrites, GuildChanges, Disturbed, listVars
    <2> QED BY <2>1 DEF PagedInv, NobodyMissed, Listing
  <1> QED
    BY <1>1, <1>2, <1>3, <1>6, <1>7, <1>8, <1>9, <1>10, <1>11
    DEF Next, Pass, PassStep

(* Whoever was in the guild from the beginning of a pass until the list of *)
(* members is complete is in that list, whatever the size of the pages and *)
(* whoever joins or leaves between two of them.                            *)
THEOREM NobodyIsMissed == Spec => []NobodyMissed
  <1>1. Init => PagedInv
    BY DEF Init, PagedInv, NobodyMissed, Listing
  <1>2. PagedInv => NobodyMissed
    BY DEF PagedInv
  <1>3. PassInv => Cleared
    BY DEF PassInv
  <1>4. TypeInv /\ Cleared /\ PagedInv /\ [Next]_vars => PagedInv'
    BY NextPaged
  <1> QED
    BY <1>1, <1>2, <1>3, <1>4, PassInvariant, TypeInvariant, PTL DEF Spec
-----------------------------------------------------------------------------
(***************************************************************************)
(* Steady grants.  As long as a tuple is steady, its role is stored, is    *)
(* not skipped, and has the filters it had.  It is still to be read, or is *)
(* being read, or its user has its name already.  While it is being read,  *)
(* the filters and the members that were read are those of its hash.       *)
(***************************************************************************)
Reading == InRole \cup {"nextRole", "update"}

FiltersOf(r) == <<HGetAll(r)["FilterA"], HGetAll(r)["FilterB"]>>

SteadyNow == steady \subseteq Steady

SteadyListed ==
    pc \in Reading \cup {"getRoles"} =>
        \A t \in steady : t[2] \in roleNameMap \cup unlisted

SteadyRead ==
    /\ pc = "update" => todo = {}
    /\ pc \in Reading =>
          \A t \in steady : \/ t[1] \in todo
                            \/ pc \in InRole /\ t[1] = role
                            \/ t[2] \in chremoasMemberships[t[3]]

SteadyFilters ==
    pc \in WithFilters =>
        \A t \in steady : t[1] = role => filterPair = FiltersOf(role)

SteadyMember ==
    pc \in {"existsAgain", "name"} =>
        \A t \in steady : t[1] = role => t[3] \in membership

\* Where the filters were found to have, or not to have, the wildcard.
Branch ==
    /\ pc \in {"description", "smembers"} => Wildcard \in {filterPair[1], filterPair[2]}
    /\ pc = "sinter" => Wildcard \notin {filterPair[1], filterPair[2]}

SteadyInv ==
    SteadyNow /\ SteadyListed /\ SteadyRead /\ SteadyFilters /\ SteadyMember
    /\ Branch

(* What the two ways of asking for the members return of a role's filters  *)
(* are the users who hold the role.                                        *)
LEMMA MembershipRead ==
  ASSUME TypeInv, Branch, NEW h, filterPair = <<h["FilterA"], h["FilterB"]>>
  PROVE  /\ ReadMembers => membership' = Membership(h)
         /\ ReadIntersection => membership' = Membership(h)
  <1>1. ASSUME ReadMembers PROVE membership' = Membership(h)
    <2>1. /\ membership' = MembersOf(ProperFilter)
          /\ Wildcard \in {h["FilterA"], h["FilterB"]}
      BY <1>1 DEF ReadMembers, SetMembership, Branch
    <2> QED BY <2>1 DEF ProperFilter, Membership
  <1>2. ASSUME ReadIntersection PROVE membership' = Membership(h)
    <2>1. /\ membership' = MembersOf(h["FilterA"]) \cap MembersOf(h["FilterB"])
          /\ Wildcard \notin {h["FilterA"], h["FilterB"]}
      BY <1>2 DEF ReadIntersection, SetMembership, Branch
    <2> QED BY <2>1 DEF Membership
  <1> QED BY <1>1, <1>2

(* What a steady tuple says of the hash in the store.                      *)
LEMMA SteadyHash ==
  ASSUME SteadyNow, NEW t \in steady
  PROVE  /\ t[1] \in ShortName /\ t[2] \in DiscordName /\ t[3] \in User
         /\ RoleExists(t[1])
         /\ HGetAll(t[1])["Name"] = t[2]
         /\ ~SkippedBySyncMembers(HGetAll(t[1]))
         /\ t[3] \in Membership(HGetAll(t[1]))
         /\ t[2] \in guildRoles
  BY DEF SteadyNow, Steady, Entitlements, Entitled, HGetAll, RoleExists

(* Steady depends on the registry and on the guild's roles only.           *)
LEMMA SteadyUnchanged ==
  ASSUME UNCHANGED <<storeVars, guildRoles>>
  PROVE  Steady' = Steady /\ Ever' = Ever
  BY DEF storeVars, Steady, Ever, Entitlements, Entitled, RoleExists,
         Membership, MembersOf

LEMMA HashUnchanged ==
  ASSUME UNCHANGED roles, NEW r
  PROVE  HGetAll(r)' = HGetAll(r) /\ FiltersOf(r)' = FiltersOf(r)
  BY DEF HGetAll, FiltersOf

(* Between two passes there is nothing to say but that steady is not stale. *)
LEMMA SteadyEnd ==
  ASSUME SteadyInv, UNCHANGED <<storeVars, guildRoles, steady>>, pc' \in Between
  PROVE  SteadyInv'
  BY SteadyUnchanged
  DEF SteadyInv, SteadyNow, SteadyListed, SteadyRead, SteadyFilters,
      SteadyMember, Branch, Reading, InRole, WithFilters, Between

LEMMA SteadyBegin ==
  ASSUME SteadyInv, Begin \/ Again
  PROVE  SteadyInv'
  <1>1. pc' \in {"getAllMembers", "idle"} /\ steady' \subseteq Steady'
    BY SteadyUnchanged DEF Begin, Again, GoTo, discordVars
  <1> QED
    BY <1>1
    DEF SteadyInv, SteadyNow, SteadyListed, SteadyRead, SteadyFilters,
        SteadyMember, Branch, Reading, InRole, WithFilters

LEMMA SteadyLists ==
  ASSUME SteadyInv, GetAllRoles \/ ListHashes \/ Compare
  PROVE  SteadyInv'
  <1>1. UNCHANGED <<storeVars, guildRoles, steady>>
    BY DEF GetAllRoles, ListHashes, Compare, discordVars, historyVars
  <1>2. SteadyNow'
    BY <1>1, SteadyUnchanged DEF SteadyInv, SteadyNow
  <1>3. pc' \in {"getRoles", "nextRole", "update"}
    BY DEF GetAllRoles, ListHashes, Compare, GoTo
  <1>4. SteadyListed'
    BY <1>1, SteadyHash
    DEF SteadyInv, SteadyListed, GetAllRoles, ListHashes, Compare, GoTo,
        Reading, listVars, historyVars
  <1>5. SteadyRead'
    <2>1. CASE GetAllRoles
      BY <2>1
      DEF GetAllRoles, GoTo, SteadyRead, Reading, InRole, WithFilters
    <2>2. CASE ListHashes
      <3>1. \A t \in steady : t[1] \in getRoles
        BY SteadyHash DEF SteadyInv, getRoles
      <3> QED
        BY <1>1, <2>2, <3>1 DEF ListHashes, GoTo, SteadyRead
    <2>3. CASE Compare
      BY <1>1, <2>3
      DEF Compare, GoTo, SteadyInv, SteadyRead, Reading, InRole, WithFilters,
          readVars
    <2> QED BY <2>1, <2>2, <2>3
  <1>6. SteadyFilters' /\ SteadyMember' /\ Branch'
    BY <1>3 DEF SteadyFilters, SteadyMember, Branch, WithFilters
  <1> QED BY <1>2, <1>4, <1>5, <1>6 DEF SteadyInv

LEMMA SteadyNextRole ==
  ASSUME TypeInv, SteadyInv, NEW r \in ShortName, NextRole(r)
  PROVE  SteadyInv'
  <1>1. /\ UNCHANGED <<storeVars, guildRoles, steady, unlisted, roleNameMap,
                       chremoasMemberships>>
        /\ pc = "nextRole" /\ pc' = "exists"
        /\ todo' = todo \ {r} /\ role' = r
    BY DEF NextRole, GoTo, discordVars, historyVars, listVars
  <1>2. SteadyNow'
    BY <1>1, SteadyUnchanged DEF SteadyInv, SteadyNow
  <1>3. SteadyListed'
    BY <1>1 DEF SteadyInv, SteadyListed, Reading, InRole
  <1>4. SteadyRead'
    BY <1>1 DEF SteadyInv, SteadyRead, Reading, InRole, WithFilters
  <1>5. SteadyFilters' /\ SteadyMember' /\ Branch'
    BY <1>1 DEF SteadyFilters, SteadyMember, Branch, WithFilters
  <1> QED BY <1>2, <1>3, <1>4, <1>5 DEF SteadyInv

LEMMA SteadyProbe ==
  ASSUME TypeInv, SteadyInv,
         SyncExists \/ ReadSync \/ ReadDescription \/ NameExists
  PROVE  SteadyInv'
  <1>0. CASE PassEnds("failed")
    BY <1>0, ProbeIs, SteadyEnd
    DEF PassEnds, GoTo, Between, discordVars, historyVars
  <1> SUFFICES ASSUME pc' # "failed", UNCHANGED <<listVars, readVars, updateMembers>>
               PROVE  SteadyInv'
    BY <1>0, ProbeIs
  <1>1. UNCHANGED <<storeVars, guildRoles, steady, unlisted, roleNameMap, todo,
                    role, filterPair, membership, chremoasMemberships>>
    BY ProbeIs DEF discordVars, historyVars, listVars, readVars
  <1>2. \/ pc = "exists" /\ pc' = "sync"
        \/ pc = "sync" /\ pc' = "filters"
        \/ /\ pc = "sync" /\ pc' = "nextRole"
           /\ SkippedBySyncMembers(HGetAll(role))
        \/ pc = "description" /\ pc' = "smembers"
        \/ pc = "existsAgain" /\ pc' = "name"
    BY DEF SyncExists, ReadSync, ReadDescription, NameExists, Probe, PassEnds,
           GoTo
  <1>3. SteadyNow'
    BY <1>1, SteadyUnchanged DEF SteadyInv, SteadyNow
  <1>4. SteadyListed'
    BY <1>1, <1>2 DEF SteadyInv, SteadyListed, Reading, InRole, WithFilters
  <1>5. SteadyRead'
    <2>1. pc' = "nextRole" => \A t \in steady : t[1] # role
      BY <1>2, SteadyHash DEF SteadyInv
    <2>2. pc \in InRole /\ pc' \in InRole \cup {"nextRole"}
      BY <1>2 DEF InRole, WithFilters
    <2> QED
      BY <1>1, <2>1, <2>2
      DEF SteadyInv, SteadyRead, Reading, InRole, WithFilters
  <1>6. SteadyFilters' /\ SteadyMember' /\ Branch'
    BY <1>1, <1>2, HashUnchanged
    DEF SteadyInv, SteadyFilters, SteadyMember, Branch, WithFilters, storeVars
  <1> QED BY <1>3, <1>4, <1>5, <1>6 DEF SteadyInv

LEMMA SteadyReads ==
  ASSUME TypeInv, SteadyInv, ReadFilters \/ ReadMembers \/ ReadIntersection
  PROVE  SteadyInv'
  <1>1. UNCHANGED <<storeVars, guildRoles, steady, unlisted, roleNameMap, todo,
                    role, chremoasMemberships>>
    BY DEF ReadFilters, ReadMembers, ReadIntersection, SetMembership,
           discordVars, historyVars, listVars
  <1>2. pc \in InRole /\ pc' \in InRole
    BY DEF ReadFilters, ReadMembers, ReadIntersection, SetMembership, GoTo,
           InRole, WithFilters
  <1>3. SteadyNow'
    BY <1>1, SteadyUnchanged DEF SteadyInv, SteadyNow
  <1>4. SteadyListed' /\ SteadyRead'
    BY <1>1, <1>2
    DEF SteadyInv, SteadyListed, SteadyRead, Reading, InRole, WithFilters
  <1>5. CASE ReadFilters
    <2>1. filterPair' = FiltersOf(role)
      BY <1>5 DEF ReadFilters, FiltersOf
    <2>2. FiltersOf(role)' = FiltersOf(role)
      BY <1>1, HashUnchanged DEF storeVars
    <2>3. pc' = IF Wildcard \in {filterPair'[1], filterPair'[2]}
                THEN "description" ELSE "sinter"
      BY <1>5 DEF ReadFilters, GoTo
    <2> HIDE DEF FiltersOf
    <2>4. SteadyFilters' /\ SteadyMember' /\ Branch'
      BY <1>1, <2>1, <2>2, <2>3
      DEF SteadyFilters, SteadyMember, Branch, WithFilters
    <2> QED BY <1>3, <1>4, <2>4 DEF SteadyInv
  <1>6. CASE ReadMembers \/ ReadIntersection
    <2>1. /\ pc \in {"smembers", "sinter"} /\ pc' = "existsAgain"
          /\ filterPair' = filterPair
      BY <1>6 DEF ReadMembers, ReadIntersection, SetMembership, GoTo
    <2>2. SteadyFilters' /\ Branch'
      BY <1>1, <2>1, HashUnchanged
      DEF SteadyInv, SteadyFilters, Branch, WithFilters, storeVars
    <2>3. ASSUME NEW t \in steady, t[1] = role PROVE t[3] \in membership'
      <3>1. filterPair = FiltersOf(role)
        BY <2>1, <2>3 DEF SteadyInv, SteadyFilters, WithFilters
      <3>2. membership' = Membership(HGetAll(role))
        BY <1>6, <3>1, MembershipRead DEF SteadyInv, FiltersOf
      <3> QED BY <2>3, <3>2, SteadyHash DEF SteadyInv
    <2>4. SteadyMember'
      BY <1>1, <2>3 DEF SteadyMember
    <2> QED BY <1>3, <1>4, <2>2, <2>4 DEF SteadyInv
  <1> QED BY <1>5, <1>6

LEMMA SteadyReadName ==
  ASSUME TypeInv, SteadyInv, ReadName
  PROVE  SteadyInv'
  <1> DEFINE name == HGetAll(role)["Name"]
  <1>1. /\ UNCHANGED <<storeVars, guildRoles, steady, unlisted, roleNameMap, todo>>
        /\ pc = "name" /\ pc' = "nextRole"
    BY DEF ReadName, GoTo, discordVars, historyVars, listVars
  <1>2. \A u \in User :
          chremoasMemberships'[u] =
             IF u \in membership THEN chremoasMemberships[u] \cup ({name} \ {Empty})
             ELSE chremoasMemberships[u]
    BY DEF ReadName
  <1> HIDE DEF name
  <1>3. SteadyNow'
    BY <1>1, SteadyUnchanged DEF SteadyInv, SteadyNow
  <1>4. SteadyListed'
    BY <1>1 DEF SteadyInv, SteadyListed, Reading, InRole, WithFilters
  <1>5. ASSUME NEW t \in steady
        PROVE  t[1] \in todo \/ t[2] \in chremoasMemberships'[t[3]]
    <2>1. t[2] \in DiscordName /\ t[3] \in User
      BY SteadyHash DEF SteadyInv
    <2>2. CASE t[1] = role
      <3>1. t[3] \in membership
        BY <1>1, <2>2 DEF SteadyInv, SteadyMember
      <3>2. name = t[2] /\ name # Empty
        BY <2>1, <2>2, SteadyHash, RoleTableAssumption DEF SteadyInv, name
      <3> QED BY <1>2, <2>1, <3>1, <3>2
    <2>3. CASE t[1] # role
      <3>1. t[1] \in todo \/ t[2] \in chremoasMemberships[t[3]]
        BY <1>1, <2>3
        DEF SteadyInv, SteadyRead, Reading, InRole, WithFilters
      <3> QED BY <1>2, <2>1, <3>1
    <2> QED BY <2>2, <2>3
  <1>6. SteadyRead'
    BY <1>1, <1>5 DEF SteadyRead
  <1>7. SteadyFilters' /\ SteadyMember' /\ Branch'
    BY <1>1 DEF SteadyFilters, SteadyMember, Branch, WithFilters
  <1> QED BY <1>3, <1>4, <1>6, <1>7 DEF SteadyInv

(* The steps before the hashes are read and after, and those that end the  *)
(* pass.                                                                   *)
LEMMA SteadyRest ==
  ASSUME SteadyInv,
         \/ GetAllMembers \/ UpdatesDone \/ CallFails
         \/ CacheRefreshes \/ UNCHANGED vars
         \/ \E u \in User : UpdateMember(u) \/ UpdateFails(u)
  PROVE  SteadyInv'
  <1>0. CASE UpdatesDone \/ CallFails
    BY <1>0, SteadyEnd
    DEF UpdatesDone, CallFails, PassEnds, GoTo, Between, discordVars, historyVars
  <1> SUFFICES ASSUME \/ GetAllMembers \/ CacheRefreshes \/ UNCHANGED vars
                      \/ \E u \in User : UpdateMember(u) \/ UpdateFails(u)
               PROVE  SteadyInv'
    BY <1>0
  <1>1. /\ UNCHANGED <<storeVars, guildRoles, steady, readVars>>
        /\ \/ pc' \in {"getAllMembers", "getAllRoles"}
           \/ pc' = pc /\ UNCHANGED <<unlisted, roleNameMap>>
    <2>1. CASE GetAllMembers
      <3>1. pc' \in {"getAllMembers", "getAllRoles"}
        BY <2>1, Zenon DEF GetAllMembers, GoTo
      <3>2. UNCHANGED <<storeVars, discordVars, readVars, historyVars>>
        BY <2>1, Zenon DEF GetAllMembers
      <3> QED BY <3>1, <3>2 DEF discordVars, historyVars
    <2>2. CASE \E u \in User : UpdateMember(u) \/ UpdateFails(u)
      BY <2>2 DEF UpdateMember, UpdateFails, roleVars, listVars, historyVars
    <2>3. CASE CacheRefreshes \/ UNCHANGED vars
      BY <2>3, AsideIs DEF Aside, listVars, historyVars
    <2> QED BY <2>1, <2>2, <2>3
  <1>2. SteadyNow'
    BY <1>1, SteadyUnchanged DEF SteadyInv, SteadyNow
  <1>3. SteadyFilters'
    BY <1>1, HashUnchanged
    DEF SteadyInv, SteadyFilters, WithFilters, readVars, storeVars
  <1>4. SteadyListed' /\ SteadyRead' /\ SteadyMember' /\ Branch'
    BY <1>1
    DEF SteadyInv, SteadyListed, SteadyRead, SteadyMember, Branch, Reading,
        InRole, WithFilters, readVars
  <1> QED BY <1>2, <1>3, <1>4 DEF SteadyInv

(* A disturbance keeps only the tuples whose hash has the same filters.    *)
LEMMA SteadyDisturbed ==
  ASSUME SteadyInv, HandlerWrites \/ GuildChanges
  PROVE  SteadyInv'
  <1>1. /\ steady' = {t \in steady \cap Steady' : SameFilters(t[1])}
        /\ UNCHANGED <<pc, unlisted, roleNameMap, readVars>>
    BY DEF HandlerWrites, GuildChanges, Disturbed, listVars
  <1>2. \A r : SameFilters(r) => FiltersOf(r)' = FiltersOf(r)
    BY DEF SameFilters, FiltersOf
  <1>3. SteadyNow'
    BY <1>1 DEF SteadyNow
  <1>4. SteadyFilters'
    BY <1>1, <1>2 DEF SteadyInv, SteadyFilters, readVars
  <1>5. SteadyListed' /\ SteadyRead' /\ SteadyMember' /\ Branch'
    BY <1>1
    DEF SteadyInv, SteadyListed, SteadyRead, SteadyMember, Branch, readVars
  <1> QED BY <1>3, <1>4, <1>5 DEF SteadyInv

LEMMA NextSteady == TypeInv /\ SteadyInv /\ [Next]_vars => SteadyInv'
  BY SteadyBegin, SteadyLists, SteadyNextRole, SteadyProbe, SteadyReads,
     SteadyReadName, SteadyRest, SteadyDisturbed
  DEF Next, Pass, PassStep

LEMMA SteadyInvariant == Spec => []SteadyInv
  <1>1. Init => SteadyInv
    BY DEF Init, SteadyInv, SteadyNow, SteadyListed, SteadyRead, SteadyFilters,
           SteadyMember, Branch, Reading, InRole, WithFilters
  <1> QED BY <1>1, NextSteady, TypeInvariant, PTL DEF Spec

(* When the updates are made, the names collected for a user contain every *)
(* role to which one hash, through the same two filters, entitled him      *)
(* since the pass began, whatever else was written meanwhile, and the pass *)
(* has an id for each of them but those that the gateway's list did not    *)
(* show.                                                                   *)
THEOREM SteadyGrantsKept == Spec => []SteadyGrantKept
  <1>1. SteadyInv => SteadyGrantKept
    BY DEF SteadyInv, SteadyListed, SteadyRead, SteadyGrantKept, Reading,
           InRole, WithFilters
  <1> QED BY <1>1, SteadyInvariant, PTL
-----------------------------------------------------------------------------
(***************************************************************************)
(* Grants are justified.  As long as no hash is rewritten, what the pass   *)
(* knows of the role it is reading is what is stored, and every user it    *)
(* found was entitled to the role's name when the members were read.       *)
(***************************************************************************)
EverNow == pc # "idle" => Ever \subseteq ever

RoleAsStored ==
    ~redefined =>
        /\ pc \in WithFilters \cup {"sync", "filters"} => RoleExists(role)
        /\ pc \in WithFilters \cup {"filters"} => ~SkippedBySyncMembers(HGetAll(role))
        /\ pc \in WithFilters => filterPair = FiltersOf(role)

FoundEntitled ==
    ~redefined /\ pc \in {"existsAgain", "name"} /\ HGetAll(role)["Name"] \in DiscordName =>
        \A u \in membership : <<HGetAll(role)["Name"], u>> \in ever

JustInv ==
    EverNow /\ RoleAsStored /\ FoundEntitled /\ GrantJustified

(* Who holds a stored role that is not skipped is entitled to its name.    *)
LEMMA HoldersAreEntitled ==
  ASSUME NEW r \in ShortName, RoleExists(r), ~SkippedBySyncMembers(HGetAll(r)),
         HGetAll(r)["Name"] \in DiscordName,
         NEW u \in User, u \in Membership(HGetAll(r))
  PROVE  <<HGetAll(r)["Name"], u>> \in Ever
  <1> DEFINE t == <<r, HGetAll(r)["Name"], u>>
  <1>1. HGetAll(r) = roles[r]
    BY DEF HGetAll, RoleExists
  <1>2. Entitled(r, HGetAll(r)["Name"], u)
    BY <1>1 DEF Entitled
  <1>3. t \in Entitlements
    BY <1>2 DEF Entitlements
  <1>4. <<t[2], t[3]>> \in Ever
    BY <1>3 DEF Ever
  <1> QED BY <1>4

LEMMA JustEnds ==
  ASSUME TypeInv, Cleared, JustInv, Begin \/ Again
  PROVE  JustInv'
  <1>1. CASE Begin
    <2>1. Ever' = Ever /\ ever' = Ever
      BY <1>1, SteadyUnchanged DEF Begin, discordVars
    <2>2. pc' = "getAllMembers" /\ chremoasMemberships' = NoRoles
      BY <1>1 DEF Begin, GoTo, readVars, Cleared, Between
    <2> QED
      BY <2>1, <2>2
      DEF JustInv, EverNow, RoleAsStored, FoundEntitled, GrantJustified,
          WithFilters, NoRoles
  <1>2. CASE Again
    <2>1. pc' = "idle" /\ chremoasMemberships' = NoRoles
      BY <1>2 DEF Again, GoTo, readVars, Cleared, Between
    <2> QED
      BY <2>1
      DEF JustInv, EverNow, RoleAsStored, FoundEntitled, GrantJustified,
          WithFilters, NoRoles
  <1> QED BY <1>1, <1>2

LEMMA JustPassEnds ==
  ASSUME JustInv, pc # "idle", NEW step \in {"done", "failed"}, PassEnds(step),
         UNCHANGED <<storeVars, guildRoles, ever, redefined>>
  PROVE  JustInv'
  BY SteadyUnchanged
  DEF PassEnds, GoTo, JustInv, EverNow, RoleAsStored, FoundEntitled,
      GrantJustified, WithFilters, NoRoles

(* The steps that neither read a role nor change what was read.            *)
LEMMA JustRest ==
  ASSUME TypeInv, JustInv,
         \/ GetAllMembers \/ GetAllRoles \/ ListHashes \/ Compare
         \/ UpdatesDone \/ CallFails \/ CacheRefreshes \/ UNCHANGED vars
         \/ \E r \in ShortName : NextRole(r)
         \/ \E u \in User : UpdateMember(u) \/ UpdateFails(u)
  PROVE  JustInv'
  <1>0. CASE UpdatesDone \/ CallFails
    BY <1>0, JustPassEnds DEF UpdatesDone, CallFails, discordVars, historyVars
  <1> SUFFICES
        ASSUME \/ GetAllMembers \/ GetAllRoles \/ ListHashes \/ Compare
               \/ CacheRefreshes \/ UNCHANGED vars
               \/ \E r \in ShortName : NextRole(r)
               \/ \E u \in User : UpdateMember(u) \/ UpdateFails(u)
        PROVE  JustInv'
    BY <1>0
  <1>1. UNCHANGED <<storeVars, guildRoles, ever, redefined, membership,
                    filterPair, chremoasMemberships>>
    <2>1. CASE CacheRefreshes \/ UNCHANGED vars
      BY <2>1, AsideIs DEF Aside, readVars, historyVars
    <2> QED
      BY <2>1
      DEF GetAllMembers, GetAllRoles, ListHashes, Compare, NextRole,
          UpdateMember, UpdateFails, discordVars, roleVars, listVars, readVars,
          historyVars
  <1>2. \/ pc # "idle" /\ pc' \notin WithFilters \cup {"idle", "sync", "filters"}
        \/ pc' = pc /\ role' = role
    <2>1. CASE CacheRefreshes \/ UNCHANGED vars
      BY <2>1, AsideIs DEF Aside, readVars
    <2> QED
      BY <2>1
      DEF GetAllMembers, GetAllRoles, ListHashes, Compare, NextRole,
          UpdateMember, UpdateFails, GoTo, readVars, WithFilters
  <1>3. EverNow'
    BY <1>1, <1>2, SteadyUnchanged DEF JustInv, EverNow, WithFilters
  <1>4. RoleAsStored' /\ FoundEntitled'
    <2>1. CASE pc' \notin WithFilters \cup {"idle", "sync", "filters"}
      BY <2>1 DEF RoleAsStored, FoundEntitled, WithFilters
    <2>2. CASE pc' = pc /\ role' = role
      <3>1. /\ HGetAll(role)' = HGetAll(role)
            /\ FiltersOf(role)' = FiltersOf(role)
            /\ RoleExists(role)' = RoleExists(role)
        BY <1>1, <2>2 DEF HGetAll, FiltersOf, RoleExists, storeVars
      <3> QED
        BY <1>1, <2>2, <3>1
        DEF JustInv, RoleAsStored, FoundEntitled, SkippedBySyncMembers
    <2> QED BY <1>2, <2>1, <2>2
  <1>5. GrantJustified'
    BY <1>1 DEF JustInv, GrantJustified
  <1> QED BY <1>3, <1>4, <1>5 DEF JustInv

(* The probes: the first finds that the role is stored, the second that it *)
(* is not skipped.                                                         *)
LEMMA JustProbe ==
  ASSUME TypeInv, JustInv,
         SyncExists \/ ReadSync \/ ReadDescription \/ NameExists
  PROVE  JustInv'
  <1>0. CASE PassEnds("failed")
    <2>1. pc # "idle"
      BY DEF SyncExists, ReadSync, ReadDescription, NameExists, Probe
    <2>2. UNCHANGED <<storeVars, guildRoles, ever, redefined>>
      BY ProbeIs DEF discordVars, historyVars
    <2> QED BY <1>0, <2>1, <2>2, JustPassEnds
  <1> SUFFICES ASSUME pc' # "failed", UNCHANGED <<listVars, readVars, updateMembers>>
               PROVE  JustInv'
    BY <1>0, ProbeIs
  <1>1. UNCHANGED <<storeVars, guildRoles, ever, redefined, role, membership,
                    filterPair, chremoasMemberships>>
    BY ProbeIs DEF discordVars, historyVars, readVars
  <1>2. \/ pc = "exists" /\ pc' = "sync" /\ RoleExists(role)
        \/ /\ pc = "sync" /\ pc' = "filters"
           /\ ~SkippedBySyncMembers(HGetAll(role))
        \/ pc = "description" /\ pc' = "smembers"
        \/ pc = "existsAgain" /\ pc' = "name"
        \/ pc # "idle" /\ pc' = "nextRole"
    BY DEF SyncExists, ReadSync, ReadDescription, NameExists, Probe, PassEnds,
           GoTo
  <1>3. /\ HGetAll(role)' = HGetAll(role)
        /\ FiltersOf(role)' = FiltersOf(role)
        /\ RoleExists(role)' = RoleExists(role)
        /\ SkippedBySyncMembers(HGetAll(role))' = SkippedBySyncMembers(HGetAll(role))
    BY <1>1 DEF HGetAll, FiltersOf, RoleExists, storeVars, SkippedBySyncMembers
  <1>4. EverNow'
    BY <1>1, <1>2, SteadyUnchanged DEF JustInv, EverNow
  <1>5. RoleAsStored' /\ FoundEntitled'
    BY <1>1, <1>2, <1>3
    DEF JustInv, RoleAsStored, FoundEntitled, WithFilters
  <1>6. GrantJustified'
    BY <1>1 DEF JustInv, GrantJustified
  <1> QED BY <1>4, <1>5, <1>6 DEF JustInv

LEMMA JustReads ==
  ASSUME TypeInv, Branch, JustInv,
         ReadFilters \/ ReadMembers \/ ReadIntersection
  PROVE  JustInv'
  <1>1. UNCHANGED <<storeVars, guildRoles, ever, redefined, role,
                    chremoasMemberships>>
    BY DEF ReadFilters, ReadMembers, ReadIntersection, SetMembership,
           discordVars, historyVars, readVars
  <1>2. /\ HGetAll(role)' = HGetAll(role)
        /\ FiltersOf(role)' = FiltersOf(role)
        /\ RoleExists(role)' = RoleExists(role)
        /\ SkippedBySyncMembers(HGetAll(role))' = SkippedBySyncMembers(HGetAll(role))
    BY <1>1 DEF HGetAll, FiltersOf, RoleExists, storeVars, SkippedBySyncMembers
  <1>3. /\ pc \in {"filters", "smembers", "sinter"}
        /\ pc' \in {"description", "sinter", "existsAgain"}
    BY DEF ReadFilters, ReadMembers, ReadIntersection, SetMembership, GoTo
  <1>4. EverNow'
    BY <1>1, <1>3, SteadyUnchanged DEF JustInv, EverNow
  <1>5. GrantJustified'
    BY <1>1 DEF JustInv, GrantJustified
  <1>6. CASE ReadFilters
    <2>1. /\ pc = "filters" /\ pc' \in {"description", "sinter"}
          /\ filterPair' = FiltersOf(role)
      BY <1>6 DEF ReadFilters, GoTo, FiltersOf
    <2>2. RoleAsStored' /\ FoundEntitled'
      BY <1>1, <1>2, <2>1 DEF JustInv, RoleAsStored, FoundEntitled, WithFilters
    <2> QED BY <1>4, <1>5, <2>2 DEF JustInv
  <1>7. CASE ReadMembers \/ ReadIntersection
    <2>1. /\ pc \in {"smembers", "sinter"} /\ pc' = "existsAgain"
          /\ filterPair' = filterPair
      BY <1>7 DEF ReadMembers, ReadIntersection, SetMembership, GoTo
    <2>2. RoleAsStored'
      BY <1>1, <1>2, <2>1 DEF JustInv, RoleAsStored, WithFilters
    <2>3. role \in ShortName /\ membership' \subseteq User
      BY <1>7, <2>1, MembershipType
      DEF TypeInv, TypeOK, RoleSet, InRole, WithFilters
    <2>4. ASSUME ~redefined, HGetAll(role)["Name"] \in DiscordName,
                 NEW u \in membership'
          PROVE  <<HGetAll(role)["Name"], u>> \in ever
      <3>1. /\ RoleExists(role) /\ ~SkippedBySyncMembers(HGetAll(role))
            /\ filterPair = FiltersOf(role)
        BY <2>1, <2>4 DEF JustInv, RoleAsStored, WithFilters
      <3>2. membership' = Membership(HGetAll(role))
        BY <1>7, <3>1, MembershipRead DEF FiltersOf
      <3>3. <<HGetAll(role)["Name"], u>> \in Ever
        BY <2>3, <2>4, <3>1, <3>2, HoldersAreEntitled
      <3> QED BY <2>1, <3>3 DEF JustInv, EverNow
    <2>5. FoundEntitled'
      BY <1>1, <1>2, <2>4 DEF FoundEntitled
    <2> QED BY <1>4, <1>5, <2>2, <2>5 DEF JustInv
  <1> QED BY <1>6, <1>7

LEMMA JustReadName ==
  ASSUME TypeInv, JustInv, ReadName
  PROVE  JustInv'
  <1> DEFINE name == HGetAll(role)["Name"]
  <1>1. /\ UNCHANGED <<storeVars, guildRoles, ever, redefined>>
        /\ pc = "name" /\ pc' = "nextRole"
    BY DEF ReadName, GoTo, discordVars, historyVars
  <1>2. \A u \in User :
          chremoasMemberships'[u] =
             IF u \in membership THEN chremoasMemberships[u] \cup ({name} \ {Empty})
             ELSE chremoasMemberships[u]
    BY DEF ReadName
  <1>3. name \in DiscordName \cup {Empty}
    BY <1>1, NameType DEF TypeInv, RoleSet, InRole, WithFilters
  <1>4. ~redefined /\ name \in DiscordName => \A u \in membership : <<name, u>> \in ever
    BY <1>1 DEF JustInv, FoundEntitled
  <1> HIDE DEF name
  <1>5. GrantJustified'
    BY <1>1, <1>2, <1>3, <1>4 DEF JustInv, GrantJustified
  <1>6. EverNow'
    BY <1>1, SteadyUnchanged DEF JustInv, EverNow
  <1>7. RoleAsStored' /\ FoundEntitled'
    BY <1>1 DEF RoleAsStored, FoundEntitled, WithFilters
  <1> QED BY <1>5, <1>6, <1>7 DEF JustInv

(* A disturbance during a pass rewrites a hash, or leaves all of them.     *)
LEMMA JustDisturbed ==
  ASSUME TypeInv, Cleared, JustInv, HandlerWrites \/ GuildChanges
  PROVE  JustInv'
  <1>1. /\ ever' = IF pc = "idle" THEN {} ELSE ever \cup Ever'
        /\ redefined' = (redefined \/ (pc # "idle" /\ roles' # roles))
        /\ UNCHANGED <<pc, role, membership, filterPair, chremoasMemberships>>
    BY DEF HandlerWrites, GuildChanges, Disturbed, readVars
  <1>2. EverNow'
    BY <1>1 DEF JustInv, EverNow
  <1>3. CASE pc = "idle"
    BY <1>1, <1>2, <1>3
    DEF Cleared, Between, JustInv, RoleAsStored, FoundEntitled, GrantJustified,
        WithFilters, NoRoles
  <1>4. CASE pc # "idle"
    <2>1. /\ ever \subseteq ever'
          /\ ~redefined' => ~redefined /\ roles' = roles
      BY <1>1, <1>4
    <2>2. roles' = roles =>
             /\ HGetAll(role)' = HGetAll(role)
             /\ FiltersOf(role)' = FiltersOf(role)
             /\ RoleExists(role)' = RoleExists(role)
             /\ SkippedBySyncMembers(HGetAll(role))'
                   = SkippedBySyncMembers(HGetAll(role))
      BY <1>1 DEF HGetAll, FiltersOf, RoleExists, SkippedBySyncMembers
    <2>3. RoleAsStored' /\ FoundEntitled'
      BY <1>1, <2>1, <2>2 DEF JustInv, RoleAsStored, FoundEntitled, WithFilters
    <2>4. GrantJustified'
      BY <1>1, <2>1 DEF JustInv, GrantJustified
    <2> QED BY <1>2, <2>3, <2>4 DEF JustInv
  <1> QED BY <1>3, <1>4

LEMMA NextJust ==
  ASSUME TypeInv, Cleared, Branch, JustInv, [Next]_vars
  PROVE  JustInv'
  BY JustEnds, JustRest, JustProbe, JustReads, JustReadName, JustDisturbed
  DEF Next, Pass, PassStep

LEMMA JustInvariant == Spec => []JustInv
  <1>1. Init => JustInv
    <2> SUFFICES ASSUME Init PROVE JustInv
      OBVIOUS
    <2>1. pc = "idle" /\ chremoasMemberships = NoRoles
      BY DEF Init
    <2> QED
      BY <2>1
      DEF JustInv, EverNow, RoleAsStored, FoundEntitled, GrantJustified,
          WithFilters, NoRoles
  <1>2. SteadyInv /\ PassInv => Branch /\ Cleared
    BY DEF SteadyInv, PassInv
  <1>3. TypeInv /\ Cleared /\ Branch /\ JustInv /\ [Next]_vars => JustInv'
    BY NextJust
  <1> QED
    BY <1>1, <1>2, <1>3, PassInvariant, SteadyInvariant, TypeInvariant, PTL
    DEF Spec

(* The pass asks for a role for a user only if, at some moment since it    *)
(* began, a hash entitled him to it, unless a hash was rewritten: members  *)
(* who come and go between two reads never add up to an entitlement that   *)
(* nobody gave.                                                            *)
THEOREM GrantsJustified == Spec => []GrantJustified
  <1>1. JustInv => GrantJustified
    BY DEF JustInv
  <1> QED BY <1>1, JustInvariant, PTL
-----------------------------------------------------------------------------
(***************************************************************************)
(* Convergence.  Quiet says that since the pass began nothing but the pass *)
(* acted and no call failed.  Then the histories are what is true now, the *)
(* pass knows the guild as it is, and it misses no entitlement.            *)
(***************************************************************************)
QuietHistory ==
    quiet => ever = Ever /\ ~redefined /\ stayed = inGuild /\ pc # "idle"

QuietGuild ==
    /\ quiet /\ pc # "update" =>
          \A u \in User : discordMemberships[u] = IF u \in listed THEN held[u] ELSE {}
    /\ quiet /\ pc \in Reading \cup {"getRoles"} => unlisted = guildRoles \ roleNameMap

QuietRead ==
    quiet /\ pc \in Reading =>
        /\ pc = "update" => todo = {}
        /\ \A t \in Entitlements : \/ t[1] \in todo
                                   \/ pc \in InRole /\ t[1] = role
                                   \/ t[2] \in chremoasMemberships[t[3]]

QuietMember ==
    quiet /\ pc \in {"existsAgain", "name"} =>
        Membership(HGetAll(role)) \subseteq membership

\* What an undisturbed pass may leave a member with.
Settled(u) == InStep(u) \/ InStepAsListed(u) \/ EntitledTo(u) \cap deadIds # {}

QuietUpdates ==
    quiet /\ pc \in {"update", "done"} =>
        \A u \in MayTouch : EntitledTo(u) # {} => u \in updateMembers \/ Settled(u)

QuietInv ==
    QuietHistory /\ QuietGuild /\ QuietRead /\ QuietMember /\ QuietUpdates

(* What the pass has collected when it compares is what users are to have. *)
LEMMA QuietCollected ==
  ASSUME TypeInv, JustInv, QuietInv, quiet, NEW u \in User,
         pc \in Reading, pc \notin InRole, todo = {}
  PROVE  chremoasMemberships[u] = EntitledTo(u)
  <1>1. ASSUME NEW n \in EntitledTo(u) PROVE n \in chremoasMemberships[u]
    <2>1. PICK r \in ShortName : n \in DiscordName /\ Entitled(r, n, u)
      BY DEF EntitledTo
    <2> DEFINE t == <<r, n, u>>
    <2>2. t \in Entitlements
      BY <2>1 DEF Entitlements
    <2>3. t[2] \in chremoasMemberships[t[3]]
      BY <2>2 DEF QuietInv, QuietRead
    <2> QED BY <2>3
  <1>2. ASSUME NEW n \in chremoasMemberships[u] PROVE n \in EntitledTo(u)
    <2>1. <<n, u>> \in Ever
      BY DEF JustInv, GrantJustified, QuietInv, QuietHistory
    <2>2. PICK t \in Entitlements : <<n, u>> = <<t[2], t[3]>>
      BY <2>1 DEF Ever
    <2>3. /\ t \in ShortName \X DiscordName \X User
          /\ Entitled(t[1], t[2], t[3])
      BY <2>2 DEF Entitlements
    <2>4. n = t[2] /\ u = t[3]
      BY <2>2
    <2> QED BY <2>3, <2>4 DEF EntitledTo
  <1> QED BY <1>1, <1>2

(* Who is entitled to what depends on the registry only.                   *)
LEMMA EntitledUnchanged ==
  ASSUME UNCHANGED storeVars
  PROVE  /\ Entitlements' = Entitlements /\ Ever' = Ever
         /\ \A u : EntitledTo(u)' = EntitledTo(u)
         /\ \A r : Membership(HGetAll(r))' = Membership(HGetAll(r))
  BY DEF storeVars, Ever, Entitlements, EntitledTo, Entitled, RoleExists,
         HGetAll, Membership, MembersOf

LEMMA SettledUnchanged ==
  ASSUME UNCHANGED <<storeVars, guildRoles, deadIds, unlisted>>,
         NEW u, held'[u] = held[u]
  PROVE  Settled(u)' = Settled(u)
  BY EntitledUnchanged DEF Settled, InStep, InStepAsListed

(* Steps that do not leave the pass quiet.                                 *)
LEMMA QuietEnds ==
  ASSUME \/ HandlerWrites \/ GuildChanges \/ CallFails \/ Again
         \/ \E u \in User : UpdateFails(u)
  PROVE  QuietInv'
  <1>1. ~quiet'
    BY DEF HandlerWrites, GuildChanges, Disturbed, CallFails, Again, UpdateFails
  <1> QED
    BY <1>1
    DEF QuietInv, QuietHistory, QuietGuild, QuietRead, QuietMember, QuietUpdates

(* Steps that leave the registry and the guild alone.                      *)
LEMMA QuietSame ==
  ASSUME QuietInv, pc' # "idle",
         UNCHANGED <<storeVars, inGuild, ever, redefined, stayed, quiet>>
  PROVE  QuietHistory'
  BY EntitledUnchanged DEF QuietInv, QuietHistory

LEMMA QuietBegin ==
  ASSUME Cleared, Begin
  PROVE  QuietInv'
  <1>1. /\ pc = "idle" /\ pc' = "getAllMembers"
        /\ UNCHANGED <<storeVars, discordVars, listVars>>
        /\ ever' = Ever /\ redefined' = FALSE /\ stayed' = inGuild
    BY DEF Begin, GoTo
  <1>2. listed' = {} /\ discordMemberships' = NoRoles
    BY <1>1 DEF Cleared, Between, listVars
  <1>3. QuietHistory'
    BY <1>1, EntitledUnchanged DEF QuietHistory, discordVars
  <1>4. QuietGuild' /\ QuietRead' /\ QuietMember' /\ QuietUpdates'
    BY <1>1, <1>2
    DEF QuietGuild, QuietRead, QuietMember, QuietUpdates, Reading, InRole,
        WithFilters, NoRoles
  <1> QED BY <1>3, <1>4 DEF QuietInv

(* An undisturbed pass ends, well or not.                                  *)
LEMMA QuietPassEnds ==
  ASSUME QuietInv, NEW step \in {"done", "failed"}, PassEnds(step),
         UNCHANGED <<storeVars, discordVars, historyVars>>,
         step = "done" => pc = "update" /\ updateMembers = {}
  PROVE  QuietInv'
  <1>1. pc' = step /\ listed' = {} /\ discordMemberships' = NoRoles
    BY DEF PassEnds, GoTo
  <1>2. QuietHistory'
    BY <1>1, QuietSame DEF discordVars, historyVars
  <1>3. QuietGuild' /\ QuietRead' /\ QuietMember'
    BY <1>1
    DEF QuietGuild, QuietRead, QuietMember, Reading, InRole, WithFilters, NoRoles
  <1>4. QuietUpdates'
    <2> SUFFICES ASSUME quiet', pc' = "done", NEW u \in MayTouch', EntitledTo(u)' # {}
                 PROVE  Settled(u)'
      BY <1>1 DEF QuietUpdates
    <2>1. MayTouch' = MayTouch /\ EntitledTo(u)' = EntitledTo(u)
      BY EntitledUnchanged DEF MayTouch, discordVars
    <2>2. Settled(u)
      BY <1>1, <2>1 DEF QuietInv, QuietUpdates, historyVars
    <2> QED BY <2>2, SettledUnchanged DEF discordVars, historyVars
  <1> QED BY <1>2, <1>3, <1>4 DEF QuietInv

LEMMA QuietLists ==
  ASSUME TypeInv, QuietInv, GetAllMembers \/ GetAllRoles \/ ListHashes
  PROVE  QuietInv'
  <1>1. /\ UNCHANGED <<storeVars, inGuild, held, guildRoles, ever, redefined,
                       stayed, quiet>>
        /\ pc \in {"getAllMembers", "getAllRoles", "getRoles"}
        /\ pc' \in {"getAllMembers", "getAllRoles", "getRoles", "nextRole"}
    BY DEF GetAllMembers, GetAllRoles, ListHashes, GoTo, discordVars, historyVars
  <1>2. QuietHistory'
    BY <1>1, QuietSame
  <1>3. QuietMember' /\ QuietUpdates'
    BY <1>1 DEF QuietMember, QuietUpdates
  <1>4. CASE GetAllMembers
    <2>1. pc' \in {"getAllMembers", "getAllRoles"}
      BY <1>4 DEF GetAllMembers, GoTo
    <2>2. quiet' => \A u \in User :
            discordMemberships'[u] = IF u \in listed' THEN held'[u] ELSE {}
      <3>1. quiet' => \A u \in User :
              discordMemberships[u] = IF u \in listed THEN held[u] ELSE {}
        BY <1>1 DEF QuietInv, QuietGuild
      <3> DEFINE page == Page(memberId)
      <3>2. \/ UNCHANGED <<listed, discordMemberships>>
            \/ /\ listed' = listed \cup page
               /\ discordMemberships' =
                    [u \in User |-> IF u \in page THEN discordMemberships[u] \cup held[u]
                                    ELSE discordMemberships[u]]
        BY <1>4 DEF GetAllMembers, listVars
      <3> HIDE DEF page
      <3> QED BY <1>1, <3>1, <3>2
    <2>3. QuietGuild' /\ QuietRead'
      BY <2>1, <2>2
      DEF QuietGuild, QuietRead, Reading, InRole, WithFilters
    <2> QED BY <1>2, <1>3, <2>3 DEF QuietInv
  <1>5. CASE GetAllRoles
    <2>1. /\ pc = "getAllRoles" /\ pc' = "getRoles"
          /\ roleNameMap' = cache /\ unlisted' = guildRoles \ cache
          /\ UNCHANGED <<listed, discordMemberships>>
      BY <1>5 DEF GetAllRoles, GoTo
    <2>2. QuietGuild' /\ QuietRead'
      BY <1>1, <2>1
      DEF QuietInv, QuietGuild, QuietRead, Reading, InRole, WithFilters
    <2> QED BY <1>2, <1>3, <2>2 DEF QuietInv
  <1>6. CASE ListHashes
    <2>1. /\ pc = "getRoles" /\ pc' = "nextRole" /\ todo' = getRoles
          /\ UNCHANGED <<listVars, unlisted>>
      BY <1>6 DEF ListHashes, GoTo, historyVars
    <2>2. \A t \in Entitlements : t[1] \in getRoles
      BY DEF Entitlements, Entitled, getRoles
    <2>3. QuietGuild'
      BY <1>1, <2>1 DEF QuietInv, QuietGuild, listVars
    <2>4. QuietRead'
      BY <1>1, <2>1, <2>2, EntitledUnchanged DEF QuietRead
    <2> QED BY <1>2, <1>3, <2>3, <2>4 DEF QuietInv
  <1> QED BY <1>4, <1>5, <1>6

LEMMA QuietReading ==
  ASSUME TypeInv, Branch, JustInv, QuietInv,
         \/ SyncExists \/ ReadSync \/ ReadFilters \/ ReadDescription
         \/ ReadMembers \/ ReadIntersection \/ NameExists \/ ReadName
         \/ \E r \in ShortName : NextRole(r)
  PROVE  QuietInv'
  <1>0. ASSUME SyncExists \/ ReadSync \/ ReadDescription \/ NameExists,
               PassEnds("failed")
        PROVE  QuietInv'
    BY <1>0, ProbeIs, QuietPassEnds
  <1> SUFFICES ASSUME ~PassEnds("failed") PROVE QuietInv'
    BY <1>0 DEF ReadFilters, ReadMembers, ReadIntersection, SetMembership,
                ReadName, NextRole, PassEnds, GoTo
  <1>1. /\ UNCHANGED <<storeVars, discordVars, listVars, historyVars>>
        /\ pc \in InRole \cup {"nextRole"}
        /\ pc' \in InRole \cup {"nextRole"}
    <2>1. CASE SyncExists \/ ReadSync \/ ReadDescription \/ NameExists
      <3>1. UNCHANGED <<storeVars, discordVars, listVars, historyVars>>
        BY <2>1, ProbeIs
      <3> QED
        BY <2>1, <3>1
        DEF SyncExists, ReadSync, ReadDescription, NameExists, Probe, GoTo,
            InRole, WithFilters
    <2>2. CASE \/ ReadFilters \/ ReadMembers \/ ReadIntersection \/ ReadName
               \/ \E r \in ShortName : NextRole(r)
      BY <2>2
      DEF ReadFilters, ReadMembers, ReadIntersection, SetMembership, ReadName,
          NextRole, GoTo, InRole, WithFilters
    <2> QED BY <2>1, <2>2
  <1>2. QuietHistory'
    BY <1>1, QuietSame DEF InRole, WithFilters, discordVars, historyVars
  <1>3. QuietUpdates' /\ QuietGuild'
    BY <1>1
    DEF QuietInv, QuietUpdates, QuietGuild, Reading, InRole, WithFilters,
        discordVars, historyVars, listVars
  <1>4. CASE \E r \in ShortName : NextRole(r)
    <2>1. PICK r \in ShortName :
            /\ pc = "nextRole" /\ pc' = "exists"
            /\ todo' = todo \ {r} /\ role' = r
            /\ UNCHANGED chremoasMemberships
      BY <1>4 DEF NextRole, GoTo
    <2>2. QuietRead'
      BY <1>1, <2>1, EntitledUnchanged
      DEF QuietInv, QuietRead, Reading, InRole, WithFilters, historyVars
    <2>3. QuietMember'
      BY <2>1 DEF QuietMember
    <2> QED BY <1>2, <1>3, <2>2, <2>3 DEF QuietInv
  <1>5. CASE SyncExists \/ ReadSync \/ ReadDescription \/ NameExists
    <2>1. UNCHANGED readVars
      BY <1>5, ProbeIs
    <2>2. \/ pc' \in InRole /\ pc' # "existsAgain"
             /\ (pc' = "name" => pc = "existsAgain") /\ pc \in InRole
          \/ /\ pc = "sync" /\ pc' = "nextRole"
             /\ SkippedBySyncMembers(HGetAll(role))
      BY <1>5
      DEF SyncExists, ReadSync, ReadDescription, NameExists, Probe, GoTo,
          InRole, WithFilters
    <2>3. SkippedBySyncMembers(HGetAll(role)) => \A t \in Entitlements : t[1] # role
      BY DEF Entitlements, Entitled, HGetAll, RoleExists
    <2>4. QuietRead'
      BY <1>1, <2>1, <2>2, <2>3, EntitledUnchanged
      DEF QuietInv, QuietRead, Reading, InRole, WithFilters, historyVars,
          readVars
    <2>5. QuietMember'
      <3>1. Membership(HGetAll(role))' = Membership(HGetAll(role))
        BY <1>1, <2>1
        DEF HGetAll, Membership, MembersOf, storeVars, readVars
      <3> QED
        BY <1>1, <2>1, <2>2, <3>1
        DEF QuietInv, QuietMember, historyVars, readVars
    <2> QED BY <1>2, <1>3, <2>4, <2>5 DEF QuietInv
  <1>6. CASE ReadFilters \/ ReadMembers \/ ReadIntersection
    <2>1. /\ UNCHANGED <<todo, role, chremoasMemberships>>
          /\ pc \in InRole /\ pc' \in InRole
          /\ pc' = "existsAgain" =>
                /\ ReadMembers \/ ReadIntersection
                /\ pc \in {"smembers", "sinter"}
          /\ pc' # "name"
      BY <1>6
      DEF ReadFilters, ReadMembers, ReadIntersection, SetMembership, GoTo,
          InRole, WithFilters
    <2>2. QuietRead'
      BY <1>1, <2>1, EntitledUnchanged
      DEF QuietInv, QuietRead, Reading, InRole, WithFilters, historyVars
    <2>3. ASSUME quiet', pc' = "existsAgain"
          PROVE  membership' = Membership(HGetAll(role))
      <3>1. ~redefined
        BY <1>1, <2>3 DEF QuietInv, QuietHistory, historyVars
      <3>2. filterPair = FiltersOf(role)
        BY <2>1, <2>3, <3>1 DEF JustInv, RoleAsStored, WithFilters
      <3> QED BY <2>1, <2>3, <3>2, MembershipRead DEF FiltersOf
    <2>4. QuietMember'
      <3>1. Membership(HGetAll(role))' = Membership(HGetAll(role))
        BY <1>1, <2>1 DEF HGetAll, Membership, MembersOf, storeVars
      <3> QED BY <2>1, <2>3, <3>1 DEF QuietMember
    <2> QED BY <1>2, <1>3, <2>2, <2>4 DEF QuietInv
  <1>7. CASE ReadName
    <2> DEFINE name == HGetAll(role)["Name"]
    <2>1. pc = "name" /\ pc' = "nextRole" /\ todo' = todo
      BY <1>7 DEF ReadName, GoTo
    <2>2. \A u \in User :
            chremoasMemberships'[u] =
               IF u \in membership THEN chremoasMemberships[u] \cup ({name} \ {Empty})
               ELSE chremoasMemberships[u]
      BY <1>7 DEF ReadName
    <2>3. ASSUME quiet, NEW t \in Entitlements
          PROVE  t[1] \in todo \/ t[2] \in chremoasMemberships'[t[3]]
      <3>1. /\ t[2] \in DiscordName /\ t[3] \in User
            /\ HGetAll(t[1])["Name"] = t[2]
            /\ t[3] \in Membership(HGetAll(t[1]))
        BY DEF Entitlements, Entitled, HGetAll, RoleExists
      <3>2. CASE t[1] = role
        <4>1. t[3] \in membership
          BY <2>1, <2>3, <3>1, <3>2 DEF QuietInv, QuietMember
        <4>2. name = t[2] /\ name # Empty
          BY <3>1, <3>2, RoleTableAssumption
        <4> HIDE DEF name
        <4> QED BY <2>2, <3>1, <4>1, <4>2
      <3>3. CASE t[1] # role
        <4>1. t[1] \in todo \/ t[2] \in chremoasMemberships[t[3]]
          BY <2>1, <2>3, <3>3
          DEF QuietInv, QuietRead, Reading, InRole, WithFilters
        <4> HIDE DEF name
        <4> QED BY <2>2, <3>1, <4>1
      <3> QED BY <3>2, <3>3
    <2>4. QuietRead'
      BY <1>1, <2>1, <2>3, EntitledUnchanged DEF QuietRead, historyVars
    <2>5. QuietMember'
      BY <2>1 DEF QuietMember
    <2> QED BY <1>2, <1>3, <2>4, <2>5 DEF QuietInv
  <1> QED BY <1>4, <1>5, <1>6, <1>7

(* The comparison leaves out only users who are in step or are to have no  *)
(* role.                                                                   *)
LEMMA QuietComparing ==
  ASSUME TypeInv, HeldExist, NobodyMissed, JustInv, QuietInv, Compare
  PROVE  QuietInv'
  <1>1. /\ pc = "nextRole" /\ pc' = "update" /\ todo = {}
        /\ UNCHANGED <<storeVars, discordVars, listVars, historyVars, readVars>>
        /\ updateMembers' = {u \in listed \ Ignored :
                               /\ chremoasMemberships[u] # discordMemberships[u]
                               /\ chremoasMemberships[u] # {}}
    BY DEF Compare, GoTo
  <1>2. QuietHistory'
    BY <1>1, QuietSame DEF discordVars, historyVars
  <1>3. QuietGuild' /\ QuietMember'
    BY <1>1
    DEF QuietInv, QuietGuild, QuietMember, Reading, InRole, WithFilters,
        discordVars, historyVars, listVars
  <1>4. QuietRead'
    BY <1>1, EntitledUnchanged
    DEF QuietInv, QuietRead, Reading, InRole, WithFilters, historyVars, readVars
  <1>5. ASSUME quiet, NEW u \in MayTouch, EntitledTo(u) # {}, u \notin updateMembers'
        PROVE  Settled(u)
    <2>1. u \in User /\ u \in listed /\ u \notin Ignored
      BY <1>1, <1>5
      DEF MayTouch, NobodyMissed, Listing, QuietInv, QuietHistory, TypeInv, TypeOK
    <2>2. chremoasMemberships[u] = EntitledTo(u)
      BY <1>1, <1>5, <2>1, QuietCollected DEF Reading, InRole, WithFilters
    <2>3. chremoasMemberships[u] = discordMemberships[u]
      BY <1>1, <1>5, <2>1, <2>2
    <2>4. discordMemberships[u] = held[u] /\ held[u] \subseteq guildRoles
      BY <1>1, <1>5, <2>1 DEF QuietInv, QuietGuild, HeldExist
    <2> QED BY <2>2, <2>3, <2>4 DEF Settled, InStep
  <1>6. QuietUpdates'
    <2>1. /\ MayTouch' = MayTouch
          /\ \A u : EntitledTo(u)' = EntitledTo(u) /\ Settled(u)' = Settled(u)
      BY <1>1, EntitledUnchanged, SettledUnchanged
      DEF MayTouch, discordVars, historyVars
    <2> QED BY <1>1, <1>5, <2>1 DEF QuietUpdates, historyVars
  <1> QED BY <1>2, <1>3, <1>4, <1>6 DEF QuietInv

(* So what an undisturbed pass sends for a user is what he is to have, as  *)
(* far as the list showed it, unless one of the ids is dead.               *)
LEMMA QuietRoleIds ==
  ASSUME TypeInv, IdsAlive, JustInv, QuietInv, quiet, pc = "update", NEW u \in User
  PROVE  /\ RoleIds(u) \subseteq EntitledTo(u)
         /\ RoleIds(u) \cap deadIds = {} =>
               RoleIds(u) = (EntitledTo(u) \cap guildRoles) \ unlisted
  <1>1. todo = {} /\ unlisted = guildRoles \ roleNameMap
    BY DEF QuietInv, QuietRead, QuietGuild, Reading
  <1>2. chremoasMemberships[u] = EntitledTo(u)
    BY <1>1, QuietCollected DEF Reading, InRole, WithFilters
  <1>3. roleNameMap \ deadIds \subseteq guildRoles
    BY DEF IdsAlive
  <1> QED BY <1>1, <1>2, <1>3 DEF RoleIds

LEMMA QuietUpdating ==
  ASSUME TypeInv, IdsAlive, JustInv, QuietInv, NEW u \in User, UpdateMember(u)
  PROVE  QuietInv'
  <1>1. /\ pc = "update" /\ u \in updateMembers
        /\ updateMembers' = updateMembers \ {u}
        /\ UNCHANGED <<storeVars, inGuild, guildRoles, deadIds, pc, listVars,
                       readVars, historyVars>>
        /\ held' = IF u \in inGuild \ NoSync /\ RoleIds(u) \cap deadIds = {}
                   THEN [held EXCEPT ![u] = RoleIds(u)] ELSE held
    BY DEF UpdateMember, roleVars
  <1>2. held \in [User -> SUBSET DiscordName]
    BY DEF TypeInv, TypeOK
  <1> HIDE DEF RoleIds
  <1>3. QuietHistory'
    BY <1>1, EntitledUnchanged DEF QuietInv, QuietHistory, historyVars
  <1>4. QuietGuild' /\ QuietMember'
    BY <1>1
    DEF QuietInv, QuietGuild, QuietMember, Reading, InRole, WithFilters,
        historyVars, listVars
  <1>5. QuietRead'
    BY <1>1, EntitledUnchanged DEF QuietInv, QuietRead, historyVars, readVars
  <1>6. /\ MayTouch' = MayTouch
        /\ \A v : EntitledTo(v)' = EntitledTo(v)
    BY <1>1, EntitledUnchanged DEF MayTouch
  <1>7. ASSUME quiet, NEW v \in MayTouch, EntitledTo(v) # {}
        PROVE  v \in updateMembers' \/ Settled(v)'
    <2>1. v \in User /\ v \in inGuild \ NoSync
      BY <1>7 DEF MayTouch, TypeInv, TypeOK
    <2>2. CASE v = u /\ RoleIds(u) \cap deadIds = {}
      <3>1. held'[v] = (EntitledTo(v) \cap guildRoles) \ unlisted
        BY <1>1, <1>2, <1>7, <2>1, <2>2, QuietRoleIds
      <3>2. unlisted' = unlisted
        BY <1>1 DEF historyVars
      <3> QED BY <1>1, <1>6, <3>1, <3>2 DEF Settled, InStepAsListed
    <2>3. CASE v = u /\ RoleIds(u) \cap deadIds # {}
      <3>1. EntitledTo(v) \cap deadIds # {}
        BY <1>1, <1>7, <2>3, QuietRoleIds
      <3> QED BY <1>1, <1>6, <3>1 DEF Settled
    <2>4. CASE v # u
      <3>1. v \in updateMembers \/ Settled(v)
        BY <1>1, <1>7 DEF QuietInv, QuietUpdates
      <3>2. held'[v] = held[v]
        BY <1>1, <1>2, <2>1, <2>4
      <3>3. Settled(v)' = Settled(v)
        BY <1>1, <3>2, SettledUnchanged DEF historyVars
      <3> QED BY <1>1, <2>4, <3>1, <3>3
    <2> QED BY <2>2, <2>3, <2>4
  <1>8. QuietUpdates'
    BY <1>1, <1>6, <1>7 DEF QuietUpdates, historyVars
  <1> QED BY <1>3, <1>4, <1>5, <1>8 DEF QuietInv

LEMMA QuietAside ==
  ASSUME QuietInv, Aside
  PROVE  QuietInv'
  <1>1. UNCHANGED <<storeVars, inGuild, held, guildRoles, deadIds, pc, listVars,
                    readVars, updateMembers, historyVars, boundVars>>
    BY DEF Aside
  <1>2. QuietHistory'
    BY <1>1, EntitledUnchanged DEF QuietInv, QuietHistory, historyVars
  <1>3. QuietGuild' /\ QuietRead'
    BY <1>1, EntitledUnchanged
    DEF QuietInv, QuietGuild, QuietRead, listVars, readVars, historyVars
  <1>4. QuietMember'
    <2>1. Membership(HGetAll(role))' = Membership(HGetAll(role))
      BY <1>1 DEF HGetAll, Membership, MembersOf, storeVars, readVars
    <2> QED BY <1>1, <2>1 DEF QuietInv, QuietMember, readVars, historyVars
  <1>5. QuietUpdates'
    <2>1. /\ MayTouch' = MayTouch
          /\ \A u : EntitledTo(u)' = EntitledTo(u) /\ Settled(u)' = Settled(u)
      BY <1>1, EntitledUnchanged, SettledUnchanged DEF MayTouch, historyVars
    <2> QED BY <1>1, <2>1 DEF QuietInv, QuietUpdates, historyVars
  <1> QED BY <1>2, <1>3, <1>4, <1>5 DEF QuietInv

LEMMA NextQuiet ==
  ASSUME TypeInv, PassInv, NobodyMissed, Branch, JustInv, QuietInv, [Next]_vars
  PROVE  QuietInv'
  <1>1. Cleared /\ IdsAlive /\ HeldExist
    BY DEF PassInv
  <1>2. CASE CacheRefreshes \/ UNCHANGED vars
    BY <1>2, AsideIs, QuietAside
  <1>3. CASE UpdatesDone
    BY <1>3, QuietPassEnds DEF UpdatesDone
  <1> QED
    BY <1>1, <1>2, <1>3, QuietEnds, QuietBegin, QuietLists, QuietReading,
       QuietComparing, QuietUpdating
    DEF Next, Pass, PassStep

LEMMA QuietInvariant == Spec => []QuietInv
  <1>1. Init => QuietInv
    BY DEF Init, QuietInv, QuietHistory, QuietGuild, QuietRead, QuietMember,
           QuietUpdates
  <1>2. SteadyInv => Branch
    BY DEF SteadyInv
  <1>3. TypeInv /\ PassInv /\ NobodyMissed /\ Branch /\ JustInv /\ QuietInv
        /\ [Next]_vars => QuietInv'
    BY NextQuiet
  <1> QED
    BY <1>1, <1>2, <1>3, NobodyIsMissed, JustInvariant, SteadyInvariant,
       PassInvariant, TypeInvariant, PTL
    DEF Spec

(***************************************************************************)
(* Why an undisturbed pass gives up.  The roles it has yet to read exist,  *)
(* so that getRole finds them, and the filters it looks at are those of a  *)
(* role that is to be synchronised.                                        *)
(***************************************************************************)
TodoExists ==
    /\ pc = "idle" => ~quiet
    /\ quiet => todo \subseteq getRoles

RoleThere ==
    quiet /\ pc \in InRole =>
        /\ role \in ShortName /\ RoleExists(role)
        /\ pc \in WithFilters \cup {"filters"} => ~SkippedBySyncMembers(roles[role])
        /\ pc \in WithFilters => filterPair = FiltersOf(role)

FailsBlocked == quiet /\ pc = "failed" => Blocked

FailInv == TodoExists /\ RoleThere /\ FailsBlocked

(* Steps that do not leave the pass quiet.                                 *)
LEMMA FailEnds ==
  ASSUME \/ HandlerWrites \/ GuildChanges \/ CallFails \/ Again
         \/ \E u \in User : UpdateFails(u)
  PROVE  FailInv'
  <1>1. ~quiet'
    BY DEF HandlerWrites, GuildChanges, Disturbed, CallFails, Again, UpdateFails
  <1> QED BY <1>1 DEF FailInv, TodoExists, RoleThere, FailsBlocked

(* Steps outside the reading of one role.                                  *)
LEMMA FailRest ==
  ASSUME FailInv, Cleared,
         \/ Begin \/ GetAllMembers \/ GetAllRoles \/ ListHashes \/ Compare
         \/ UpdatesDone \/ (\E u \in User : UpdateMember(u))
  PROVE  FailInv'
  <1>1. /\ pc' \notin InRole \cup {"idle", "failed"}
        /\ UNCHANGED storeVars
        /\ \/ UNCHANGED quiet /\ (todo' = todo \/ todo' = getRoles)
           \/ todo' = {}
    <2>1. CASE GetAllMembers
      <3>1. UNCHANGED <<storeVars, readVars, historyVars>>
        BY <2>1, Zenon DEF GetAllMembers
      <3>2. pc' = "getAllRoles" \/ pc' = pc
        <4>1. CASE Page(memberId) = {}
          BY <2>1, <4>1, Zenon DEF GetAllMembers, GoTo
        <4>2. CASE Page(memberId) # {}
          BY <2>1, <4>2, Zenon DEF GetAllMembers
        <4> QED BY <4>1, <4>2
      <3>3. pc = "getAllMembers"
        BY <2>1, Zenon DEF GetAllMembers
      <3> QED BY <3>1, <3>2, <3>3 DEF InRole, WithFilters, readVars, historyVars
    <2>2. CASE Begin
      <3>1. /\ pc = "idle" /\ pc' = "getAllMembers"
            /\ UNCHANGED <<storeVars, readVars>>
        BY <2>2 DEF Begin, GoTo
      <3> QED
        BY <3>1 DEF InRole, WithFilters, readVars, Cleared, Between
    <2>3. CASE ListHashes
      <3>1. /\ pc' = "nextRole" /\ todo' = getRoles
            /\ UNCHANGED <<storeVars, historyVars>>
        BY <2>3 DEF ListHashes, GoTo
      <3> QED BY <3>1 DEF InRole, WithFilters, historyVars
    <2>4. CASE UpdatesDone
      BY <2>4 DEF UpdatesDone, PassEnds, GoTo, InRole, WithFilters
    <2>5. CASE GetAllRoles \/ Compare \/ \E u \in User : UpdateMember(u)
      <3>1. UNCHANGED <<storeVars, readVars, quiet>>
        BY <2>5 DEF GetAllRoles, Compare, UpdateMember, historyVars
      <3>2. pc' \in {"getRoles", "update"}
        BY <2>5 DEF GetAllRoles, Compare, UpdateMember, GoTo
      <3> QED BY <3>1, <3>2 DEF InRole, WithFilters, readVars
    <2> QED BY <2>1, <2>2, <2>3, <2>4, <2>5
  <1>2. getRoles' = getRoles
    BY <1>1 DEF storeVars, getRoles, RoleExists
  <1> QED
    BY <1>1, <1>2 DEF FailInv, TodoExists, RoleThere, FailsBlocked

(* The steps that read one role.                                           *)
LEMMA FailReading ==
  ASSUME TypeInv, Branch, FailInv,
         \/ (\E r \in ShortName : NextRole(r))
         \/ SyncExists \/ ReadSync \/ ReadFilters \/ ReadDescription
         \/ ReadMembers \/ ReadIntersection \/ NameExists \/ ReadName
  PROVE  FailInv'
  <1>1. UNCHANGED <<storeVars, quiet>> /\ todo' \subseteq todo /\ pc' # "idle"
    <2>1. CASE SyncExists \/ ReadSync \/ ReadDescription \/ NameExists
      <3>1. /\ UNCHANGED <<storeVars, historyVars>>
            /\ PassEnds("failed") \/ UNCHANGED readVars
        BY <2>1, ProbeIs
      <3>2. pc' # "idle"
        BY <2>1
        DEF SyncExists, ReadSync, ReadDescription, NameExists, Probe, PassEnds,
            GoTo
      <3> QED BY <3>1, <3>2 DEF PassEnds, readVars, historyVars
    <2>2. CASE \/ ReadFilters \/ ReadMembers \/ ReadIntersection \/ ReadName
               \/ \E r \in ShortName : NextRole(r)
      BY <2>2
      DEF NextRole, ReadFilters, ReadMembers, ReadIntersection, SetMembership,
          ReadName, GoTo, readVars, historyVars
    <2> QED BY <2>1, <2>2
  <1>2. /\ getRoles' = getRoles /\ (Blocked' <=> Blocked)
        /\ \A r : /\ RoleExists(r)' <=> RoleExists(r)
                  /\ roles'[r] = roles[r]
                  /\ FiltersOf(r)' = FiltersOf(r)
    <2>1. UNCHANGED <<roles, filters>>
      BY <1>1 DEF storeVars
    <2>2. \A r : RoleExists(r)' <=> RoleExists(r)
      BY <2>1 DEF RoleExists
    <2>3. getRoles' = getRoles
      BY <2>2 DEF getRoles
    <2>4. Blocked' <=> Blocked
      BY <2>1 DEF Blocked, Unresolvable, RoleExists
    <2>5. \A r : FiltersOf(r)' = FiltersOf(r)
      BY <2>1 DEF FiltersOf, HGetAll
    <2> QED BY <2>1, <2>2, <2>3, <2>4, <2>5
  <1>3. TodoExists'
    BY <1>1, <1>2 DEF FailInv, TodoExists
  <1> SUFFICES ASSUME quiet
               PROVE  RoleThere' /\ FailsBlocked'
    BY <1>1, <1>3 DEF FailInv, RoleThere, FailsBlocked
  <1>4. ASSUME NEW r \in ShortName, NextRole(r)
        PROVE  RoleThere' /\ FailsBlocked'
    <2>1. pc' = "exists" /\ role' = r /\ r \in todo
      BY <1>4 DEF NextRole, GoTo
    <2>2. RoleExists(r)
      BY <2>1 DEF FailInv, TodoExists, getRoles
    <2> QED
      BY <1>2, <2>1, <2>2 DEF RoleThere, FailsBlocked, InRole, WithFilters
  <1>5. ASSUME pc \in InRole
        PROVE  /\ role \in ShortName /\ RoleExists(role)
               /\ HGetAll(role) = roles[role]
    BY <1>5 DEF FailInv, RoleThere, HGetAll, RoleExists
  <1>6. CASE SyncExists \/ ReadSync \/ NameExists
    <2>1. pc \in {"exists", "sync", "existsAgain"}
      BY <1>6 DEF SyncExists, ReadSync, NameExists, Probe
    <2>2. pc \in InRole
      BY <2>1 DEF InRole, WithFilters
    <2>3. \/ pc = "exists" /\ pc' = "sync"
          \/ pc = "sync" /\ pc' = "nextRole"
          \/ /\ pc = "sync" /\ pc' = "filters"
             /\ ~SkippedBySyncMembers(roles[role])
          \/ pc = "existsAgain" /\ pc' = "name"
      BY <1>5, <1>6, <2>2 DEF SyncExists, ReadSync, NameExists, Probe, GoTo
    <2>4. UNCHANGED <<role, filterPair>>
      BY <1>6, <2>3, ProbeIs DEF PassEnds, GoTo, readVars
    <2> QED
      BY <1>2, <1>5, <2>1, <2>2, <2>3, <2>4
      DEF FailInv, RoleThere, FailsBlocked, InRole, WithFilters
  <1>7. CASE ReadFilters
    <2>1. /\ pc = "filters" /\ pc' \in {"description", "sinter"}
          /\ role' = role /\ filterPair' = FiltersOf(role)
      BY <1>7 DEF ReadFilters, GoTo, FiltersOf
    <2> QED
      BY <1>2, <1>5, <2>1
      DEF FailInv, RoleThere, FailsBlocked, InRole, WithFilters
  <1>8. CASE ReadDescription
    <2>1. pc = "description"
      BY <1>8 DEF ReadDescription, Probe
    <2>2. /\ pc \in InRole /\ ~SkippedBySyncMembers(roles[role])
          /\ filterPair = FiltersOf(role)
      BY <2>1 DEF FailInv, RoleThere, InRole, WithFilters
    <2>3. \/ pc' = "smembers" /\ UNCHANGED <<role, filterPair>>
          \/ pc' = "failed" /\ ProperFilter \notin filters
      BY <1>8 DEF ReadDescription, Probe, PassEnds, GoTo, readVars
    <2>4. ASSUME ProperFilter \notin filters PROVE Blocked
      <3> DEFINE h == roles[role]
      <3>1. filterPair = <<h["FilterA"], h["FilterB"]>>
        BY <1>5, <2>2 DEF FiltersOf
      <3>2. Wildcard \in {h["FilterA"], h["FilterB"]}
        BY <2>1, <3>1 DEF Branch
      <3> HIDE DEF h
      <3>3. \/ h["FilterB"] = Wildcard /\ h["FilterA"] \notin filters
            \/ h["FilterA"] = Wildcard /\ h["FilterB"] \notin filters
        BY <2>4, <3>1, <3>2 DEF ProperFilter
      <3> QED
        BY <1>5, <2>2, <3>3 DEF Blocked, Unresolvable, h
    <2>5. RoleThere'
      BY <1>2, <1>5, <2>1, <2>2, <2>3 DEF RoleThere, InRole, WithFilters
    <2> QED BY <1>2, <2>3, <2>4, <2>5 DEF FailsBlocked
  <1>9. CASE ReadMembers \/ ReadIntersection
    <2>1. /\ pc \in {"smembers", "sinter"} /\ pc' = "existsAgain"
          /\ UNCHANGED <<role, filterPair>>
      BY <1>9 DEF ReadMembers, ReadIntersection, SetMembership, GoTo
    <2> QED
      BY <1>2, <2>1 DEF FailInv, RoleThere, FailsBlocked, InRole, WithFilters
  <1>10. CASE ReadName
    <2>1. pc' = "nextRole"
      BY <1>10 DEF ReadName, GoTo
    <2> QED BY <2>1 DEF RoleThere, FailsBlocked, InRole, WithFilters
  <1> QED BY <1>4, <1>6, <1>7, <1>8, <1>9, <1>10

LEMMA FailInvariant == Spec => []FailInv
  <1>1. Init => FailInv
    BY DEF Init, FailInv, TodoExists, RoleThere, FailsBlocked
  <1>2. ASSUME TypeInv, Cleared, Branch, FailInv, [Next]_vars PROVE FailInv'
    <2>1. ASSUME Aside PROVE FailInv'
      BY <1>2, <2>1 DEF Aside, storeVars, readVars, historyVars, FailInv,
         TodoExists, RoleThere, FailsBlocked, getRoles, RoleExists, FiltersOf,
         HGetAll, Blocked, Unresolvable
    <2>2. CASE CacheRefreshes \/ UNCHANGED vars
      BY <2>1, <2>2, AsideIs
    <2> QED
      BY <1>2, <2>2, FailEnds, FailRest, FailReading DEF Next, Pass, PassStep
  <1>3. SteadyInv /\ PassInv => Branch /\ Cleared
    BY DEF SteadyInv, PassInv
  <1> QED
    BY <1>1, <1>2, <1>3, PassInvariant, SteadyInvariant, TypeInvariant, PTL
    DEF Spec

(* A pass that nothing disturbed leaves every member who is to have roles, *)
(* and whom it may touch, with exactly those of the guild that the gateway *)
(* listed, or all of them, unless it knew one by a dead id; or it has met  *)
(* a role that cannot be resolved.                                         *)
THEOREM QuietPassesConverge == Spec => []QuietPassConverges
  <1>1. Cleared /\ QuietInv /\ FailInv => QuietPassConverges
    BY DEF Cleared, Between, QuietInv, QuietUpdates, Settled, FailInv,
           FailsBlocked, QuietPassConverges
  <1>2. PassInv => Cleared
    BY DEF PassInv
  <1> QED BY <1>1, <1>2, PassInvariant, QuietInvariant, FailInvariant, PTL

(* Nobody of bot.ignoredRoles is ever to be updated.                       *)
NotIgnored == updateMembers \cap Ignored = {}

LEMMA NextNotIgnored == NotIgnored /\ [Next]_vars => NotIgnored'
  <1> SUFFICES ASSUME NotIgnored, [Next]_vars PROVE NotIgnored'
    OBVIOUS
  <1>1. CASE Compare
    BY <1>1 DEF Compare, NotIgnored
  <1>2. CASE Again
    BY <1>2 DEF Again, NotIgnored
  <1>3. ASSUME NEW u \in User, UpdateMember(u) \/ UpdateFails(u)
        PROVE  NotIgnored'
    BY <1>3 DEF UpdateMember, UpdateFails, NotIgnored
  <1>4. CASE UNCHANGED updateMembers \/ updateMembers' = {}
    BY <1>4 DEF NotIgnored
  <1>5. CASE SyncExists \/ ReadSync \/ ReadDescription \/ NameExists
    BY <1>4, <1>5, ProbeIs DEF PassEnds
  <1>6. CASE CacheRefreshes \/ UNCHANGED vars
    BY <1>4, <1>6, AsideIs DEF Aside
  <1>7. CASE \/ Begin \/ GetAllMembers \/ GetAllRoles \/ ListHashes
             \/ ReadFilters \/ ReadMembers \/ ReadIntersection \/ ReadName
             \/ UpdatesDone \/ CallFails \/ HandlerWrites \/ GuildChanges
             \/ \E r \in ShortName : NextRole(r)
    <2>1. UNCHANGED updateMembers \/ updateMembers' = {}
      BY <1>7
      DEF Begin, GetAllMembers, GetAllRoles, ListHashes, NextRole, ReadFilters,
          ReadMembers, ReadIntersection, ReadName, SetMembership, UpdatesDone,
          CallFails, PassEnds, HandlerWrites, GuildChanges, Disturbed
    <2> QED BY <1>4, <2>1
  <1> QED
    BY <1>1, <1>2, <1>3, <1>5, <1>6, <1>7 DEF Next, Pass, PassStep

(* Only UpdateMember changes what users hold.                              *)
LEMMA PassHolds ==
  ASSUME Pass, NEW u \in User, held'[u] # held[u]
  PROVE  \E v \in User : UpdateMember(v)
  BY DEF Pass, PassStep, Begin, GetAllMembers, GetAllRoles, ListHashes, NextRole,
         SyncExists, ReadSync, ReadFilters, ReadDescription, ReadMembers,
         ReadIntersection, NameExists, ReadName, Probe, SetMembership, Compare,
         UpdatesDone, Again, discordVars

(* Whenever an undisturbed pass changes the roles of a user, he is one whom *)
(* it may touch and has exactly his roles from then on, as far as the list *)
(* showed them: no moment of the pass finds a user out of step who was in  *)
(* step before, unless the list does not show one of his roles.            *)
THEOREM QuietUpdatesAreExact == Spec => QuietUpdatesExact
  <1>1. ASSUME TypeInv, IdsAlive, JustInv, QuietInv, NotIgnored, Pass, quiet,
               NEW u \in User, held'[u] # held[u]
        PROVE  u \in MayTouch /\ InStepAsListed(u)'
    <2>1. PICK v \in User : UpdateMember(v)
      BY <1>1, PassHolds
    <2>2. /\ pc = "update" /\ v \in updateMembers
          /\ UNCHANGED <<storeVars, inGuild, guildRoles, unlisted>>
          /\ held' = IF v \in inGuild \ NoSync /\ RoleIds(v) \cap deadIds = {}
                     THEN [held EXCEPT ![v] = RoleIds(v)] ELSE held
      BY <2>1 DEF UpdateMember, roleVars, historyVars
    <2>3. held \in [User -> SUBSET DiscordName]
      BY <1>1 DEF TypeInv, TypeOK
    <2> HIDE DEF RoleIds
    <2>4. /\ u = v /\ u \in inGuild \ NoSync /\ held'[u] = RoleIds(u)
          /\ RoleIds(u) \cap deadIds = {}
      BY <1>1, <2>2, <2>3
    <2>5. u \notin Ignored
      BY <1>1, <2>2, <2>4 DEF NotIgnored
    <2>6. RoleIds(u) = (EntitledTo(u) \cap guildRoles) \ unlisted
      BY <1>1, <2>2, <2>4, QuietRoleIds
    <2>7. EntitledTo(u)' = EntitledTo(u)
      BY <2>2, EntitledUnchanged
    <2> QED BY <2>2, <2>4, <2>5, <2>6, <2>7 DEF InStepAsListed, MayTouch
  <1>2. Init => NotIgnored
    BY DEF Init, NotIgnored
  <1>3. TypeInv /\ PassInv /\ JustInv /\ QuietInv /\ NotIgnored /\ [Next]_vars =>
          [Pass /\ quiet => \A u \in User : held'[u] # held[u] =>
                u \in MayTouch /\ InStepAsListed(u)']_vars
    BY <1>1 DEF PassInv
  <1> QED
    BY <1>2, <1>3, NextNotIgnored, TypeInvariant, PassInvariant, JustInvariant,
       QuietInvariant, PTL
    DEF Spec, QuietUpdatesExact

-----------------------------------------------------------------------------
(***************************************************************************)
(* The limit of the disagreement between the two synchronisations.  The    *)
(* runs show that the member pass may ask for roles that the role pass     *)
(* leaves alone: those of a hash whose Sync is neither among the values    *)
(* that are in nor among those that are out.  UpdateRole stores any value. *)
(***************************************************************************)
(* A hash that syncMembers reads is one that syncRoles takes, or its Sync  *)
(* is such a value.                                                        *)
LEMMA EntitledSynced ==
  ASSUME NEW r, NEW n, NEW u, Entitled(r, n, u)
  PROVE  SyncedBySyncRoles(roles[r]) \/ SyncUnknown(roles[r])
  BY DEF Entitled, SkippedBySyncMembers, SyncedBySyncRoles, SyncUnknown

(* An undisturbed member pass asks for a role for a user only by a hash    *)
(* that entitles him to it now, and which the role pass synchronises too   *)
(* or whose Sync neither of them knows: what the changelog claims is       *)
(* refuted by such values and by nothing else.                             *)
THEOREM KnownSyncAgrees ==
  Spec => [](pc = "update" /\ quiet =>
                \A u \in User : \A n \in chremoasMemberships[u] :
                    \E r \in ShortName :
                        /\ Entitled(r, n, u)
                        /\ SyncedBySyncRoles(roles[r]) \/ SyncUnknown(roles[r]))
  <1>1. ASSUME TypeInv, JustInv, QuietInv, pc = "update", quiet,
               NEW u \in User, NEW n \in chremoasMemberships[u]
        PROVE  \E r \in ShortName :
                  /\ Entitled(r, n, u)
                  /\ SyncedBySyncRoles(roles[r]) \/ SyncUnknown(roles[r])
    <2>1. todo = {}
      BY <1>1 DEF QuietInv, QuietRead, Reading
    <2>2. n \in EntitledTo(u)
      BY <1>1, <2>1, QuietCollected DEF Reading, InRole, WithFilters
    <2>3. PICK r \in ShortName : Entitled(r, n, u)
      BY <2>2 DEF EntitledTo
    <2> QED BY <2>3, EntitledSynced
  <1>2. TypeInv /\ JustInv /\ QuietInv =>
          (pc = "update" /\ quiet =>
                \A u \in User : \A n \in chremoasMemberships[u] :
                    \E r \in ShortName :
                        /\ Entitled(r, n, u)
                        /\ SyncedBySyncRoles(roles[r]) \/ SyncUnknown(roles[r]))
    BY <1>1
  <1> QED BY <1>2, TypeInvariant, JustInvariant, QuietInvariant, PTL

(* What a role pass leaves behind: the guild has all the roles that it     *)
(* synchronises (RoleSync's QuietPassConverges; a protected name must have *)
(* been there before, for the pass does not create it).                    *)
RolePassDone ==
    \A r \in ShortName :
        RoleExists(r) /\ SyncedBySyncRoles(roles[r]) => roles[r]["Name"] \in guildRoles

\* u has no role but his own, and of those he lacks only such as a hash whose
\* Sync neither pass knows gives him.
Delivered(u) ==
    /\ held[u] \subseteq EntitledTo(u)
    /\ \A n \in EntitledTo(u) \ held[u] :
          \E r \in ShortName : Entitled(r, n, u) /\ SyncUnknown(roles[r])

(* The service as a whole: an undisturbed member pass on a guild that has  *)
(* the roles of the registry, with a list of roles that lacks none of them *)
(* and no dead id of one that the user is to have, leaves every member who *)
(* is to have roles, and whom it may touch, with the roles that the        *)
(* registry gives him and no other, but for those of a Sync that neither   *)
(* pass knows, which the guild may lack.                                   *)
THEOREM BothPassesDeliver ==
  Spec => [](pc = "done" /\ quiet /\ RolePassDone /\ unlisted = {} =>
                \A u \in MayTouch :
                    EntitledTo(u) # {} /\ EntitledTo(u) \cap deadIds = {} =>
                        Delivered(u))
  <1>1. ASSUME QuietPassConverges, pc = "done", quiet, RolePassDone, unlisted = {},
               NEW u \in MayTouch, EntitledTo(u) # {},
               EntitledTo(u) \cap deadIds = {}
        PROVE  Delivered(u)
    <2>1. held[u] = EntitledTo(u) \cap guildRoles
      BY <1>1 DEF QuietPassConverges, InStep, InStepAsListed
    <2>2. ASSUME NEW n \in EntitledTo(u), n \notin guildRoles
          PROVE  \E r \in ShortName : Entitled(r, n, u) /\ SyncUnknown(roles[r])
      <3>1. PICK r \in ShortName : Entitled(r, n, u)
        BY DEF EntitledTo
      <3>2. RoleExists(r) /\ roles[r]["Name"] = n
        BY <3>1 DEF Entitled
      <3>3. ~SyncedBySyncRoles(roles[r])
        BY <1>1, <2>2, <3>2 DEF RolePassDone
      <3> QED BY <3>1, <3>3, EntitledSynced
    <2> QED BY <2>1, <2>2 DEF Delivered
  <1>2. QuietPassConverges =>
          (pc = "done" /\ quiet /\ RolePassDone /\ unlisted = {} =>
                \A u \in MayTouch :
                    EntitledTo(u) # {} /\ EntitledTo(u) \cap deadIds = {} =>
                        Delivered(u))
    BY <1>1
  <1> QED BY <1>2, QuietPassesConverge, PTL
=============================================================================
