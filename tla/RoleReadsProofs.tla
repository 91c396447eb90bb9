--------------------------- MODULE RoleReadsProofs ---------------------------
(***************************************************************************)
(* Safety of the listings for any number of roles, filters, users and      *)
(* writes.                                                                 *)
(***************************************************************************)
EXTENDS RoleReads, RoleTableProofs

(***************************************************************************)
(* Every single write of a handler keeps the registry well typed.          *)
(***************************************************************************)
LEMMA RegistryWriteType ==
  ASSUME RegistryTypeOK, RegistryWrite
  PROVE  RegistryTypeOK'
  <1>1. CASE RoleWrite /\ UNCHANGED <<filters, members>>
    BY <1>1, RoleWriteType DEF RegistryTypeOK
  <1>2. ASSUME NEW f \in Filter, SetDescription(f) \/ DelDescription(f),
               UNCHANGED <<roles, members>>
        PROVE  RegistryTypeOK'
    BY <1>2
    DEF RegistryTypeOK, RolesTypeOK, SetDescription, DelDescription
  <1>3. ASSUME NEW f \in Filter, NEW u \in User, SAdd(f, u) \/ SRem(f, u),
               UNCHANGED <<roles, filters>>
        PROVE  RegistryTypeOK'
    BY <1>3 DEF RegistryTypeOK, RolesTypeOK, SAdd, SRem
  <1> QED BY <1>1, <1>2, <1>3 DEF RegistryWrite

(* What getRoleMembership reads of a role's hash is a pair of filters.     *)
LEMMA PairType ==
  ASSUME RolesTypeOK, NEW r \in ShortName
  PROVE  /\ HGetAll(r)["FilterA"] \in Filter \cup {Empty}
         /\ HGetAll(r)["FilterB"] \in Filter \cup {Empty}
  BY HGetAllType DEF Hash, Field, FieldValue

LEMMA MembersType ==
  ASSUME RegistryTypeOK, NEW f
  PROVE  MembersOf(f) \subseteq User
  BY DEF RegistryTypeOK, MembersOf

LEMMA EntryType ==
  ASSUME NEW r \in ShortName, NEW s, NEW j
  PROVE  [role |-> r, sig |-> s # "0", joinable |-> j # "0"] \in RoleEntry
  <1>1. (s # "0") \in BOOLEAN /\ (j # "0") \in BOOLEAN
    OBVIOUS
  <1> QED BY <1>1 DEF RoleEntry

LEMMA InitType == Init => TypeOK
  <1> SUFFICES ASSUME Init PROVE TypeOK
    OBVIOUS
  <1>1. RegistryTypeOK
    BY RoleTableAssumption, RoleReadsAssumption
    DEF Init, RegistryTypeOK, RolesTypeOK
  <1>2. rd \in Reader
    BY DEF Init, Idle, Reader
  <1> QED
    BY <1>1, <1>2, RoleReadsAssumption DEF Init, TypeOK

LEMMA BeginType ==
  ASSUME TypeOK, Begin
  PROVE  TypeOK'
  <1>1. PICK q \in Query :
           /\ rd' = [Idle EXCEPT !.op = q.op, !.who = q.who, !.pc = "keys"]
           /\ held' = IF q.op = "ListUserRoles" THEN HeldBy(q.who) ELSE {}
           /\ ever' = held'
    BY DEF Begin
  <1>2. /\ q.op \in {"GetRoles", "GetFilters", "ListUserRoles", "ListMembers"}
        /\ q.who \in User \cup Filter \cup {Absent}
    BY DEF Query
  <1>3. rd' \in Reader
    BY <1>1, <1>2 DEF Idle, Reader
  <1>4. held' \subseteq ShortName /\ ever' \subseteq ShortName
    BY <1>1 DEF HeldBy
  <1>5. kept' \subseteq ShortName \cup Filter
    BY DEF Begin, TypeOK, RegistryTypeOK, getRoles
  <1> QED
    BY <1>3, <1>4, <1>5
    DEF Begin, TypeOK, RegistryTypeOK, RolesTypeOK, storeVars

(* Between the commands of getRoleMembership a listing is about one role;  *)
(* only ListMembers asks for names.                                        *)
Working ==
    /\ rd.pc \in {"description", "members", "exists", "info"} =>
          rd.op = "ListUserRoles" /\ rd.item \in ShortName
    /\ rd.pc \in {"users", "names"} => rd.op = "ListMembers"

(* One step of a listing, by kind.                                         *)
ReadStep ==
    \/ Keys
    \/ \E r \in ShortName : GetRolesEntry(r) \/ ReadFilters(r)
    \/ \E f \in Filter : GetDescription(f)
    \/ ReadDescription \/ ReadMembers \/ CheckRole \/ ReadInfo
    \/ GetDiscordUserList \/ (\E u \in User : MapName(u))
    \/ Finish \/ Fails \/ Again

LEMMA ReadType ==
  ASSUME TypeOK, Working, ReadStep
  PROVE  rd' \in Reader
  <1>0. rd \in Reader /\ RegistryTypeOK /\ RolesTypeOK
    BY DEF TypeOK, RegistryTypeOK
  <1>1. CASE Keys
    <2>1. MembersOf(rd.who) \subseteq User
      BY <1>0, MembersType
    <2> DEFINE t == CASE rd.op = "GetFilters"  -> filters
                      [] rd.op = "ListMembers" -> MembersOf(rd.who)
                      [] OTHER                 -> getRoles
               p == IF rd.op = "ListMembers" THEN "users" ELSE "next"
    <2>2. t \in SUBSET (ShortName \cup Filter \cup User)
      BY <1>0, <2>1 DEF RegistryTypeOK, getRoles
    <2>3. rd' = [rd EXCEPT !.todo = t, !.pc = p] /\ p \in {"users", "next"}
      BY <1>1 DEF Keys
    <2> HIDE DEF t, p
    <2> QED BY <1>0, <2>2, <2>3 DEF Reader
  <1>2. ASSUME NEW r \in ShortName, GetRolesEntry(r) PROVE rd' \in Reader
    <2> DEFINE e == [role |-> r, sig |-> HGetAll(r)["Sig"] # "0",
                     joinable |-> HGetAll(r)["Joinable"] # "0"]
    <2>1. e \in RoleEntry
      BY EntryType
    <2>2. rd' = [rd EXCEPT !.todo = @ \ {r}, !.shown = @ \cup {e}]
      BY <1>2 DEF GetRolesEntry
    <2> HIDE DEF e
    <2> QED BY <1>0, <2>1, <2>2 DEF Reader
  <1>3. ASSUME NEW r \in ShortName, ReadFilters(r) PROVE rd' \in Reader
    <2> DEFINE p == <<HGetAll(r)["FilterA"], HGetAll(r)["FilterB"]>>
               s == IF Wildcard \in {HGetAll(r)["FilterA"], HGetAll(r)["FilterB"]}
                    THEN "description" ELSE "members"
    <2>1. p \in (Filter \cup {Empty}) \X (Filter \cup {Empty})
      BY <1>0, PairType
    <2>2. s \in {"description", "members"}
      OBVIOUS
    <2>3. rd' = [rd EXCEPT !.todo = @ \ {r}, !.item = r, !.pair = p, !.pc = s]
      BY <1>3 DEF ReadFilters
    <2> HIDE DEF p, s
    <2> QED BY <1>0, <2>1, <2>2, <2>3 DEF Reader
  <1>4. ASSUME NEW f \in Filter, GetDescription(f) PROVE rd' \in Reader
    BY <1>0, <1>4 DEF GetDescription, Reader
  <1>5. CASE ReadDescription \/ CheckRole
    <2>1. \E p \in {"members", "exists", "info", "failed"} : rd' = [rd EXCEPT !.pc = p]
      BY <1>5 DEF ReadDescription, CheckRole
    <2> QED BY <1>0, <2>1 DEF Reader
  <1>10. CASE Finish \/ Fails
    BY <1>0, <1>10 DEF Finish, Fails, Reader
  <1>11. CASE Again
    BY <1>11 DEF Again, Idle, Reader
  <1>6. CASE ReadMembers
    <2>1. rd' = [rd EXCEPT !.pc = "exists"] \/ rd' = [rd EXCEPT !.pc = "next"]
      BY <1>6 DEF ReadMembers
    <2> QED BY <1>0, <2>1 DEF Reader
  <1>7. CASE ReadInfo
    <2>1. rd.item \in ShortName
      BY <1>7 DEF Working, ReadInfo
    <2>2. ShortNameIn(rd.item) \in ShortName \cup {Absent}
      BY <2>1 DEF ShortNameIn
    <2> QED BY <1>0, <1>7, <2>2 DEF ReadInfo, Reader
  <1>8. CASE GetDiscordUserList
    BY <1>0, <1>8 DEF GetDiscordUserList, Reader
  <1>9. ASSUME NEW u \in User, MapName(u) PROVE rd' \in Reader
    <2>1. PICK show \in BOOLEAN, found \in BOOLEAN :
             rd' = [rd EXCEPT !.todo = @ \ {u},
                              !.shown = IF show THEN @ \cup {u} ELSE @,
                              !.omitted = IF show THEN @ ELSE @ \cup {u},
                              !.found = found]
      <3>1. (u \in rd.known \/ ~rd.found) \in BOOLEAN /\ (rd.found \/ u \in rd.known) \in BOOLEAN
        OBVIOUS
      <3> QED BY <1>9, <3>1 DEF MapName, PutName
    <2>2. CASE show
      <3>1. rd' = [rd EXCEPT !.todo = @ \ {u}, !.shown = @ \cup {u}, !.omitted = @,
                             !.found = found]
        BY <2>1, <2>2
      <3> QED BY <1>0, <3>1 DEF Reader
    <2>3. CASE ~show
      <3>1. rd' = [rd EXCEPT !.todo = @ \ {u}, !.shown = @,
                             !.omitted = @ \cup {u}, !.found = found]
        BY <2>1, <2>3
      <3> QED BY <1>0, <3>1 DEF Reader
    <2> QED BY <2>2, <2>3
  <1> QED
    BY <1>1, <1>2, <1>3, <1>4, <1>5, <1>6, <1>7, <1>8, <1>9, <1>10,
       <1>11 DEF ReadStep

-----------------------------------------------------------------------------
(***************************************************************************)
(* What stood throughout stands now, and what getRoleMembership has read   *)
(* of such a role still is what its hash says.                             *)
(***************************************************************************)
InMembership == {"description", "members", "exists", "info"}

KeptStands ==
    \A x \in kept :
        /\ x \in ShortName => RoleExists(x)
        /\ x \in Filter => x \in filters

PairCurrent ==
    rd.pc \in InMembership /\ rd.item \in kept =>
        rd.pair = <<roles[rd.item]["FilterA"], roles[rd.item]["FilterB"]>>

ReadInv ==
    /\ TypeOK /\ Working
    /\ KeptStands /\ PairCurrent /\ FailureExplained
    /\ rd.pc = "done" => rd.todo = {}

LEMMA ReadWorking ==
  ASSUME ReadInv, ReadStep
  PROVE  Working' /\ (rd'.pc = "done" => rd'.todo = {})
  <1>0. rd \in Reader
    BY DEF ReadInv, TypeOK
  <1>1. CASE Keys
    BY <1>0, <1>1 DEF Keys, Working, Reader
  <1>2. ASSUME NEW r \in ShortName, GetRolesEntry(r) \/ ReadFilters(r)
        PROVE  Working' /\ (rd'.pc = "done" => rd'.todo = {})
    <2>1. /\ rd'.op = rd.op
          /\ \/ rd'.pc = "next"
             \/ /\ rd'.pc \in {"description", "members"}
                /\ rd.op = "ListUserRoles" /\ rd'.item = r
      BY <1>0, <1>2 DEF GetRolesEntry, ReadFilters, Takes, Reader
    <2> QED BY <2>1 DEF Working
  <1>3. ASSUME NEW f \in Filter, GetDescription(f)
        PROVE  Working' /\ (rd'.pc = "done" => rd'.todo = {})
    BY <1>0, <1>3 DEF GetDescription, Takes, Working, Reader
  <1>4. CASE ReadDescription \/ ReadMembers \/ CheckRole \/ ReadInfo
    <2>1. /\ rd'.op = rd.op /\ rd'.item = rd.item
          /\ rd.pc \in InMembership
          /\ rd'.pc \in InMembership \cup {"next", "failed"}
      BY <1>0, <1>4
      DEF ReadDescription, ReadMembers, CheckRole, ReadInfo, InMembership, Reader
    <2> QED BY <2>1 DEF ReadInv, Working, InMembership
  <1>5. CASE GetDiscordUserList \/ Finish \/ Fails
    <2>1. /\ rd'.op = rd.op
          /\ \/ rd'.pc = "failed"
             \/ rd'.pc = "names" /\ rd.pc = "users"
             \/ rd'.pc = "done" /\ rd'.todo = {}
      BY <1>0, <1>5 DEF GetDiscordUserList, Finish, Fails, Reader
    <2> QED BY <2>1 DEF ReadInv, Working
  <1>6. ASSUME NEW u \in User, MapName(u)
        PROVE  Working' /\ (rd'.pc = "done" => rd'.todo = {})
    <2>1. rd'.pc = "names" /\ rd.pc = "names" /\ rd'.op = rd.op
      BY <1>0, <1>6 DEF MapName, PutName, Reader
    <2> QED BY <2>1 DEF ReadInv, Working
  <1>7. CASE Again
    BY <1>7 DEF Again, Idle, Working
  <1> QED BY <1>1, <1>2, <1>3, <1>4, <1>5, <1>6, <1>7 DEF ReadStep

LEMMA ReadPair ==
  ASSUME ReadInv, ReadStep, UNCHANGED <<storeVars, kept>>
  PROVE  PairCurrent'
  <1>0. rd \in Reader
    BY DEF ReadInv, TypeOK
  <1>1. ASSUME NEW r \in ShortName, ReadFilters(r)
        PROVE  PairCurrent'
    <2>1. /\ rd'.item = r
          /\ rd'.pair = <<HGetAll(r)["FilterA"], HGetAll(r)["FilterB"]>>
      BY <1>0, <1>1 DEF ReadFilters, Reader
    <2>2. r \in kept => HGetAll(r) = roles[r]
      BY DEF ReadInv, KeptStands, HGetAll, RoleExists
    <2> QED BY <2>1, <2>2 DEF PairCurrent, storeVars
  <1>2. CASE ReadDescription \/ ReadMembers \/ CheckRole \/ ReadInfo
    <2>1. rd'.pair = rd.pair /\ rd'.item = rd.item /\ rd.pc \in InMembership
      BY <1>0, <1>2
      DEF ReadDescription, ReadMembers, CheckRole, ReadInfo, InMembership, Reader
    <2> QED BY <2>1 DEF ReadInv, PairCurrent, storeVars
  <1>3. ASSUME rd'.pc \notin InMembership PROVE PairCurrent'
    BY <1>3 DEF PairCurrent
  <1>4. CASE Keys \/ GetDiscordUserList \/ Finish \/ Fails
    <2>1. rd'.pc \in {"users", "next", "names", "done", "failed"}
      BY <1>0, <1>4 DEF Keys, GetDiscordUserList, Finish, Fails, Reader
    <2> QED BY <1>3, <2>1 DEF InMembership
  <1>5. ASSUME NEW r \in ShortName, GetRolesEntry(r) PROVE PairCurrent'
    BY <1>0, <1>3, <1>5 DEF GetRolesEntry, Takes, InMembership, Reader
  <1>6. ASSUME NEW f \in Filter, GetDescription(f) PROVE PairCurrent'
    BY <1>0, <1>3, <1>6 DEF GetDescription, Takes, InMembership, Reader
  <1>7. ASSUME NEW u \in User, MapName(u) PROVE PairCurrent'
    BY <1>0, <1>3, <1>7 DEF MapName, PutName, InMembership, Reader
  <1>8. CASE Again
    BY <1>3, <1>8 DEF Again, Idle, InMembership
  <1> QED BY <1>1, <1>2, <1>4, <1>5, <1>6, <1>7, <1>8 DEF ReadStep

(* The two ways a listing fails without a failure of Redis.                *)
LEMMA ReadFailure ==
  ASSUME ReadInv, ReadStep, UNCHANGED <<storeVars, kept>>
  PROVE  FailureExplained'
  <1>0. rd \in Reader
    BY DEF ReadInv, TypeOK
  <1>1. ASSUME NEW f \in Filter, GetDescription(f) PROVE FailureExplained'
    <2>1. CASE f \in filters
      BY <1>0, <1>1, <2>1 DEF GetDescription, Takes, FailureExplained, Reader
    <2>2. CASE f \notin filters
      <3>1. f \notin kept
        BY <2>2 DEF ReadInv, KeptStands
      <3>2. rd'.item = f
        BY <1>0, <1>1, <2>2 DEF GetDescription, Reader
      <3> QED BY <3>1, <3>2 DEF FailureExplained
    <2> QED BY <2>1, <2>2
  <1>2. CASE ReadDescription
    <2>1. /\ rd'.op = "ListUserRoles" /\ rd'.pair = rd.pair
          /\ rd'.pc = "failed" => ProperFilter \notin filters
      BY <1>0, <1>2 DEF ReadDescription, ReadInv, Working, Reader
    <2>2. ProperFilter \in Filter \cup {Empty}
      BY <1>0 DEF ProperFilter, Reader
    <2>3. ProperFilter \notin filters => ProperFilter \notin kept
      BY <2>2, RoleReadsAssumption DEF ReadInv, KeptStands, TypeOK
    <2> QED BY <2>1, <2>3 DEF FailureExplained, ProperFilter
  <1>3. CASE CheckRole
    <2>1. /\ rd'.item = rd.item
          /\ rd'.pc = "failed" => ~RoleExists(rd.item)
      BY <1>0, <1>3 DEF CheckRole, Reader
    <2>2. rd.item \in ShortName
      BY <1>3 DEF CheckRole, ReadInv, Working
    <2> QED BY <2>1, <2>2 DEF ReadInv, KeptStands, FailureExplained
  <1>4. ASSUME rd'.pc # "failed" PROVE FailureExplained'
    BY <1>4 DEF FailureExplained
  <1>5. CASE Keys \/ ReadMembers \/ ReadInfo \/ GetDiscordUserList \/ Finish
    <2>1. rd'.pc # "failed"
      <3>1. CASE Keys \/ ReadInfo \/ GetDiscordUserList \/ Finish
        BY <1>0, <3>1 DEF Keys, ReadInfo, GetDiscordUserList, Finish, Reader
      <3>2. CASE ReadMembers
        <4>1. rd' = [rd EXCEPT !.pc = "exists"] \/ rd' = [rd EXCEPT !.pc = "next"]
          BY <3>2 DEF ReadMembers
        <4> QED BY <1>0, <4>1 DEF Reader
      <3> QED BY <1>5, <3>1, <3>2
    <2> QED BY <1>4, <2>1
  <1>9. CASE Again
    BY <1>4, <1>9 DEF Again, Idle
  <1>6. CASE Fails
    <2>1. rd'.broke = TRUE
      BY <1>0, <1>6 DEF Fails, Reader
    <2> QED BY <2>1 DEF FailureExplained
  <1>7. ASSUME NEW r \in ShortName, GetRolesEntry(r) \/ ReadFilters(r)
        PROVE  FailureExplained'
    BY <1>0, <1>4, <1>7 DEF GetRolesEntry, ReadFilters, Takes, Reader
  <1>8. ASSUME NEW u \in User, MapName(u) PROVE FailureExplained'
    BY <1>0, <1>4, <1>8 DEF MapName, PutName, Reader
  <1> QED BY <1>1, <1>2, <1>3, <1>5, <1>6, <1>7, <1>8, <1>9 DEF ReadStep

(* A write of a handler takes out of kept what it ends or changes.         *)
LEMMA WriteKeeps ==
  ASSUME HandlerWrites
  PROVE  /\ kept' \subseteq kept
         /\ \A x \in kept' : /\ x \in ShortName => roles'[x] = roles[x]
                             /\ x \in Filter => x \in filters'
  BY RoleReadsAssumption DEF HandlerWrites

LEMMA WriteReadInv ==
  ASSUME ReadInv, HandlerWrites
  PROVE  ReadInv'
  <1>1. RegistryTypeOK'
    BY RegistryWriteType DEF ReadInv, TypeOK, HandlerWrites
  <1>2. /\ rd' = rd
        /\ held' \subseteq ShortName /\ ever' \subseteq ShortName
    BY DEF ReadInv, TypeOK, HandlerWrites, HeldBy
  <1>3. changes' \in 0..MaxChanges
    BY RoleReadsAssumption DEF ReadInv, TypeOK, HandlerWrites
  <1>4. TypeOK' /\ Working' /\ (rd'.pc = "done" => rd'.todo = {})
    BY <1>1, <1>2, <1>3, WriteKeeps DEF ReadInv, TypeOK, Working
  <1>5. KeptStands'
    BY WriteKeeps DEF ReadInv, KeptStands, RoleExists
  <1>6. PairCurrent'
    BY <1>2, WriteKeeps DEF ReadInv, PairCurrent, Working, InMembership
  <1>7. FailureExplained'
    BY <1>2, WriteKeeps DEF ReadInv, FailureExplained, ProperFilter
  <1> QED BY <1>4, <1>5, <1>6, <1>7 DEF ReadInv

LEMMA BeginReadInv ==
  ASSUME ReadInv, Begin
  PROVE  ReadInv'
  <1>1. TypeOK' /\ UNCHANGED storeVars
    BY BeginType DEF ReadInv, Begin
  <1>2. rd'.pc = "keys"
    BY DEF Begin, Idle
  <1>3. KeptStands'
    BY <1>1, RoleReadsAssumption
    DEF Begin, KeptStands, RoleExists, getRoles, storeVars, ReadInv, TypeOK,
        RegistryTypeOK
  <1> QED
    BY <1>1, <1>2, <1>3
    DEF ReadInv, Working, PairCurrent, InMembership, FailureExplained

LEMMA Invariant == Spec => []ReadInv
  <1>1. Init => ReadInv
    BY InitType
    DEF Init, Idle, ReadInv, Working, KeptStands, PairCurrent, InMembership,
        FailureExplained
  <1>2. ASSUME ReadInv, [Next]_vars PROVE ReadInv'
    <2>1. CASE Begin
      BY <1>2, <2>1, BeginReadInv
    <2>2. CASE HandlerWrites
      BY <1>2, <2>2, WriteReadInv
    <2>3. CASE Read
      <3>1. ReadStep /\ UNCHANGED <<storeVars, kept, held, ever, changes>>
        BY <2>3 DEF Read, ReadStep
      <3>2. rd' \in Reader
        BY <1>2, <3>1, ReadType DEF ReadInv
      <3>3. TypeOK' /\ KeptStands'
        BY <1>2, <3>1, <3>2
        DEF ReadInv, TypeOK, RegistryTypeOK, RolesTypeOK, storeVars, KeptStands,
            RoleExists
      <3> QED
        BY <1>2, <3>1, <3>3, ReadWorking, ReadPair, ReadFailure DEF ReadInv
    <2>4. CASE UNCHANGED vars
      BY <1>2, <2>4
      DEF ReadInv, TypeOK, RegistryTypeOK, RolesTypeOK, vars, storeVars, Working,
          KeptStands, RoleExists, PairCurrent, FailureExplained, ProperFilter
    <2> QED BY <1>2, <2>1, <2>2, <2>3, <2>4 DEF Next
  <1> QED BY <1>1, <1>2, PTL DEF Spec

(* The variables keep their types.                                         *)
THEOREM TypeCorrect == Spec => []TypeOK
  <1>1. ReadInv => TypeOK
    BY DEF ReadInv
  <1> QED BY <1>1, Invariant, PTL

(* Every failure of a listing has a cause: Redis failed, or a key it came  *)
(* across was removed or rewritten meanwhile, or a role names a filter     *)
(* that is not there.                                                      *)
THEOREM FailuresExplained == Spec => []FailureExplained
  <1>1. ReadInv => FailureExplained
    BY DEF ReadInv
  <1> QED BY <1>1, Invariant, PTL
-----------------------------------------------------------------------------
(***************************************************************************)
(* ListUserRoles.  A role that stood and was held throughout is to be      *)
(* read, or being read, or shown, and getRoleMembership cannot miss the    *)
(* user: the filters it has read are still those of the role, and the user *)
(* is still in both.                                                       *)
(***************************************************************************)
HeldShown ==
    rd.op = "ListUserRoles" /\ rd.pc # "failed" =>
        \A r \in kept \cap held :
            \/ rd.pc = "keys" \/ r \in rd.todo \/ ShortNameIn(r) \in rd.shown
            \/ rd.pc \in InMembership /\ r = rd.item

ShownHeld ==
    rd.op = "ListUserRoles" =>
        /\ held \subseteq HeldBy(rd.who)
        /\ HeldBy(rd.who) \subseteq ever
        /\ \A r \in kept \cap rd.shown : r \in ShortName => r \in ever
        /\ rd.pc \in {"exists", "info"} /\ rd.item \in kept => rd.item \in ever

UserInv == HeldShown /\ ShownHeld

(* A role that is not written to keeps its ShortName.                      *)
LEMMA NameKept ==
  ASSUME NEW r, roles'[r] = roles[r]
  PROVE  ShortNameIn(r)' = ShortNameIn(r)
  BY DEF ShortNameIn, HGetAll

(* ... in particular while nobody writes.                                  *)
LEMMA NamesKept ==
  ASSUME UNCHANGED storeVars
  PROVE  \A r \in ShortName : ShortNameIn(r)' = ShortNameIn(r)
  BY NameKept DEF storeVars

(* getRoleMembership's set, when the filters it has read are the role's.   *)
LEMMA SameSet ==
  ASSUME NEW h, rd.pair = <<h["FilterA"], h["FilterB"]>>
  PROVE  Membership(h) =
           IF Wildcard \in {rd.pair[1], rd.pair[2]} THEN MembersOf(ProperFilter)
           ELSE MembersOf(rd.pair[1]) \cap MembersOf(rd.pair[2])
  BY DEF Membership, ProperFilter

LEMMA ReadUserMembers ==
  ASSUME ReadInv, UserInv, ReadMembers,
         UNCHANGED <<storeVars, kept, held, ever>>
  PROVE  UserInv'
  <1>1. rd \in Reader /\ rd.op = "ListUserRoles" /\ rd.item \in ShortName
    BY DEF ReadInv, TypeOK, Working, ReadMembers
  <1>2. PICK p \in {"exists", "next"} : rd' = [rd EXCEPT !.pc = p]
    BY DEF ReadMembers
  <1>3. /\ rd'.op = rd.op /\ rd'.who = rd.who /\ rd'.item = rd.item
        /\ rd'.todo = rd.todo /\ rd'.shown = rd.shown /\ rd'.pc = p
        /\ rd.pc = "members"
    BY <1>1, <1>2 DEF Reader, ReadMembers
  <1>4. ASSUME rd.item \in kept
        PROVE  p = "exists" <=> rd.item \in HeldBy(rd.who)
    <2> DEFINE set == IF Wildcard \in {rd.pair[1], rd.pair[2]} THEN MembersOf(ProperFilter)
                      ELSE MembersOf(rd.pair[1]) \cap MembersOf(rd.pair[2])
    <2>1. rd.pair = <<roles[rd.item]["FilterA"], roles[rd.item]["FilterB"]>>
      BY <1>3, <1>4 DEF ReadInv, PairCurrent, InMembership
    <2>2. Membership(roles[rd.item]) = set
      BY <2>1, SameSet
    <2>3. RoleExists(rd.item)
      BY <1>1, <1>4 DEF ReadInv, KeptStands
    <2>4. rd' = [rd EXCEPT !.pc = IF rd.who \in set THEN "exists" ELSE "next"]
      BY DEF ReadMembers
    <2> HIDE DEF set
    <2>5. p = "exists" <=> rd.who \in set
      BY <1>1, <1>3, <2>4 DEF Reader
    <2> QED BY <1>1, <2>2, <2>3, <2>5 DEF HeldBy
  <1>5. HeldShown'
    BY <1>1, <1>3, <1>4, NamesKept DEF UserInv, HeldShown, ShownHeld, InMembership, HeldBy
  <1>6. ShownHeld'
    BY <1>1, <1>3, <1>4
    DEF UserInv, ShownHeld, HeldBy, RoleExists, Membership, MembersOf, storeVars
  <1> QED BY <1>5, <1>6 DEF UserInv

LEMMA ReadUserInv ==
  ASSUME ReadInv, UserInv, ReadStep, UNCHANGED <<storeVars, kept, held, ever>>
  PROVE  UserInv'
  <1>0. /\ rd \in Reader
        /\ \A u : HeldBy(u)' = HeldBy(u)
        /\ \A r \in ShortName : ShortNameIn(r)' = ShortNameIn(r)
        /\ held \subseteq ShortName
    BY NamesKept DEF ReadInv, TypeOK, HeldBy, RoleExists, Membership, MembersOf, storeVars
  <1>1. CASE Keys
    <2>1. /\ rd'.op = rd.op /\ rd'.who = rd.who /\ rd'.shown = rd.shown
          /\ rd.op = "ListUserRoles" => rd'.todo = getRoles /\ rd'.pc = "next"
      BY <1>0, <1>1 DEF Keys, Reader
    <2>2. rd.op = "ListUserRoles" => held \subseteq getRoles
      BY DEF UserInv, ShownHeld, HeldBy, getRoles
    <2> QED BY <1>0, <2>1, <2>2 DEF UserInv, HeldShown, ShownHeld
  <1>2. ASSUME NEW r \in ShortName, GetRolesEntry(r) PROVE UserInv'
    <2>1. rd'.op = "GetRoles"
      BY <1>0, <1>2 DEF GetRolesEntry, Takes, Reader
    <2> QED BY <2>1 DEF UserInv, HeldShown, ShownHeld
  <1>3. ASSUME NEW f \in Filter, GetDescription(f) PROVE UserInv'
    <2>1. rd'.op = "GetFilters"
      BY <1>0, <1>3 DEF GetDescription, Takes, Reader
    <2> QED BY <2>1 DEF UserInv, HeldShown, ShownHeld
  <1>4. ASSUME NEW r \in ShortName, ReadFilters(r) PROVE UserInv'
    <2>1. /\ rd'.op = rd.op /\ rd'.who = rd.who /\ rd'.shown = rd.shown
          /\ rd'.todo = rd.todo \ {r} /\ rd'.item = r
          /\ rd'.pc \in {"description", "members"} /\ rd.pc = "next"
      BY <1>0, <1>4 DEF ReadFilters, Takes, Reader
    <2> QED
      BY <1>0, <2>1 DEF UserInv, HeldShown, ShownHeld, InMembership
  <1>5. CASE ReadDescription \/ CheckRole
    <2>1. /\ rd'.op = rd.op /\ rd'.who = rd.who /\ rd'.shown = rd.shown
          /\ rd'.todo = rd.todo /\ rd'.item = rd.item
          /\ \/ rd.pc = "description" /\ rd'.pc \in {"members", "failed"}
             \/ rd.pc = "exists" /\ rd'.pc \in {"info", "failed"}
      BY <1>0, <1>5 DEF ReadDescription, CheckRole, Reader
    <2> QED
      BY <1>0, <2>1 DEF UserInv, HeldShown, ShownHeld, InMembership
  <1>6. CASE ReadMembers
    BY <1>6, ReadUserMembers
  <1>7. CASE ReadInfo
    <2>1. /\ rd'.op = rd.op /\ rd'.who = rd.who
          /\ rd'.shown = rd.shown \cup {ShortNameIn(rd.item)}
          /\ rd'.todo = rd.todo /\ rd.pc = "info" /\ rd'.pc = "next"
      BY <1>0, <1>7 DEF ReadInfo, Reader
    <2>2. \A r \in ShortName : r = ShortNameIn(rd.item) => r = rd.item
      BY RoleReadsAssumption DEF ShortNameIn
    <2>3. HeldShown'
      BY <1>0, <2>1 DEF UserInv, HeldShown, InMembership
    <2>4. rd.op = "ListUserRoles" =>
             \A r \in kept \cap rd'.shown : r \in ShortName => r \in ever
      BY <2>1, <2>2 DEF UserInv, ShownHeld
    <2>5. rd'.pc \notin {"exists", "info"}
      BY <2>1
    <2>6. ShownHeld'
      BY <1>0, <2>1, <2>4, <2>5 DEF UserInv, ShownHeld
    <2> QED BY <2>3, <2>6 DEF UserInv
  <1>8. CASE GetDiscordUserList \/ Fails
    <2>1. /\ rd'.op = rd.op /\ rd'.who = rd.who /\ rd'.shown = rd.shown
          /\ rd'.todo = rd.todo
          /\ \/ rd.pc = "users" /\ rd'.pc = "names"
             \/ rd'.pc = "failed"
      BY <1>0, <1>8 DEF GetDiscordUserList, Fails, Reader
    <2> QED
      BY <1>0, <2>1 DEF UserInv, HeldShown, ShownHeld, InMembership
  <1>9. CASE Finish
    <2>1. /\ rd'.op = rd.op /\ rd'.who = rd.who /\ rd'.shown = rd.shown
          /\ rd'.todo = rd.todo /\ rd.pc \in {"next", "names"} /\ rd'.pc = "done"
      BY <1>0, <1>9 DEF Finish, Reader
    <2> QED
      BY <1>0, <2>1 DEF UserInv, HeldShown, ShownHeld, InMembership
  <1>10. CASE Again
    BY <1>10 DEF Again, Idle, UserInv, HeldShown, ShownHeld
  <1>11. ASSUME NEW u \in User, MapName(u) PROVE UserInv'
    <2>1. rd'.op = "ListMembers"
      BY <1>0, <1>11 DEF MapName, PutName, ReadInv, Working, Reader
    <2> QED BY <2>1 DEF UserInv, HeldShown, ShownHeld
  <1> QED
    BY <1>1, <1>2, <1>3, <1>4, <1>5, <1>6, <1>7, <1>8, <1>9, <1>10, <1>11
    DEF ReadStep

LEMMA WriteUserInv ==
  ASSUME ReadInv, UserInv, HandlerWrites
  PROVE  UserInv'
  <1>1. rd' = rd /\ kept' \subseteq kept
    BY WriteKeeps DEF HandlerWrites
  <1>2. rd.op = "ListUserRoles" =>
           /\ held' = held \cap HeldBy(rd.who)'
           /\ ever' = ever \cup HeldBy(rd.who)'
    BY DEF HandlerWrites
  <1>3. HeldShown'
    <2>1. \A r \in kept' \cap ShortName : ShortNameIn(r)' = ShortNameIn(r)
      BY WriteKeeps, NameKept
    <2>2. held \subseteq ShortName
      BY DEF ReadInv, TypeOK
    <2> QED BY <1>1, <1>2, <2>1, <2>2 DEF UserInv, HeldShown
  <1>4. ShownHeld'
    <2> SUFFICES ASSUME rd.op = "ListUserRoles" PROVE ShownHeld'
      BY <1>1 DEF ShownHeld
    <2>1. held' \subseteq HeldBy(rd.who)' /\ HeldBy(rd.who)' \subseteq ever'
      BY <1>2
    <2>2. \A r \in kept' \cap rd'.shown : r \in ShortName => r \in ever'
      BY <1>1, <1>2 DEF UserInv, ShownHeld
    <2>3. rd'.pc \in {"exists", "info"} /\ rd'.item \in kept' => rd'.item \in ever'
      BY <1>1, <1>2 DEF UserInv, ShownHeld
    <2> QED BY <2>1, <2>2, <2>3 DEF ShownHeld
  <1> QED BY <1>3, <1>4 DEF UserInv

LEMMA BeginUserInv ==
  ASSUME Begin
  PROVE  UserInv'
  <1>1. PICK q \in Query :
           /\ rd' = [Idle EXCEPT !.op = q.op, !.who = q.who, !.pc = "keys"]
           /\ held' = IF q.op = "ListUserRoles" THEN HeldBy(q.who) ELSE {}
           /\ ever' = held'
    BY DEF Begin
  <1>2. rd'.op = q.op /\ rd'.who = q.who /\ rd'.pc = "keys" /\ rd'.shown = {}
    BY <1>1 DEF Idle
  <1>3. HeldBy(q.who)' = HeldBy(q.who)
    BY DEF Begin, HeldBy, RoleExists, Membership, MembersOf, storeVars
  <1> QED
    BY <1>1, <1>2, <1>3 DEF UserInv, HeldShown, ShownHeld

(* A listing of a user's roles is true of every role that was not written  *)
(* to while it ran: listed if the user held it throughout, and only if he  *)
(* held it at some time.                                                   *)
THEOREM ListingsTrue == Spec => []ListingTrue
  <1>1. Init => UserInv
    BY DEF Init, Idle, UserInv, HeldShown, ShownHeld
  <1>2. ReadInv /\ UserInv /\ [Next]_vars => UserInv'
    <2> SUFFICES ASSUME ReadInv, UserInv, [Next]_vars PROVE UserInv'
      OBVIOUS
    <2>1. CASE Begin
      BY <2>1, BeginUserInv
    <2>2. CASE Read
      BY <2>2, ReadUserInv DEF Read, ReadStep
    <2>3. CASE HandlerWrites
      BY <2>3, WriteUserInv
    <2>4. CASE UNCHANGED vars
      BY <2>4
      DEF vars, storeVars, UserInv, HeldShown, ShownHeld, HeldBy, RoleExists,
          Membership, MembersOf, ShortNameIn, HGetAll
    <2> QED BY <2>1, <2>2, <2>3, <2>4 DEF Next
  <1>3. ReadInv /\ UserInv => ListingTrue
    BY DEF ReadInv, UserInv, HeldShown, ShownHeld, ListingTrue, InMembership
  <1> QED BY <1>1, <1>2, <1>3, Invariant, PTL DEF Spec
-----------------------------------------------------------------------------
(***************************************************************************)
(* ListMembers.  As long as no member is found that Discord knows, nobody  *)
(* is left out; the first that is found is shown.                          *)
(***************************************************************************)
NameInv ==
    rd.op = "ListMembers" =>
        /\ rd.pc \in {"keys", "users"} => ~rd.found
        /\ ~rd.found => rd.omitted = {}
        /\ rd.found => rd.shown \cap rd.known # {}
        /\ rd.omitted \cap rd.known = {}

LEMMA NextNameInv == ReadInv /\ NameInv /\ [Next]_vars => NameInv'
  <1> SUFFICES ASSUME ReadInv, NameInv, [Next]_vars PROVE NameInv'
    OBVIOUS
  <1>0. rd \in Reader
    BY DEF ReadInv, TypeOK
  <1>1. CASE Begin
    <2>1. rd'.found = FALSE /\ rd'.omitted = {}
      BY <1>1 DEF Begin, Idle
    <2> QED BY <2>1 DEF NameInv
  <1>2. ASSUME rd'.op # "ListMembers" PROVE NameInv'
    BY <1>2 DEF NameInv
  <1>4. CASE \E r \in ShortName : GetRolesEntry(r) \/ ReadFilters(r)
    <2>1. rd'.op = rd.op /\ rd.op \in {"GetRoles", "ListUserRoles"}
      BY <1>0, <1>4 DEF GetRolesEntry, ReadFilters, Takes, Reader
    <2> QED BY <1>2, <2>1
  <1>5. CASE \E f \in Filter : GetDescription(f)
    <2>1. rd'.op = rd.op /\ rd.op = "GetFilters"
      BY <1>0, <1>5 DEF GetDescription, Takes, Reader
    <2> QED BY <1>2, <2>1
  <1>6. CASE ReadDescription \/ ReadMembers \/ CheckRole \/ ReadInfo
    <2>1. rd'.op = rd.op
      BY <1>0, <1>6 DEF ReadDescription, ReadMembers, CheckRole, ReadInfo, Reader
    <2>2. rd.op = "ListUserRoles"
      BY <1>6
      DEF ReadDescription, ReadMembers, CheckRole, ReadInfo, ReadInv, Working
    <2> QED BY <1>2, <2>1, <2>2
  <1>7. CASE Again
    <2>1. rd'.op = "none"
      BY <1>7 DEF Again, Idle
    <2> QED BY <1>2, <2>1
  <1>8. CASE Keys
    <2>1. /\ rd'.op = rd.op /\ rd'.shown = rd.shown /\ rd'.known = rd.known
          /\ rd'.omitted = rd.omitted /\ rd.pc = "keys"
      BY <1>0, <1>8 DEF Keys, Reader
    <2>2. rd'.found = rd.found
      BY <1>0, <1>8 DEF Keys, Reader
    <2> QED BY <2>1, <2>2 DEF NameInv
  <1>9. CASE GetDiscordUserList
    <2>1. /\ rd'.op = rd.op /\ rd'.omitted = rd.omitted
          /\ rd.pc = "users" /\ rd'.pc = "names"
      BY <1>0, <1>9 DEF GetDiscordUserList, Reader
    <2>2. rd'.found = rd.found
      BY <1>0, <1>9 DEF GetDiscordUserList, Reader
    <2> QED BY <2>1, <2>2 DEF NameInv
  <1>10. CASE Finish \/ Fails
    <2>1. /\ rd'.op = rd.op /\ rd'.shown = rd.shown /\ rd'.known = rd.known
          /\ rd'.omitted = rd.omitted /\ rd'.pc \in {"done", "failed"}
      BY <1>0, <1>10 DEF Finish, Fails, Reader
    <2>2. rd'.found = rd.found
      BY <1>0, <1>10 DEF Finish, Fails, Reader
    <2> QED BY <2>1, <2>2 DEF NameInv
  <1>11. ASSUME NEW u \in User, MapName(u) PROVE NameInv'
    <2>1. rd'.op = rd.op /\ rd'.known = rd.known /\ rd'.pc = "names"
      BY <1>0, <1>11 DEF MapName, PutName, Reader
    <2>2. rd'.found <=> rd.found \/ u \in rd.known
      BY <1>0, <1>11 DEF MapName, PutName, Reader
    <2>3. CASE u \in rd.known \/ ~rd.found
      <3>1. rd'.shown = rd.shown \cup {u} /\ rd'.omitted = rd.omitted
        BY <1>0, <1>11, <2>3 DEF MapName, PutName, Reader
      <3> QED BY <2>1, <2>2, <2>3, <3>1 DEF NameInv
    <2>4. CASE u \notin rd.known /\ rd.found
      <3>1. rd'.shown = rd.shown /\ rd'.omitted = rd.omitted \cup {u}
        BY <1>0, <1>11, <2>4 DEF MapName, PutName, Reader
      <3> QED BY <2>1, <2>2, <2>4, <3>1 DEF NameInv
    <2> QED BY <2>3, <2>4
  <1>12. CASE HandlerWrites \/ UNCHANGED vars
    <2>1. rd' = rd
      BY <1>12 DEF HandlerWrites, vars
    <2> QED BY <2>1 DEF NameInv
  <1> QED
    BY <1>1, <1>4, <1>5, <1>6, <1>7, <1>8, <1>9, <1>10, <1>11, <1>12
    DEF Next, Read

(* ListMembers leaves out only members whom Discord does not know, and     *)
(* nobody until one it knows is shown.                                     *)
THEOREM StrangersOmitted == Spec => []OnlyStrangersOmitted
  <1>1. Init => NameInv
    BY DEF Init, Idle, NameInv
  <1>2. NameInv => OnlyStrangersOmitted
    BY DEF NameInv, OnlyStrangersOmitted
  <1> QED BY <1>1, <1>2, NextNameInv, Invariant, PTL DEF Spec
-----------------------------------------------------------------------------
(***************************************************************************)
(* GetRoles.  What is shown of a role that stood throughout has the flags  *)
(* of its hash, and it is to be read or shown.  AddRole stores both flags  *)
(* or, where HSET makes the hash, neither: so a hash with one has both.    *)
(***************************************************************************)
FlagsPaired ==
    \A r \in ShortName :
        RoleExists(r) /\ roles[r]["Sig"] # Empty => roles[r]["Joinable"] # Empty

EntriesTrue ==
    rd.op = "GetRoles" =>
        /\ rd.shown \subseteq RoleEntry
        /\ \A e \in rd.shown : e.role \in kept =>
              /\ e.sig <=> roles[e.role]["Sig"] # "0"
              /\ e.joinable <=> roles[e.role]["Joinable"] # "0"
        /\ rd.pc \in {"next", "done"} =>
              \A r \in kept \cap ShortName :
                  r \in rd.todo \/ \E e \in rd.shown : e.role = r

LEMMA NextFlagsPaired ==
  ASSUME \A h \in RoleSpec : h["Joinable"] # Empty,
         RegistryTypeOK, FlagsPaired, [Next]_vars
  PROVE  FlagsPaired'
  <1>1. CASE UNCHANGED roles
    BY <1>1 DEF FlagsPaired, RoleExists
  <1>2. ASSUME NEW r \in ShortName, NEW h \in RoleSpec, HMSet(r, h)
        PROVE  FlagsPaired'
    BY <1>2 DEF RegistryTypeOK, RolesTypeOK, HMSet, FlagsPaired, RoleExists
  <1>3. ASSUME NEW r \in ShortName, DelRole(r) PROVE FlagsPaired'
    BY <1>3 DEF RegistryTypeOK, RolesTypeOK, DelRole, FlagsPaired, RoleExists
  <1>4. ASSUME NEW r \in ShortName, NEW u \in FieldUpdate, u[1] \in roleKeys,
               HSet(r, u)
        PROVE  FlagsPaired'
    <2> DEFINE h == [HGetAll(r) EXCEPT ![u[1]] = u[2]]
    <2>1. HGetAll(r) \in [Field -> Value]
      BY HGetAllType DEF RegistryTypeOK, Hash
    <2>2. h["Sig"] = HGetAll(r)["Sig"] /\ h["Joinable"] = HGetAll(r)["Joinable"]
      BY <1>4, <2>1 DEF roleKeys, Field
    <2>3. HGetAll(r)["Sig"] # Empty => HGetAll(r)["Joinable"] # Empty
      BY DEF FlagsPaired, HGetAll, RoleExists, EmptyHash, Field
    <2>4. roles' = [roles EXCEPT ![r] = h]
      BY <1>4 DEF HSet
    <2> HIDE DEF h
    <2> QED
      BY <2>2, <2>3, <2>4
      DEF RegistryTypeOK, RolesTypeOK, FlagsPaired, RoleExists
  <1>5. CASE RoleWrite
    BY <1>2, <1>3, <1>4, <1>5 DEF RoleWrite
  <1>6. UNCHANGED roles \/ RoleWrite
    BY DEF Next, Begin, Read, HandlerWrites, RegistryWrite, vars, storeVars
  <1> QED BY <1>1, <1>5, <1>6

LEMMA NextEntriesTrue == ReadInv /\ EntriesTrue /\ [Next]_vars => EntriesTrue'
  <1> SUFFICES ASSUME ReadInv, EntriesTrue, [Next]_vars PROVE EntriesTrue'
    OBVIOUS
  <1>0. rd \in Reader
    BY DEF ReadInv, TypeOK
  <1>1. CASE Begin
    <2>1. rd'.pc = "keys" /\ rd'.shown = {}
      BY <1>1 DEF Begin, Idle
    <2> QED BY <2>1 DEF EntriesTrue
  <1>2. CASE HandlerWrites
    <2>1. rd' = rd /\ kept' \subseteq kept
      BY <1>2, WriteKeeps DEF HandlerWrites
    <2>2. \A e \in RoleEntry : e.role \in ShortName
      BY DEF RoleEntry
    <2>3. \A r \in kept' \cap ShortName : roles'[r] = roles[r]
      BY <1>2, WriteKeeps
    <2>4. ASSUME rd.op = "GetRoles", NEW e \in rd.shown, e.role \in kept'
          PROVE  /\ e.sig <=> roles'[e.role]["Sig"] # "0"
                 /\ e.joinable <=> roles'[e.role]["Joinable"] # "0"
      <3>1. roles'[e.role] = roles[e.role] /\ e.role \in kept
        BY <2>1, <2>2, <2>3, <2>4 DEF EntriesTrue
      <3>2. /\ e.sig <=> roles[e.role]["Sig"] # "0"
            /\ e.joinable <=> roles[e.role]["Joinable"] # "0"
        BY <2>4, <3>1 DEF EntriesTrue
      <3> QED BY <3>1, <3>2
    <2> QED BY <2>1, <2>4 DEF EntriesTrue
  <1>3. CASE Keys /\ UNCHANGED <<roles, kept>>
    <2>1. /\ rd'.op = rd.op /\ rd'.shown = rd.shown
          /\ rd.op = "GetRoles" => rd'.todo = getRoles
      BY <1>0, <1>3 DEF Keys, Reader
    <2>2. kept \cap ShortName \subseteq getRoles
      BY DEF ReadInv, KeptStands, getRoles
    <2> QED BY <1>3, <2>1, <2>2 DEF EntriesTrue
  <1>4. ASSUME NEW r \in ShortName, GetRolesEntry(r), UNCHANGED <<roles, kept>>
        PROVE  EntriesTrue'
    <2> DEFINE e == [role |-> r, sig |-> HGetAll(r)["Sig"] # "0",
                     joinable |-> HGetAll(r)["Joinable"] # "0"]
    <2>1. e \in RoleEntry /\ e.role = r
      BY EntryType
    <2>2. r \in kept => HGetAll(r) = roles[r]
      BY DEF ReadInv, KeptStands, HGetAll, RoleExists
    <2>3. r \in kept => /\ e.sig <=> roles[r]["Sig"] # "0"
                        /\ e.joinable <=> roles[r]["Joinable"] # "0"
      BY <2>2
    <2>4. rd' = [rd EXCEPT !.todo = @ \ {r}, !.shown = @ \cup {e}]
      BY <1>4 DEF GetRolesEntry
    <2> HIDE DEF e
    <2>5. /\ rd'.op = rd.op /\ rd'.todo = rd.todo \ {r}
          /\ rd'.shown = rd.shown \cup {e} /\ rd'.pc = "next" /\ rd.pc = "next"
      BY <1>0, <1>4, <2>4 DEF GetRolesEntry, Takes, Reader
    <2> QED BY <1>4, <2>1, <2>3, <2>5 DEF EntriesTrue
  <1>5. CASE \E r \in ShortName : ReadFilters(r)
    <2>1. rd'.op = "ListUserRoles"
      BY <1>0, <1>5 DEF ReadFilters, Takes, Reader
    <2> QED BY <2>1 DEF EntriesTrue
  <1>6. CASE \E f \in Filter : GetDescription(f)
    <2>1. rd'.op = "GetFilters"
      BY <1>0, <1>6 DEF GetDescription, Takes, Reader
    <2> QED BY <2>1 DEF EntriesTrue
  <1>7. CASE ReadDescription \/ ReadMembers \/ CheckRole \/ ReadInfo
    <2>1. rd'.op = rd.op
      BY <1>0, <1>7 DEF ReadDescription, ReadMembers, CheckRole, ReadInfo, Reader
    <2>2. rd.op = "ListUserRoles"
      BY <1>7
      DEF ReadDescription, ReadMembers, CheckRole, ReadInfo, ReadInv, Working
    <2> QED BY <2>1, <2>2 DEF EntriesTrue
  <1>8. CASE GetDiscordUserList \/ \E u \in User : MapName(u)
    <2>1. rd'.op = rd.op
      BY <1>0, <1>8 DEF GetDiscordUserList, MapName, PutName, Reader
    <2>2. rd.op = "ListMembers"
      BY <1>8 DEF GetDiscordUserList, MapName, PutName, ReadInv, Working
    <2> QED BY <2>1, <2>2 DEF EntriesTrue
  <1>9. CASE Finish /\ UNCHANGED <<roles, kept>>
    <2>1. /\ rd'.op = rd.op /\ rd'.shown = rd.shown /\ rd'.todo = rd.todo
          /\ rd.pc \in {"next", "names"}
      BY <1>0, <1>9 DEF Finish, Reader
    <2> QED BY <1>9, <2>1 DEF EntriesTrue, ReadInv, Working
  <1>10. CASE Fails /\ UNCHANGED <<roles, kept>>
    <2>1. rd'.op = rd.op /\ rd'.shown = rd.shown /\ rd'.pc = "failed"
      BY <1>0, <1>10 DEF Fails, Reader
    <2> QED BY <1>10, <2>1 DEF EntriesTrue
  <1>11. CASE Again
    BY <1>11 DEF Again, Idle, EntriesTrue
  <1>12. CASE UNCHANGED vars
    BY <1>12 DEF vars, storeVars, EntriesTrue
  <1> QED
    BY <1>1, <1>2, <1>3, <1>4, <1>5, <1>6, <1>7, <1>8, <1>9, <1>10, <1>11, <1>12
    DEF Next, Read, storeVars

(* ListRoles puts every role that stood throughout where its hash says,    *)
(* although GetRoles tests the flags for "0" and GetRole for "1": provided *)
(* that the requests that add roles fill in the flags, as the generated    *)
(* message type makes them do.                                             *)
THEOREM RolesListedByKind ==
  ASSUME \A h \in RoleSpec : h["Joinable"] # Empty
  PROVE  Spec => []ListedByKind
  <1>1. Init => EntriesTrue /\ FlagsPaired
    <2> SUFFICES ASSUME Init PROVE EntriesTrue /\ FlagsPaired
      OBVIOUS
    <2>1. EntriesTrue
      BY DEF Init, Idle, EntriesTrue
    <2>2. ASSUME NEW r \in ShortName, RoleExists(r) PROVE roles[r] \in RoleSpec
      BY <2>2 DEF Init, RoleExists
    <2> QED BY <2>1, <2>2 DEF FlagsPaired
  <1>2. ReadInv /\ FlagsPaired /\ [Next]_vars => FlagsPaired'
    BY NextFlagsPaired DEF ReadInv, TypeOK
  <1>3. ASSUME ReadInv, EntriesTrue, FlagsPaired PROVE ListedByKind
    <2> SUFFICES ASSUME rd.pc = "done", rd.op = "GetRoles",
                        NEW r \in kept \cap ShortName, roles[r]["Sig"] # Empty,
                        NEW all \in BOOLEAN, NEW sig \in BOOLEAN
                 PROVE  r \in ListRoles(all, sig) <=>
                            /\ IsSIG(roles[r]) = sig
                            /\ sig /\ ~IsJoinable(roles[r]) => all
      BY DEF ListedByKind
    <2>1. RoleExists(r) /\ roles[r] \in Hash
      BY <1>3 DEF ReadInv, KeptStands, TypeOK, RegistryTypeOK, RolesTypeOK, RoleExists
    <2>2. roles[r]["Sig"] \in {"0", "1"} /\ roles[r]["Joinable"] \in {"0", "1"}
      BY <1>3, <2>1 DEF FlagsPaired, Hash, Field, FieldValue
    <2>3. /\ IsSIG(roles[r]) <=> roles[r]["Sig"] # "0"
          /\ IsJoinable(roles[r]) <=> roles[r]["Joinable"] # "0"
      BY <2>2 DEF IsSIG, IsJoinable
    <2>4. PICK e \in rd.shown : e.role = r
      BY <1>3 DEF ReadInv, EntriesTrue
    <2>5. \A x \in rd.shown : x.role = r =>
             /\ x \in RoleEntry
             /\ x.sig <=> IsSIG(roles[r])
             /\ x.joinable <=> IsJoinable(roles[r])
      BY <1>3, <2>3 DEF EntriesTrue
    <2>6. \A x \in RoleEntry : x.sig \in BOOLEAN /\ x.joinable \in BOOLEAN
      BY DEF RoleEntry
    <2> HIDE DEF IsSIG, IsJoinable
    <2>7. (IsSIG(roles[r]) = sig) <=> (IsSIG(roles[r]) <=> sig)
      BY DEF IsSIG
    <2>8. ASSUME NEW x \in rd.shown, x.role = r
          PROVE  (x.sig = sig) <=> (IsSIG(roles[r]) <=> sig)
      BY <2>5, <2>6, <2>8
    <2>9. r \in ListRoles(all, sig) <=>
             \E x \in rd.shown : /\ x.role = r /\ x.sig = sig
                                 /\ sig /\ ~x.joinable => all
      BY DEF ListRoles
    <2>10. \A x \in rd.shown : x.role = r =>
              (x.joinable <=> IsJoinable(roles[r]))
      BY <2>5
    <2> QED BY <2>4, <2>7, <2>8, <2>9, <2>10
  <1> QED
    BY <1>1, <1>2, <1>3, NextEntriesTrue, Invariant, PTL DEF Spec
=============================================================================
