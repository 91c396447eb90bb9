--------------------------- MODULE RoleSyncProofs ---------------------------
(***************************************************************************)
(* Safety of the role pass for every registry, guild and bound.            *)
(***************************************************************************)
EXTENDS RoleSync, RoleTableProofs

(***************************************************************************)
(* Why a steadily wanted role is not deleted.  While the hashes are read,  *)
(* each steady pair is still to be read, or its name has been recorded     *)
(* (and a recorded name is never forgotten).  When the list of the guild's *)
(* roles comes back everything has been read, so the names to be deleted,  *)
(* which are not recorded, are not those of steady pairs.  The pairs stay  *)
(* current because each write of a handler drops those it ends.            *)
(***************************************************************************)
SteadyCurrent == steady \subseteq AllWants

SteadyRead ==
    pc = "read" =>
        \A p \in steady : p[1] \in todo \/ chremoasRoleData[p[2]] # Absent

IInv == TypeOK /\ SteadyCurrent /\ SteadyRead /\ SteadyRoleKept

(* A hash that a pass reads for a steady pair is recorded under its name.  *)
LEMMA WantedHash ==
  ASSUME TypeOK, NEW r \in ShortName, NEW n \in DiscordName, Wants(r, n)
  PROVE  /\ HGetAll(r) \in Hash
         /\ HGetAll(r) # Absent
         /\ HGetAll(r)["Name"] = n
         /\ SyncedBySyncRoles(HGetAll(r))
         /\ HGetAll(r)["Name"] # Empty
  BY HGetAllType, RoleTableAssumption DEF TypeOK, Wants, RoleExists, HGetAll

(* A hash that is synchronised and has a name is a stored one, and its     *)
(* name is that of a Discord role.                                         *)
LEMMA RecordedHash ==
  ASSUME TypeOK, NEW r \in ShortName,
         SyncedBySyncRoles(HGetAll(r)), HGetAll(r)["Name"] # Empty
  PROVE  /\ HGetAll(r) \in Hash
         /\ HGetAll(r) # Absent
         /\ HGetAll(r)["Name"] \in DiscordName
  <1>1. HGetAll(r) \in Hash
    BY HGetAllType DEF TypeOK
  <1>2. HGetAll(r)["Name"] \in DiscordName \cup {Empty}
    BY <1>1 DEF Hash, Field, FieldValue
  <1> QED
    BY <1>1, <1>2, RoleTableAssumption

(* The initial states satisfy the invariant.                               *)
LEMMA InitIInv == Init => IInv
  <1> SUFFICES ASSUME Init PROVE IInv
    OBVIOUS
  <1>1. RolesTypeOK
    <2>1. {h \in RoleSpec : RequiredFields(h)} \subseteq Hash
      BY RoleTableAssumption
    <2> HIDE DEF RequiredFields
    <2> QED BY <2>1 DEF Init, RolesTypeOK
  <1>2. guild \in [DiscordName -> Numeral \cup {NoRole}]
    BY RoleSyncAssumption DEF Init
  <1>3. /\ chremoasRoleData \in [DiscordName -> Hash \cup {Absent}]
        /\ cache \subseteq DiscordName
        /\ steady \subseteq ShortName \X DiscordName
    BY DEF Init, InGuild, NoData
  <1>4. changes \in 0..MaxChanges /\ faults \in 0..MaxFaults
    BY RoleSyncAssumption DEF Init
  <1>5. TypeOK
    BY <1>1, <1>2, <1>3, <1>4 DEF Init, TypeOK
  <1> QED
    BY <1>5 DEF Init, IInv, SteadyCurrent, SteadyRead, SteadyRoleKept

(* One lemma per kind of step: it preserves the invariant.                 *)

LEMMA ListHashesStep ==
  ASSUME IInv, ListHashes
  PROVE  IInv'
  <1>1. TypeOK'
    BY DEF IInv, TypeOK, RolesTypeOK, ListHashes, getRoles, NoData, AllWants,
           AllAsked
  <1>2. SteadyCurrent'
    BY DEF ListHashes, SteadyCurrent, AllWants, Wants, RoleExists
  <1>3. SteadyRead'
    BY DEF ListHashes, SteadyRead, AllWants, Wants, getRoles
  <1>4. SteadyRoleKept'
    BY DEF ListHashes, SteadyRoleKept
  <1> QED BY <1>1, <1>2, <1>3, <1>4 DEF IInv

LEMMA ReadHashStep ==
  ASSUME IInv, NEW r \in ShortName, ReadHash(r)
  PROVE  IInv'
  <1> DEFINE c == HGetAll(r)
             records == SyncedBySyncRoles(c) /\ c["Name"] # Empty
  <1>1. /\ chremoasRoleData' = IF records
                               THEN [chremoasRoleData EXCEPT ![c["Name"]] = c]
                               ELSE chremoasRoleData
        /\ todo' = todo \ {r}
        /\ UNCHANGED <<roles, steady, pc>>
    BY DEF ReadHash, historyVars
  <1>2. records => c \in Hash /\ c # Absent /\ c["Name"] \in DiscordName
    BY RecordedHash DEF IInv
  <1>3. chremoasRoleData \in [DiscordName -> Hash \cup {Absent}]
    BY DEF IInv, TypeOK
  <1> HIDE DEF records, c
  <1>4. /\ chremoasRoleData' \in [DiscordName -> Hash \cup {Absent}]
        /\ \A n \in DiscordName :
              chremoasRoleData[n] # Absent => chremoasRoleData'[n] # Absent
        /\ records => chremoasRoleData'[c["Name"]] # Absent
    BY <1>1, <1>2, <1>3
  <1>5. TypeOK'
    BY <1>4 DEF IInv, TypeOK, RolesTypeOK, ReadHash, historyVars
  <1>6. SteadyCurrent'
    BY <1>1 DEF IInv, SteadyCurrent, AllWants, Wants, RoleExists
  <1>7. SteadyRead'
    <2> SUFFICES ASSUME NEW p \in steady
                 PROVE  p[1] \in todo' \/ chremoasRoleData'[p[2]] # Absent
      BY <1>1 DEF SteadyRead
    <2>1. p[1] \in ShortName /\ p[2] \in DiscordName /\ Wants(p[1], p[2])
      BY DEF IInv, SteadyCurrent, AllWants
    <2>2. p[1] \in todo \/ chremoasRoleData[p[2]] # Absent
      BY DEF IInv, SteadyRead, ReadHash
    <2>3. CASE p[1] = r
      <3>1. records /\ c["Name"] = p[2]
        BY <2>1, <2>3, WantedHash DEF IInv, records, c
      <3> QED BY <1>4, <3>1
    <2>4. CASE p[1] # r
      BY <1>1, <1>4, <2>1, <2>2, <2>4
    <2> QED BY <2>3, <2>4
  <1>8. SteadyRoleKept'
    BY DEF SteadyRoleKept, ReadHash
  <1> QED BY <1>5, <1>6, <1>7, <1>8 DEF IInv

LEMMA GetAllRolesStep ==
  ASSUME IInv, GetAllRoles
  PROVE  IInv'
  <1>1. /\ toDelete' = (cache \ Protected) \ chremoasRoleSet
        /\ UNCHANGED <<roles, steady>>
        /\ pc = "read" /\ todo = {} /\ pc' = "add"
    BY DEF GetAllRoles
  <1>2. TypeOK'
    <2>1. quiet' \in BOOLEAN /\ settled' \in BOOLEAN /\ alone' \in BOOLEAN
      BY DEF IInv, TypeOK, GetAllRoles, ListCurrent
    <2> QED
      BY <2>1 DEF IInv, TypeOK, RolesTypeOK, GetAllRoles, chremoasRoleSet
  <1>3. SteadyCurrent' /\ SteadyRead'
    BY <1>1
    DEF IInv, SteadyCurrent, SteadyRead, AllWants, Wants, RoleExists
  <1>4. ASSUME NEW p \in steady PROVE p[2] \notin toDelete'
    <2>1. p[2] \in DiscordName
      BY DEF IInv, TypeOK
    <2>2. chremoasRoleData[p[2]] # Absent
      BY <1>1 DEF IInv, SteadyRead
    <2> QED BY <1>1, <2>1, <2>2 DEF chremoasRoleSet
  <1>5. SteadyRoleKept'
    BY <1>1, <1>4 DEF SteadyRoleKept
  <1> QED BY <1>2, <1>3, <1>5 DEF IInv

(***************************************************************************)
(* The rest of the pass: the guild and the progress change, the registry   *)
(* and what was read do not, and nothing is added to what is to be deleted.*)
(***************************************************************************)
LEMMA LatePass ==
  ASSUME IInv, UNCHANGED roles, steady' \subseteq steady,
         toDelete' \subseteq toDelete,
         pc' = "done" \/ pc \in {"add", "delete", "update"},
         pc' # "read"
  PROVE  SteadyCurrent' /\ SteadyRead' /\ SteadyRoleKept'
  BY DEF IInv, SteadyCurrent, SteadyRead, SteadyRoleKept, AllWants, Wants,
         RoleExists

LEMMA CallStep ==
  ASSUME IInv, NEW n \in DiscordName,
         CreateRole(n) \/ DeleteRole(n) \/ EditRole(n)
  PROVE  IInv'
  <1>0. ParseInt(chremoasRoleData[n]["Color"]) \in Numeral /\ Zero \in Numeral
    BY RoleSyncAssumption DEF ParseInt
  <1>1. TypeOK'
    <2> USE <1>0 DEF IInv, TypeOK, RolesTypeOK, PassEnds, NoData
    <2>1. CASE CreateRole(n)
      BY <2>1 DEF CreateRole
    <2>2. CASE DeleteRole(n)
      BY <2>2 DEF DeleteRole
    <2>3. CASE EditRole(n)
      BY <2>3 DEF EditRole
    <2> QED BY <2>1, <2>2, <2>3
  <1>2. /\ UNCHANGED roles /\ steady' \subseteq steady
        /\ toDelete' \subseteq toDelete
        /\ pc \in {"add", "delete", "update"}
        /\ pc' # "read"
    BY DEF CreateRole, DeleteRole, EditRole, PassEnds, historyVars
  <1> QED BY <1>1, <1>2, LatePass DEF IInv

LEMMA LoopEndStep ==
  ASSUME IInv, AddsDone \/ DeletesDone \/ UpdatesDone
  PROVE  IInv'
  <1>1. TypeOK'
    BY DEF IInv, TypeOK, RolesTypeOK, historyVars, PassEnds, NoData, AddsDone,
           DeletesDone, UpdatesDone
  <1>2. /\ UNCHANGED roles /\ steady' \subseteq steady
        /\ toDelete' \subseteq toDelete
        /\ pc \in {"add", "delete", "update"}
        /\ pc' # "read"
    BY DEF AddsDone, DeletesDone, UpdatesDone, PassEnds, historyVars
  <1> QED BY <1>1, <1>2, LatePass DEF IInv

LEMMA CallFailsStep ==
  ASSUME IInv, CallFails
  PROVE  IInv'
  <1>1. \A n \in DiscordName : ParseInt(chremoasRoleData[n]["Color"]) \in Numeral
    BY RoleSyncAssumption DEF ParseInt
  <1>2. guild' \in [DiscordName -> Numeral \cup {NoRole}]
    BY <1>1, RoleSyncAssumption DEF IInv, TypeOK, CallFails
  <1>3. faults' \in 0..MaxFaults
    BY RoleSyncAssumption DEF IInv, TypeOK, CallFails, Fails
  <1>4. TypeOK'
    BY <1>2, <1>3
    DEF IInv, TypeOK, RolesTypeOK, CallFails, Fails, Disturbed, PassEnds, NoData
  <1>5. /\ UNCHANGED roles /\ steady' \subseteq steady
        /\ toDelete' \subseteq toDelete
        /\ pc' = "done"
    BY DEF CallFails, Fails, PassEnds
  <1> QED BY <1>4, <1>5, LatePass DEF IInv

LEMMA AgainStep ==
  ASSUME IInv, Again \/ Receive
  PROVE  IInv'
  <1>1. TypeOK'
    <2>1. settled' \in BOOLEAN
      BY DEF IInv, TypeOK, Again, Receive, historyVars
    <2> QED
      BY <2>1 DEF IInv, TypeOK, RolesTypeOK, Again, Receive, historyVars
  <1> QED
    BY <1>1
    DEF IInv, Again, Receive, historyVars, SteadyCurrent, SteadyRead,
        SteadyRoleKept, AllWants, Wants, RoleExists

LEMMA HandlerWritesStep ==
  ASSUME IInv, HandlerWrites
  PROVE  IInv'
  <1>1. RolesTypeOK'
    BY RoleWriteType DEF IInv, TypeOK, HandlerWrites
  <1>2. changes' \in 0..MaxChanges
    BY RoleSyncAssumption DEF IInv, TypeOK, HandlerWrites
  <1>3. /\ steady' = steady \cap AllWants'
        /\ UNCHANGED <<pc, todo, chremoasRoleData, toDelete>>
    BY DEF HandlerWrites, passVars
  <1>4. TypeOK'
    <2>1. ever' \subseteq DiscordName \X Numeral
      BY DEF IInv, TypeOK, HandlerWrites, AllAsked
    <2> QED
      BY <1>1, <1>2, <1>3, <2>1
      DEF IInv, TypeOK, HandlerWrites, Disturbed, passVars
  <1>5. SteadyCurrent' /\ SteadyRead' /\ SteadyRoleKept'
    BY <1>3 DEF IInv, SteadyCurrent, SteadyRead, SteadyRoleKept
  <1> QED BY <1>4, <1>5 DEF IInv

LEMMA OutsideStep ==
  ASSUME IInv, GuildChanges \/ CacheRefreshes \/ UNCHANGED vars
  PROVE  IInv'
  <1>1. TypeOK'
    <2>1. CASE GuildChanges
      <3>1. guild' \in [DiscordName -> Numeral \cup {NoRole}]
        BY <2>1, RoleSyncAssumption DEF IInv, TypeOK, GuildChanges
      <3>2. changes' \in 0..MaxChanges
        BY <2>1, RoleSyncAssumption DEF IInv, TypeOK, GuildChanges
      <3> QED
        BY <2>1, <3>1, <3>2
        DEF IInv, TypeOK, RolesTypeOK, GuildChanges, Disturbed, passVars
    <2>2. CASE CacheRefreshes
      BY <2>2
      DEF IInv, TypeOK, RolesTypeOK, CacheRefreshes, InGuild, passVars,
          historyVars
    <2>3. CASE UNCHANGED vars
      BY <2>3 DEF IInv, TypeOK, RolesTypeOK, vars, passVars, historyVars
    <2> QED BY <2>1, <2>2, <2>3
  <1>2. UNCHANGED <<roles, steady, pc, todo, chremoasRoleData, toDelete>>
    BY DEF GuildChanges, CacheRefreshes, vars, passVars, historyVars
  <1>3. SteadyCurrent' /\ SteadyRead' /\ SteadyRoleKept'
    BY <1>2
    DEF IInv, SteadyCurrent, SteadyRead, SteadyRoleKept, AllWants, Wants,
        RoleExists
  <1> QED BY <1>1, <1>3 DEF IInv

LEMMA NextIInv == IInv /\ [Next]_vars => IInv'
  <1> SUFFICES ASSUME IInv, [Next]_vars PROVE IInv'
    OBVIOUS
  <1>1. CASE Pass
    BY <1>1, ListHashesStep, ReadHashStep, GetAllRolesStep, CallStep,
       LoopEndStep, AgainStep DEF Pass, PassStep
  <1>2. CASE CallFails
    BY <1>2, CallFailsStep
  <1>3. CASE HandlerWrites
    BY <1>3, HandlerWritesStep
  <1>4. CASE GuildChanges \/ CacheRefreshes \/ UNCHANGED vars
    BY <1>4, OutsideStep
  <1> QED BY <1>1, <1>2, <1>3, <1>4 DEF Next

LEMMA Invariant == Spec => []IInv
  BY InitIInv, NextIInv, PTL DEF Spec

(* The variables keep their types: in particular every colour that is sent *)
(* to Discord is a number, whatever was stored.                            *)
THEOREM TypeCorrect == Spec => []TypeOK
  <1>1. IInv => TypeOK
    BY DEF IInv
  <1> QED BY <1>1, Invariant, PTL

(* No pass sets out to delete the Discord role of a role that was to be    *)
(* synchronised under that name ever since the pass began, however many    *)
(* handlers write to the registry meanwhile.                               *)
THEOREM SteadyRolesKept == Spec => []SteadyRoleKept
  <1>1. IInv => SteadyRoleKept
    BY DEF IInv
  <1> QED BY <1>1, Invariant, PTL
-----------------------------------------------------------------------------
(***************************************************************************)
(* The protected names are filtered out of the list once, when the sets    *)
(* are computed; nothing puts them back.                                   *)
(***************************************************************************)
NoneProtected == toDelete \cap Protected = {} /\ toUpdate \cap Protected = {}

LEMMA NextNoneProtected == NoneProtected /\ [Next]_vars => NoneProtected'
  <1> SUFFICES ASSUME NoneProtected, [Next]_vars PROVE NoneProtected'
    OBVIOUS
  <1>1. CASE GetAllRoles
    BY <1>1 DEF GetAllRoles, NoneProtected
  <1>2. CASE Receive \/ ListHashes \/ Again
    BY <1>2 DEF Receive, ListHashes, Again, NoneProtected
  <1>3. ASSUME toDelete' \subseteq toDelete, toUpdate' \subseteq toUpdate
        PROVE  NoneProtected'
    BY <1>3 DEF NoneProtected
  <1>4. ASSUME NEW r \in ShortName, ReadHash(r) PROVE NoneProtected'
    BY <1>3, <1>4 DEF ReadHash
  <1>5. ASSUME NEW n \in DiscordName,
               CreateRole(n) \/ DeleteRole(n) \/ EditRole(n)
        PROVE  NoneProtected'
    BY <1>3, <1>5 DEF CreateRole, DeleteRole, EditRole, PassEnds
  <1>6. CASE AddsDone \/ DeletesDone \/ UpdatesDone
    BY <1>3, <1>6 DEF AddsDone, DeletesDone, UpdatesDone, PassEnds
  <1>7. CASE CallFails
    BY <1>3, <1>7 DEF CallFails, Fails, PassEnds
  <1>8. CASE HandlerWrites \/ GuildChanges \/ CacheRefreshes \/ UNCHANGED vars
    BY <1>3, <1>8
    DEF HandlerWrites, GuildChanges, CacheRefreshes, vars, passVars
  <1> QED
    BY <1>1, <1>2, <1>4, <1>5, <1>6, <1>7, <1>8 DEF Next, Pass, PassStep

(* A step of the pass changes a role of the guild only by creating it, by  *)
(* deleting one of toDelete or by editing one of toUpdate.                 *)
LEMMA PassTouches ==
  ASSUME TypeOK, Pass, NEW n \in DiscordName, guild'[n] # guild[n],
         guild[n] # NoRole
  PROVE  n \in toDelete \cup toUpdate
  <1>1. UNCHANGED guild \/
        \E m \in DiscordName : CreateRole(m) \/ DeleteRole(m) \/ EditRole(m)
    BY DEF Pass, PassStep, Receive, ListHashes, ReadHash, GetAllRoles,
           AddsDone, DeletesDone, UpdatesDone, Again
  <1>2. PICK m \in DiscordName : CreateRole(m) \/ DeleteRole(m) \/ EditRole(m)
    BY <1>1
  <1>3. CASE CreateRole(m)
    BY <1>3 DEF CreateRole, TypeOK
  <1>4. CASE DeleteRole(m)
    BY <1>4 DEF DeleteRole, TypeOK
  <1>5. CASE EditRole(m)
    BY <1>5 DEF EditRole, TypeOK
  <1> QED BY <1>2, <1>3, <1>4, <1>5

(* The role pass never deletes or edits a role with a protected name, not  *)
(* even when a role hash carries that name.                                *)
THEOREM ProtectedNeverTouched == Spec => ProtectedUntouched
  <1>1. Init => NoneProtected
    BY DEF Init, NoneProtected
  <1>2. TypeOK /\ NoneProtected /\ [Next]_vars =>
        [Pass => \A n \in Protected : guild[n] # NoRole => guild'[n] = guild[n]]_vars
    BY PassTouches, RoleSyncAssumption DEF NoneProtected
  <1> QED
    BY <1>1, <1>2, NextNoneProtected, TypeCorrect, PTL
    DEF Spec, ProtectedUntouched
-----------------------------------------------------------------------------
(***************************************************************************)
(* Why an undisturbed pass converges.  What it recorded are hashes of the  *)
(* wanted roles, and each wanted role is recorded or still to be read; so  *)
(* it creates and edits none but wanted roles, and deletes none of them.   *)
(* When a current list comes back, it shows the guild; from then on the    *)
(* guild's unprotected roles are the wanted ones that need not be added    *)
(* any more and those still to be deleted, and each wanted one is fresh,   *)
(* or still to be edited, or has a colour of its hashes.  So the calls     *)
(* find what they expect, and the sets are empty when their loops end.     *)
(***************************************************************************)
AloneData ==
    alone /\ pc # "done" =>
        \A n \in DiscordName : chremoasRoleData[n] # Absent =>
                \E r \in ShortName :
                    Wants(r, n) /\ chremoasRoleData[n] = roles[r]

AloneRead ==
    alone /\ pc # "done" =>
        \A r \in ShortName, n \in DiscordName : Wants(r, n) =>
                \/ chremoasRoleData[n] # Absent
                \/ pc = "read" /\ r \in todo

\* So much holds with any list.
AloneSets ==
    alone /\ pc \in {"add", "delete", "update"} =>
        \A n \in DiscordName :
            /\ n \in toAdd \cup toUpdate => n \in Wanted
            /\ n \in toDelete => n \notin Wanted

QuietProgress ==
    /\ quiet => alone
    /\ alone => pc \notin {"idle", "list"}
    /\ quiet /\ pc \in {"delete", "update", "done"} => toAdd = {}
    /\ quiet /\ pc \in {"update", "done"} => toDelete = {}
    /\ quiet /\ pc = "done" => toUpdate = {}

QuietGuild ==
    quiet /\ pc \in {"add", "delete", "update", "done"} =>
        \A n \in DiscordName \ Protected :
            /\ guild[n] # NoRole <=> n \in Wanted \ toAdd \/ n \in toDelete
            /\ n \in Wanted \ toAdd =>
                  n \in fresh \/ n \in toUpdate \/ guild[n] \in Colours(n)

QInv == AloneData /\ AloneRead /\ AloneSets /\ QuietProgress /\ QuietGuild

LEMMA SameRegistry ==
  ASSUME UNCHANGED roles
  PROVE  /\ \A r \in ShortName, n \in DiscordName : Wants(r, n)' <=> Wants(r, n)
         /\ Wanted' = Wanted
         /\ \A n \in DiscordName : Colours(n)' = Colours(n)
  BY DEF Wants, Wanted, Colours, RoleExists

LEMMA QListHashes ==
  ASSUME IInv, ListHashes
  PROVE  QInv'
  <1>1. /\ pc' = "read" /\ todo' = getRoles /\ chremoasRoleData' = NoData
        /\ UNCHANGED roles
    BY DEF ListHashes
  <1>2. AloneData'
    BY <1>1 DEF AloneData, NoData
  <1>3. AloneRead'
    BY <1>1, SameRegistry DEF AloneRead, Wants, getRoles
  <1>4. AloneSets' /\ QuietGuild'
    BY <1>1 DEF AloneSets, QuietGuild
  <1>5. QuietProgress'
    BY <1>1 DEF QuietProgress, ListHashes
  <1> QED BY <1>2, <1>3, <1>4, <1>5 DEF QInv

LEMMA QReadHash ==
  ASSUME IInv, QInv, NEW r \in ShortName, ReadHash(r)
  PROVE  QInv'
  <1> DEFINE c == HGetAll(r)
             records == SyncedBySyncRoles(c) /\ c["Name"] # Empty
  <1>1. /\ chremoasRoleData' = IF records
                               THEN [chremoasRoleData EXCEPT ![c["Name"]] = c]
                               ELSE chremoasRoleData
        /\ todo' = todo \ {r}
        /\ UNCHANGED roles
    BY DEF ReadHash
  <1>2. pc = "read" /\ pc' = "read" /\ alone' = alone /\ quiet' = quiet
    BY DEF ReadHash, historyVars
  <1>3. chremoasRoleData \in [DiscordName -> Hash \cup {Absent}]
    BY DEF IInv, TypeOK
  <1>4. ASSUME records
        PROVE  /\ c \in Hash /\ c # Absent /\ c["Name"] \in DiscordName
               /\ Wants(r, c["Name"]) /\ c = roles[r]
    <2>1. c \in Hash /\ c # Absent /\ c["Name"] \in DiscordName
      BY <1>4, RecordedHash DEF IInv
    <2>2. roles[r] # Absent /\ c = roles[r]
      <3>1. EmptyHash["Name"] = Empty
        BY DEF EmptyHash, Field
      <3> QED BY <1>4, <3>1 DEF HGetAll, RoleExists
    <2> QED BY <1>4, <2>1, <2>2 DEF Wants, RoleExists
  <1>5. AloneData'
    <2> SUFFICES ASSUME alone', NEW n \in DiscordName, chremoasRoleData'[n] # Absent
                 PROVE  \E x \in ShortName :
                            Wants(x, n) /\ chremoasRoleData'[n] = roles[x]
      BY <1>1, SameRegistry DEF AloneData
    <2>1. CASE records /\ c["Name"] = n
      <3> HIDE DEF records, c
      <3>1. chremoasRoleData'[n] = c
        BY <1>1, <1>3, <1>4, <2>1
      <3> QED BY <1>4, <2>1, <3>1
    <2>2. CASE ~(records /\ c["Name"] = n)
      <3> HIDE DEF records, c
      <3>1. chremoasRoleData'[n] = chremoasRoleData[n]
        BY <1>1, <1>3, <2>2
      <3> QED BY <1>2, <3>1 DEF QInv, AloneData
    <2> QED BY <2>1, <2>2
  <1>6. AloneRead'
    <2> SUFFICES ASSUME alone', NEW x \in ShortName, NEW n \in DiscordName,
                        Wants(x, n)
                 PROVE  chremoasRoleData'[n] # Absent \/ x \in todo'
      BY <1>1, <1>2, SameRegistry DEF AloneRead
    <2>1. chremoasRoleData[n] # Absent \/ x \in todo
      BY <1>2 DEF QInv, AloneRead
    <2>2. ASSUME chremoasRoleData[n] # Absent PROVE chremoasRoleData'[n] # Absent
      <3> HIDE DEF records, c
      <3> QED BY <1>1, <1>3, <1>4, <2>2
    <2>3. ASSUME x = r PROVE chremoasRoleData'[n] # Absent
      <3>1. records /\ c["Name"] = n
        BY <2>3, WantedHash DEF IInv
      <3> HIDE DEF records, c
      <3> QED BY <1>1, <1>3, <1>4, <3>1
    <2> QED BY <1>1, <2>1, <2>2, <2>3
  <1>7. AloneSets' /\ QuietProgress' /\ QuietGuild'
    BY <1>2 DEF QInv, AloneSets, QuietProgress, QuietGuild
  <1> QED BY <1>5, <1>6, <1>7 DEF QInv

LEMMA QGetAllRoles ==
  ASSUME IInv, QInv, GetAllRoles
  PROVE  QInv'
  <1>1. /\ pc = "read" /\ todo = {} /\ pc' = "add"
        /\ quiet' => quiet /\ cache = InGuild
        /\ alone' = alone
        /\ toAdd' = chremoasRoleSet \ (cache \ Protected)
        /\ toDelete' = (cache \ Protected) \ chremoasRoleSet
        /\ toUpdate' = (cache \ Protected) \cap chremoasRoleSet
        /\ UNCHANGED <<roles, guild, chremoasRoleData>>
    BY DEF GetAllRoles, ListCurrent
  <1>2. AloneData'
    BY <1>1, SameRegistry DEF QInv, AloneData
  <1>3. ASSUME alone PROVE chremoasRoleSet = Wanted
    BY <1>1, <1>3 DEF QInv, AloneData, AloneRead, chremoasRoleSet, Wanted
  <1>4. AloneRead'
    BY <1>1, SameRegistry DEF QInv, AloneRead
  <1>5. QuietProgress'
    BY <1>1 DEF QInv, QuietProgress
  <1>6. QuietGuild'
    <2> SUFFICES ASSUME quiet', NEW n \in DiscordName \ Protected
                 PROVE  /\ guild[n] # NoRole <=>
                              n \in Wanted \ toAdd' \/ n \in toDelete'
                        /\ n \in Wanted \ toAdd' => n \in toUpdate'
      BY <1>1, SameRegistry DEF QuietGuild
    <2>1. n \in cache <=> guild[n] # NoRole
      BY <1>1 DEF InGuild
    <2>2. alone
      BY <1>1 DEF QInv, QuietProgress
    <2> QED BY <1>1, <1>3, <2>1, <2>2
  <1>7. AloneSets'
    BY <1>1, <1>3, SameRegistry DEF AloneSets
  <1> QED BY <1>2, <1>4, <1>5, <1>6, <1>7 DEF QInv

(* The calls and the ends of the loops leave what was read alone, and take *)
(* names out of the sets only.                                             *)
LEMMA QLate ==
  ASSUME QInv, UNCHANGED roles, alone' = alone,
         chremoasRoleData' = chremoasRoleData \/ pc' = "done",
         toAdd' \subseteq toAdd, toUpdate' \subseteq toUpdate,
         toDelete' \subseteq toDelete,
         pc \in {"add", "delete", "update"}
  PROVE  AloneData' /\ AloneRead' /\ AloneSets'
  <1>1. AloneData' /\ AloneRead'
    BY SameRegistry DEF QInv, AloneData, AloneRead
  <1>2. AloneSets'
    BY SameRegistry DEF QInv, AloneSets
  <1> QED BY <1>1, <1>2

LEMMA QCreateRole ==
  ASSUME IInv, QInv, NEW n \in DiscordName, CreateRole(n)
  PROVE  QInv'
  <1>1. /\ pc = "add" /\ pc' = "add" /\ n \in toAdd
        /\ guild' = IF guild[n] = NoRole THEN [guild EXCEPT ![n] = Zero] ELSE guild
        /\ fresh' = IF guild[n] = NoRole THEN fresh \cup {n} ELSE fresh
        /\ toAdd' = toAdd \ {n}
        /\ UNCHANGED <<roles, chremoasRoleData, toDelete, toUpdate, todo>>
    BY DEF CreateRole
  <1>2. quiet' = quiet /\ alone' = alone
    BY DEF CreateRole
  <1>3. AloneData' /\ AloneRead' /\ AloneSets'
    BY <1>1, <1>2, QLate
  <1>4. QuietProgress'
    BY <1>1, <1>2 DEF QInv, QuietProgress
  <1>5. QuietGuild'
    <2> SUFFICES ASSUME quiet, NEW m \in DiscordName \ Protected
                 PROVE  /\ guild'[m] # NoRole <=>
                              m \in Wanted \ toAdd' \/ m \in toDelete'
                        /\ m \in Wanted \ toAdd' =>
                              m \in fresh' \/ m \in toUpdate' \/ guild'[m] \in Colours(m)
      BY <1>1, <1>2, SameRegistry DEF QuietGuild
    <2>1. /\ m \in toAdd \cup toUpdate => m \in Wanted
          /\ m \in toDelete => m \notin Wanted
          /\ guild[m] # NoRole <=> m \in Wanted \ toAdd \/ m \in toDelete
          /\ m \in Wanted \ toAdd =>
                m \in fresh \/ m \in toUpdate \/ guild[m] \in Colours(m)
      BY <1>1 DEF QInv, AloneSets, QuietProgress, QuietGuild
    <2>2. CASE m # n
      BY <1>1, <2>1, <2>2 DEF IInv, TypeOK
    <2>3. CASE m = n
      <3>1. guild[n] = NoRole /\ n \in Wanted
        BY <1>1, <2>1, <2>3
      <3>2. guild'[n] = Zero /\ Zero # NoRole /\ n \in fresh'
        BY <1>1, <3>1, RoleSyncAssumption DEF IInv, TypeOK
      <3> QED BY <1>1, <2>1, <2>3, <3>1, <3>2
    <2> QED BY <2>2, <2>3
  <1> QED BY <1>3, <1>4, <1>5 DEF QInv

LEMMA QDeleteRole ==
  ASSUME IInv, NoneProtected, QInv, NEW n \in DiscordName, DeleteRole(n)
  PROVE  QInv'
  <1>1. /\ pc = "delete" /\ n \in toDelete
        /\ UNCHANGED <<roles, fresh>>
    BY DEF DeleteRole
  <1>2. quiet' = quiet
    BY DEF DeleteRole
  <1>7. alone' = alone
    BY DEF DeleteRole
  <1>8. /\ chremoasRoleData' = chremoasRoleData \/ pc' = "done"
        /\ toAdd' \subseteq toAdd /\ toUpdate' \subseteq toUpdate
        /\ toDelete' \subseteq toDelete
        /\ pc' \in {pc, "done"}
    BY DEF DeleteRole, PassEnds
  <1>4. ASSUME quiet
        PROVE  /\ guild' = [guild EXCEPT ![n] = NoRole]
               /\ toDelete' = toDelete \ {n} /\ pc' = pc
               /\ UNCHANGED <<chremoasRoleData, toAdd, toUpdate, todo>>
               /\ n \in DiscordName \ Protected
    <2>1. n \in DiscordName \ Protected
      BY <1>1 DEF NoneProtected
    <2>2. guild[n] # NoRole
      BY <1>1, <1>4, <2>1 DEF QInv, AloneSets, QuietProgress, QuietGuild
    <2> QED BY <2>1, <2>2 DEF DeleteRole
  <1>3. AloneData' /\ AloneRead' /\ AloneSets'
    BY <1>1, <1>7, <1>8, QLate
  <1>5. QuietProgress'
    BY <1>1, <1>2, <1>4, <1>7, <1>8 DEF QInv, QuietProgress
  <1>6. QuietGuild'
    <2> SUFFICES ASSUME quiet, NEW m \in DiscordName \ Protected
                 PROVE  /\ guild'[m] # NoRole <=>
                              m \in Wanted \ toAdd' \/ m \in toDelete'
                        /\ m \in Wanted \ toAdd' =>
                              m \in fresh \/ m \in toUpdate' \/ guild'[m] \in Colours(m)
      BY <1>1, <1>2, SameRegistry DEF QuietGuild
    <2>1. /\ m \in toAdd \cup toUpdate => m \in Wanted
          /\ m \in toDelete => m \notin Wanted
          /\ guild[m] # NoRole <=> m \in Wanted \ toAdd \/ m \in toDelete
          /\ m \in Wanted \ toAdd =>
                m \in fresh \/ m \in toUpdate \/ guild[m] \in Colours(m)
      BY <1>1 DEF QInv, AloneSets, QuietProgress, QuietGuild
    <2>2. CASE m # n
      BY <1>1, <1>4, <2>1, <2>2 DEF IInv, TypeOK
    <2>3. CASE m = n
      <3>1. guild'[n] = NoRole
        BY <1>4 DEF IInv, TypeOK
      <3> QED BY <1>1, <1>4, <2>1, <2>3, <3>1
    <2> QED BY <2>2, <2>3
  <1> QED BY <1>3, <1>5, <1>6 DEF QInv

LEMMA QEditRole ==
  ASSUME IInv, NoneProtected, QInv, NEW n \in DiscordName, EditRole(n)
  PROVE  QInv'
  <1> DEFINE colour == ParseInt(chremoasRoleData[n]["Color"])
  <1>1. /\ pc = "update" /\ n \in toUpdate
        /\ UNCHANGED <<roles, fresh>>
    BY DEF EditRole
  <1>2. quiet' = quiet
    BY DEF EditRole
  <1>7. alone' = alone
    BY DEF EditRole
  <1>8. /\ chremoasRoleData' = chremoasRoleData \/ pc' = "done"
        /\ toAdd' \subseteq toAdd /\ toUpdate' \subseteq toUpdate
        /\ toDelete' \subseteq toDelete
        /\ pc' \in {pc, "done"}
    BY DEF EditRole, PassEnds
  <1>4. ASSUME quiet
        PROVE  /\ guild' = [guild EXCEPT ![n] = colour]
               /\ toUpdate' = toUpdate \ {n} /\ pc' = pc
               /\ UNCHANGED <<chremoasRoleData, toAdd, toDelete, todo>>
               /\ n \in DiscordName \ Protected
               /\ colour \in Colours(n) /\ colour # NoRole
    <2>1. n \in DiscordName \ Protected
      BY <1>1 DEF NoneProtected
    <2>2. n \in Wanted /\ toAdd = {}
      BY <1>1, <1>4, <2>1 DEF QInv, AloneSets, QuietGuild, QuietProgress
    <2>3. guild[n] # NoRole
      BY <1>1, <1>4, <2>1, <2>2 DEF QInv, QuietProgress, QuietGuild
    <2>4. PICK x \in ShortName : Wants(x, n)
      BY <2>2 DEF Wanted
    <2>5. chremoasRoleData[n] # Absent
      BY <1>1, <1>4, <2>4 DEF QInv, QuietProgress, AloneRead
    <2>6. PICK r \in ShortName : Wants(r, n) /\ chremoasRoleData[n] = roles[r]
      BY <1>1, <1>4, <2>5 DEF QInv, QuietProgress, AloneData
    <2>7. colour \in Colours(n)
      BY <2>6 DEF Colours
    <2>8. colour # NoRole
      BY RoleSyncAssumption DEF ParseInt
    <2> QED BY <2>1, <2>3, <2>7, <2>8 DEF EditRole
  <1> HIDE DEF colour
  <1>3. AloneData' /\ AloneRead' /\ AloneSets'
    BY <1>1, <1>7, <1>8, QLate
  <1>5. QuietProgress'
    BY <1>1, <1>2, <1>4, <1>7, <1>8 DEF QInv, QuietProgress
  <1>6. QuietGuild'
    <2> SUFFICES ASSUME quiet, NEW m \in DiscordName \ Protected
                 PROVE  /\ guild'[m] # NoRole <=>
                              m \in Wanted \ toAdd' \/ m \in toDelete'
                        /\ m \in Wanted \ toAdd' =>
                              m \in fresh \/ m \in toUpdate' \/ guild'[m] \in Colours(m)
      BY <1>1, <1>2, SameRegistry DEF QuietGuild
    <2>1. /\ m \in toAdd \cup toUpdate => m \in Wanted
          /\ m \in toDelete => m \notin Wanted
          /\ guild[m] # NoRole <=> m \in Wanted \ toAdd \/ m \in toDelete
          /\ m \in Wanted \ toAdd =>
                m \in fresh \/ m \in toUpdate \/ guild[m] \in Colours(m)
      BY <1>1 DEF QInv, AloneSets, QuietProgress, QuietGuild
    <2>2. CASE m # n
      BY <1>1, <1>4, <2>1, <2>2 DEF IInv, TypeOK
    <2>3. CASE m = n
      <3>1. guild'[n] = colour
        BY <1>4 DEF IInv, TypeOK
      <3>2. toAdd = {} /\ n \in Wanted
        BY <1>1, <2>1, <2>3 DEF QInv, QuietProgress
      <3> QED BY <1>1, <1>4, <2>1, <2>3, <3>1, <3>2
    <2> QED BY <2>2, <2>3
  <1> QED BY <1>3, <1>5, <1>6 DEF QInv

LEMMA QLoopEnd ==
  ASSUME QInv, AddsDone \/ DeletesDone \/ UpdatesDone
  PROVE  QInv'
  <1>1. /\ \/ pc = "add" /\ pc' = "delete" /\ toAdd = {}
           \/ pc = "delete" /\ pc' = "update" /\ toDelete = {}
           \/ pc = "update" /\ pc' = "done" /\ toUpdate = {}
        /\ UNCHANGED <<roles, guild>>
    BY DEF AddsDone, DeletesDone, UpdatesDone, PassEnds
  <1>2. quiet' = quiet /\ alone' = alone /\ fresh' = fresh
    BY DEF AddsDone, DeletesDone, UpdatesDone, historyVars
  <1>3. pc' # "done" =>
            UNCHANGED <<todo, chremoasRoleData, toAdd, toDelete, toUpdate>>
    BY DEF AddsDone, DeletesDone, UpdatesDone, PassEnds
  <1>4. pc' = "done" => toAdd' = {} /\ toDelete' = {} /\ toUpdate' = {}
    BY DEF AddsDone, DeletesDone, UpdatesDone, PassEnds
  <1>5. AloneData' /\ AloneRead' /\ AloneSets'
    BY <1>1, <1>2, <1>3, <1>4, QLate
  <1>6. QuietProgress'
    BY <1>1, <1>2, <1>3, <1>4 DEF QInv, QuietProgress
  <1>7. QuietGuild'
    <2>1. CASE pc' # "done"
      BY <1>1, <1>2, <1>3, <2>1, SameRegistry DEF QInv, QuietGuild
    <2>2. CASE pc' = "done"
      <3>1. quiet => toAdd = {} /\ toDelete = {} /\ toUpdate = {}
        BY <1>1, <2>2 DEF QInv, QuietProgress
      <3> QED
        BY <1>1, <1>2, <1>4, <2>2, <3>1, SameRegistry DEF QInv, QuietGuild
    <2> QED BY <2>1, <2>2
  <1> QED BY <1>5, <1>6, <1>7 DEF QInv

(* What disturbs a pass, or is not one, ends the claim.                    *)
LEMMA QDisturbed ==
  ASSUME CallFails \/ HandlerWrites \/ GuildChanges \/ Again
  PROVE  QInv'
  <1>1. ~quiet' /\ ~alone'
    BY DEF CallFails, Fails, HandlerWrites, GuildChanges, Disturbed, Again
  <1> QED
    BY <1>1
    DEF QInv, AloneData, AloneRead, AloneSets, QuietProgress, QuietGuild

LEMMA QStutter ==
  ASSUME QInv, CacheRefreshes \/ UNCHANGED vars
  PROVE  QInv'
  <1>1. /\ UNCHANGED <<roles, guild, pc, todo, chremoasRoleData, toAdd,
                       toDelete, toUpdate, fresh>>
    BY DEF CacheRefreshes, vars, passVars, historyVars
  <1>2. quiet' = quiet /\ alone' = alone
    BY DEF CacheRefreshes, vars, historyVars
  <1> QED
    BY <1>1, <1>2, SameRegistry
    DEF QInv, AloneData, AloneRead, AloneSets, QuietProgress, QuietGuild

(* Nobody is alone before his pass begins.                                 *)
LEMMA QReceive ==
  ASSUME QInv, Receive
  PROVE  QInv'
  <1>1. pc = "idle" /\ alone' = alone /\ quiet' = quiet
    BY DEF Receive, historyVars
  <1>2. ~alone' /\ ~quiet'
    BY <1>1 DEF QInv, QuietProgress
  <1> QED
    BY <1>2
    DEF QInv, AloneData, AloneRead, AloneSets, QuietProgress, QuietGuild

LEMMA NextQInv == IInv /\ NoneProtected /\ QInv /\ [Next]_vars => QInv'
  <1> SUFFICES ASSUME IInv, NoneProtected, QInv, [Next]_vars PROVE QInv'
    OBVIOUS
  <1>1. CASE Pass
    BY <1>1, QListHashes, QReadHash, QGetAllRoles, QCreateRole, QDeleteRole,
       QEditRole, QLoopEnd, QDisturbed, QReceive DEF Pass, PassStep
  <1>2. CASE CallFails \/ HandlerWrites \/ GuildChanges
    BY <1>2, QDisturbed
  <1>3. CASE CacheRefreshes \/ UNCHANGED vars
    BY <1>3, QStutter
  <1> QED BY <1>1, <1>2, <1>3 DEF Next

(* A pass that nothing disturbed leaves the guild with exactly the wanted  *)
(* roles beside the protected ones, each with the attributes of one of its *)
(* hashes unless this pass created it: for every registry and guild the    *)
(* pass may start from.                                                    *)
THEOREM QuietPassesConverge == Spec => []QuietPassConverges
  <1>1. Init => NoneProtected /\ QInv
    BY DEF Init, NoneProtected, QInv, AloneData, AloneRead, AloneSets,
           QuietProgress, QuietGuild
  <1>2. QInv => QuietPassConverges
    BY DEF QInv, QuietProgress, QuietGuild, QuietPassConverges, InGuild
  <1> QED
    BY <1>1, <1>2, Invariant, NextNoneProtected, NextQInv, PTL DEF Spec
-----------------------------------------------------------------------------
(***************************************************************************)
(* Why two undisturbed passes are enough, and the guild then stays as it   *)
(* is.  An undisturbed pass makes the names right.  The next one therefore *)
(* finds no unprotected role to create or delete, so none is fresh at its  *)
(* end, and QuietPassConverges then says that all have their attributes.   *)
(***************************************************************************)
NamesInStep == \A n \in DiscordName \ Protected : guild[n] # NoRole <=> n \in Wanted

SettledInv ==
    settled => /\ quiet \/ pc \in {"idle", "list"}
               /\ NamesInStep
               /\ fresh \subseteq Protected

(* In an undisturbed pass over a guild with the right names each call that *)
(* succeeds changes a protected role or gives a role a wanted attribute.   *)
LEMMA CallInStep ==
  ASSUME IInv, NoneProtected, QInv, alone, NamesInStep, NEW n \in DiscordName,
         CreateRole(n) \/ DeleteRole(n) \/ EditRole(n)
  PROVE  /\ fresh' \subseteq fresh \cup Protected
         /\ \A m \in DiscordName \ Protected :
               \/ guild'[m] = guild[m]
               \/ /\ guild[m] # NoRole /\ guild'[m] # NoRole
                  /\ guild'[m] \in Colours(m)
  <1>1. CASE CreateRole(n)
    <2>1. pc = "add" /\ n \in toAdd
      BY <1>1 DEF CreateRole
    <2>2. n \in Protected \/ guild[n] # NoRole
      BY <2>1 DEF QInv, AloneSets, NamesInStep
    <2>3. CASE guild[n] # NoRole
      BY <1>1, <2>3 DEF CreateRole
    <2>4. CASE guild[n] = NoRole
      BY <1>1, <2>2, <2>4 DEF CreateRole, IInv, TypeOK
    <2> QED BY <2>3, <2>4
  <1>2. CASE DeleteRole(n)
    <2>1. pc = "delete" /\ n \in toDelete /\ n \notin Protected
      BY <1>2 DEF DeleteRole, NoneProtected
    <2>2. n \notin Wanted
      BY <2>1 DEF QInv, AloneSets
    <2>3. guild[n] = NoRole
      BY <2>1, <2>2 DEF NamesInStep
    <2> QED BY <1>2, <2>3 DEF DeleteRole
  <1>3. CASE EditRole(n)
    <2> DEFINE colour == ParseInt(chremoasRoleData[n]["Color"])
    <2>1. pc = "update" /\ n \in toUpdate /\ n \notin Protected
      BY <1>3 DEF EditRole, NoneProtected
    <2>2. n \in Wanted
      BY <2>1 DEF QInv, AloneSets
    <2>3. PICK x \in ShortName : Wants(x, n)
      BY <2>2 DEF Wanted
    <2>4. chremoasRoleData[n] # Absent
      BY <2>1, <2>3 DEF QInv, AloneRead
    <2>5. PICK r \in ShortName : Wants(r, n) /\ chremoasRoleData[n] = roles[r]
      BY <2>1, <2>4 DEF QInv, AloneData
    <2>6. colour \in Colours(n) /\ colour # NoRole
      BY <2>5, RoleSyncAssumption DEF Colours, ParseInt
    <2>7. guild[n] # NoRole
      BY <2>1, <2>2 DEF NamesInStep
    <2>8. guild' = [guild EXCEPT ![n] = colour] /\ fresh' = fresh
      BY <1>3, <2>7 DEF EditRole
    <2> HIDE DEF colour
    <2> QED BY <2>6, <2>7, <2>8 DEF IInv, TypeOK
  <1> QED BY <1>1, <1>2, <1>3

(* A step of an undisturbed pass over a guild with the right names keeps   *)
(* the names and never takes a wanted attribute away.                      *)
LEMMA PassInStep ==
  ASSUME IInv, NoneProtected, QInv, alone, NamesInStep, Pass
  PROVE  /\ UNCHANGED roles
         /\ fresh' \subseteq fresh \cup Protected
         /\ \A m \in DiscordName \ Protected :
               \/ guild'[m] = guild[m]
               \/ /\ guild[m] # NoRole /\ guild'[m] # NoRole
                  /\ guild'[m] \in Colours(m)
  <1>1. UNCHANGED roles
    BY DEF Pass, PassStep, Receive, ListHashes, ReadHash, GetAllRoles,
           CreateRole, DeleteRole, EditRole,
           AddsDone, DeletesDone, UpdatesDone, Again
  <1>2. CASE \E n \in DiscordName : CreateRole(n) \/ DeleteRole(n) \/ EditRole(n)
    BY <1>1, <1>2, CallInStep
  <1>3. CASE ~ \E n \in DiscordName : CreateRole(n) \/ DeleteRole(n) \/ EditRole(n)
    <2>1. UNCHANGED guild /\ (fresh' = fresh \/ fresh' = {})
      BY <1>3 DEF Pass, PassStep, Receive, ListHashes, ReadHash,
                  GetAllRoles, AddsDone, DeletesDone, UpdatesDone, Again, historyVars
    <2> QED BY <1>1, <2>1
  <1> QED BY <1>2, <1>3

LEMMA NamesStay ==
  ASSUME IInv, NoneProtected, QInv, alone, NamesInStep, Pass
  PROVE  NamesInStep'
  BY PassInStep, SameRegistry DEF NamesInStep

(* An undisturbed pass ends with the right names.                          *)
LEMMA QuietEnd == QInv => QuietPassConverges
  BY DEF QInv, QuietProgress, QuietGuild, QuietPassConverges, InGuild

LEMMA NextSettledInv ==
  IInv /\ NoneProtected /\ QInv /\ SettledInv /\ [Next]_vars => SettledInv'
  <1> SUFFICES ASSUME IInv, NoneProtected, QInv, SettledInv, [Next]_vars
               PROVE  SettledInv'
    OBVIOUS
  <1>1. CASE Again
    <2>1. /\ pc = "done" /\ pc' = "idle" /\ fresh' = {}
          /\ UNCHANGED <<roles, guild>>
          /\ settled' => quiet
      BY <1>1 DEF Again
    <2>2. quiet => NamesInStep
      BY <2>1, QuietEnd DEF QuietPassConverges, NamesInStep, InGuild
    <2> QED BY <2>1, <2>2, SameRegistry DEF SettledInv, NamesInStep
  <1>2. CASE ListHashes
    <2>1. /\ fresh' = {} /\ quiet'
          /\ UNCHANGED <<roles, guild>>
          /\ settled' => settled
      BY <1>2 DEF ListHashes
    <2> QED BY <2>1, SameRegistry DEF SettledInv, NamesInStep
  <1>6. CASE Receive
    <2>1. /\ pc = "idle" /\ pc' = "list" /\ UNCHANGED <<roles, guild, fresh>>
      BY <1>6 DEF Receive, historyVars
    <2>2. settled' <=> settled
      BY <1>6 DEF Receive, historyVars
    <2> QED BY <2>1, <2>2, SameRegistry DEF SettledInv, NamesInStep
  <1>3. CASE Pass /\ ~Again /\ ~ListHashes /\ ~Receive
    <2>1. settled' => /\ settled /\ pc \notin {"idle", "list"}
                      /\ quiet => quiet'
      BY <1>3
      DEF Pass, PassStep, ReadHash, GetAllRoles, ListCurrent, CreateRole,
          DeleteRole, EditRole, AddsDone, DeletesDone, UpdatesDone, historyVars
    <2>2. settled' => quiet /\ alone
      BY <2>1 DEF SettledInv, QInv, QuietProgress
    <2> QED BY <1>3, <2>1, <2>2, PassInStep, NamesStay DEF SettledInv
  <1>4. CASE CallFails \/ HandlerWrites \/ GuildChanges
    BY <1>4 DEF CallFails, Fails, HandlerWrites, GuildChanges, Disturbed,
                SettledInv
  <1>5. CASE CacheRefreshes \/ UNCHANGED vars
    <2>1. UNCHANGED <<roles, guild, pc, fresh>>
      BY <1>5 DEF CacheRefreshes, vars, passVars, historyVars
    <2>2. (quiet' <=> quiet) /\ (settled' <=> settled)
      BY <1>5 DEF CacheRefreshes, vars, historyVars
    <2> QED BY <2>1, <2>2, SameRegistry DEF SettledInv, NamesInStep
  <1> QED BY <1>1, <1>2, <1>3, <1>4, <1>5, <1>6 DEF Next

LEMMA SettledInvariant == Spec => [](NoneProtected /\ QInv /\ SettledInv)
  <1>1. Init => NoneProtected /\ QInv /\ SettledInv
    BY DEF Init, NoneProtected, QInv, AloneData, AloneRead, AloneSets,
           QuietProgress, QuietGuild, SettledInv
  <1> QED
    BY <1>1, Invariant, NextNoneProtected, NextQInv, NextSettledInv, PTL DEF Spec

(* Two undisturbed passes in a row leave the guild with exactly the wanted *)
(* roles and attributes beside the protected ones, whatever registry and   *)
(* guild they start from: no third pass is needed.                         *)
THEOREM TwoPassesEnough == Spec => []TwoPassesConverge
  <1>1. QInv /\ SettledInv => TwoPassesConverge
    BY QuietEnd
    DEF SettledInv, QuietPassConverges, TwoPassesConverge, Converged
  <1> QED BY <1>1, SettledInvariant, PTL

(* Once the guild is as wanted, no step of an undisturbed pass disturbs    *)
(* it, not even in the middle of the pass, and whatever list it works with.*)
THEOREM ConvergedGuildStays == Spec => ConvergedStays
  <1>1. ASSUME IInv, NoneProtected, QInv, Pass, alone, Converged
        PROVE  Converged'
    <2>1. NamesInStep
      BY <1>1 DEF Converged, NamesInStep, InGuild
    <2>2. UNCHANGED roles
      BY <1>1, <2>1, PassInStep
    <2>3. ASSUME NEW m \in DiscordName \ Protected
          PROVE  \/ guild'[m] = guild[m]
                 \/ /\ guild[m] # NoRole /\ guild'[m] # NoRole
                    /\ guild'[m] \in Colours(m)
      BY <1>1, <2>1, PassInStep
    <2>4. ASSUME NEW m \in DiscordName \ Protected
          PROVE  /\ guild[m] # NoRole <=> m \in Wanted
                 /\ m \in Wanted => guild[m] \in Colours(m)
      BY <1>1 DEF Converged, InGuild
    <2> QED BY <2>2, <2>3, <2>4, SameRegistry DEF Converged, InGuild
  <1>2. IInv /\ NoneProtected /\ QInv /\ [Next]_vars =>
            [Pass /\ alone /\ Converged => Converged']_vars
    BY <1>1
  <1> QED
    BY <1>2, Invariant, SettledInvariant, PTL DEF Spec, ConvergedStays
-----------------------------------------------------------------------------
(***************************************************************************)
(* Why what a pass writes was asked for.  A hash is recorded as it is when *)
(* it is read, and ever then holds what it asks for; the record and ever   *)
(* both last until the pass ends.  Only recorded names are created and     *)
(* edited.                                                                 *)
(***************************************************************************)
JustInv ==
    /\ pc = "read" => AllAsked \subseteq ever
    /\ \A n \in DiscordName : chremoasRoleData[n] # Absent =>
          <<n, ParseInt(chremoasRoleData[n]["Color"])>> \in ever
    /\ toAdd \cup toUpdate \subseteq chremoasRoleSet

LEMMA NextJustInv == IInv /\ JustInv /\ [Next]_vars => JustInv'
  <1> SUFFICES ASSUME IInv, JustInv, [Next]_vars PROVE JustInv'
    OBVIOUS
  <1>1. CASE ListHashes
    <2>1. AllAsked' = AllAsked
      BY <1>1, SameRegistry DEF ListHashes, AllAsked
    <2> QED BY <1>1, <2>1 DEF ListHashes, JustInv, chremoasRoleSet, NoData
  <1>2. ASSUME NEW r \in ShortName, ReadHash(r) PROVE JustInv'
    <2> DEFINE c == HGetAll(r)
               records == SyncedBySyncRoles(c) /\ c["Name"] # Empty
    <2>1. /\ chremoasRoleData' = IF records
                                 THEN [chremoasRoleData EXCEPT ![c["Name"]] = c]
                                 ELSE chremoasRoleData
          /\ pc = "read"
          /\ UNCHANGED <<roles, toAdd, toUpdate, ever>>
      BY <1>2 DEF ReadHash, historyVars
    <2>2. AllAsked' = AllAsked
      BY <2>1, SameRegistry DEF AllAsked
    <2>3. chremoasRoleData \in [DiscordName -> Hash \cup {Absent}]
      BY DEF IInv, TypeOK
    <2>4. ASSUME records
          PROVE  /\ c["Name"] \in DiscordName /\ c # Absent
                 /\ <<c["Name"], ParseInt(c["Color"])>> \in ever
      <3>1. c \in Hash /\ c # Absent /\ c["Name"] \in DiscordName
        BY <2>4, RecordedHash DEF IInv
      <3>2. roles[r] # Absent /\ c = roles[r]
        <4>1. EmptyHash["Name"] = Empty
          BY DEF EmptyHash, Field
        <4> QED BY <2>4, <4>1 DEF HGetAll, RoleExists
      <3>3. Wants(r, c["Name"])
        BY <2>4, <3>2 DEF Wants, RoleExists
      <3>4. ParseInt(c["Color"]) \in Colours(c["Name"])
        BY <3>2, <3>3 DEF Colours
      <3>5. ParseInt(c["Color"]) \in Numeral
        BY RoleSyncAssumption DEF ParseInt
      <3>6. <<c["Name"], ParseInt(c["Color"])>> \in AllAsked
        BY <3>1, <3>4, <3>5 DEF AllAsked
      <3> QED BY <2>1, <3>1, <3>6 DEF JustInv
    <2> HIDE DEF c, records
    <2>5. ASSUME NEW n \in DiscordName
          PROVE  \/ chremoasRoleData'[n] = chremoasRoleData[n]
                 \/ /\ chremoasRoleData'[n] = c /\ c # Absent
                    /\ <<n, ParseInt(c["Color"])>> \in ever
      BY <2>1, <2>3, <2>4
    <2>6. ASSUME NEW n \in DiscordName
          PROVE  /\ chremoasRoleData[n] # Absent => chremoasRoleData'[n] # Absent
                 /\ chremoasRoleData'[n] # Absent =>
                      <<n, ParseInt(chremoasRoleData'[n]["Color"])>> \in ever
      BY <2>5 DEF JustInv
    <2>7. chremoasRoleSet \subseteq chremoasRoleSet'
      BY <2>6 DEF chremoasRoleSet
    <2> QED BY <2>1, <2>2, <2>6, <2>7 DEF JustInv, ParseInt
  <1>3. CASE GetAllRoles
    BY <1>3 DEF GetAllRoles, JustInv, chremoasRoleSet
  <1>4. ASSUME pc' # "read", PassEnds PROVE JustInv'
    BY <1>4 DEF PassEnds, JustInv, chremoasRoleSet, NoData
  <1>5. ASSUME pc' # "read", toAdd' \subseteq toAdd, toUpdate' \subseteq toUpdate,
               UNCHANGED <<chremoasRoleData, ever>>
        PROVE  JustInv'
    BY <1>5 DEF JustInv, chremoasRoleSet
  <1>6. ASSUME NEW n \in DiscordName,
               CreateRole(n) \/ DeleteRole(n) \/ EditRole(n)
        PROVE  JustInv'
    <2>1. pc' # "read"
      BY <1>6 DEF CreateRole, DeleteRole, EditRole, PassEnds
    <2>2. \/ PassEnds
          \/ /\ toAdd' \subseteq toAdd /\ toUpdate' \subseteq toUpdate
             /\ UNCHANGED <<chremoasRoleData, ever>>
      BY <1>6 DEF CreateRole, DeleteRole, EditRole
    <2> QED BY <1>4, <1>5, <2>1, <2>2
  <1>7. CASE AddsDone \/ DeletesDone
    BY <1>5, <1>7 DEF AddsDone, DeletesDone, historyVars
  <1>8. CASE UpdatesDone \/ CallFails
    <2>1. PassEnds
      BY <1>8 DEF UpdatesDone, CallFails, Fails
    <2> QED BY <1>4, <2>1 DEF PassEnds
  <1>9. CASE Again \/ Receive
    BY <1>5, <1>9 DEF Again, Receive, historyVars
  <1>10. CASE HandlerWrites
    <2>1. /\ pc' = pc /\ UNCHANGED <<chremoasRoleData, toAdd, toUpdate>>
          /\ ever' = IF pc = "read" THEN ever \cup AllAsked' ELSE ever
      BY <1>10 DEF HandlerWrites, passVars
    <2> QED BY <2>1 DEF JustInv, chremoasRoleSet
  <1>11. CASE GuildChanges \/ CacheRefreshes \/ UNCHANGED vars
    <2>1. UNCHANGED <<roles, pc, chremoasRoleData, toAdd, toUpdate, ever>>
      BY <1>11 DEF GuildChanges, CacheRefreshes, vars, passVars, historyVars
    <2>2. AllAsked' = AllAsked
      BY <2>1, SameRegistry DEF AllAsked
    <2> QED BY <2>1, <2>2 DEF JustInv, chremoasRoleSet
  <1> QED
    BY <1>1, <1>2, <1>3, <1>6, <1>7, <1>8, <1>9, <1>10, <1>11 DEF Next, Pass, PassStep

(* A step of the pass that gives a role of the guild another colour        *)
(* creates one of toAdd or edits one of toUpdate with what was recorded.   *)
LEMMA PassWrites ==
  ASSUME TypeOK, Pass, NEW n \in DiscordName, guild'[n] \notin {guild[n], NoRole}
  PROVE  \/ guild[n] = NoRole /\ n \in toAdd
         \/ /\ guild[n] # NoRole /\ n \in toUpdate
            /\ guild'[n] = ParseInt(chremoasRoleData[n]["Color"])
  <1>1. UNCHANGED guild \/
        \E m \in DiscordName : CreateRole(m) \/ DeleteRole(m) \/ EditRole(m)
    BY DEF Pass, PassStep, Receive, ListHashes, ReadHash, GetAllRoles,
           AddsDone, DeletesDone, UpdatesDone, Again
  <1>2. PICK m \in DiscordName : CreateRole(m) \/ DeleteRole(m) \/ EditRole(m)
    BY <1>1
  <1>3. CASE CreateRole(m)
    BY <1>3 DEF CreateRole, TypeOK
  <1>4. CASE DeleteRole(m)
    BY <1>4 DEF DeleteRole, TypeOK
  <1>5. CASE EditRole(m)
    BY <1>5 DEF EditRole, TypeOK
  <1> QED BY <1>2, <1>3, <1>4, <1>5

(* Every role that a pass creates, and every attribute that it gives to a  *)
(* role, is one that some hash asked for at a moment when the pass was     *)
(* reading, however many writes fall into the pass.                        *)
THEOREM PassesAreJustified == Spec => PassJustified
  <1>1. Init => JustInv
    BY DEF Init, JustInv, chremoasRoleSet, NoData
  <1>2. TypeOK /\ JustInv /\ [Next]_vars =>
          [Pass => \A n \in DiscordName : guild'[n] \notin {guild[n], NoRole} =>
              IF guild[n] = NoRole THEN \E c \in Numeral : <<n, c>> \in ever
              ELSE <<n, guild'[n]>> \in ever]_vars
    <2> SUFFICES ASSUME TypeOK, JustInv, Pass, NEW n \in DiscordName,
                        guild'[n] \notin {guild[n], NoRole}
                 PROVE  IF guild[n] = NoRole
                        THEN \E c \in Numeral : <<n, c>> \in ever
                        ELSE <<n, guild'[n]>> \in ever
      OBVIOUS
    <2>1. n \in toAdd \cup toUpdate
      BY PassWrites
    <2>2. <<n, ParseInt(chremoasRoleData[n]["Color"])>> \in ever
      BY <2>1 DEF JustInv, chremoasRoleSet
    <2>3. ParseInt(chremoasRoleData[n]["Color"]) \in Numeral
      BY RoleSyncAssumption DEF ParseInt
    <2> QED BY <2>2, <2>3, PassWrites
  <1> QED
    BY <1>1, <1>2, Invariant, TypeCorrect, NextJustInv, PTL
    DEF Spec, PassJustified
=============================================================================
