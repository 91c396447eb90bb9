---------------------------- MODULE StartUpProofs ----------------------------
(***************************************************************************)
(* Safety of start-up for any roles an older release may have left, any    *)
(* number of starts, and failures anywhere.                                *)
(***************************************************************************)
EXTENDS StartUp, RoleTableProofs

(* The role that is about to be written is stored and has no Sync value.   *)
RoleFound ==
    pc = "hset" => role \in ShortName /\ RoleExists(role)
                   /\ roles[role]["Sync"] = Empty

(* The roles still to be read are stored: only handlers remove any, and    *)
(* they run when start-up is over.                                         *)
TodoStored ==
    /\ \A r \in todo : RoleExists(r)
    /\ pc = "serving" => todo = {}

TypeInv == TypeOK /\ RoleFound /\ TodoStored

(* Giving a stored role a Sync value changes nothing else.                 *)
LEMMA SyncSet ==
  ASSUME TypeInv, pc = "hset", HSet(role, <<"Sync", "1">>)
  PROVE  /\ RolesTypeOK'
         /\ roles' = [roles EXCEPT ![role] = [roles[role] EXCEPT !["Sync"] = "1"]]
         /\ roles[role] \in Hash
         /\ \A r \in ShortName : RoleExists(r)' = RoleExists(r)
  <1>1. role \in ShortName /\ RoleExists(role) /\ roles[role] \in Hash
    BY DEF TypeInv, TypeOK, RoleFound, RolesTypeOK, RoleExists
  <1>2. HGetAll(role) = roles[role]
    BY <1>1 DEF HGetAll, RoleExists
  <1>3. "Sync" \in Field /\ "1" \in FieldValue("Sync")
    BY RoleTableAssumption DEF Field, FieldValue
  <1>4. [roles[role] EXCEPT !["Sync"] = "1"] \in Hash
    BY <1>1, <1>3, FieldSetType
  <1>5. roles' = [roles EXCEPT ![role] = [roles[role] EXCEPT !["Sync"] = "1"]]
    BY <1>2 DEF HSet
  <1>6. RolesTypeOK'
    BY <1>1, <1>4, <1>5 DEF TypeInv, TypeOK, RolesTypeOK
  <1>7. \A r \in ShortName : RoleExists(r)' = RoleExists(r)
    BY <1>1, <1>4, <1>5, RoleTableAssumption
    DEF RoleExists, TypeInv, TypeOK, RolesTypeOK
  <1> QED BY <1>1, <1>5, <1>6, <1>7

LEMMA InitType == Init => TypeInv
  <1> SUFFICES ASSUME Init PROVE TypeInv
    OBVIOUS
  <1>1. RolesTypeOK
    BY StartUpAssumption DEF Init, RolesTypeOK
  <1> QED
    BY <1>1, StartUpAssumption DEF Init, TypeInv, TypeOK, RoleFound, TodoStored, Step

LEMMA BootType ==
  ASSUME TypeInv,
         \/ Boot \/ Ping \/ Serve \/ Redeploy
         \/ \E g \in Admins : Exists(g) \/ SetAdmins(g)
  PROVE  TypeInv'
  <1>1. /\ UNCHANGED <<roles, todo, role, changes, faults>>
        /\ described' \subseteq Admins /\ clean' \in BOOLEAN
        /\ pc' \in Step \ {"hset"}
        /\ pc' = "serving" => todo = {}
    BY DEF Boot, Ping, Serve, Redeploy, Exists, SetAdmins, Goes, After,
           SetStep, Admins, Step, TypeInv, TypeOK
  <1> QED BY <1>1 DEF TypeInv, TypeOK, RolesTypeOK, RoleFound, TodoStored, RoleExists

LEMMA SchemaType ==
  ASSUME TypeInv, Keys \/ SetSync \/ \E r \in ShortName : HGetAllRole(r)
  PROVE  TypeInv'
  <1>1. CASE Keys
    BY <1>1
    DEF Keys, getRoles, TypeInv, TypeOK, RolesTypeOK, RoleFound, TodoStored,
        RoleExists, Step
  <1>2. ASSUME NEW r \in ShortName, HGetAllRole(r) PROVE TypeInv'
    <2>1. RoleExists(r) /\ HGetAll(r) = roles[r]
      BY <1>2 DEF HGetAllRole, HGetAll, RoleExists, TypeInv, TodoStored
    <2> QED
      BY <1>2, <2>1
      DEF HGetAllRole, TypeInv, TypeOK, RolesTypeOK, RoleFound, TodoStored,
          RoleExists, Step
  <1>3. CASE SetSync
    <2>1. RolesTypeOK' /\ \A r \in todo : RoleExists(r)'
      BY <1>3, SyncSet DEF SetSync, TypeInv, TypeOK, TodoStored
    <2> QED
      BY <1>3, <2>1 DEF SetSync, TypeInv, TypeOK, RoleFound, TodoStored, Step
  <1> QED BY <1>1, <1>2, <1>3

LEMMA FailureType ==
  ASSUME TypeInv, CommandFails
  PROVE  TypeInv'
  <1>1. pc \in Step \ {"down", "serving"}
    BY DEF CommandFails, TypeInv, TypeOK
  <1>2. pc' \in Step \ {"hset"} /\ (pc' = "serving" => todo' = {})
    <2>1. Fallback \in Step \ {"hset"} /\ (pc = "hset" => Fallback = "hgetall")
      BY <1>1 DEF Fallback, Step
    <2>2. pc' = Fallback /\ todo' = IF pc = "hset" THEN todo ELSE {}
      BY DEF CommandFails
    <2> QED BY <2>1, <2>2
  <1>3. /\ RolesTypeOK' /\ described' \subseteq Admins
        /\ \A r \in todo' : RoleExists(r)'
    <2>1. CASE UNCHANGED roles
      BY <2>1
      DEF CommandFails, TypeInv, TypeOK, RolesTypeOK, TodoStored, RoleExists
    <2>2. CASE pc = "hset" /\ HSet(role, <<"Sync", "1">>) /\ UNCHANGED described
      BY <2>2, SyncSet DEF CommandFails, TypeInv, TypeOK, TodoStored
    <2> QED BY <2>1, <2>2 DEF CommandFails
  <1>4. /\ todo' \subseteq ShortName /\ role' = Absent /\ clean' \in BOOLEAN
        /\ changes' = changes /\ faults' \in 0..MaxFaults
    <2>1. /\ faults < MaxFaults /\ faults' = faults + 1
          /\ changes' = changes /\ clean' = FALSE /\ role' = Absent
          /\ todo' = IF pc = "hset" THEN todo ELSE {}
      BY DEF CommandFails
    <2>2. faults' \in 0..MaxFaults
      BY <2>1, StartUpAssumption DEF TypeInv, TypeOK
    <2>3. todo' \subseteq ShortName
      BY <2>1 DEF TypeInv, TypeOK
    <2>4. clean' \in BOOLEAN
      BY <2>1
    <2> QED BY <2>1, <2>2, <2>3, <2>4
  <1> QED
    BY <1>2, <1>3, <1>4 DEF TypeInv, TypeOK, RoleFound, TodoStored

LEMMA RestType ==
  ASSUME TypeInv, Dies \/ HandlerWrites \/ UNCHANGED vars
  PROVE  TypeInv'
  <1>1. CASE Dies
    BY <1>1, StartUpAssumption
    DEF Dies, TypeInv, TypeOK, RolesTypeOK, RoleFound, TodoStored, Step
  <1>2. CASE HandlerWrites
    <2>1. RolesTypeOK' /\ changes' \in 0..MaxChanges
      BY <1>2, RoleWriteType, StartUpAssumption
      DEF HandlerWrites, TypeInv, TypeOK
    <2> QED
      BY <1>2, <2>1
      DEF HandlerWrites, TypeInv, TypeOK, RoleFound, TodoStored
  <1>3. CASE UNCHANGED vars
    BY <1>3
    DEF vars, TypeInv, TypeOK, RolesTypeOK, RoleFound, TodoStored, RoleExists
  <1> QED BY <1>1, <1>2, <1>3

LEMMA NextType == TypeInv /\ [Next]_vars => TypeInv'
  BY BootType, SchemaType, FailureType, RestType DEF Next, Start

LEMMA TypeInvariant == Spec => []TypeInv
  BY InitType, NextType, PTL DEF Spec

(* The variables of start-up keep their types.                             *)
THEOREM TypeCorrect == Spec => []TypeOK
  <1>1. TypeInv => TypeOK
    BY DEF TypeInv
  <1> QED BY <1>1, TypeInvariant, PTL

(* Whatever fails and however often the service starts, before it serves   *)
(* it changes nothing in a role but a Sync value that is not set.          *)
THEOREM StartUpOnlyFillsIn == Spec => OnlyFillsIn
  <1> DEFINE Fills ==
        pc # "serving" =>
          \A r \in ShortName : roles'[r] # roles[r] =>
              /\ RoleExists(r) /\ roles[r]["Sync"] = Empty
              /\ roles'[r] = [roles[r] EXCEPT !["Sync"] = "1"]
  <1>1. ASSUME TypeInv, [Next]_vars PROVE Fills \/ UNCHANGED vars
    <2>1. CASE roles' = roles
      BY <2>1
    <2>2. ASSUME pc = "hset", HSet(role, <<"Sync", "1">>) PROVE Fills
      <3>1. /\ roles \in [ShortName -> Hash \cup {Absent}]
            /\ role \in ShortName /\ RoleExists(role)
            /\ roles[role]["Sync"] = Empty
        BY <1>1, <2>2 DEF TypeInv, TypeOK, RolesTypeOK, RoleFound
      <3>2. roles' = [roles EXCEPT ![role] = [roles[role] EXCEPT !["Sync"] = "1"]]
        BY <1>1, <2>2, SyncSet
      <3> QED BY <3>1, <3>2
    <2>3. CASE pc = "serving"
      BY <2>3
    <2>4. \/ roles' = roles \/ pc = "serving"
          \/ pc = "hset" /\ HSet(role, <<"Sync", "1">>)
      BY <1>1
      DEF Next, Start, Boot, Ping, Exists, SetAdmins, Keys, HGetAllRole,
          SetSync, Serve, Goes, CommandFails, Dies, HandlerWrites, Redeploy,
          vars
    <2> QED BY <2>1, <2>2, <2>3, <2>4
  <1> QED BY <1>1, TypeInvariant, PTL DEF Spec, OnlyFillsIn
-----------------------------------------------------------------------------
(***************************************************************************)
(* A start without failures: what each step leaves to the next.            *)
(***************************************************************************)
CleanDescribed ==
    /\ pc \in {"sig_admins", "set_sig_admins", "keys", "hgetall", "hset", "serving"}
          => "role_admins" \in described
    /\ pc \in {"keys", "hgetall", "hset", "serving"} => "sig_admins" \in described

CleanUpdated ==
    /\ pc \in {"hgetall", "hset"} =>
          \A r \in ShortName : RoleExists(r) /\ roles[r]["Sync"] = Empty =>
              r \in todo \/ (pc = "hset" /\ r = role)
    /\ pc = "serving" =>
          \A r \in ShortName : RoleExists(r) => roles[r]["Sync"] # Empty

CleanInv == clean => CleanDescribed /\ CleanUpdated

LEMMA NextClean ==
  ASSUME TypeInv, CleanInv, [Next]_vars
  PROVE  CleanInv'
  <1>1. CASE Boot \/ Ping \/ Redeploy \/ Dies \/ CommandFails \/ HandlerWrites
             \/ UNCHANGED vars
    BY <1>1
    DEF Boot, Ping, Redeploy, Dies, CommandFails, HandlerWrites, Goes, vars,
        CleanInv, CleanDescribed, CleanUpdated, RoleExists
  <1>2. ASSUME NEW g \in Admins, Exists(g) \/ SetAdmins(g) PROVE CleanInv'
    BY <1>2
    DEF Exists, SetAdmins, Goes, After, SetStep, Admins, CleanInv,
        CleanDescribed, CleanUpdated
  <1>3. CASE Keys
    BY <1>3
    DEF Keys, getRoles, CleanInv, CleanDescribed, CleanUpdated, RoleExists
  <1>4. ASSUME NEW r \in ShortName, HGetAllRole(r) PROVE CleanInv'
    BY <1>4
    DEF HGetAllRole, HGetAll, CleanInv, CleanDescribed, CleanUpdated,
        RoleExists
  <1>5. CASE SetSync
    <2>1. /\ pc = "hset" /\ pc' = "hgetall"
          /\ UNCHANGED <<described, todo, clean>>
      BY <1>5 DEF SetSync
    <2>2. /\ roles' = [roles EXCEPT ![role] = [roles[role] EXCEPT !["Sync"] = "1"]]
          /\ roles[role] \in Hash /\ role \in ShortName
          /\ roles \in [ShortName -> Hash \cup {Absent}]
          /\ \A r \in ShortName : RoleExists(r)' = RoleExists(r)
      BY <1>5, <2>1, SyncSet
      DEF SetSync, TypeInv, TypeOK, RolesTypeOK, RoleFound
    <2>3. roles'[role]["Sync"] = "1" /\ "1" # Empty
      <3>1. "Sync" \in DOMAIN roles[role]
        BY <2>2 DEF Hash, Field
      <3> QED BY <2>2, <3>1 DEF Empty
    <2>4. \A r \in ShortName : r # role => roles'[r] = roles[r]
      BY <2>2
    <2> QED
      BY <2>1, <2>2, <2>3, <2>4 DEF CleanInv, CleanDescribed, CleanUpdated
  <1>6. CASE Serve
    BY <1>6
    DEF Serve, Goes, CleanInv, CleanDescribed, CleanUpdated, RoleExists
  <1> QED
    BY <1>1, <1>2, <1>3, <1>4, <1>5, <1>6 DEF Next, Start

(* When a start without failures is over, both groups of admins are        *)
(* described, and both synchronisations read every role alike, whatever    *)
(* was stored before, but for a Sync value that neither of them knows.     *)
THEOREM CleanStartsAgree == Spec => []CleanStartAgrees
  <1>1. Init => CleanInv
    BY DEF Init, CleanInv, CleanDescribed, CleanUpdated
  <1>2. ASSUME TypeInv, CleanInv PROVE CleanStartAgrees
    <2> SUFFICES ASSUME pc = "serving", clean
                 PROVE  /\ described = Admins
                        /\ \A r \in ShortName : RoleExists(r) =>
                              \/ PassesAgree(roles[r])
                              \/ SyncUnknown(roles[r]) /\ roles[r]["Sync"] # Empty
      BY DEF CleanStartAgrees
    <2>1. described = Admins
      BY <1>2 DEF CleanInv, CleanDescribed, TypeInv, TypeOK, Admins
    <2>2. ASSUME NEW r \in ShortName, RoleExists(r)
          PROVE  \/ PassesAgree(roles[r])
                 \/ SyncUnknown(roles[r]) /\ roles[r]["Sync"] # Empty
      <3>1. roles[r]["Sync"] # Empty
        BY <1>2, <2>2 DEF CleanInv, CleanUpdated
      <3>2. CASE ~SyncUnknown(roles[r])
        BY <3>2
        DEF SyncUnknown, PassesAgree, SyncedBySyncRoles, SkippedBySyncMembers
      <3>3. CASE SyncUnknown(roles[r])
        BY <3>1, <3>3
      <3> QED BY <3>2, <3>3
    <2> QED BY <2>1, <2>2
  <1>3. TypeInv /\ CleanInv /\ [Next]_vars => CleanInv'
    BY NextClean
  <1> QED BY <1>1, <1>2, <1>3, TypeInvariant, PTL DEF Spec
=============================================================================
