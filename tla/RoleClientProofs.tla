-------------------------- MODULE RoleClientProofs ---------------------------
(***************************************************************************)
(* Safety of the chat commands for any number of commands, roles, filters  *)
(* and users.                                                              *)
(***************************************************************************)
EXTENDS RoleClient, RoleTableProofs

(* A command that runs has been given something to do, and makes only      *)
(* calls of its own kind.                                                  *)
Busy ==
    \A c \in Client :
        /\ pc[c] # "idle" => cmd[c] \in Command
        /\ pc[c] = "CanPerform" => cmd[c].op \in AskPermission
        /\ pc[c] = "GetRole" => cmd[c].op \in SIGOp \cup {"RemoveRole"}
        /\ pc[c] = "GetRoleAgain" => cmd[c].op \in SIGOp
        /\ pc[c] = "GetMembers" => cmd[c].op = "RemoveAllMembers"

TypeInv == TypeOK /\ Busy

(* RoleAPI speaks of the same hashes and Redis commands.                   *)
LEMMA SameCommands ==
  /\ \A r : API!RoleExists(r) = RoleExists(r)
  /\ \A r, u : API!HSet(r, u) = HSet(r, u)
  /\ API!roleKeys = roleKeys
  BY DEF API!RoleExists, RoleExists, API!HSet, HSet, API!HGetAll, HGetAll,
         API!EmptyHash, EmptyHash, API!Field, Field, API!Empty, Empty,
         API!roleKeys, roleKeys

(* What a request that is asked for keeps of the store.                    *)
LEMMA ChangeType ==
  ASSUME TypeInv, NEW c \in Client, Change(c)
  PROVE  RegistryTypeOK' /\ pc[c] = "change" /\ cmd[c] \in Command
  <1> DEFINE q == cmd[c]
  <1>1. pc[c] = "change" /\ q \in Command /\ RegistryTypeOK /\ RolesTypeOK
    BY DEF Change, TypeInv, TypeOK, Busy, RegistryTypeOK
  <1>2. /\ q.op = "AddRole" => q.role \in ShortName /\ q.spec \in RoleSpec
        /\ q.op = "RemoveRole" => q.role \in ShortName
        /\ q.op = "Set" => q.role \in ShortName /\ q.set \in FieldUpdate
        /\ q.op \in {"AddFilter", "RemoveFilter"} => q.filter \in Filter
    BY <1>1 DEF Command, SIGOp
  <1> SUFFICES RegistryTypeOK'
    BY <1>1
  <1> HIDE DEF q
  <1>3. \/ q.op = "AddRole"    /\ API!AddRole(q.role, q.spec)
        \/ q.op = "RemoveRole" /\ API!RemoveRole(q.role)
        \/ q.op = "Set"        /\ API!UpdateRole(q.role, q.set)
        \/ q.op = "AddFilter"    /\ API!AddFilter(q.filter)
        \/ q.op = "RemoveFilter" /\ API!RemoveFilter(q.filter)
    BY DEF Change, q
  <1>4. CASE q.op = "AddRole" /\ API!AddRole(q.role, q.spec)
    BY <1>1, <1>2, <1>4, RoleTableAssumption
    DEF API!AddRole, API!HMSet, RegistryTypeOK, RolesTypeOK
  <1>5. CASE q.op = "RemoveRole" /\ API!RemoveRole(q.role)
    BY <1>1, <1>2, <1>5
    DEF API!RemoveRole, API!DelRole, RegistryTypeOK, RolesTypeOK
  <1>6. CASE q.op = "Set" /\ API!UpdateRole(q.role, q.set)
    <2>1. RolesTypeOK' /\ UNCHANGED <<filters, members>>
      BY <1>1, <1>2, <1>6, HSetType, SameCommands DEF API!UpdateRole
    <2> QED BY <1>1, <2>1 DEF RegistryTypeOK
  <1>7. CASE \/ q.op = "AddFilter" /\ API!AddFilter(q.filter)
             \/ q.op = "RemoveFilter" /\ API!RemoveFilter(q.filter)
    BY <1>1, <1>2, <1>7
    DEF API!AddFilter, API!RemoveFilter, API!SetDescription, API!DelDescription,
        RegistryTypeOK, RolesTypeOK
  <1> QED BY <1>3, <1>4, <1>5, <1>6, <1>7

LEMMA MembersCallType ==
  ASSUME TypeInv, NEW c \in Client, NEW done \in SUBSET users[c],
         MembersCall(c, done)
  PROVE  RegistryTypeOK' /\ target[c] \in Filter /\ UNCHANGED <<roles, filters>>
  <1>1. /\ target[c] \in Filter /\ users[c] \subseteq User
        /\ members \in [Filter -> SUBSET User]
    BY DEF TypeInv, TypeOK, RegistryTypeOK, MembersCall
  <1>2. members' \in [Filter -> SUBSET User]
    BY <1>1 DEF MembersCall
  <1> QED
    BY <1>1, <1>2 DEF MembersCall, TypeInv, TypeOK, RegistryTypeOK, RolesTypeOK

LEMMA InitType == Init => TypeInv
  <1> SUFFICES ASSUME Init PROVE TypeInv
    OBVIOUS
  <1>1. RegistryTypeOK
    BY DEF Init, API!Init, RegistryTypeOK, RolesTypeOK
  <1> QED BY <1>1 DEF Init, TypeInv, TypeOK, Busy, Step

(* The steps that leave the store alone.                                   *)
LEMMA BeginType ==
  ASSUME TypeInv, NEW c \in Client, Begin(c)
  PROVE  TypeInv'
  <1>1. PICK q \in Command :
          /\ cmd' = [cmd EXCEPT ![c] = q]
          /\ pc' = [pc EXCEPT ![c] = FirstCall(q)]
          /\ target' = [target EXCEPT ![c] = IF "filter" \in DOMAIN q
                                             THEN q.filter ELSE Empty]
          /\ users' = [users EXCEPT ![c] = IF "user" \in DOMAIN q
                                           THEN {q.user} ELSE {}]
    BY DEF Begin, GoTo
  <1>2. /\ FirstCall(q) \in Step \ {"GetRoleAgain"}
        /\ FirstCall(q) = "CanPerform" => q.op \in AskPermission
        /\ FirstCall(q) = "GetRole" => q.op \in SIGOp
        /\ FirstCall(q) = "GetMembers" => q.op = "RemoveAllMembers"
    BY DEF Command, FirstCall, AskPermission, SIGOp, Step
  <1>3. /\ "filter" \in DOMAIN q => q.filter \in Filter
        /\ "user" \in DOMAIN q => q.user \in User
    BY DEF Command, SIGOp
  <1>4. UNCHANGED <<storeVars, dirty, lapsed, quiet, spared>>
    BY DEF Begin
  <1> QED
    BY <1>1, <1>2, <1>3, <1>4
    DEF TypeInv, TypeOK, Busy, RegistryTypeOK, RolesTypeOK, storeVars

LEMMA CallType ==
  ASSUME TypeInv, NEW c \in Client,
         \/ CanPerform(c) \/ GetRole(c) \/ GetRoleAgain(c) \/ GetMembers(c)
         \/ Refused(c) \/ SetLost(c) \/ Sync(c) \/ SyncFails(c) \/ MapName(c)
  PROVE  TypeInv'
  <1>0. Op(c) = cmd[c].op /\ cmd[c] \in Command
    BY RoleClientAssumption
    DEF Op, TypeInv, Busy, CanPerform, GetRole, GetRoleAgain, GetMembers,
        Refused, SetLost, Sync, SyncFails, MapName
  <1>1. PICK s \in Step \ {"idle", "CanPerform", "GetMembers"} :
          /\ pc[c] # "idle" /\ pc' = [pc EXCEPT ![c] = s]
          /\ s = "GetRole" => cmd[c].op = "RemoveRole"
          /\ s = "GetRoleAgain" => cmd[c].op \in SIGOp
    BY <1>0
    DEF CanPerform, GetRole, GetRoleAgain, GetMembers, Refused, SetLost, Sync,
        SyncFails, MapName, GoTo, Step, TypeInv, Busy
  <1>2. target' \in [Client -> Filter \cup {Empty}]
    <2>1. CASE GetRoleAgain(c)
      <3>1. cmd[c] \in Command /\ pc[c] = "GetRoleAgain" /\ RoleExists(cmd[c].role)
        BY <2>1 DEF GetRoleAgain, TypeInv, Busy
      <3>2. HGetAll(cmd[c].role)["FilterB"] \in Filter \cup {Empty}
        <4>1. CASE cmd[c].role \in ShortName
          <5>1. HGetAll(cmd[c].role) \in Hash
            BY <4>1, HGetAllType DEF TypeInv, TypeOK, RegistryTypeOK
          <5> QED BY <5>1 DEF Hash, Field, FieldValue
        <4>2. cmd[c].role \in ShortName
          BY <3>1 DEF Command, SIGOp, TypeInv, Busy
        <4> QED BY <4>1, <4>2
      <3> QED BY <2>1, <3>2 DEF GetRoleAgain, TypeInv, TypeOK
    <2>2. CASE ~GetRoleAgain(c)
      BY <2>2
      DEF CanPerform, GetRole, GetMembers, Refused, SetLost, Sync, SyncFails,
          MapName, TypeInv, TypeOK
    <2> QED BY <2>1, <2>2
  <1>3. users' \in [Client -> SUBSET User]
    <2>1. MembersOf(target[c]) \subseteq User
      BY DEF MembersOf, TypeInv, TypeOK, RegistryTypeOK
    <2> QED
      BY <2>1
      DEF CanPerform, GetRole, GetRoleAgain, GetMembers, Refused, SetLost,
          Sync, SyncFails, MapName, TypeInv, TypeOK
  <1>4. dirty' \in BOOLEAN /\ lapsed' \in BOOLEAN
    BY DEF CanPerform, GetRole, GetRoleAgain, GetMembers, Refused, SetLost,
           Sync, SyncFails, MapName, TypeInv, TypeOK
  <1>5. UNCHANGED <<storeVars, cmd, quiet, spared>>
    BY DEF CanPerform, GetRole, GetRoleAgain, GetMembers, Refused, SetLost,
           Sync, SyncFails, MapName
  <1> QED
    BY <1>1, <1>2, <1>3, <1>4, <1>5
    DEF TypeInv, TypeOK, Busy, RegistryTypeOK, RolesTypeOK, storeVars

(* The steps that change the store.                                        *)
LEMMA MembersType ==
  ASSUME TypeInv, NEW c \in Client, ChangeMembers(c)
  PROVE  TypeInv'
  <1>1. PICK done \in SUBSET users[c] :
          /\ MembersCall(c, done)
          /\ GoTo(c, "error") \/ GoTo(c, "sync")
          /\ spared' = [d \in Client |->
                IF d = c THEN spared[c] \cup (users[c] \ done)
                ELSE IF Op(d) = "RemoveAllMembers" /\ pc[d] \notin {"GetMembers", "error"}
                THEN spared[d] \cup (members'[target[d]] \ members[target[d]])
                ELSE spared[d]]
    BY DEF ChangeMembers, ChangeMembersThen
  <1>2. RegistryTypeOK'
    BY <1>1, MembersCallType
  <1>3. pc' \in [Client -> Step] /\ pc[c] = "change"
        /\ \A d \in Client : pc'[d] = pc[d] \/ (d = c /\ pc'[d] \in {"error", "sync"})
    BY <1>1 DEF ChangeMembers, ChangeMembersThen, GoTo, TypeInv, TypeOK, Step
  <1>4. spared' \in [Client -> SUBSET User]
    <2> SUFFICES ASSUME NEW d \in Client PROVE spared'[d] \subseteq User
      BY <1>1
    <2>1. spared[d] \subseteq User /\ users[c] \subseteq User
      BY DEF TypeInv, TypeOK
    <2>2. CASE d = c
      BY <1>1, <2>1, <2>2
    <2>3. CASE d # c /\ members'[target[d]] \ members[target[d]] \subseteq User
      BY <1>1, <2>1, <2>3
    <2>4. members'[target[d]] \ members[target[d]] \subseteq User
      BY <1>1, <2>1 DEF MembersCall, TypeInv, TypeOK, RegistryTypeOK
    <2> QED BY <2>2, <2>3, <2>4
  <1>5. dirty' \in BOOLEAN /\ lapsed' \in BOOLEAN /\ quiet' \in [Client -> BOOLEAN]
    BY DEF ChangeMembers, ChangeMembersThen, Noticed, TypeInv, TypeOK
  <1>6. UNCHANGED <<cmd, target, users>>
    BY DEF ChangeMembers, ChangeMembersThen
  <1> QED
    BY <1>2, <1>3, <1>4, <1>5, <1>6 DEF TypeInv, TypeOK, Busy

LEMMA OtherChangeType ==
  ASSUME TypeInv, NEW c \in Client, Change(c)
  PROVE  TypeInv'
  <1>1. RegistryTypeOK' /\ pc[c] = "change"
    BY ChangeType
  <1>2. /\ pc' \in [Client -> Step]
        /\ \A d \in Client : pc'[d] = pc[d]
                          \/ (d = c /\ pc'[d] \in {"error", "sync", "success"})
    <2>1. GoTo(c, "error") \/ GoTo(c, "sync") \/ GoTo(c, "success")
      BY DEF Change
    <2> QED BY <2>1 DEF GoTo, TypeInv, TypeOK, Step
  <1>3. dirty' \in BOOLEAN /\ lapsed' \in BOOLEAN /\ quiet' \in [Client -> BOOLEAN]
    BY DEF Change, Noticed, TypeInv, TypeOK
  <1>4. UNCHANGED <<cmd, target, users, spared>>
    BY DEF Change
  <1> QED BY <1>1, <1>2, <1>3, <1>4 DEF TypeInv, TypeOK, Busy

LEMMA EndsType ==
  ASSUME TypeInv, NEW c \in Client, Ends(c)
  PROVE  TypeInv'
  <1>1. lapsed' \in BOOLEAN
    BY DEF Ends
  <1>2. /\ pc' = [pc EXCEPT ![c] = "idle"] /\ cmd' = [cmd EXCEPT ![c] = NoCommand]
        /\ target' = [target EXCEPT ![c] = Empty]
        /\ users' = [users EXCEPT ![c] = {}]
        /\ quiet' = [quiet EXCEPT ![c] = TRUE]
        /\ spared' = [spared EXCEPT ![c] = {}]
        /\ UNCHANGED <<storeVars, dirty>>
    BY DEF Ends, GoTo
  <1> QED
    BY <1>1, <1>2
    DEF TypeInv, TypeOK, Busy, Step, RegistryTypeOK, RolesTypeOK, storeVars

LEMMA NextType == TypeInv /\ [Next]_vars => TypeInv'
  <1>1. ASSUME TypeInv, UNCHANGED vars PROVE TypeInv'
    BY <1>1
    DEF TypeInv, TypeOK, Busy, RegistryTypeOK, RolesTypeOK, vars, storeVars,
        commandVars
  <1> QED
    BY <1>1, BeginType, CallType, MembersType, OtherChangeType, EndsType
    DEF Next

LEMMA TypeInvariant == Spec => []TypeInv
  BY InitType, NextType, PTL DEF Spec

(* The commands and the store keep their types.                            *)
THEOREM TypeCorrect == Spec => []TypeOK
  <1>1. TypeInv => TypeOK
    BY DEF TypeInv
  <1> QED BY <1>1, TypeInvariant, PTL
-----------------------------------------------------------------------------
(***************************************************************************)
(* Changes are asked for.  The property is its own invariant: only a step  *)
(* of the command that is about to ask can end its turn.                   *)
(***************************************************************************)
LEMMA NextAsked ==
  ASSUME TypeInv, ChangesAskedFor, [Next]_vars
  PROVE  ChangesAskedFor'
  <1> SUFFICES ASSUME dirty', ~lapsed' PROVE \E c \in Client : pc'[c] = "sync"
    BY DEF ChangesAskedFor
  <1>0. pc \in [Client -> Step]
    BY DEF TypeInv, TypeOK
  <1>1. ASSUME NEW c \in Client,
               \/ Begin(c) \/ CanPerform(c) \/ GetRole(c) \/ GetRoleAgain(c)
               \/ GetMembers(c) \/ Refused(c) \/ SetLost(c) \/ MapName(c)
        PROVE  \E d \in Client : pc'[d] = "sync"
    <2>1. UNCHANGED <<dirty, lapsed>> /\ pc[c] # "sync"
      BY <1>1
      DEF Begin, CanPerform, GetRole, GetRoleAgain, GetMembers, Refused,
          SetLost, MapName
    <2>2. \A d \in Client : d # c => pc'[d] = pc[d]
      BY <1>0, <1>1
      DEF Begin, CanPerform, GetRole, GetRoleAgain, GetMembers, Refused,
          SetLost, MapName, GoTo
    <2> QED BY <2>1, <2>2 DEF ChangesAskedFor
  <1>2. ASSUME NEW c \in Client, ChangeMembers(c) \/ Change(c)
        PROVE  \E d \in Client : pc'[d] = "sync"
    <2>1. /\ pc[c] = "change" /\ Noticed(c)
          /\ \A d \in Client : d # c => pc'[d] = pc[d]
          /\ \/ pc'[c] \in {"sync", "error"}
             \/ pc'[c] = "success" /\ UNCHANGED <<roles, members>>
      <3>1. CASE ChangeMembers(c)
        <4>1. GoTo(c, "error") \/ GoTo(c, "sync")
          BY <3>1 DEF ChangeMembers, ChangeMembersThen
        <4> QED BY <1>0, <3>1, <4>1 DEF ChangeMembers, ChangeMembersThen, GoTo
      <3>2. CASE Change(c)
        <4>1. \/ GoTo(c, "sync") \/ GoTo(c, "error")
              \/ GoTo(c, "success") /\ UNCHANGED <<roles, members>>
          BY <3>2 DEF Change, API!AddFilter, API!RemoveFilter
        <4> QED BY <1>0, <3>2, <4>1 DEF Change, GoTo
      <3> QED BY <1>2, <3>1, <3>2
    <2>2. CASE pc'[c] = "sync"
      BY <2>2
    <2>3. CASE pc'[c] # "sync"
      <3>1. UNCHANGED <<roles, members>>
        BY <2>1, <2>3 DEF Noticed
      <3>2. dirty /\ ~lapsed
        BY <2>1, <3>1 DEF Noticed
      <3> QED BY <2>1, <3>2 DEF ChangesAskedFor
    <2> QED BY <2>2, <2>3
  <1>3. ASSUME NEW c \in Client, Sync(c) \/ SyncFails(c)
        PROVE  FALSE
    <2>1. dirty \in BOOLEAN
      BY DEF TypeInv, TypeOK
    <2>2. CASE Sync(c)
      <3>1. dirty' = FALSE
        BY <2>2 DEF Sync
      <3> QED BY <3>1
    <2>3. CASE SyncFails(c)
      <3>1. dirty' = dirty /\ lapsed' = dirty
        BY <2>3 DEF SyncFails
      <3> QED BY <2>1, <3>1
    <2> QED BY <1>3, <2>2, <2>3
  <1>4. ASSUME NEW c \in Client, Ends(c)
        PROVE  \E d \in Client : pc'[d] = "sync"
    BY <1>0, <1>4 DEF Ends, GoTo, ChangesAskedFor
  <1>5. CASE UNCHANGED vars
    BY <1>5 DEF vars, commandVars, ChangesAskedFor
  <1> QED BY <1>1, <1>2, <1>3, <1>4, <1>5 DEF Next

(* Until a request follows a change, a command is about to make one, or a  *)
(* command saw an error or died after its change.                          *)
THEOREM ChangesGetAskedFor == Spec => []ChangesAskedFor
  <1>1. Init => ChangesAskedFor
    BY DEF Init, ChangesAskedFor
  <1> QED BY <1>1, NextAsked, TypeInvariant, PTL DEF Spec
-----------------------------------------------------------------------------
(***************************************************************************)
(* RemoveAllMembers.  Before its call, whoever is in the filter is one of  *)
(* the users it has read, or came later; after it, he came later or his    *)
(* removal failed.                                                         *)
(***************************************************************************)
Emptying ==
    \A c \in Client : Op(c) = "RemoveAllMembers" =>
        /\ pc[c] = "change" => MembersOf(target[c]) \subseteq users[c] \cup spared[c]
        /\ pc[c] \in {"sync", "MapName", "success"} =>
              MembersOf(target[c]) \subseteq spared[c]

(* A step that leaves the members alone.                                   *)
LEMMA EmptyingLocal ==
  ASSUME TypeInv, Emptying, NEW c \in Client, UNCHANGED members,
         \/ Begin(c) \/ CanPerform(c) \/ GetRole(c) \/ GetRoleAgain(c)
         \/ GetMembers(c) \/ Refused(c) \/ SetLost(c) \/ Sync(c)
         \/ SyncFails(c) \/ MapName(c) \/ Change(c) \/ Ends(c)
  PROVE  Emptying'
  <1>0. /\ pc \in [Client -> Step] /\ cmd \in [Client -> Command \cup {NoCommand}]
        /\ target \in [Client -> Filter \cup {Empty}]
        /\ users \in [Client -> SUBSET User] /\ spared \in [Client -> SUBSET User]
    BY DEF TypeInv, TypeOK
  <1> SUFFICES ASSUME NEW d \in Client, Op(d)' = "RemoveAllMembers"
               PROVE  /\ pc'[d] = "change" =>
                            MembersOf(target[d])' \subseteq users'[d] \cup spared'[d]
                      /\ pc'[d] \in {"sync", "MapName", "success"} =>
                            MembersOf(target[d])' \subseteq spared'[d]
    BY DEF Emptying
  <1>1. CASE d # c
    <2>1. /\ pc'[d] = pc[d] /\ cmd'[d] = cmd[d] /\ target'[d] = target[d]
          /\ users'[d] = users[d] /\ spared'[d] = spared[d]
      BY <1>0, <1>1
      DEF Begin, CanPerform, GetRole, GetRoleAgain, GetMembers, Refused,
          SetLost, Sync, SyncFails, MapName, Change, Ends, GoTo
    <2>2. Op(d)' = Op(d) /\ MembersOf(target[d])' = MembersOf(target[d])
      BY <2>1 DEF Op, MembersOf
    <2> QED BY <2>1, <2>2 DEF Emptying
  <1>2. CASE d = c
    <2>1. CASE GetMembers(c)
      <3>1. users'[c] = MembersOf(target[c]) /\ target'[c] = target[c]
            /\ pc'[c] = "change"
        BY <1>0, <2>1 DEF GetMembers, GoTo
      <3> QED BY <1>2, <3>1 DEF MembersOf
    <2>2. CASE Begin(c)
      <3>1. PICK q \in Command : /\ cmd' = [cmd EXCEPT ![c] = q]
                                 /\ pc' = [pc EXCEPT ![c] = FirstCall(q)]
        BY <2>2 DEF Begin, GoTo
      <3>2. q.op = "RemoveAllMembers"
        BY <1>0, <1>2, <3>1, RoleClientAssumption DEF Op
      <3>3. pc'[c] = "GetMembers"
        BY <1>0, <3>1, <3>2 DEF FirstCall, AskPermission, SIGOp
      <3> QED BY <1>2, <3>3
    <2>3. CASE Ends(c)
      BY <1>0, <1>2, <2>3 DEF Ends, GoTo
    <2>4. CASE Refused(c) \/ SyncFails(c)
      BY <1>0, <1>2, <2>4 DEF Refused, SyncFails, GoTo
    <2>5. CASE \/ CanPerform(c) \/ GetRole(c) \/ GetRoleAgain(c)
               \/ SetLost(c) \/ Change(c)
      <3>1. cmd' = cmd /\ cmd[c] \in Command /\ Op(c) = cmd[c].op
        BY <2>5, RoleClientAssumption
        DEF CanPerform, GetRole, GetRoleAgain, SetLost, Change, TypeInv, Busy,
            Op
      <3>2. cmd[c].op = "RemoveAllMembers"
        BY <1>2, <3>1 DEF Op
      <3> QED
        BY <2>5, <3>1, <3>2
        DEF CanPerform, SetLost, Change, GetRole, GetRoleAgain, TypeInv, Busy,
            SIGOp, AskPermission
    <2>6. CASE Sync(c) \/ MapName(c)
      <3>1. /\ pc[c] \in {"sync", "MapName"} /\ pc'[c] # "change"
            /\ UNCHANGED <<cmd, target, spared>>
        BY <1>0, <2>6 DEF Sync, MapName, GoTo
      <3>2. Op(c) = "RemoveAllMembers" /\ MembersOf(target[c])' = MembersOf(target[c])
        BY <1>2, <3>1 DEF Op, MembersOf
      <3> QED BY <1>2, <3>1, <3>2 DEF Emptying
    <2> QED BY <2>1, <2>2, <2>3, <2>4, <2>5, <2>6
  <1> QED BY <1>1, <1>2

(* A step that changes members notes who was added meanwhile, and for whom *)
(* a removal failed.                                                       *)
LEMMA EmptyingMembers ==
  ASSUME TypeInv, Emptying, NEW c \in Client, ChangeMembers(c)
  PROVE  Emptying'
  <1>1. PICK done \in SUBSET users[c] :
          /\ MembersCall(c, done)
          /\ GoTo(c, "error") \/ GoTo(c, "sync")
          /\ spared' = [d \in Client |->
                IF d = c THEN spared[c] \cup (users[c] \ done)
                ELSE IF Op(d) = "RemoveAllMembers" /\ pc[d] \notin {"GetMembers", "error"}
                THEN spared[d] \cup (members'[target[d]] \ members[target[d]])
                ELSE spared[d]]
    BY DEF ChangeMembers, ChangeMembersThen
  <1>2. /\ pc \in [Client -> Step] /\ pc[c] = "change"
        /\ UNCHANGED <<cmd, target, users>>
        /\ target[c] \in Filter
        /\ members \in [Filter -> SUBSET User]
        /\ members' = [members EXCEPT ![target[c]] =
                          IF Op(c) \in Joins THEN @ \cup done ELSE @ \ done]
    BY <1>1, MembersCallType
    DEF ChangeMembers, ChangeMembersThen, MembersCall, TypeInv, TypeOK,
        RegistryTypeOK
  <1> SUFFICES ASSUME NEW d \in Client, Op(d) = "RemoveAllMembers"
               PROVE  /\ pc'[d] = "change" =>
                            MembersOf(target[d])' \subseteq users[d] \cup spared'[d]
                      /\ pc'[d] \in {"sync", "MapName", "success"} =>
                            MembersOf(target[d])' \subseteq spared'[d]
    BY <1>2 DEF Emptying, Op
  <1>3. CASE d = c
    <2>1. members'[target[c]] = members[target[c]] \ done
      BY <1>2, <1>3 DEF Joins
    <2>2. members[target[c]] \subseteq users[c] \cup spared[c]
      BY <1>2, <1>3 DEF Emptying, MembersOf
    <2>3. spared'[c] = spared[c] \cup (users[c] \ done)
      BY <1>1
    <2>4. members'[target[c]] \subseteq spared'[c]
      BY <2>1, <2>2, <2>3
    <2>5. pc'[c] # "change" /\ MembersOf(target[c])' = members'[target[c]]
      BY <1>1, <1>2 DEF GoTo, MembersOf
    <2> QED BY <1>3, <2>4, <2>5
  <1>4. CASE d # c
    <2>1. pc'[d] = pc[d]
      BY <1>1, <1>2, <1>4 DEF GoTo
    <2>2. CASE pc[d] \in {"change", "sync", "MapName", "success"}
      <3>1. spared'[d] = spared[d] \cup (members'[target[d]] \ members[target[d]])
        BY <1>1, <1>4, <2>2
      <3>2. MembersOf(target[d])' \subseteq MembersOf(target[d])
                \cup (members'[target[d]] \ members[target[d]])
        BY <1>2 DEF MembersOf
      <3> HIDE DEF Op
      <3> QED BY <2>1, <2>2, <3>1, <3>2 DEF Emptying
    <2>3. CASE pc[d] \notin {"change", "sync", "MapName", "success"}
      BY <2>1, <2>3
    <2> QED BY <2>2, <2>3
  <1> QED BY <1>3, <1>4

LEMMA NextEmptying ==
  ASSUME TypeInv, Emptying, [Next]_vars
  PROVE  Emptying'
  <1>1. ASSUME NEW c \in Client,
               \/ Begin(c) \/ CanPerform(c) \/ GetRole(c) \/ GetRoleAgain(c)
               \/ GetMembers(c) \/ Refused(c) \/ SetLost(c) \/ Sync(c)
               \/ SyncFails(c) \/ MapName(c) \/ Change(c) \/ Ends(c)
        PROVE  Emptying'
    <2>1. UNCHANGED members
      BY <1>1
      DEF Begin, CanPerform, GetRole, GetRoleAgain, GetMembers, Refused,
          SetLost, Sync, SyncFails, MapName, Change, Ends, storeVars,
          API!AddRole, API!RemoveRole, API!UpdateRole, API!AddFilter,
          API!RemoveFilter
    <2> QED BY <1>1, <2>1, EmptyingLocal
  <1>2. CASE UNCHANGED vars
    BY <1>2 DEF vars, storeVars, commandVars, Emptying, Op, MembersOf
  <1> QED BY <1>1, <1>2, EmptyingMembers DEF Next

(* When RemoveAllMembers succeeds, whoever is left in the filter came      *)
(* after it read the members, or his removal failed.                       *)
THEOREM RemoveAllLeavesNone == Spec => []RemoveAllEmpties
  <1>1. Init => Emptying
    BY DEF Init, Emptying
  <1>2. Emptying => RemoveAllEmpties
    BY DEF Emptying, RemoveAllEmpties
  <1> QED BY <1>1, <1>2, NextEmptying, TypeInvariant, PTL DEF Spec
-----------------------------------------------------------------------------
(***************************************************************************)
(* What a command has read still holds, unless another command changed the *)
(* store since: the role is stored and of the right kind, and the target   *)
(* of a SIG command is the role's FilterB.                                 *)
(***************************************************************************)
RoleOp(c) == Op(c) \in SIGOp \cup {"RemoveRole"}

RightKind(c) ==
    /\ RoleExists(cmd[c].role)
    /\ IsSIG(HGetAll(cmd[c].role)) = (IF Op(c) = "RemoveRole" THEN cmd[c].sig ELSE TRUE)

Targeted(c) ==
    Op(c) \in SIGOp =>
        /\ target[c] = HGetAll(cmd[c].role)["FilterB"]
        /\ Op(c) = "JoinSIG" => IsJoinable(HGetAll(cmd[c].role))

Answer(c) ==
    LET h == HGetAll(cmd[c].role)
        passesA == h["FilterA"] = Wildcard \/ cmd[c].user \in MembersOf(h["FilterA"])
    IN  h["FilterB"] # Wildcard =>
          (cmd[c].user \in Membership(h) <=> Op(c) \in Joins /\ passesA)

HasRead(c) ==
    quiet[c] /\ RoleOp(c) =>
        /\ pc[c] \in {"GetRoleAgain", "change"} => RightKind(c)
        /\ pc[c] = "change" => Targeted(c)
        /\ pc[c] \in {"sync", "MapName", "success"} /\ Op(c) \in SIGOp => Answer(c)

OneUser(c) == pc[c] # "idle" /\ Op(c) \in SIGOp => users[c] = {cmd[c].user}

ReadInv == \A c \in Client : HasRead(c) /\ OneUser(c)

StepOf(c) ==
    \/ Begin(c) \/ CanPerform(c) \/ GetRole(c) \/ GetRoleAgain(c)
    \/ GetMembers(c) \/ Refused(c) \/ ChangeMembers(c) \/ Change(c)
    \/ SetLost(c) \/ Sync(c) \/ SyncFails(c) \/ MapName(c) \/ Ends(c)

(* A step of one command moves no other, and is noticed by it.             *)
LEMMA OthersStay ==
  ASSUME TypeInv, NEW c \in Client, StepOf(c), NEW d \in Client, d # c
  PROVE  /\ pc'[d] = pc[d] /\ cmd'[d] = cmd[d] /\ target'[d] = target[d]
         /\ users'[d] = users[d]
         /\ quiet'[d] => quiet[d] /\ (~HasReadRole(d) \/ UNCHANGED storeVars)
  <1>0. /\ pc \in [Client -> Step] /\ cmd \in [Client -> Command \cup {NoCommand}]
        /\ target \in [Client -> Filter \cup {Empty}]
        /\ users \in [Client -> SUBSET User] /\ quiet \in [Client -> BOOLEAN]
    BY DEF TypeInv, TypeOK
  <1>1. CASE ChangeMembers(c) \/ Change(c)
    <2>1. /\ \E s \in Step : pc' = [pc EXCEPT ![c] = s]
          /\ UNCHANGED <<cmd, target, users>>
          /\ Noticed(c)
      BY <1>1 DEF ChangeMembers, ChangeMembersThen, Change, GoTo, Step
    <2>2. quiet'[d] = (quiet[d] /\ (d = c \/ ~HasReadRole(d) \/ storeVars' = storeVars))
      BY <2>1 DEF Noticed
    <2>3. quiet'[d] => quiet[d] /\ (~HasReadRole(d) \/ UNCHANGED storeVars)
      BY <2>2
    <2> QED BY <1>0, <2>1, <2>3
  <1>2. CASE \/ CanPerform(c) \/ GetRole(c) \/ GetRoleAgain(c)
             \/ GetMembers(c) \/ Refused(c) \/ SetLost(c) \/ Sync(c)
             \/ SyncFails(c) \/ MapName(c)
    <2>1. /\ \A e \in Client : e # c => /\ pc'[e] = pc[e] /\ target'[e] = target[e]
                                        /\ users'[e] = users[e]
          /\ UNCHANGED <<cmd, quiet, storeVars>>
      BY <1>0, <1>2
      DEF CanPerform, GetRole, GetRoleAgain, GetMembers, Refused, SetLost,
          Sync, SyncFails, MapName, GoTo
    <2> QED BY <2>1
  <1>3. CASE Begin(c) \/ Ends(c)
    <2>1. /\ \A e \in Client : e # c => /\ pc'[e] = pc[e] /\ target'[e] = target[e]
                                        /\ users'[e] = users[e] /\ cmd'[e] = cmd[e]
                                        /\ quiet'[e] = quiet[e]
          /\ UNCHANGED storeVars
      BY <1>0, <1>3 DEF Begin, Ends, GoTo
    <2> QED BY <2>1
  <1> QED BY <1>1, <1>2, <1>3 DEF StepOf

(* What is said of a command depends on its state and the store only.      *)
LEMMA OthersHaveRead ==
  ASSUME TypeInv, ReadInv, NEW c \in Client, StepOf(c), NEW d \in Client, d # c
  PROVE  HasRead(d)' /\ OneUser(d)'
  <1>1. /\ pc'[d] = pc[d] /\ cmd'[d] = cmd[d] /\ target'[d] = target[d]
        /\ users'[d] = users[d]
        /\ quiet'[d] => quiet[d] /\ (~HasReadRole(d) \/ UNCHANGED storeVars)
    BY OthersStay
  <1>2. Op(d)' = Op(d)
    BY <1>1 DEF Op
  <1>3. OneUser(d)'
    BY <1>1, <1>2 DEF ReadInv, OneUser
  <1>4. ASSUME ~quiet'[d] \/ ~RoleOp(d) PROVE HasRead(d)'
    BY <1>2, <1>4 DEF HasRead, RoleOp
  <1>5. ASSUME RoleOp(d), ~HasReadRole(d) PROVE HasRead(d)'
    <2>1. pc[d] \in {"CanPerform", "GetRole", "error"}
      BY <1>5 DEF HasReadRole, RoleOp
    <2>2. pc'[d] \notin {"GetRoleAgain", "change", "sync", "MapName", "success"}
      BY <1>1, <2>1
    <2> QED BY <2>2 DEF HasRead
  <1>6. ASSUME quiet[d], RoleOp(d), UNCHANGED storeVars PROVE HasRead(d)'
    <2> DEFINE h == HGetAll(cmd[d].role)
    <2>1. h' = h /\ (RoleExists(cmd[d].role) => RoleExists(cmd[d].role)')
      BY <1>1, <1>6 DEF HGetAll, RoleExists, storeVars
    <2>2. Membership(h)' = Membership(h) /\ \A f : MembersOf(f)' = MembersOf(f)
      BY <1>6, <2>1 DEF Membership, MembersOf, storeVars
    <2>3. HasRead(d)
      BY DEF ReadInv
    <2> HIDE DEF h
    <2>4. RightKind(d) => RightKind(d)'
      BY <1>1, <1>2, <2>1 DEF RightKind, IsSIG, h
    <2>5. Targeted(d) => Targeted(d)'
      BY <1>1, <1>2, <2>1 DEF Targeted, IsJoinable, h
    <2>6. Answer(d) => Answer(d)'
      BY <1>1, <1>2, <2>1, <2>2 DEF Answer, h
    <2> QED
      BY <1>1, <1>2, <1>6, <2>3, <2>4, <2>5, <2>6 DEF HasRead
  <1> QED BY <1>1, <1>3, <1>4, <1>5, <1>6

(* A command's own steps, first those that read.                           *)
LEMMA GetRoleReads ==
  ASSUME TypeInv, ReadInv, NEW c \in Client,
         \/ Begin(c) \/ CanPerform(c) \/ GetRole(c) \/ GetRoleAgain(c)
         \/ GetMembers(c)
  PROVE  HasRead(c)' /\ OneUser(c)'
  <1>0. /\ pc \in [Client -> Step] /\ cmd \in [Client -> Command \cup {NoCommand}]
        /\ target \in [Client -> Filter \cup {Empty}]
        /\ users \in [Client -> SUBSET User] /\ quiet \in [Client -> BOOLEAN]
    BY DEF TypeInv, TypeOK
  <1>1. CASE Begin(c)
    <2>1. PICK q \in Command :
            /\ cmd' = [cmd EXCEPT ![c] = q]
            /\ pc' = [pc EXCEPT ![c] = FirstCall(q)]
            /\ users' = [users EXCEPT ![c] = IF "user" \in DOMAIN q
                                             THEN {q.user} ELSE {}]
      BY <1>1 DEF Begin, GoTo
    <2>2. Op(c)' = q.op /\ cmd'[c] = q /\ pc'[c] = FirstCall(q)
      BY <1>0, <2>1, RoleClientAssumption DEF Op
    <2>3. q.op \in SIGOp => "user" \in DOMAIN q /\ FirstCall(q) = "GetRole"
      BY DEF Command, SIGOp, FirstCall, AskPermission
    <2>4. q.op = "RemoveRole" => FirstCall(q) = "CanPerform"
      BY DEF FirstCall, AskPermission, SIGOp
    <2>5. OneUser(c)'
      BY <1>0, <2>1, <2>2, <2>3 DEF OneUser
    <2>6. RoleOp(c)' => pc'[c] \in {"GetRole", "CanPerform"}
      BY <2>2, <2>3, <2>4 DEF RoleOp
    <2>7. HasRead(c)'
      BY <2>6 DEF HasRead
    <2> QED BY <2>5, <2>7
  <1>2. CASE \/ CanPerform(c) \/ GetRole(c) \/ GetRoleAgain(c) \/ GetMembers(c)
    <2>1. /\ UNCHANGED <<storeVars, cmd, quiet>>
          /\ pc[c] \in {"CanPerform", "GetRole", "GetRoleAgain", "GetMembers"}
      BY <1>2 DEF CanPerform, GetRole, GetRoleAgain, GetMembers
    <2>2. cmd[c] \in Command /\ Op(c) = cmd[c].op /\ Op(c)' = Op(c)
      BY <2>1, RoleClientAssumption DEF TypeInv, Busy, Op
    <2>3. HGetAll(cmd[c].role)' = HGetAll(cmd[c].role)
          /\ (RoleExists(cmd[c].role) => RoleExists(cmd[c].role)')
      BY <2>1 DEF HGetAll, RoleExists, storeVars
    <2>4. CASE CanPerform(c)
      <3>1. pc[c] = "CanPerform" /\ users' = users
            /\ pc'[c] = IF Op(c) = "RemoveRole" THEN "GetRole" ELSE "change"
        BY <1>0, <2>4 DEF CanPerform, GoTo
      <3>2. Op(c) \notin SIGOp
        BY <2>2, <3>1 DEF TypeInv, Busy, AskPermission, SIGOp
      <3>3. RoleOp(c)' => pc'[c] = "GetRole"
        BY <2>2, <3>1, <3>2 DEF RoleOp
      <3> QED BY <2>2, <3>2, <3>3 DEF HasRead, OneUser
    <2>5. CASE GetRole(c)
      <3>1. pc[c] = "GetRole" /\ users' = users
            /\ RoleExists(cmd[c].role)
            /\ pc'[c] = IF Op(c) = "RemoveRole"
                        THEN IF IsSIG(HGetAll(cmd[c].role)) = cmd[c].sig
                             THEN "change" ELSE "error"
                        ELSE IF IsSIG(HGetAll(cmd[c].role))
                             THEN "GetRoleAgain" ELSE "error"
        BY <1>0, <2>5 DEF GetRole, GoTo
      <3>2. Op(c) # "RemoveRole" => Op(c) \in SIGOp /\ pc'[c] # "change"
        BY <2>2, <3>1 DEF TypeInv, Busy
      <3>3. pc'[c] \in {"GetRoleAgain", "change"} => RightKind(c)
        BY <3>1 DEF RightKind
      <3>4. RightKind(c) => RightKind(c)'
        BY <2>1, <2>2, <2>3 DEF RightKind, IsSIG
      <3>5. Targeted(c)' \/ pc'[c] # "change"
        BY <2>2, <3>2 DEF Targeted, SIGOp
      <3>6. pc'[c] \notin {"sync", "MapName", "success"}
        BY <3>1
      <3>7. OneUser(c)'
        BY <2>1, <2>2, <3>1 DEF OneUser, ReadInv
      <3> QED BY <3>3, <3>4, <3>5, <3>6, <3>7 DEF HasRead
    <2>6. CASE GetRoleAgain(c)
      <3>1. pc[c] = "GetRoleAgain" /\ users' = users
            /\ target'[c] = HGetAll(cmd[c].role)["FilterB"]
            /\ pc'[c] = IF Op(c) = "JoinSIG" /\ ~IsJoinable(HGetAll(cmd[c].role))
                        THEN "error" ELSE "change"
        BY <1>0, <2>6 DEF GetRoleAgain, GoTo
      <3>2. Op(c) \in SIGOp
        BY <2>2, <3>1 DEF TypeInv, Busy
      <3>3. quiet'[c] => RightKind(c)
        BY <2>1, <3>1, <3>2 DEF ReadInv, HasRead, RoleOp
      <3>4. RightKind(c) => RightKind(c)'
        BY <2>1, <2>2, <2>3 DEF RightKind, IsSIG
      <3>5. Targeted(c)' \/ pc'[c] # "change"
        BY <2>1, <2>2, <2>3, <3>1 DEF Targeted, IsJoinable
      <3>6. pc'[c] \notin {"sync", "MapName", "success"}
        BY <3>1
      <3>7. OneUser(c)'
        BY <2>1, <2>2, <3>1 DEF OneUser, ReadInv
      <3> QED BY <3>3, <3>4, <3>5, <3>6, <3>7 DEF HasRead
    <2>7. CASE GetMembers(c)
      <3>1. Op(c) = "RemoveAllMembers"
        BY <2>2, <2>7 DEF GetMembers, TypeInv, Busy
      <3> QED BY <2>2, <3>1 DEF HasRead, OneUser, RoleOp, SIGOp
    <2> QED BY <1>2, <2>4, <2>5, <2>6, <2>7
  <1> QED BY <1>1, <1>2

(* The call that adds or removes the user of a SIG command: when it        *)
(* answers nil, the one user it has is served.                             *)
LEMMA MembersAnswer ==
  ASSUME TypeInv, ReadInv, NEW c \in Client, ChangeMembers(c)
  PROVE  HasRead(c)' /\ OneUser(c)'
  <1>1. PICK done \in SUBSET users[c] :
          /\ MembersCall(c, done)
          /\ \/ GoTo(c, "error")
             \/ (done # {} \/ users[c] = {}) /\ GoTo(c, "sync")
    BY DEF ChangeMembers, ChangeMembersThen
  <1>2. /\ pc \in [Client -> Step] /\ pc[c] = "change"
        /\ UNCHANGED <<cmd, target, users, roles, filters>>
        /\ target[c] \in Filter
        /\ members \in [Filter -> SUBSET User]
        /\ members' = [members EXCEPT ![target[c]] =
                          IF Op(c) \in Joins THEN @ \cup done ELSE @ \ done]
    BY <1>1, MembersCallType
    DEF ChangeMembers, ChangeMembersThen, MembersCall, TypeInv, TypeOK,
        RegistryTypeOK
  <1>3. pc'[c] = "error" \/ (pc'[c] = "sync" /\ (done # {} \/ users[c] = {}))
    BY <1>1, <1>2 DEF GoTo
  <1>4. Op(c)' = Op(c)
    BY <1>2 DEF Op
  <1>5. OneUser(c)'
    BY <1>2, <1>4 DEF ReadInv, OneUser
  <1>6. quiet'[c] => quiet[c]
    <2>1. Noticed(c)
      BY DEF ChangeMembers, ChangeMembersThen
    <2>2. quiet'[c] = (quiet[c] /\ (c = c \/ ~HasReadRole(c) \/ storeVars' = storeVars))
      BY <2>1 DEF Noticed
    <2> QED BY <2>2
  <1>7. ASSUME quiet'[c], pc'[c] = "sync", Op(c) \in SIGOp
        PROVE  Answer(c)'
    <2> DEFINE h == HGetAll(cmd[c].role)
               u == cmd[c].user
    <2>1. Targeted(c)
      BY <1>2, <1>6, <1>7 DEF ReadInv, HasRead, RoleOp
    <2>2. h["FilterB"] = target[c]
      BY <1>7, <2>1 DEF Targeted
    <2>3. users[c] = {u}
      BY <1>2, <1>7 DEF ReadInv, OneUser
    <2>4. done = {u}
      BY <1>3, <1>7, <2>3
    <2>5. h' = h /\ u' = u
      BY <1>2 DEF HGetAll
    <2>6. u \in members'[target[c]] <=> Op(c) \in Joins
      BY <1>2, <2>4
    <2> HIDE DEF h, u
    <2>7. MembersOf(h["FilterB"])' = members'[target[c]]
      BY <1>2, <2>2, <2>5 DEF MembersOf
    <2>8. ASSUME h["FilterB"] # Wildcard
          PROVE  u \in Membership(h)' <=>
                    /\ Op(c) \in Joins
                    /\ h["FilterA"] = Wildcard \/ u \in MembersOf(h["FilterA"])'
      <3>1. CASE h["FilterA"] = Wildcard
        <4>1. Membership(h)' = members'[target[c]]
          BY <2>5, <2>7, <2>8, <3>1 DEF Membership
        <4> QED BY <2>6, <3>1, <4>1
      <3>2. CASE h["FilterA"] # Wildcard
        <4>1. Membership(h)' = MembersOf(h["FilterA"])' \cap members'[target[c]]
          BY <2>5, <2>7, <2>8, <3>2 DEF Membership
        <4> QED BY <2>6, <3>2, <4>1
      <3> QED BY <3>1, <3>2
    <2> QED BY <1>4, <2>5, <2>8 DEF Answer, h, u
  <1>8. pc'[c] \notin {"GetRoleAgain", "change", "MapName", "success"}
    BY <1>3
  <1> QED BY <1>4, <1>5, <1>7, <1>8 DEF HasRead

LEMMA RestReads ==
  ASSUME TypeInv, ReadInv, NEW c \in Client,
         \/ Refused(c) \/ Change(c) \/ SetLost(c) \/ Sync(c) \/ SyncFails(c)
         \/ MapName(c) \/ Ends(c)
  PROVE  HasRead(c)' /\ OneUser(c)'
  <1>0. /\ pc \in [Client -> Step] /\ cmd \in [Client -> Command \cup {NoCommand}]
        /\ users \in [Client -> SUBSET User] /\ quiet \in [Client -> BOOLEAN]
    BY DEF TypeInv, TypeOK
  <1>1. CASE Ends(c)
    <2>1. pc'[c] = "idle"
      BY <1>0, <1>1 DEF Ends, GoTo
    <2> QED BY <2>1 DEF HasRead, OneUser
  <1>2. CASE Refused(c) \/ SyncFails(c)
    <2>1. pc'[c] = "error" /\ pc[c] # "idle" /\ UNCHANGED <<cmd, users>>
      BY <1>0, <1>2 DEF Refused, SyncFails, GoTo
    <2>2. Op(c)' = Op(c)
      BY <2>1 DEF Op
    <2> QED BY <2>1, <2>2 DEF HasRead, OneUser, ReadInv
  <1>3. CASE Change(c) \/ SetLost(c)
    <2>1. /\ pc[c] = "change" /\ UNCHANGED <<cmd, users>>
          /\ pc'[c] \in {"error", "sync", "success"}
      <3>1. GoTo(c, "error") \/ GoTo(c, "sync") \/ GoTo(c, "success")
        BY <1>3 DEF Change, SetLost
      <3> QED BY <1>0, <1>3, <3>1 DEF Change, SetLost, GoTo
    <2>2. Op(c)' = Op(c) /\ Op(c) = cmd[c].op
      BY <2>1, RoleClientAssumption DEF Op, TypeInv, Busy
    <2>3. Op(c) \notin SIGOp
      <3>1. cmd[c].op \in {"AddRole", "RemoveRole", "Set", "AddFilter", "RemoveFilter"}
        BY <1>3, <2>2 DEF Change, SetLost
      <3> QED BY <2>2, <3>1 DEF SIGOp
    <2> QED BY <2>1, <2>2, <2>3 DEF HasRead, OneUser
  <1>4. CASE Sync(c) \/ MapName(c)
    <2>1. /\ pc[c] \in {"sync", "MapName"}
          /\ UNCHANGED <<storeVars, cmd, users, quiet>>
          /\ pc'[c] \in {"MapName", "success", "error"}
      BY <1>0, <1>4 DEF Sync, MapName, GoTo
    <2>2. Op(c)' = Op(c)
      BY <2>1 DEF Op
    <2>3. Answer(c) => Answer(c)'
      BY <2>1, <2>2
      DEF Answer, HGetAll, Membership, MembersOf, storeVars
    <2> QED BY <2>1, <2>2, <2>3 DEF HasRead, OneUser, ReadInv, RoleOp
  <1> QED BY <1>1, <1>2, <1>3, <1>4

LEMMA NextRead ==
  ASSUME TypeInv, ReadInv, [Next]_vars
  PROVE  ReadInv'
  <1>1. ASSUME NEW c \in Client, StepOf(c) PROVE ReadInv'
    <2>1. HasRead(c)' /\ OneUser(c)'
      BY <1>1, GetRoleReads, MembersAnswer, RestReads DEF StepOf
    <2>2. \A d \in Client : d # c => HasRead(d)' /\ OneUser(d)'
      BY <1>1, OthersHaveRead
    <2> QED BY <2>1, <2>2 DEF ReadInv
  <1>2. CASE UNCHANGED vars
    <2>1. UNCHANGED <<storeVars, pc, cmd, target, users, quiet>>
      BY <1>2 DEF vars, commandVars
    <2> SUFFICES ASSUME NEW d \in Client PROVE HasRead(d)' /\ OneUser(d)'
      BY DEF ReadInv
    <2>2. Op(d)' = Op(d)
      BY <2>1 DEF Op
    <2>3. RightKind(d) => RightKind(d)'
      BY <2>1, <2>2 DEF RightKind, IsSIG, HGetAll, RoleExists, storeVars
    <2>4. Targeted(d) => Targeted(d)'
      BY <2>1, <2>2 DEF Targeted, IsJoinable, HGetAll, storeVars
    <2>5. Answer(d) => Answer(d)'
      BY <2>1, <2>2 DEF Answer, HGetAll, Membership, MembersOf, storeVars
    <2> QED
      BY <2>1, <2>2, <2>3, <2>4, <2>5 DEF ReadInv, HasRead, OneUser, RoleOp
  <1> QED BY <1>1, <1>2 DEF Next, StepOf

LEMMA ReadInvariant == Spec => []ReadInv
  <1>1. Init => ReadInv
    BY DEF Init, ReadInv, HasRead, OneUser
  <1> QED BY <1>1, NextRead, TypeInvariant, PTL DEF Spec

(* A SIG command that nobody disturbed does what it answers: who left does *)
(* not hold the role, who joined holds it if he passes its other filter.   *)
THEOREM SIGAnswersAreTrue == Spec => []SIGAnswerTrue
  <1>1. ReadInv => SIGAnswerTrue
    BY DEF ReadInv, HasRead, RoleOp, Answer, SIGAnswerTrue
  <1> QED BY <1>1, ReadInvariant, PTL

(* What GetRole told a command still binds its change, unless another      *)
(* command got in between.                                                 *)
THEOREM KindsAreRespected == Spec => KindRespected
  <1> DEFINE Respects ==
        \A c \in Client :
          /\ quiet[c] /\ pc[c] = "change" /\ pc'[c] # "change"
          /\ storeVars' # storeVars
          /\ Op(c) \in SIGOp \cup {"RemoveRole"}
          => LET h == HGetAll(cmd[c].role) IN
                /\ RoleExists(cmd[c].role)
                /\ IsSIG(h) = (IF Op(c) = "RemoveRole" THEN cmd[c].sig ELSE TRUE)
                /\ Op(c) = "JoinSIG" => IsJoinable(h)
                /\ \A f \in Filter : members'[f] # members[f] => f = h["FilterB"]
  <1>1. ASSUME TypeInv, ReadInv, Next PROVE Respects
    <2> SUFFICES ASSUME NEW c \in Client, quiet[c], pc[c] = "change",
                        pc'[c] # "change", storeVars' # storeVars, RoleOp(c)
                 PROVE  /\ RoleExists(cmd[c].role)
                        /\ IsSIG(HGetAll(cmd[c].role))
                             = (IF Op(c) = "RemoveRole" THEN cmd[c].sig ELSE TRUE)
                        /\ Op(c) = "JoinSIG" => IsJoinable(HGetAll(cmd[c].role))
                        /\ \A f \in Filter : members'[f] # members[f] =>
                              f = HGetAll(cmd[c].role)["FilterB"]
      BY DEF RoleOp
    <2>1. RightKind(c) /\ Targeted(c)
      BY <1>1 DEF ReadInv, HasRead
    <2>2. PICK d \in Client : StepOf(d)
      BY <1>1 DEF Next, StepOf
    <2>3. d = c
      BY <1>1, <2>2, OthersStay
    <2>4. Change(c) \/ ChangeMembers(c)
      BY <2>2, <2>3
      DEF StepOf, Begin, CanPerform, GetRole, GetRoleAgain, GetMembers,
          Refused, SetLost, Sync, SyncFails, MapName, Ends
    <2>5. Op(c) = cmd[c].op
      BY <1>1, RoleClientAssumption DEF Op, TypeInv, Busy
    <2>6. ASSUME NEW f \in Filter, members'[f] # members[f]
          PROVE  f = HGetAll(cmd[c].role)["FilterB"]
      <3>1. ~Change(c)
        BY <2>6
        DEF Change, API!AddRole, API!RemoveRole, API!UpdateRole,
            API!AddFilter, API!RemoveFilter
      <3>2. PICK done : MembersCall(c, done)
        BY <2>4, <3>1 DEF ChangeMembers, ChangeMembersThen
      <3>3. f = target[c]
        BY <1>1, <2>6, <3>2 DEF MembersCall, TypeInv, TypeOK, RegistryTypeOK
      <3>4. Op(c) \in SIGOp
        BY <2>4, <3>1 DEF ChangeMembers, ChangeMembersThen, RoleOp
      <3> QED BY <2>1, <3>3, <3>4 DEF Targeted
    <2> QED BY <2>1, <2>6 DEF RightKind, Targeted, SIGOp
  <1> QED
    BY <1>1, ReadInvariant, TypeInvariant, PTL DEF Spec, KindRespected

-----------------------------------------------------------------------------
(***************************************************************************)
(* The commands as users of the API.                                       *)
(***************************************************************************)
LEMMA ApiEmpty == API!Empty = Empty
  BY DEF API!Empty, Empty

LEMMA ApiWhole ==
  LET whole == \A r \in ShortName : roles[r] # Absent =>
                  roles[r]["FilterA"] # Empty /\ roles[r]["FilterB"] # Empty
  IN  (API!RolesWhole <=> whole) /\ (API!RolesWhole' <=> whole')
  BY ApiEmpty DEF API!RolesWhole, API!RoleExists

(* A role that exists keeps its filters under UpdateRole.                  *)
LEMMA UpdateWhole ==
  ASSUME RegistryTypeOK, API!RolesWhole, NEW r \in ShortName, NEW u \in FieldUpdate,
         API!UpdateRole(r, u)
  PROVE  API!RolesWhole'
  <1>1. RoleExists(r) /\ u[1] \in roleKeys /\ HSet(r, u)
    BY SameCommands DEF API!UpdateRole
  <1>2. HGetAll(r) \in [Field -> Value]
    BY HGetAllType DEF RegistryTypeOK, Hash
  <1>3. roles' = [roles EXCEPT ![r] = [HGetAll(r) EXCEPT ![u[1]] = u[2]]]
    BY <1>1 DEF HSet
  <1>4. u[1] # "FilterA" /\ u[1] # "FilterB"
    BY <1>1 DEF roleKeys
  <1>5. roles \in [ShortName -> Hash \cup {Absent}]
    BY DEF RegistryTypeOK, RolesTypeOK
  <1>6. /\ roles'[r]["FilterA"] = HGetAll(r)["FilterA"]
        /\ roles'[r]["FilterB"] = HGetAll(r)["FilterB"]
    BY <1>2, <1>3, <1>4, <1>5 DEF Field
  <1>7. HGetAll(r)["FilterA"] # Empty /\ HGetAll(r)["FilterB"] # Empty
    BY <1>1, ApiWhole DEF HGetAll, RoleExists
  <1>8. \A x \in ShortName \ {r} : roles'[x] = roles[x]
    BY <1>3, <1>5
  <1>9. \A x \in ShortName : roles'[x] # Absent =>
           roles'[x]["FilterA"] # Empty /\ roles'[x]["FilterB"] # Empty
    BY <1>6, <1>7, <1>8, ApiWhole
  <1> QED BY <1>9, ApiWhole

(* A change to the roles or to the descriptions leaves the registry sound. *)
LEMMA ChangeIntegrity ==
  ASSUME TypeInv, API!Integrity, NEW c \in Client, Change(c)
  PROVE  API!Integrity'
  <1> DEFINE q == cmd[c]
  <1>1. q \in Command /\ RegistryTypeOK /\ RolesTypeOK
    BY DEF Change, TypeInv, TypeOK, Busy, RegistryTypeOK
  <1>2. /\ q.op = "AddRole" => q.role \in ShortName /\ q.spec \in RoleSpec
        /\ q.op = "RemoveRole" => q.role \in ShortName
        /\ q.op = "Set" => q.role \in ShortName /\ q.set \in FieldUpdate
        /\ q.op \in {"AddFilter", "RemoveFilter"} => q.filter \in Filter
    BY <1>1 DEF Command, SIGOp
  <1> HIDE DEF q
  <1>3. \/ q.op = "AddRole"    /\ API!AddRole(q.role, q.spec)
        \/ q.op = "RemoveRole" /\ API!RemoveRole(q.role)
        \/ q.op = "Set"        /\ API!UpdateRole(q.role, q.set)
        \/ q.op = "AddFilter"    /\ API!AddFilter(q.filter)
        \/ q.op = "RemoveFilter" /\ API!RemoveFilter(q.filter)
    BY DEF Change, q
  <1>4. CASE \/ q.op = "AddRole"    /\ API!AddRole(q.role, q.spec)
             \/ q.op = "RemoveRole" /\ API!RemoveRole(q.role)
             \/ q.op = "Set"        /\ API!UpdateRole(q.role, q.set)
    <2>1. UNCHANGED <<filters, members>>
      BY <1>4 DEF API!AddRole, API!RemoveRole, API!UpdateRole
    <2>2. API!MembersDescribed'
      BY <2>1 DEF API!Integrity, API!MembersDescribed
    <2>3. CASE q.op = "AddRole" /\ API!AddRole(q.role, q.spec)
      <3>1. /\ roles' = [roles EXCEPT ![q.role] = q.spec]
            /\ q.spec["FilterA"] # Empty /\ q.spec["FilterB"] # Empty
        BY <2>3, ApiEmpty DEF API!AddRole, API!HMSet, API!RequiredFields
      <3>2. \A x \in ShortName : roles'[x] # Absent =>
               roles'[x]["FilterA"] # Empty /\ roles'[x]["FilterB"] # Empty
        BY <1>1, <1>2, <2>3, <3>1, ApiWhole DEF RolesTypeOK, API!Integrity
      <3> QED BY <2>2, <3>2, ApiWhole DEF API!Integrity
    <2>4. CASE q.op = "RemoveRole" /\ API!RemoveRole(q.role)
      <3>1. API!RolesWhole'
        BY <1>1, <1>2, <2>4
        DEF API!RemoveRole, API!DelRole, RolesTypeOK, API!Integrity,
            API!RolesWhole, API!RoleExists
      <3> QED BY <2>2, <3>1 DEF API!Integrity
    <2>5. CASE q.op = "Set" /\ API!UpdateRole(q.role, q.set)
      BY <1>1, <1>2, <2>2, <2>5, UpdateWhole DEF API!Integrity
    <2> QED BY <1>4, <2>3, <2>4, <2>5
  <1>5. CASE \/ q.op = "AddFilter" /\ API!AddFilter(q.filter)
             \/ q.op = "RemoveFilter" /\ API!RemoveFilter(q.filter)
    <2>1. UNCHANGED <<roles, members>>
      BY <1>5 DEF API!AddFilter, API!RemoveFilter
    <2>2. API!RolesWhole'
      BY <2>1 DEF API!Integrity, API!RolesWhole, API!RoleExists
    <2>3. API!MembersDescribed'
      BY <1>1, <1>2, <1>5, <2>1
      DEF API!Integrity, API!MembersDescribed, API!AddFilter,
          API!RemoveFilter, API!SetDescription, API!DelDescription
    <2> QED BY <2>2, <2>3 DEF API!Integrity
  <1> QED BY <1>3, <1>4, <1>5

(* So does any number of additions and removals in one loop of members.    *)
LEMMA MembersIntegrity ==
  ASSUME TypeInv, API!Integrity, NEW c \in Client, ChangeMembers(c)
  PROVE  API!Integrity'
  <1>1. PICK done \in SUBSET users[c] : MembersCall(c, done)
    BY DEF ChangeMembers, ChangeMembersThen
  <1>2. UNCHANGED <<roles, filters>> /\ target[c] \in filters
    BY <1>1 DEF MembersCall
  <1>3. API!RolesWhole'
    BY <1>2 DEF API!Integrity, API!RolesWhole, API!RoleExists
  <1>4. \A f \in Filter : f # target[c] => members'[f] = members[f]
    BY <1>1 DEF MembersCall, TypeInv, TypeOK, RegistryTypeOK
  <1>5. API!MembersDescribed'
    BY <1>2, <1>4 DEF API!Integrity, API!MembersDescribed
  <1> QED BY <1>3, <1>5 DEF API!Integrity

(***************************************************************************)
(* Whatever the commands do, in any order, refused, failing or dying half  *)
(* way, the registry stays sound as long as the RPCs are atomic: members   *)
(* only in filters that have a description, both filters in every role.    *)
(***************************************************************************)
THEOREM CommandsKeepIntegrity == Spec => []API!Integrity
  <1>1. Init => API!Integrity
    BY DEF Init, API!Init, API!Integrity, API!MembersDescribed,
           API!RolesWhole, API!RoleExists
  <1>2. TypeInv /\ API!Integrity /\ [Next]_vars => API!Integrity'
    <2> SUFFICES ASSUME TypeInv, API!Integrity, [Next]_vars
                 PROVE  API!Integrity'
      OBVIOUS
    <2>1. CASE UNCHANGED storeVars
      BY <2>1 DEF storeVars, API!Integrity, API!MembersDescribed,
                  API!RolesWhole, API!RoleExists
    <2>2. CASE \E c \in Client : Change(c) \/ ChangeMembers(c)
      BY <2>2, ChangeIntegrity, MembersIntegrity
    <2>3. UNCHANGED storeVars \/ \E c \in Client : Change(c) \/ ChangeMembers(c)
      BY DEF Next, vars, Begin, CanPerform, GetRole, GetRoleAgain, GetMembers,
             Refused, SetLost, Sync, SyncFails, MapName, Ends
    <2> QED BY <2>1, <2>2, <2>3
  <1> QED BY <1>1, <1>2, TypeInvariant, PTL DEF Spec
=============================================================================
