------------------------- MODULE RoleHandlersProofs -------------------------
(***************************************************************************)
(* Safety of the request handlers for every number of workers, every set   *)
(* of requests and every way in which Redis may fail.                      *)
(***************************************************************************)
EXTENDS RoleHandlers, RoleTableProofs

(***************************************************************************)
(* Fits(w): the request of worker w is of the kind its step serves and has *)
(* passed the checks that need no Redis command.                           *)
(***************************************************************************)
Fits(w) ==
    /\ pc[w] \in {"AddRole_Exists", "AddRole_FilterA", "AddRole_FilterB",
                  "AddRole_HMSet"} =>
          req[w] \in AddRoleRequest /\ RequiredFields(req[w].spec)
    /\ pc[w] \in {"UpdateRole_Exists", "UpdateRole_HSet"} =>
          req[w] \in UpdateRoleRequest
    /\ pc[w] = "UpdateRole_HSet" => req[w].set[1] \in roleKeys
    /\ pc[w] \in {"RemoveRole_Exists", "RemoveRole_Del"} =>
          req[w] \in RemoveRoleRequest
    /\ pc[w] \in {"AddFilter_Exists", "AddFilter_Set", "RemoveFilter_Exists",
                  "RemoveFilter_SMembers", "RemoveFilter_Del"} =>
          req[w] \in FilterRequest
    /\ pc[w] \in {"AddMembers_Exists", "AddMembers_SAdd",
                  "RemoveMembers_Exists", "RemoveMembers_SRem"} =>
          req[w] \in MembersRequest

(***************************************************************************)
(* Holds(w): what worker w has read of the store before its present step   *)
(* is what the store holds now.                                            *)
(***************************************************************************)
Holds(w) ==
    /\ pc[w] \in {"AddRole_FilterA", "AddRole_FilterB", "AddRole_HMSet"} =>
          ~RoleExists(req[w].role)
    /\ pc[w] \in {"AddRole_FilterB", "AddRole_HMSet"} =>
          API!Usable(req[w].spec["FilterA"])
    /\ pc[w] = "AddRole_HMSet" => API!Usable(req[w].spec["FilterB"])
    /\ pc[w] \in {"UpdateRole_HSet", "RemoveRole_Del"} =>
          RoleExists(req[w].role)
    /\ pc[w] = "AddFilter_Set" => req[w].filter \notin filters
    /\ pc[w] \in {"RemoveFilter_SMembers", "RemoveFilter_Del",
                  "AddMembers_SAdd", "RemoveMembers_SRem"} =>
          req[w].filter \in filters
    /\ pc[w] = "RemoveFilter_Del" => members[req[w].filter] = {}

RequestsFit == \A w \in Worker : Fits(w)

ChecksHold == \A w \in Worker : ~stale[w] => Holds(w)

(***************************************************************************)
(* The inductive invariant.  ChecksHold is its core: a worker that nobody  *)
(* overtook finds the store as it checked it, so its write is a step of    *)
(* the atomic RoleAPI.                                                     *)
(***************************************************************************)
IInv ==
    /\ TypeOK
    /\ RequestsFit
    /\ ChecksHold
    /\ RoleFromOneRequest
    /\ SoundUnlessRaced

(* The initial state satisfies the invariant.                              *)
LEMMA InitIInv == Init => IInv
  <1> SUFFICES ASSUME Init PROVE IInv
    OBVIOUS
  <1>1. RegistryTypeOK
    BY DEF Init, RegistryTypeOK, RolesTypeOK
  <1>2. /\ pc \in [Worker -> Step]
        /\ req \in [Worker -> Request \cup {Nothing}]
        /\ todo \in [Worker -> SUBSET User]
        /\ failed \in [Worker -> BOOLEAN]
        /\ stale \in [Worker -> BOOLEAN]
        /\ raced \in BOOLEAN
    BY DEF Init, Step
  <1>3. TypeOK
    BY <1>1, <1>2 DEF TypeOK
  <1>4. RequestsFit /\ ChecksHold
    BY DEF Init, RequestsFit, ChecksHold, Fits, Holds
  <1>5. RoleFromOneRequest /\ SoundUnlessRaced
    BY DEF Init, RoleFromOneRequest, SoundUnlessRaced, RoleExists,
           API!Integrity, API!MembersDescribed, API!RolesWhole, API!RoleExists
  <1> QED BY <1>3, <1>4, <1>5 DEF IInv

-----------------------------------------------------------------------------
(* Steps that do not write to the store.                                   *)

(* A worker whose step and request stay as they are still fits.            *)
LEMMA FitsKept ==
  ASSUME NEW v \in Worker, Fits(v), pc'[v] = pc[v], req'[v] = req[v]
  PROVE  Fits(v)'
  BY DEF Fits

(* Neither do its checks change while the store does not.                  *)
LEMMA HoldsKept ==
  ASSUME NEW v \in Worker, Holds(v), pc'[v] = pc[v], req'[v] = req[v],
         UNCHANGED <<roles, filters, members>>
  PROVE  Holds(v)'
  BY DEF Holds, RoleExists, API!Usable

(* The invariants of the store do not look at the workers.                 *)
LEMMA StoreKept ==
  ASSUME RoleFromOneRequest, SoundUnlessRaced,
         UNCHANGED <<roles, filters, members, raced>>
  PROVE  RoleFromOneRequest' /\ SoundUnlessRaced'
  BY DEF RoleFromOneRequest, SoundUnlessRaced, RoleExists,
         API!Integrity, API!MembersDescribed, API!RolesWhole, API!RoleExists

(***************************************************************************)
(* Worker w moves without writing to the store, to a step that its request *)
(* fits and whose checks hold, or it is stale.                             *)
(***************************************************************************)
LEMMA SilentStep ==
  ASSUME IInv, NEW w \in Worker, TypeOK',
         UNCHANGED <<roles, filters, members, raced>>,
         \A v \in Worker \ {w} :
            pc'[v] = pc[v] /\ req'[v] = req[v] /\ stale'[v] = stale[v],
         Fits(w)',
         ~stale'[w] => Holds(w)'
  PROVE  IInv'
  <1>1. RequestsFit'
    BY FitsKept DEF IInv, RequestsFit
  <1>2. ChecksHold'
    BY HoldsKept DEF IInv, ChecksHold
  <1> QED BY <1>1, <1>2, StoreKept DEF IInv

(* A worker that has answered has nothing to check and nothing to fit.     *)
LEMMA DoneFits ==
  ASSUME NEW w \in Worker, NEW s \in {"idle", "ok", "error"}, pc'[w] = s
  PROVE  Fits(w)' /\ Holds(w)'
  BY DEF Fits, Holds

(* A Redis read, when the handler goes on only to a step it is ready for.  *)
LEMMA ReadStep ==
  ASSUME IInv, NEW w \in Worker, NEW s \in Step, Read(w, s),
         pc'[w] = s => Fits(w)' /\ (~stale[w] => Holds(w)')
  PROVE  IInv'
  <1>1. UNCHANGED <<roles, filters, members, req, todo, failed, stale, raced>>
    BY DEF Read, storeVars
  <1>2. PICK t \in {s, "error"} : pc' = [pc EXCEPT ![w] = t]
    BY DEF Read, GoTo
  <1>3. t \in Step
    BY DEF Step
  <1>4. TypeOK'
    BY <1>1, <1>2, <1>3 DEF IInv, TypeOK, RegistryTypeOK, RolesTypeOK
  <1>5. pc'[w] = t /\ \A v \in Worker \ {w} : pc'[v] = pc[v]
    BY <1>2 DEF IInv, TypeOK
  <1>6. Fits(w)' /\ (~stale'[w] => Holds(w)')
    BY <1>1, <1>5, DoneFits
  <1> QED BY <1>1, <1>4, <1>5, <1>6, SilentStep

(* A Redis write that had no effect: the handler answers.                  *)
LEMMA LostWriteStep ==
  ASSUME IInv, NEW w \in Worker, NEW s \in {"ok", "error"},
         pc' = [pc EXCEPT ![w] = s],
         UNCHANGED <<roles, filters, members, req, todo, failed, stale, raced>>
  PROVE  IInv'
  <1>1. s \in Step
    BY DEF Step
  <1>2. TypeOK'
    BY <1>1 DEF IInv, TypeOK, RegistryTypeOK, RolesTypeOK
  <1>3. pc'[w] = s /\ \A v \in Worker \ {w} : pc'[v] = pc[v]
    BY DEF IInv, TypeOK
  <1> QED BY <1>2, <1>3, DoneFits, SilentStep

-----------------------------------------------------------------------------
(* Steps that write to the store.  A worker that has not read the key does *)
(* not notice the write; one that has is stale from then on.               *)

LEMMA HoldsBesideRole ==
  ASSUME TypeOK, NEW v \in Worker, Fits(v), Holds(v),
         pc'[v] = pc[v], req'[v] = req[v],
         NEW r \in ShortName, NEW x, roles' = [roles EXCEPT ![r] = x],
         UNCHANGED <<filters, members>>, RoleKey(r) \notin Checked(v)
  PROVE  Holds(v)'
  <1>1. pc[v] \in {"AddRole_FilterA", "AddRole_FilterB", "AddRole_HMSet",
                   "UpdateRole_HSet", "RemoveRole_Del"}
           => req[v].role \in ShortName /\ req[v].role # r
    BY DEF Checked, RoleKey, Fits, AddRoleRequest, UpdateRoleRequest,
           RemoveRoleRequest
  <1>2. pc[v] \in {"AddRole_FilterA", "AddRole_FilterB", "AddRole_HMSet",
                   "UpdateRole_HSet", "RemoveRole_Del"}
           => roles'[req[v].role] = roles[req[v].role]
    BY <1>1 DEF TypeOK, RegistryTypeOK, RolesTypeOK
  <1> QED BY <1>2 DEF Holds, RoleExists, API!Usable

LEMMA HoldsBesideDescription ==
  ASSUME NEW v \in Worker, Holds(v), pc'[v] = pc[v], req'[v] = req[v],
         NEW f \in Filter,
         (filters' = filters \cup {f}) \/ (filters' = filters \ {f}),
         UNCHANGED <<roles, members>>, DescKey(f) \notin Checked(v)
  PROVE  Holds(v)'
  BY DEF Holds, Checked, RoleKey, SetKey, DescKey, RoleExists, API!Usable

LEMMA HoldsBesideMembers ==
  ASSUME TypeOK, NEW v \in Worker, Fits(v), Holds(v),
         pc'[v] = pc[v], req'[v] = req[v],
         NEW f \in Filter, NEW x, members' = [members EXCEPT ![f] = x],
         UNCHANGED <<roles, filters>>, SetKey(f) \notin Checked(v)
  PROVE  Holds(v)'
  <1>1. pc[v] = "RemoveFilter_Del" => req[v].filter \in Filter /\ req[v].filter # f
    BY DEF Checked, RoleKey, SetKey, DescKey, Fits, FilterRequest
  <1>2. pc[v] = "RemoveFilter_Del"
           => members'[req[v].filter] = members[req[v].filter]
    BY <1>1 DEF TypeOK, RegistryTypeOK
  <1> QED BY <1>2 DEF Holds, RoleExists, API!Usable

(***************************************************************************)
(* A handler writes role:r and answers.  What it stores is a hash whose    *)
(* filters come from one request, or nothing; and it stores no hash        *)
(* without filters unless it is stale.                                     *)
(***************************************************************************)
LEMMA RoleWriteStep ==
  ASSUME IInv, NEW w \in Worker, NEW s \in {"ok", "error"},
         pc' = [pc EXCEPT ![w] = s],
         UNCHANGED <<filters, members, req, todo, failed>>,
         NEW r \in ShortName, NEW x \in Hash \cup {Absent},
         roles' = [roles EXCEPT ![r] = x],
         Wrote(w, RoleKey(r)),
         x # Absent => <<x["FilterA"], x["FilterB"]>>
                          \in RequestedFilters \cup {<<Empty, Empty>>},
         (x # Absent /\ ~stale[w] /\ API!RolesWhole)
            => (x["FilterA"] # Empty /\ x["FilterB"] # Empty)
  PROVE  IInv'
  <1>1. TypeOK'
    <2>1. s \in Step
      BY DEF Step
    <2>2. RegistryTypeOK'
      BY DEF IInv, TypeOK, RegistryTypeOK, RolesTypeOK
    <2>3. stale' \in [Worker -> BOOLEAN] /\ raced' \in BOOLEAN
      BY DEF IInv, TypeOK, Wrote
    <2> QED BY <2>1, <2>2, <2>3 DEF IInv, TypeOK
  <1>2. \A v \in Worker : v # w => /\ pc'[v] = pc[v] /\ req'[v] = req[v]
                                    /\ ~stale'[v] => /\ ~stale[v]
                                                     /\ RoleKey(r) \notin Checked(v)
    BY DEF IInv, TypeOK, Wrote
  <1>3. Fits(w)' /\ Holds(w)'
    BY DoneFits DEF IInv, TypeOK
  <1>4. RequestsFit'
    BY <1>2, <1>3, FitsKept DEF IInv, RequestsFit
  <1>5. ChecksHold'
    <2> SUFFICES ASSUME NEW v \in Worker, ~stale'[v] PROVE Holds(v)'
      BY DEF ChecksHold
    <2>1. CASE v = w
      BY <1>3, <2>1
    <2>2. CASE v # w
      <3>1. Fits(v) /\ Holds(v) /\ TypeOK
        BY <1>2, <2>2 DEF IInv, ChecksHold, RequestsFit
      <3>2. pc'[v] = pc[v] /\ req'[v] = req[v] /\ RoleKey(r) \notin Checked(v)
        BY <1>2, <2>2
      <3>3. UNCHANGED <<filters, members>>
        OBVIOUS
      <3> QED BY <3>1, <3>2, <3>3, HoldsBesideRole
    <2> QED BY <2>1, <2>2
  <1>6. \A q \in ShortName : roles'[q] = IF q = r THEN x ELSE roles[q]
    BY DEF IInv, TypeOK, RegistryTypeOK, RolesTypeOK
  <1>7. RoleFromOneRequest'
    BY <1>6 DEF IInv, RoleFromOneRequest, RoleExists, RequestedFilters
  <1>8. SoundUnlessRaced'
    <2> SUFFICES ASSUME ~raced' PROVE API!Integrity'
      BY DEF SoundUnlessRaced
    <2>1. ~stale[w] /\ API!Integrity
      BY DEF IInv, SoundUnlessRaced, Wrote
    <2>2. API!MembersDescribed'
      BY <2>1 DEF API!Integrity, API!MembersDescribed
    <2>3. API!RolesWhole'
      BY <2>1, <1>6 DEF API!Integrity, API!RolesWhole, API!RoleExists,
                        API!Empty, Empty
    <2> QED BY <2>2, <2>3 DEF API!Integrity
  <1> QED BY <1>1, <1>4, <1>5, <1>7, <1>8 DEF IInv

(***************************************************************************)
(* A handler writes filter_description:f and answers.  It deletes it only  *)
(* from a filter without members, unless it is stale.                      *)
(***************************************************************************)
LEMMA DescriptionWriteStep ==
  ASSUME IInv, NEW w \in Worker, NEW s \in {"ok", "error"},
         pc' = [pc EXCEPT ![w] = s],
         UNCHANGED <<roles, members, req, todo, failed>>,
         NEW f \in Filter,
         \/ filters' = filters \cup {f}
         \/ (filters' = filters \ {f}) /\ (~stale[w] => members[f] = {}),
         Wrote(w, DescKey(f))
  PROVE  IInv'
  <1>1. TypeOK'
    <2>1. s \in Step
      BY DEF Step
    <2>2. RegistryTypeOK'
      BY DEF IInv, TypeOK, RegistryTypeOK, RolesTypeOK
    <2>3. stale' \in [Worker -> BOOLEAN] /\ raced' \in BOOLEAN
      BY DEF IInv, TypeOK, Wrote
    <2> QED BY <2>1, <2>2, <2>3 DEF IInv, TypeOK
  <1>2. \A v \in Worker : v # w => /\ pc'[v] = pc[v] /\ req'[v] = req[v]
                                    /\ ~stale'[v] => /\ ~stale[v]
                                                     /\ DescKey(f) \notin Checked(v)
    BY DEF IInv, TypeOK, Wrote
  <1>3. Fits(w)' /\ Holds(w)'
    BY DoneFits DEF IInv, TypeOK
  <1>4. RequestsFit'
    BY <1>2, <1>3, FitsKept DEF IInv, RequestsFit
  <1>5. ChecksHold'
    BY <1>2, <1>3, HoldsBesideDescription DEF IInv, ChecksHold
  <1>6. RoleFromOneRequest'
    BY DEF IInv, RoleFromOneRequest, RoleExists, RequestedFilters
  <1>7. SoundUnlessRaced'
    <2> SUFFICES ASSUME ~raced' PROVE API!Integrity'
      BY DEF SoundUnlessRaced
    <2>1. ~stale[w] /\ API!Integrity
      BY DEF IInv, SoundUnlessRaced, Wrote
    <2>2. API!MembersDescribed'
      BY <2>1 DEF API!Integrity, API!MembersDescribed
    <2>3. API!RolesWhole'
      BY <2>1 DEF API!Integrity, API!RolesWhole, API!RoleExists
    <2> QED BY <2>2, <2>3 DEF API!Integrity
  <1> QED BY <1>1, <1>4, <1>5, <1>6, <1>7 DEF IInv

(***************************************************************************)
(* One command of the loop of AddMembers or RemoveMembers takes effect.    *)
(***************************************************************************)
LEMMA MembersWriteStep ==
  ASSUME IInv, NEW w \in Worker, NEW f \in Filter, NEW x \in SUBSET User,
         pc[w] \in {"AddMembers_SAdd", "RemoveMembers_SRem"},
         members' = [members EXCEPT ![f] = x],
         UNCHANGED <<roles, filters, pc, req>>,
         todo' \in [Worker -> SUBSET User], failed' \in [Worker -> BOOLEAN],
         Wrote(w, SetKey(f)),
         ~stale[w] => f \in filters
  PROVE  IInv'
  <1>1. TypeOK'
    <2>1. RegistryTypeOK'
      BY DEF IInv, TypeOK, RegistryTypeOK, RolesTypeOK
    <2>2. stale' \in [Worker -> BOOLEAN] /\ raced' \in BOOLEAN
      BY DEF IInv, TypeOK, Wrote
    <2> QED BY <2>1, <2>2 DEF IInv, TypeOK
  <1>2. \A v \in Worker : ~stale'[v] => ~stale[v] /\ SetKey(f) \notin Checked(v)
    BY DEF IInv, TypeOK, Wrote, Checked, SetKey, DescKey
  <1>3. RequestsFit'
    BY FitsKept DEF IInv, RequestsFit
  <1>4. ChecksHold'
    BY <1>2, HoldsBesideMembers DEF IInv, ChecksHold, RequestsFit
  <1>5. RoleFromOneRequest'
    BY DEF IInv, RoleFromOneRequest, RoleExists, RequestedFilters
  <1>6. SoundUnlessRaced'
    <2> SUFFICES ASSUME ~raced' PROVE API!Integrity'
      BY DEF SoundUnlessRaced
    <2>1. ~stale[w] /\ API!Integrity
      BY DEF IInv, SoundUnlessRaced, Wrote
    <2>2. API!MembersDescribed'
      BY <2>1 DEF API!Integrity, API!MembersDescribed, IInv, TypeOK,
                  RegistryTypeOK
    <2>3. API!RolesWhole'
      BY <2>1 DEF API!Integrity, API!RolesWhole, API!RoleExists
    <2> QED BY <2>2, <2>3 DEF API!Integrity
  <1> QED BY <1>1, <1>3, <1>4, <1>5, <1>6 DEF IInv

-----------------------------------------------------------------------------
(* The actions, one lemma each for the writes and one for the reads of a   *)
(* handler.                                                                *)

(* Writes of a role key: the frame shared by the four handlers.            *)
LEMMA RoleWriteAction ==
  ASSUME IInv, NEW w \in Worker, NEW bad \in {"ok", "error"},
         NEW r \in ShortName, NEW x \in Hash \cup {Absent},
         Write(w, RoleKey(r), roles' = [roles EXCEPT ![r] = x],
               <<filters, members>>, bad),
         x # Absent => <<x["FilterA"], x["FilterB"]>>
                          \in RequestedFilters \cup {<<Empty, Empty>>},
         (x # Absent /\ ~stale[w] /\ API!RolesWhole)
            => (x["FilterA"] # Empty /\ x["FilterB"] # Empty)
  PROVE  IInv'
  <1>1. UNCHANGED <<req, todo, failed>>
    BY DEF Write
  <1>2. CASE /\ roles' = [roles EXCEPT ![r] = x]
             /\ UNCHANGED <<filters, members>>
             /\ Wrote(w, RoleKey(r))
             /\ GoTo(w, "ok") \/ GoTo(w, bad)
    <2>1. PICK s \in {"ok", "error"} : pc' = [pc EXCEPT ![w] = s]
      BY <1>2 DEF GoTo
    <2>2. UNCHANGED <<filters, members, req, todo, failed>>
      BY <1>1, <1>2
    <2> QED BY <1>2, <2>1, <2>2, RoleWriteStep
  <1>3. CASE GoTo(w, bad) /\ UNCHANGED <<storeVars, stale, raced>>
    BY <1>1, <1>3, LostWriteStep DEF GoTo, storeVars
  <1> QED BY <1>2, <1>3 DEF Write

LEMMA AddRoleWrite ==
  ASSUME IInv, NEW w \in Worker, AddRole_HMSet(w)
  PROVE  IInv'
  <1>1. /\ req[w].role \in ShortName
        /\ req[w].spec \in RoleSpec
        /\ RequiredFields(req[w].spec)
    BY DEF IInv, RequestsFit, Fits, AddRole_HMSet, AddRoleRequest
  <1>2. req[w].spec \in Hash
    BY <1>1, RoleTableAssumption
  <1>3. <<req[w].spec["FilterA"], req[w].spec["FilterB"]>> \in RequestedFilters
    BY <1>1 DEF RequestedFilters
  <1>4. req[w].spec["FilterA"] # Empty /\ req[w].spec["FilterB"] # Empty
    BY <1>1 DEF RequiredFields
  <1>5. Write(w, RoleKey(req[w].role),
              roles' = [roles EXCEPT ![req[w].role] = req[w].spec],
              <<filters, members>>, "error")
    BY DEF AddRole_HMSet, HMSet
  <1> QED BY <1>1, <1>2, <1>3, <1>4, <1>5, RoleWriteAction

LEMMA UpdateRoleWrite ==
  ASSUME IInv, NEW w \in Worker, UpdateRole_HSet(w)
  PROVE  IInv'
  <1> DEFINE r == req[w].role
             u == req[w].set
             x == [HGetAll(r) EXCEPT ![u[1]] = u[2]]
  <1>1. r \in ShortName /\ u \in FieldUpdate /\ u[1] \in roleKeys
    BY DEF IInv, RequestsFit, Fits, UpdateRole_HSet, UpdateRoleRequest
  <1>2. u[1] \in Field /\ u[2] \in FieldValue(u[1])
        /\ u[1] # "FilterA" /\ u[1] # "FilterB"
    BY <1>1, RoleTableAssumption DEF roleKeys, Field
  <1>3. HGetAll(r) \in Hash
    BY <1>1, HGetAllType DEF IInv, TypeOK, RegistryTypeOK
  <1>4. x \in Hash
    BY <1>2, <1>3, FieldSetType
  <1>5. x["FilterA"] = HGetAll(r)["FilterA"] /\ x["FilterB"] = HGetAll(r)["FilterB"]
    BY <1>2, <1>3 DEF Hash, Field
  <1>6. <<x["FilterA"], x["FilterB"]>> \in RequestedFilters \cup {<<Empty, Empty>>}
    <2>1. CASE RoleExists(r)
      BY <1>1, <1>5, <2>1 DEF IInv, RoleFromOneRequest, HGetAll, RoleExists
    <2>2. CASE ~RoleExists(r)
      BY <1>5, <2>2 DEF HGetAll, RoleExists, EmptyHash, Field
    <2> QED BY <2>1, <2>2
  <1>7. ASSUME ~stale[w], API!RolesWhole
        PROVE  x["FilterA"] # Empty /\ x["FilterB"] # Empty
    <2>1. RoleExists(r)
      BY <1>7 DEF IInv, ChecksHold, Holds, UpdateRole_HSet
    <2> QED BY <1>1, <1>5, <1>7, <2>1 DEF API!RolesWhole, API!RoleExists,
                                          API!Empty, Empty, HGetAll, RoleExists
  <1>8. Write(w, RoleKey(r), roles' = [roles EXCEPT ![r] = x],
              <<filters, members>>, "ok")
    BY DEF UpdateRole_HSet, HSet
  <1> HIDE DEF r, u, x
  <1> QED BY <1>1, <1>4, <1>6, <1>7, <1>8, RoleWriteAction

LEMMA RemoveRoleWrite ==
  ASSUME IInv, NEW w \in Worker, RemoveRole_Del(w)
  PROVE  IInv'
  <1>1. req[w].role \in ShortName
    BY DEF IInv, RequestsFit, Fits, RemoveRole_Del, RemoveRoleRequest
  <1>2. Write(w, RoleKey(req[w].role),
              roles' = [roles EXCEPT ![req[w].role] = Absent],
              <<filters, members>>, "error")
    BY DEF RemoveRole_Del, DelRole
  <1> QED BY <1>1, <1>2, RoleWriteAction

LEMMA AddFilterWrite ==
  ASSUME IInv, NEW w \in Worker, AddFilter_Set(w)
  PROVE  IInv'
  <1> DEFINE f == req[w].filter
  <1>1. f \in Filter
    BY DEF IInv, RequestsFit, Fits, AddFilter_Set, FilterRequest
  <1>2. UNCHANGED <<req, todo, failed>>
    BY DEF AddFilter_Set, Write
  <1>3. CASE /\ SetDescription(f)
             /\ UNCHANGED <<roles, members>>
             /\ Wrote(w, DescKey(f))
             /\ GoTo(w, "ok") \/ GoTo(w, "error")
    <2>1. PICK s \in {"ok", "error"} : pc' = [pc EXCEPT ![w] = s]
      BY <1>3 DEF GoTo
    <2>2. UNCHANGED <<roles, members, req, todo, failed>>
      BY <1>2, <1>3
    <2>3. filters' = filters \cup {f}
      BY <1>3 DEF SetDescription
    <2> QED BY <1>1, <1>3, <2>1, <2>2, <2>3, DescriptionWriteStep
  <1>4. CASE GoTo(w, "error") /\ UNCHANGED <<storeVars, stale, raced>>
    BY <1>2, <1>4, LostWriteStep DEF GoTo, storeVars
  <1> QED BY <1>3, <1>4 DEF AddFilter_Set, Write

LEMMA RemoveFilterWrite ==
  ASSUME IInv, NEW w \in Worker, RemoveFilter_Del(w)
  PROVE  IInv'
  <1> DEFINE f == req[w].filter
  <1>1. f \in Filter /\ (~stale[w] => members[f] = {})
    BY DEF IInv, RequestsFit, Fits, ChecksHold, Holds, RemoveFilter_Del,
           FilterRequest
  <1>2. UNCHANGED <<req, todo, failed>>
    BY DEF RemoveFilter_Del, Write
  <1>3. CASE /\ DelDescription(f)
             /\ UNCHANGED <<roles, members>>
             /\ Wrote(w, DescKey(f))
             /\ GoTo(w, "ok") \/ GoTo(w, "error")
    <2>1. PICK s \in {"ok", "error"} : pc' = [pc EXCEPT ![w] = s]
      BY <1>3 DEF GoTo
    <2>2. UNCHANGED <<roles, members, req, todo, failed>>
      BY <1>2, <1>3
    <2>3. filters' = filters \ {f}
      BY <1>3 DEF DelDescription
    <2> QED BY <1>1, <1>3, <2>1, <2>2, <2>3, DescriptionWriteStep
  <1>4. CASE GoTo(w, "error") /\ UNCHANGED <<storeVars, stale, raced>>
    BY <1>2, <1>4, LostWriteStep DEF GoTo, storeVars
  <1> QED BY <1>3, <1>4 DEF RemoveFilter_Del, Write

(* One round of the loop of AddMembers or RemoveMembers.                   *)
LEMMA LoopAction ==
  ASSUME IInv, NEW w \in Worker, NEW u \in User, NEW x \in SUBSET User,
         pc[w] \in {"AddMembers_SAdd", "RemoveMembers_SRem"},
         LoopWrite(w, u, members' = [members EXCEPT ![req[w].filter] = x])
  PROVE  IInv'
  <1> DEFINE f == req[w].filter
  <1>1. f \in Filter /\ (~stale[w] => f \in filters)
    BY DEF IInv, RequestsFit, Fits, ChecksHold, Holds, MembersRequest
  <1>2. /\ UNCHANGED <<pc, req>>
        /\ todo' \in [Worker -> SUBSET User]
        /\ failed' \in [Worker -> BOOLEAN]
    BY DEF LoopWrite, IInv, TypeOK
  <1>3. CASE /\ members' = [members EXCEPT ![f] = x]
             /\ UNCHANGED <<roles, filters>>
             /\ Wrote(w, SetKey(f))
    <2>1. UNCHANGED <<roles, filters, pc, req>>
      BY <1>2, <1>3
    <2> QED BY <1>1, <1>2, <1>3, <2>1, MembersWriteStep
  <1>4. CASE UNCHANGED <<storeVars, stale, raced>>
    <2>1. UNCHANGED <<roles, filters, members, raced>> /\ UNCHANGED stale
      BY <1>4 DEF storeVars
    <2>2. TypeOK'
      BY <1>2, <2>1 DEF IInv, TypeOK, RegistryTypeOK, RolesTypeOK
    <2>3. Fits(w)' /\ (~stale'[w] => Holds(w)')
      BY <1>2, <2>1, FitsKept, HoldsKept DEF IInv, RequestsFit, ChecksHold
    <2> QED BY <1>2, <2>1, <2>2, <2>3, SilentStep
  <1> QED BY <1>3, <1>4 DEF LoopWrite

LEMMA MembersWrite ==
  ASSUME IInv, NEW w \in Worker, AddMembers_SAdd(w) \/ RemoveMembers_SRem(w)
  PROVE  IInv'
  <1>1. req[w].filter \in Filter
    BY DEF IInv, RequestsFit, Fits, AddMembers_SAdd, RemoveMembers_SRem,
           MembersRequest
  <1>2. todo[w] \subseteq User /\ members[req[w].filter] \subseteq User
    BY <1>1 DEF IInv, TypeOK, RegistryTypeOK
  <1>3. CASE AddMembers_SAdd(w)
    <2>1. PICK u \in User : LoopWrite(w, u, members' = [members EXCEPT
                      ![req[w].filter] = members[req[w].filter] \cup {u}])
      BY <1>2, <1>3 DEF AddMembers_SAdd, SAdd
    <2>2. members[req[w].filter] \cup {u} \in SUBSET User
      BY <1>2
    <2> QED BY <1>3, <2>1, <2>2, LoopAction DEF AddMembers_SAdd
  <1>4. CASE RemoveMembers_SRem(w)
    <2>1. PICK u \in User : LoopWrite(w, u, members' = [members EXCEPT
                      ![req[w].filter] = members[req[w].filter] \ {u}])
      BY <1>2, <1>4 DEF RemoveMembers_SRem, SRem
    <2>2. members[req[w].filter] \ {u} \in SUBSET User
      BY <1>2
    <2> QED BY <1>4, <2>1, <2>2, LoopAction DEF RemoveMembers_SRem
  <1> QED BY <1>3, <1>4

(* The reads of AddRole.                                                   *)
LEMMA AddRoleReads ==
  ASSUME IInv, NEW w \in Worker,
         AddRole_Exists(w) \/ AddRole_FilterA(w) \/ AddRole_FilterB(w)
  PROVE  IInv'
  <1>1. Fits(w) /\ (~stale[w] => Holds(w))
    BY DEF IInv, RequestsFit, ChecksHold
  <1>2. CASE AddRole_Exists(w)
    <2> DEFINE s == IF RoleExists(req[w].role) THEN "error" ELSE "AddRole_FilterA"
    <2>1. s \in Step /\ Read(w, s)
      BY <1>2 DEF AddRole_Exists, Step
    <2>2. ASSUME pc'[w] = s PROVE Fits(w)' /\ (~stale[w] => Holds(w)')
      BY <1>1, <1>2, <2>1, <2>2
         DEF AddRole_Exists, Read, storeVars, Fits, Holds, RoleExists
    <2> QED BY <2>1, <2>2, ReadStep
  <1>3. CASE AddRole_FilterA(w)
    <2> DEFINE s == IF req[w].spec["FilterA"] \in filters \cup {Wildcard}
                    THEN "AddRole_FilterB" ELSE "error"
    <2>1. s \in Step /\ Read(w, s)
      BY <1>3 DEF AddRole_FilterA, Step
    <2>2. ASSUME pc'[w] = s PROVE Fits(w)' /\ (~stale[w] => Holds(w)')
      BY <1>1, <1>3, <2>1, <2>2
         DEF AddRole_FilterA, Read, storeVars, Fits, Holds, RoleExists, API!Usable
    <2> QED BY <2>1, <2>2, ReadStep
  <1>4. CASE AddRole_FilterB(w)
    <2> DEFINE s == IF req[w].spec["FilterB"] \in filters \cup {Wildcard}
                    THEN "AddRole_HMSet" ELSE "error"
    <2>1. s \in Step /\ Read(w, s)
      BY <1>4 DEF AddRole_FilterB, Step
    <2>2. ASSUME pc'[w] = s PROVE Fits(w)' /\ (~stale[w] => Holds(w)')
      BY <1>1, <1>4, <2>1, <2>2
         DEF AddRole_FilterB, Read, storeVars, Fits, Holds, RoleExists, API!Usable
    <2> QED BY <2>1, <2>2, ReadStep
  <1> QED BY <1>2, <1>3, <1>4

(* The reads of UpdateRole and RemoveRole.                                 *)
LEMMA RoleReads ==
  ASSUME IInv, NEW w \in Worker, UpdateRole_Exists(w) \/ RemoveRole_Exists(w)
  PROVE  IInv'
  <1>1. Fits(w)
    BY DEF IInv, RequestsFit
  <1>2. CASE UpdateRole_Exists(w)
    <2> DEFINE s == IF RoleExists(req[w].role) /\ req[w].set[1] \in roleKeys
                    THEN "UpdateRole_HSet" ELSE "error"
    <2>1. s \in Step /\ Read(w, s)
      BY <1>2 DEF UpdateRole_Exists, Step
    <2>2. ASSUME pc'[w] = s PROVE Fits(w)' /\ (~stale[w] => Holds(w)')
      BY <1>1, <1>2, <2>1, <2>2
         DEF UpdateRole_Exists, Read, storeVars, Fits, Holds, RoleExists
    <2> QED BY <2>1, <2>2, ReadStep
  <1>3. CASE RemoveRole_Exists(w)
    <2> DEFINE s == IF RoleExists(req[w].role) THEN "RemoveRole_Del" ELSE "error"
    <2>1. s \in Step /\ Read(w, s)
      BY <1>3 DEF RemoveRole_Exists, Step
    <2>2. ASSUME pc'[w] = s PROVE Fits(w)' /\ (~stale[w] => Holds(w)')
      BY <1>1, <1>3, <2>1, <2>2
         DEF RemoveRole_Exists, Read, storeVars, Fits, Holds, RoleExists
    <2> QED BY <2>1, <2>2, ReadStep
  <1> QED BY <1>2, <1>3

(* The EXISTS of the handlers of a filter.                                 *)
LEMMA FilterReads ==
  ASSUME IInv, NEW w \in Worker,
         \/ AddFilter_Exists(w) \/ RemoveFilter_Exists(w)
         \/ AddMembers_Exists(w) \/ RemoveMembers_Exists(w)
  PROVE  IInv'
  <1> DEFINE here == req[w].filter \in filters
  <1>1. Fits(w)
    BY DEF IInv, RequestsFit
  <1>2. PICK s \in Step :
           /\ Read(w, s)
           /\ \/ /\ pc[w] = "AddFilter_Exists"
                 /\ s = IF here THEN "error" ELSE "AddFilter_Set"
              \/ /\ pc[w] = "RemoveFilter_Exists"
                 /\ s = IF here THEN "RemoveFilter_SMembers" ELSE "error"
              \/ /\ pc[w] = "AddMembers_Exists"
                 /\ s = IF here THEN "AddMembers_SAdd" ELSE "error"
              \/ /\ pc[w] = "RemoveMembers_Exists"
                 /\ s = IF here THEN "RemoveMembers_SRem" ELSE "error"
    <2>1. AddFilter_Exists(w) =>
             \E s \in Step : /\ Read(w, s) /\ pc[w] = "AddFilter_Exists"
                             /\ s = IF here THEN "error" ELSE "AddFilter_Set"
      BY DEF AddFilter_Exists, Step
    <2>2. RemoveFilter_Exists(w) =>
             \E s \in Step : /\ Read(w, s) /\ pc[w] = "RemoveFilter_Exists"
                             /\ s = IF here THEN "RemoveFilter_SMembers" ELSE "error"
      BY DEF RemoveFilter_Exists, Step
    <2>3. AddMembers_Exists(w) =>
             \E s \in Step : /\ Read(w, s) /\ pc[w] = "AddMembers_Exists"
                             /\ s = IF here THEN "AddMembers_SAdd" ELSE "error"
      BY DEF AddMembers_Exists, Step
    <2>4. RemoveMembers_Exists(w) =>
             \E s \in Step : /\ Read(w, s) /\ pc[w] = "RemoveMembers_Exists"
                             /\ s = IF here THEN "RemoveMembers_SRem" ELSE "error"
      BY DEF RemoveMembers_Exists, Step
    <2> HIDE DEF here
    <2> QED BY <2>1, <2>2, <2>3, <2>4
  <1>3. ASSUME pc'[w] = s PROVE Fits(w)' /\ (~stale[w] => Holds(w)')
    BY <1>1, <1>2, <1>3 DEF Read, storeVars, Fits, Holds
  <1> QED BY <1>2, <1>3, ReadStep

(* SMEMBERS in RemoveFilter: after a failed read the worker is stale.      *)
LEMMA RemoveFilterReads ==
  ASSUME IInv, NEW w \in Worker, RemoveFilter_SMembers(w)
  PROVE  IInv'
  <1>1. pc[w] = "RemoveFilter_SMembers" /\ Fits(w) /\ (~stale[w] => Holds(w))
    BY DEF IInv, RequestsFit, ChecksHold, RemoveFilter_SMembers
  <1>2. UNCHANGED <<roles, filters, members, req, todo, failed, raced>>
    BY DEF RemoveFilter_SMembers, storeVars
  <1>3. PICK s \in {"error", "RemoveFilter_Del"} :
           /\ pc' = [pc EXCEPT ![w] = s]
           /\ \/ /\ s = "RemoveFilter_Del" => MembersOf(req[w].filter) = {}
                 /\ stale' = stale
              \/ stale' = [stale EXCEPT ![w] = TRUE]
    BY DEF RemoveFilter_SMembers, GoTo
  <1>4. s \in Step
    BY DEF Step
  <1>5. stale' \in [Worker -> BOOLEAN] /\ pc' \in [Worker -> Step]
    BY <1>3, <1>4 DEF IInv, TypeOK
  <1>6. TypeOK'
    BY <1>2, <1>5 DEF IInv, TypeOK, RegistryTypeOK, RolesTypeOK
  <1>7. pc'[w] = s
    BY <1>3 DEF IInv, TypeOK
  <1>8. \A v \in Worker \ {w} :
           pc'[v] = pc[v] /\ req'[v] = req[v] /\ stale'[v] = stale[v]
    BY <1>2, <1>3 DEF IInv, TypeOK
  <1>9. Fits(w)'
    BY <1>1, <1>2, <1>7 DEF Fits
  <1>10. ASSUME ~stale'[w] PROVE Holds(w)'
    <2>1. ~stale[w] /\ (s = "RemoveFilter_Del" => MembersOf(req[w].filter) = {})
      BY <1>3, <1>10 DEF IInv, TypeOK
    <2>2. req[w].filter \in filters
      BY <1>1, <2>1 DEF Holds
    <2>3. s = "RemoveFilter_Del" => members[req[w].filter] = {}
      BY <1>1, <2>1 DEF MembersOf, Fits, FilterRequest
    <2> QED BY <1>2, <1>7, <2>2, <2>3 DEF Holds
  <1> QED BY <1>2, <1>6, <1>8, <1>9, <1>10, SilentStep

(* A request arrives, or its answer leaves, or the loop of a handler ends. *)
LEMMA TurnStep ==
  ASSUME IInv, NEW w \in Worker, Receive(w) \/ Answer(w) \/ LoopEnds(w)
  PROVE  IInv'
  <1>1. UNCHANGED <<roles, filters, members, raced>>
    BY DEF Receive, Answer, LoopEnds, storeVars
  <1>2. RegistryTypeOK' /\ raced' \in BOOLEAN
    BY <1>1 DEF IInv, TypeOK, RegistryTypeOK, RolesTypeOK
  <1>3. CASE Receive(w)
    <2>1. PICK q \in Request, s \in {"error", "AddRole_Exists", "UpdateRole_Exists",
                  "RemoveRole_Exists", "AddFilter_Exists", "RemoveFilter_Exists",
                  "AddMembers_Exists", "RemoveMembers_Exists"} :
             /\ req' = [req EXCEPT ![w] = q]
             /\ pc' = [pc EXCEPT ![w] = s]
             /\ todo' = [todo EXCEPT ![w] =
                   IF q.op \in {"AddMembers", "RemoveMembers"} THEN q.users ELSE {}]
             /\ s = "AddRole_Exists" => q \in AddRoleRequest /\ RequiredFields(q.spec)
             /\ s = "UpdateRole_Exists" => q \in UpdateRoleRequest
             /\ s = "RemoveRole_Exists" => q \in RemoveRoleRequest
             /\ s \in {"AddFilter_Exists", "RemoveFilter_Exists"}
                   => q \in FilterRequest
             /\ s \in {"AddMembers_Exists", "RemoveMembers_Exists"}
                   => q \in MembersRequest
      <3>1. PICK q \in Request :
               /\ req' = [req EXCEPT ![w] = q]
               /\ todo' = [todo EXCEPT ![w] =
                     IF q.op \in {"AddMembers", "RemoveMembers"} THEN q.users ELSE {}]
               /\ GoTo(w, CASE q.op = "AddRole" ->
                                IF RequiredFields(q.spec)
                                THEN "AddRole_Exists" ELSE "error"
                           [] q.op = "UpdateRole"    -> "UpdateRole_Exists"
                           [] q.op = "RemoveRole"    -> "RemoveRole_Exists"
                           [] q.op = "AddFilter"     -> "AddFilter_Exists"
                           [] q.op = "RemoveFilter"  -> "RemoveFilter_Exists"
                           [] q.op = "AddMembers"    -> "AddMembers_Exists"
                           [] q.op = "RemoveMembers" -> "RemoveMembers_Exists")
        BY <1>3 DEF Receive
      <3>2. CASE q \in AddRoleRequest
        <4>1. q.op = "AddRole"
          BY <3>2 DEF AddRoleRequest
        <4> QED BY <3>1, <3>2, <4>1 DEF GoTo
      <3>3. CASE q \in UpdateRoleRequest
        <4>1. q.op = "UpdateRole"
          BY <3>3 DEF UpdateRoleRequest
        <4> QED BY <3>1, <3>3, <4>1 DEF GoTo
      <3>4. CASE q \in RemoveRoleRequest
        <4>1. q.op = "RemoveRole"
          BY <3>4 DEF RemoveRoleRequest
        <4> QED BY <3>1, <3>4, <4>1 DEF GoTo
      <3>5. CASE q \in FilterRequest
        <4>1. q.op \in {"AddFilter", "RemoveFilter"}
          BY <3>5 DEF FilterRequest
        <4> QED BY <3>1, <3>5, <4>1 DEF GoTo
      <3>6. CASE q \in MembersRequest
        <4>1. q.op \in {"AddMembers", "RemoveMembers"}
          BY <3>6 DEF MembersRequest
        <4> QED BY <3>1, <3>6, <4>1 DEF GoTo
      <3> QED BY <3>1, <3>2, <3>3, <3>4, <3>5, <3>6 DEF Request
    <2>2. failed' = [failed EXCEPT ![w] = FALSE] /\ stale' = [stale EXCEPT ![w] = FALSE]
      BY <1>3 DEF Receive
    <2>3. s \in Step
      BY DEF Step
    <2>4. q.op \in {"AddMembers", "RemoveMembers"} => q.users \in SUBSET User
      BY DEF Request, AddRoleRequest, UpdateRoleRequest, RemoveRoleRequest,
             FilterRequest, MembersRequest
    <2>5. todo' \in [Worker -> SUBSET User]
      BY <2>1, <2>4 DEF IInv, TypeOK
    <2>6. TypeOK'
      BY <1>2, <2>1, <2>2, <2>3, <2>5 DEF IInv, TypeOK
    <2>7. /\ pc'[w] = s /\ req'[w] = q
          /\ \A v \in Worker \ {w} :
                pc'[v] = pc[v] /\ req'[v] = req[v] /\ stale'[v] = stale[v]
      BY <2>1, <2>2 DEF IInv, TypeOK
    <2>8. Fits(w)' /\ Holds(w)'
      BY <2>1, <2>7 DEF Fits, Holds
    <2> QED BY <1>1, <2>6, <2>7, <2>8, SilentStep
  <1>4. CASE Answer(w)
    <2>1. /\ pc' = [pc EXCEPT ![w] = "idle"]
          /\ req' = [req EXCEPT ![w] = Nothing]
          /\ todo' = [todo EXCEPT ![w] = {}]
          /\ failed' = [failed EXCEPT ![w] = FALSE]
          /\ stale' = [stale EXCEPT ![w] = FALSE]
      BY <1>4 DEF Answer, GoTo
    <2>2. TypeOK'
      BY <1>2, <2>1 DEF IInv, TypeOK, Step
    <2>3. /\ pc'[w] = "idle"
          /\ \A v \in Worker \ {w} :
                pc'[v] = pc[v] /\ req'[v] = req[v] /\ stale'[v] = stale[v]
      BY <2>1 DEF IInv, TypeOK
    <2> QED BY <1>1, <2>2, <2>3, DoneFits, SilentStep
  <1>5. CASE LoopEnds(w)
    <2>1. UNCHANGED <<roles, filters, members, req, todo, failed, stale, raced>>
      BY <1>5 DEF LoopEnds, storeVars
    <2>2. PICK s \in {"ok", "error"} : pc' = [pc EXCEPT ![w] = s]
      BY <1>5 DEF LoopEnds, GoTo
    <2> QED BY <2>1, <2>2, LostWriteStep
  <1> QED BY <1>3, <1>4, <1>5

(* The process dies: no request is left whose checks could fail.           *)
LEMMA CrashStep ==
  ASSUME IInv, Crash
  PROVE  IInv'
  <1>1. UNCHANGED <<roles, filters, members, raced>>
    BY DEF Crash, storeVars
  <1>2. /\ pc' = [w \in Worker |-> "idle"]
        /\ req' = [w \in Worker |-> Nothing]
        /\ todo' = [w \in Worker |-> {}]
        /\ failed' = [w \in Worker |-> FALSE]
        /\ stale' = [w \in Worker |-> FALSE]
    BY DEF Crash
  <1>3. RegistryTypeOK' /\ raced' \in BOOLEAN
    BY <1>1 DEF IInv, TypeOK, RegistryTypeOK, RolesTypeOK
  <1>4. TypeOK'
    BY <1>2, <1>3 DEF TypeOK, Step
  <1>5. \A w \in Worker : Fits(w)' /\ Holds(w)'
    BY <1>2, DoneFits
  <1> QED BY <1>1, <1>4, <1>5, StoreKept DEF IInv, RequestsFit, ChecksHold

-----------------------------------------------------------------------------
(* Every step preserves the invariant.                                     *)
LEMMA NextIInv == IInv /\ [Next]_vars => IInv'
  <1> SUFFICES ASSUME IInv, [Next]_vars PROVE IInv'
    OBVIOUS
  <1>1. ASSUME NEW w \in Worker, Receive(w) \/ Answer(w) PROVE IInv'
    BY <1>1, TurnStep
  <1>2. ASSUME NEW w \in Worker, Handle(w) PROVE IInv'
    BY <1>2, AddRoleReads, AddRoleWrite, RoleReads, UpdateRoleWrite,
       RemoveRoleWrite, FilterReads, AddFilterWrite, RemoveFilterReads,
       RemoveFilterWrite, MembersWrite, TurnStep DEF Handle
  <1>3. CASE Crash
    BY <1>3, CrashStep
  <1>4. CASE UNCHANGED vars
    <2>1. UNCHANGED <<roles, filters, members, raced>> /\ UNCHANGED <<pc, req, stale>>
      BY <1>4 DEF vars, storeVars, workVars
    <2>2. TypeOK'
      BY <1>4 DEF vars, storeVars, workVars, IInv, TypeOK, RegistryTypeOK,
                  RolesTypeOK
    <2>3. RequestsFit'
      BY <2>1, FitsKept DEF IInv, RequestsFit
    <2>4. ChecksHold'
      BY <2>1, HoldsKept DEF IInv, ChecksHold
    <2> QED BY <2>1, <2>2, <2>3, <2>4, StoreKept DEF IInv
  <1> QED BY <1>1, <1>2, <1>3, <1>4 DEF Next

LEMMA Invariance == Spec => []IInv
  BY InitIInv, NextIInv, PTL DEF Spec

(***************************************************************************)
(* Type correctness of the handlers: what they store are hashes whose      *)
(* fields have values of the right kind, however they interleave.          *)
(***************************************************************************)
THEOREM TypeCorrect == Spec => []TypeOK
  BY Invariance, PTL DEF IInv

(***************************************************************************)
(* The two filters of a role in Redis come from one AddRole request.       *)
(***************************************************************************)
THEOREM FiltersFromOneRequest == Spec => []RoleFromOneRequest
  BY Invariance, PTL DEF IInv

(***************************************************************************)
(* The registry is sound while no handler writes on an outdated check.     *)
(***************************************************************************)
THEOREM SoundWithoutRaces == Spec => []SoundUnlessRaced
  BY Invariance, PTL DEF IInv

-----------------------------------------------------------------------------
(* Atomicity.                                                              *)

(* The write of AddRole, UpdateRole or RemoveRole.                         *)
LEMMA RoleWriteAtomic ==
  ASSUME IInv, NEW w \in Worker,
         AddRole_HMSet(w) \/ UpdateRole_HSet(w) \/ RemoveRole_Del(w),
         ~UNCHANGED storeVars
  PROVE  API!Next \/ Overtaken
  <1>1. Fits(w) /\ (~stale[w] => Holds(w))
    BY DEF IInv, RequestsFit, ChecksHold
  <1>2. pc'[w] \in {"ok", "error"}
    BY DEF AddRole_HMSet, UpdateRole_HSet, RemoveRole_Del, Write, GoTo, IInv,
           TypeOK
  <1>3. CASE stale[w]
    BY <1>2, <1>3 DEF AddRole_HMSet, UpdateRole_HSet, RemoveRole_Del, Overtaken
  <1>4. CASE ~stale[w] /\ AddRole_HMSet(w)
    <2>1. /\ req[w].role \in ShortName /\ req[w].spec \in RoleSpec
          /\ RequiredFields(req[w].spec)
      BY <1>1, <1>4 DEF Fits, AddRole_HMSet, AddRoleRequest
    <2>2. /\ ~RoleExists(req[w].role)
          /\ API!Usable(req[w].spec["FilterA"])
          /\ API!Usable(req[w].spec["FilterB"])
      BY <1>1, <1>4 DEF Holds, AddRole_HMSet
    <2>3. HMSet(req[w].role, req[w].spec) /\ UNCHANGED <<filters, members>>
      BY <1>4 DEF AddRole_HMSet, Write
    <2>4. API!AddRole(req[w].role, req[w].spec)
      BY <2>1, <2>2, <2>3 DEF API!AddRole, API!RequiredFields, API!RoleExists,
             API!HMSet, API!Empty, RequiredFields, RoleExists, HMSet, Empty
    <2> QED BY <2>1, <2>4 DEF API!Next
  <1>5. CASE ~stale[w] /\ UpdateRole_HSet(w)
    <2>1. /\ req[w].role \in ShortName /\ req[w].set \in FieldUpdate
          /\ req[w].set[1] \in roleKeys
      BY <1>1, <1>5 DEF Fits, UpdateRole_HSet, UpdateRoleRequest
    <2>2. RoleExists(req[w].role)
      BY <1>1, <1>5 DEF Holds, UpdateRole_HSet
    <2>3. HSet(req[w].role, req[w].set) /\ UNCHANGED <<filters, members>>
      BY <1>5 DEF UpdateRole_HSet, Write
    <2>4. API!UpdateRole(req[w].role, req[w].set)
      BY <2>1, <2>2, <2>3 DEF API!UpdateRole, API!RoleExists, API!roleKeys,
             API!HSet, API!HGetAll, API!EmptyHash, API!Field, API!Empty,
             RoleExists, roleKeys, HSet, HGetAll, EmptyHash, Field, Empty
    <2> QED BY <2>1, <2>4 DEF API!Next
  <1>6. CASE ~stale[w] /\ RemoveRole_Del(w)
    <2>1. req[w].role \in ShortName
      BY <1>1, <1>6 DEF Fits, RemoveRole_Del, RemoveRoleRequest
    <2>2. RoleExists(req[w].role)
      BY <1>1, <1>6 DEF Holds, RemoveRole_Del
    <2>3. DelRole(req[w].role) /\ UNCHANGED <<filters, members>>
      BY <1>6 DEF RemoveRole_Del, Write
    <2>4. API!RemoveRole(req[w].role)
      BY <2>2, <2>3 DEF API!RemoveRole, API!RoleExists, API!DelRole,
             RoleExists, DelRole
    <2> QED BY <2>1, <2>4 DEF API!Next
  <1> QED BY <1>3, <1>4, <1>5, <1>6

(* The write of AddFilter or RemoveFilter.                                 *)
LEMMA DescriptionWriteAtomic ==
  ASSUME IInv, NEW w \in Worker, AddFilter_Set(w) \/ RemoveFilter_Del(w),
         ~UNCHANGED storeVars
  PROVE  API!Next \/ Overtaken
  <1>1. Fits(w) /\ (~stale[w] => Holds(w))
    BY DEF IInv, RequestsFit, ChecksHold
  <1>2. pc'[w] \in {"ok", "error"}
    BY DEF AddFilter_Set, RemoveFilter_Del, Write, GoTo, IInv, TypeOK
  <1>3. req[w].filter \in Filter
    BY <1>1 DEF Fits, AddFilter_Set, RemoveFilter_Del, FilterRequest
  <1>4. CASE stale[w]
    BY <1>2, <1>4 DEF AddFilter_Set, RemoveFilter_Del, Overtaken
  <1>5. CASE ~stale[w] /\ AddFilter_Set(w)
    <2>1. req[w].filter \notin filters
      BY <1>1, <1>5 DEF Holds, AddFilter_Set
    <2>2. SetDescription(req[w].filter) /\ UNCHANGED <<roles, members>>
      BY <1>5 DEF AddFilter_Set, Write
    <2>3. API!AddFilter(req[w].filter)
      BY <2>1, <2>2 DEF API!AddFilter, API!SetDescription, SetDescription
    <2> QED BY <1>3, <2>3 DEF API!Next
  <1>6. CASE ~stale[w] /\ RemoveFilter_Del(w)
    <2>1. req[w].filter \in filters /\ members[req[w].filter] = {}
      BY <1>1, <1>6 DEF Holds, RemoveFilter_Del
    <2>2. DelDescription(req[w].filter) /\ UNCHANGED <<roles, members>>
      BY <1>6 DEF RemoveFilter_Del, Write
    <2>3. API!RemoveFilter(req[w].filter)
      BY <2>1, <2>2 DEF API!RemoveFilter, API!DelDescription, DelDescription
    <2> QED BY <1>3, <2>3 DEF API!Next
  <1> QED BY <1>4, <1>5, <1>6

(* One SADD or SREM of AddMembers or RemoveMembers.                        *)
LEMMA MembersWriteAtomic ==
  ASSUME IInv, NEW w \in Worker, AddMembers_SAdd(w) \/ RemoveMembers_SRem(w),
         ~UNCHANGED storeVars
  PROVE  API!Next \/ Overtaken
  <1> DEFINE f == req[w].filter
  <1>1. f \in Filter /\ (~stale[w] => f \in filters)
    BY DEF IInv, RequestsFit, Fits, ChecksHold, Holds, AddMembers_SAdd,
           RemoveMembers_SRem, MembersRequest
  <1>2. PICK u \in todo[w] :
           \/ AddMembers_SAdd(w) /\ LoopWrite(w, u, SAdd(f, u))
           \/ RemoveMembers_SRem(w) /\ LoopWrite(w, u, SRem(f, u))
    BY DEF AddMembers_SAdd, RemoveMembers_SRem
  <1>3. u \in User /\ todo'[w] = todo[w] \ {u}
    BY <1>2 DEF LoopWrite, IInv, TypeOK
  <1>4. CASE stale[w]
    BY <1>2, <1>3, <1>4 DEF Overtaken
  <1>5. CASE ~stale[w]
    <2>1. (SAdd(f, u) \/ SRem(f, u)) /\ UNCHANGED <<roles, filters>>
      BY <1>2 DEF LoopWrite
    <2>2. API!AddMember(f, u) \/ API!RemoveMember(f, u)
      BY <1>1, <1>5, <2>1 DEF API!AddMember, API!RemoveMember, API!SAdd,
             API!SRem, SAdd, SRem
    <2> QED BY <1>1, <1>3, <2>2 DEF API!Next
  <1> QED BY <1>4, <1>5

(* The only steps that change the store are the writes of the handlers.    *)
StoreWrite(w) ==
    \/ AddRole_HMSet(w) \/ UpdateRole_HSet(w) \/ RemoveRole_Del(w)
    \/ AddFilter_Set(w) \/ RemoveFilter_Del(w)
    \/ AddMembers_SAdd(w) \/ RemoveMembers_SRem(w)

LEMMA StoreStep ==
  ASSUME Next, ~UNCHANGED storeVars
  PROVE  \E w \in Worker : StoreWrite(w)
  <1>1. PICK w \in Worker : Handle(w)
    BY DEF Next, Receive, Answer, Crash
  <1>2. StoreWrite(w)
    BY <1>1 DEF StoreWrite, Handle, Read, AddRole_Exists, AddRole_FilterA,
           AddRole_FilterB, UpdateRole_Exists, RemoveRole_Exists,
           AddFilter_Exists, RemoveFilter_Exists, RemoveFilter_SMembers,
           AddMembers_Exists, RemoveMembers_Exists, LoopEnds
  <1> QED BY <1>2

(***************************************************************************)
(* The handlers implement the atomic API up to overtaken requests: every   *)
(* step that changes the store is a step of RoleAPI, or the write of a     *)
(* worker that another one overtook (or of a RemoveFilter whose SMEMBERS   *)
(* failed).                                                                *)
(***************************************************************************)
THEOREM HandlersAtomic == Spec => AtomicUnlessStale
  <1>1. IInv /\ [Next]_vars => [API!Next \/ Overtaken]_storeVars
    <2> SUFFICES ASSUME IInv, Next, ~UNCHANGED storeVars
                 PROVE  API!Next \/ Overtaken
      BY DEF vars
    <2> QED
      BY StoreStep, RoleWriteAtomic, DescriptionWriteAtomic, MembersWriteAtomic
      DEF StoreWrite
  <1>2. Spec => [][API!Next \/ Overtaken]_storeVars
    BY <1>1, Invariance, PTL DEF Spec
  <1> QED BY <1>2 DEF AtomicUnlessStale

-----------------------------------------------------------------------------
(* What the handlers guarantee to the rest of the service.                 *)

(* A store write of any handler, overtaken or not, is one that a valid     *)
(* request may ask for.                                                    *)
LEMMA StoreWriteValid ==
  ASSUME IInv, NEW w \in Worker, StoreWrite(w), ~UNCHANGED storeVars
  PROVE  RegistryWrite
  <1>1. Fits(w)
    BY DEF IInv, RequestsFit
  <1>2. CASE AddRole_HMSet(w)
    <2>1. /\ req[w].role \in ShortName /\ req[w].spec \in RoleSpec
          /\ RequiredFields(req[w].spec)
      BY <1>1, <1>2 DEF Fits, AddRole_HMSet, AddRoleRequest
    <2>2. HMSet(req[w].role, req[w].spec) /\ UNCHANGED <<filters, members>>
      BY <1>2 DEF AddRole_HMSet, Write
    <2> QED BY <2>1, <2>2 DEF RegistryWrite, RoleWrite
  <1>3. CASE UpdateRole_HSet(w)
    <2>1. /\ req[w].role \in ShortName /\ req[w].set \in FieldUpdate
          /\ req[w].set[1] \in roleKeys
      BY <1>1, <1>3 DEF Fits, UpdateRole_HSet, UpdateRoleRequest
    <2>2. HSet(req[w].role, req[w].set) /\ UNCHANGED <<filters, members>>
      BY <1>3 DEF UpdateRole_HSet, Write
    <2> QED BY <2>1, <2>2 DEF RegistryWrite, RoleWrite
  <1>4. CASE RemoveRole_Del(w)
    <2>1. req[w].role \in ShortName
      BY <1>1, <1>4 DEF Fits, RemoveRole_Del, RemoveRoleRequest
    <2>2. DelRole(req[w].role) /\ UNCHANGED <<filters, members>>
      BY <1>4 DEF RemoveRole_Del, Write
    <2> QED BY <2>1, <2>2 DEF RegistryWrite, RoleWrite
  <1>5. CASE AddFilter_Set(w) \/ RemoveFilter_Del(w)
    <2>1. req[w].filter \in Filter
      BY <1>1, <1>5 DEF Fits, AddFilter_Set, RemoveFilter_Del, FilterRequest
    <2>2. /\ SetDescription(req[w].filter) \/ DelDescription(req[w].filter)
          /\ UNCHANGED <<roles, members>>
      BY <1>5 DEF AddFilter_Set, RemoveFilter_Del, Write
    <2> QED BY <2>1, <2>2 DEF RegistryWrite
  <1>6. CASE AddMembers_SAdd(w) \/ RemoveMembers_SRem(w)
    <2> DEFINE f == req[w].filter
    <2>1. f \in Filter
      BY <1>1, <1>6 DEF Fits, AddMembers_SAdd, RemoveMembers_SRem, MembersRequest
    <2>2. PICK u \in todo[w] : LoopWrite(w, u, SAdd(f, u))
                                 \/ LoopWrite(w, u, SRem(f, u))
      BY <1>6 DEF AddMembers_SAdd, RemoveMembers_SRem
    <2>3. u \in User
      BY DEF IInv, TypeOK
    <2>4. (SAdd(f, u) \/ SRem(f, u)) /\ UNCHANGED <<roles, filters>>
      BY <2>2 DEF LoopWrite
    <2> QED BY <2>1, <2>3, <2>4 DEF RegistryWrite
  <1> QED BY <1>2, <1>3, <1>4, <1>5, <1>6 DEF StoreWrite

(***************************************************************************)
(* The handlers are the surroundings that the synchronisations and the     *)
(* readers assume: every change they make to the store is one command that *)
(* some valid request may ask for.                                         *)
(***************************************************************************)
THEOREM HandlersAreTheSurroundings == Spec => HandlersWriteRegistry
  <1>1. IInv /\ [Next]_vars => [RegistryWrite]_storeVars
    BY StoreStep, StoreWriteValid DEF vars
  <1> QED BY <1>1, Invariance, PTL DEF Spec, HandlersWriteRegistry

-----------------------------------------------------------------------------
(* The atomic API keeps the registry sound.                                *)
ApiInv == RegistryTypeOK /\ API!Integrity

(* RoleAPI's own copies of the operators are those of this module.         *)
LEMMA ApiEmpty == API!Empty = Empty
  BY DEF API!Empty, Empty

LEMMA ApiWhole ==
  LET whole == \A r \in ShortName : roles[r] # Absent =>
                  roles[r]["FilterA"] # Empty /\ roles[r]["FilterB"] # Empty
  IN  (API!RolesWhole <=> whole) /\ (API!RolesWhole' <=> whole')
  BY ApiEmpty DEF API!RolesWhole, API!RoleExists

(* A role that exists keeps its filters under UpdateRole.                  *)
LEMMA UpdateWhole ==
  ASSUME RegistryTypeOK, API!RolesWhole, NEW r \in ShortName, NEW u \in FieldUpdate,
         RoleExists(r), u[1] \in roleKeys, HSet(r, u)
  PROVE  API!RolesWhole'
  <1>1. HGetAll(r) \in [Field -> Value]
    BY HGetAllType DEF RegistryTypeOK, Hash
  <1>2. roles' = [roles EXCEPT ![r] = [HGetAll(r) EXCEPT ![u[1]] = u[2]]]
    BY DEF HSet
  <1>3. u[1] # "FilterA" /\ u[1] # "FilterB"
    BY DEF roleKeys
  <1>4. roles \in [ShortName -> Hash \cup {Absent}]
    BY DEF RegistryTypeOK, RolesTypeOK
  <1>5. /\ roles'[r]["FilterA"] = HGetAll(r)["FilterA"]
        /\ roles'[r]["FilterB"] = HGetAll(r)["FilterB"]
    BY <1>1, <1>2, <1>3, <1>4 DEF Field
  <1>6. HGetAll(r)["FilterA"] # Empty /\ HGetAll(r)["FilterB"] # Empty
    BY ApiWhole DEF HGetAll, RoleExists
  <1>7. \A x \in ShortName \ {r} : roles'[x] = roles[x]
    BY <1>2, <1>4
  <1>8. \A x \in ShortName : roles'[x] # Absent =>
           roles'[x]["FilterA"] # Empty /\ roles'[x]["FilterB"] # Empty
    BY <1>5, <1>6, <1>7, ApiWhole
  <1> QED BY <1>8, ApiWhole

(* One step of the API on the roles ...                                    *)
LEMMA ApiRoleStep ==
  ASSUME ApiInv, NEW r \in ShortName,
         \/ \E h \in RoleSpec : API!AddRole(r, h)
         \/ \E u \in FieldUpdate : API!UpdateRole(r, u)
         \/ API!RemoveRole(r)
  PROVE  ApiInv'
  <1>1. UNCHANGED <<filters, members>>
    BY DEF API!AddRole, API!UpdateRole, API!RemoveRole
  <1>2. API!MembersDescribed'
    BY <1>1 DEF ApiInv, API!Integrity, API!MembersDescribed
  <1>3. RolesTypeOK
    BY DEF ApiInv, RegistryTypeOK
  <1>4. RolesTypeOK' /\ API!RolesWhole'
    <2>1. ASSUME NEW h \in RoleSpec, API!AddRole(r, h)
          PROVE  RolesTypeOK' /\ API!RolesWhole'
      <3>1. /\ roles' = [roles EXCEPT ![r] = h]
            /\ h["FilterA"] # Empty /\ h["FilterB"] # Empty
        BY <2>1, ApiEmpty DEF API!AddRole, API!HMSet, API!RequiredFields
      <3>2. h \in Hash
        BY RoleTableAssumption
      <3>3. \A x \in ShortName : roles'[x] # Absent =>
               roles'[x]["FilterA"] # Empty /\ roles'[x]["FilterB"] # Empty
        BY <1>3, <3>1, ApiWhole DEF RolesTypeOK, ApiInv, API!Integrity
      <3> QED
        BY <1>3, <3>1, <3>2, <3>3, ApiWhole DEF RolesTypeOK
    <2>2. ASSUME NEW u \in FieldUpdate, API!UpdateRole(r, u)
          PROVE  RolesTypeOK' /\ API!RolesWhole'
      <3>1. RoleExists(r) /\ u[1] \in roleKeys /\ HSet(r, u)
        BY <2>2 DEF API!UpdateRole, API!RoleExists, API!roleKeys, API!HSet,
             API!HGetAll, API!EmptyHash, API!Field, API!Empty, RoleExists,
             roleKeys, HSet, HGetAll, EmptyHash, Field, Empty
      <3> QED BY <1>3, <3>1, HSetType, UpdateWhole
             DEF ApiInv, API!Integrity
    <2>3. CASE API!RemoveRole(r)
      BY <1>3, <2>3
      DEF API!RemoveRole, API!DelRole, RolesTypeOK, ApiInv, API!Integrity,
          API!RolesWhole, API!RoleExists
    <2> QED BY <2>1, <2>2, <2>3
  <1> QED
    BY <1>1, <1>2, <1>4 DEF ApiInv, RegistryTypeOK, API!Integrity

(* ... and on the filters.                                                 *)
LEMMA ApiFilterStep ==
  ASSUME ApiInv, NEW f \in Filter,
         \/ API!AddFilter(f) \/ API!RemoveFilter(f)
         \/ \E u \in User : API!AddMember(f, u) \/ API!RemoveMember(f, u)
  PROVE  ApiInv'
  <1>1. UNCHANGED roles
    BY DEF API!AddFilter, API!RemoveFilter, API!AddMember, API!RemoveMember
  <1>2. RolesTypeOK' /\ API!RolesWhole'
    BY <1>1 DEF ApiInv, RegistryTypeOK, RolesTypeOK, API!Integrity,
                API!RolesWhole, API!RoleExists
  <1>3. filters \subseteq Filter /\ members \in [Filter -> SUBSET User]
    BY DEF ApiInv, RegistryTypeOK
  <1>4. \A g \in Filter : members[g] # {} => g \in filters
    BY DEF ApiInv, API!Integrity, API!MembersDescribed
  <1>5. /\ filters' \subseteq Filter /\ members' \in [Filter -> SUBSET User]
        /\ \A g \in Filter : members'[g] # {} => g \in filters'
    <2>1. CASE API!AddFilter(f) \/ API!RemoveFilter(f)
      BY <1>3, <1>4, <2>1
      DEF API!AddFilter, API!RemoveFilter, API!SetDescription,
          API!DelDescription
    <2>2. ASSUME NEW u \in User, API!AddMember(f, u) \/ API!RemoveMember(f, u)
          PROVE  /\ filters' \subseteq Filter
                 /\ members' \in [Filter -> SUBSET User]
                 /\ \A g \in Filter : members'[g] # {} => g \in filters'
      <3>1. /\ f \in filters /\ UNCHANGED filters
            /\ \/ members' = [members EXCEPT ![f] = @ \cup {u}]
               \/ members' = [members EXCEPT ![f] = @ \ {u}]
        BY <2>2 DEF API!AddMember, API!RemoveMember, API!SAdd, API!SRem
      <3> QED BY <1>3, <1>4, <3>1
    <2> QED BY <2>1, <2>2
  <1> QED
    BY <1>2, <1>5
    DEF ApiInv, RegistryTypeOK, API!Integrity, API!MembersDescribed

(***************************************************************************)
(* What the RPCs promise is worth promising: if every request takes effect *)
(* at one moment, members are only in filters that are described and every *)
(* role has both its filters, for ever.                                    *)
(***************************************************************************)
THEOREM AtomicApiSound == API!Spec => []API!Integrity
  <1>1. API!Init => ApiInv
    BY DEF API!Init, ApiInv, RegistryTypeOK, RolesTypeOK, API!Integrity,
           API!MembersDescribed, API!RolesWhole, API!RoleExists
  <1>2. ApiInv /\ [API!Next]_(API!storeVars) => ApiInv'
    <2>1. ASSUME ApiInv, API!Next PROVE ApiInv'
      BY <2>1, ApiRoleStep, ApiFilterStep DEF API!Next
    <2>2. ASSUME ApiInv, UNCHANGED API!storeVars PROVE ApiInv'
      BY <2>2 DEF API!storeVars, ApiInv, RegistryTypeOK, RolesTypeOK,
           API!Integrity, API!MembersDescribed, API!RolesWhole, API!RoleExists
    <2> QED BY <2>1, <2>2
  <1>3. ApiInv => API!Integrity
    BY DEF ApiInv
  <1> QED BY <1>1, <1>2, <1>3, PTL DEF API!Spec

-----------------------------------------------------------------------------
(* Where the handlers are atomic without reservation.                      *)
NobodyStale == \A w \in Worker : ~stale[w]

(***************************************************************************)
(* A service in which no request is ever overtaken, and no RemoveFilter    *)
(* goes on after a failed read, implements the atomic API, whatever        *)
(* commands fail and whenever it crashes.                                  *)
(***************************************************************************)
THEOREM UnovertakenImplementsApi == Spec /\ []NobodyStale => API!Spec
  <1>1. Init => API!Init
    BY DEF Init, API!Init
  <1>2. NobodyStale /\ [API!Next \/ Overtaken]_storeVars
          => [API!Next]_(API!storeVars)
    BY DEF NobodyStale, Overtaken, storeVars, API!storeVars
  <1>3. Spec => [][API!Next \/ Overtaken]_storeVars
    BY HandlersAtomic DEF AtomicUnlessStale
  <1> QED BY <1>1, <1>2, <1>3, PTL DEF Spec, API!Spec

-----------------------------------------------------------------------------
(* Which races hurt.                                                       *)

(* What the three writes of a role leave under its key.                    *)
LEMMA RoleWritten ==
  ASSUME IInv, NEW w \in Worker, ~UNCHANGED roles,
         AddRole_HMSet(w) \/ UpdateRole_HSet(w) \/ RemoveRole_Del(w)
  PROVE  /\ req[w].role \in ShortName
         /\ \A x \in ShortName : x # req[w].role => roles'[x] = roles[x]
         /\ AddRole_HMSet(w) => Whole(req[w].role)'
         /\ RemoveRole_Del(w) => Whole(req[w].role)'
         /\ UpdateRole_HSet(w) /\ RoleExists(req[w].role)
               /\ Whole(req[w].role) => Whole(req[w].role)'
  <1> DEFINE r == req[w].role
  <1>1. roles \in [ShortName -> Hash \cup {Absent}]
    BY DEF IInv, TypeOK, RegistryTypeOK, RolesTypeOK
  <1>2. Fits(w)
    BY DEF IInv, RequestsFit
  <1>3. CASE AddRole_HMSet(w)
    <2>1. /\ r \in ShortName /\ req[w].spec \in RoleSpec
          /\ RequiredFields(req[w].spec)
      BY <1>2, <1>3 DEF Fits, AddRole_HMSet, AddRoleRequest
    <2>2. roles' = [roles EXCEPT ![r] = req[w].spec]
      BY <1>3 DEF AddRole_HMSet, Write, HMSet, storeVars
    <2>3. roles'[r] = req[w].spec /\ req'[w] = req[w]
      BY <1>1, <1>3, <2>1, <2>2 DEF AddRole_HMSet, Write
    <2>4. Whole(r)'
      BY <2>1, <2>3 DEF Whole, RequiredFields
    <2>5. ~UpdateRole_HSet(w) /\ ~RemoveRole_Del(w)
      BY <1>3 DEF AddRole_HMSet, UpdateRole_HSet, RemoveRole_Del
    <2> QED BY <1>1, <2>1, <2>2, <2>4, <2>5
  <1>4. CASE UpdateRole_HSet(w)
    <2> DEFINE k == req[w].set[1]
               h == [HGetAll(r) EXCEPT ![k] = req[w].set[2]]
    <2>1. r \in ShortName /\ k \in roleKeys
      BY <1>2, <1>4 DEF Fits, UpdateRole_HSet, UpdateRoleRequest
    <2>2. roles' = [roles EXCEPT ![r] = h]
      BY <1>4 DEF UpdateRole_HSet, Write, HSet, storeVars
    <2>3. roles'[r] = h /\ req'[w] = req[w]
      BY <1>1, <1>4, <2>1, <2>2 DEF UpdateRole_HSet, Write
    <2>4. k # "FilterA" /\ k # "FilterB"
      BY <2>1 DEF roleKeys
    <2>5. ASSUME RoleExists(r), Whole(r) PROVE Whole(r)'
      <3>1. HGetAll(r) = roles[r] /\ roles[r] \in [Field -> Value]
        BY <1>1, <2>1, <2>5 DEF HGetAll, RoleExists, Hash
      <3>2. h["FilterA"] = roles[r]["FilterA"] /\ h["FilterB"] = roles[r]["FilterB"]
        BY <2>4, <3>1 DEF Field
      <3> HIDE DEF h
      <3> QED BY <2>3, <2>5, <3>2 DEF Whole
    <2>6. ~AddRole_HMSet(w) /\ ~RemoveRole_Del(w)
      BY <1>4 DEF AddRole_HMSet, UpdateRole_HSet, RemoveRole_Del
    <2> HIDE DEF h
    <2> QED BY <1>1, <2>1, <2>2, <2>5, <2>6
  <1>5. CASE RemoveRole_Del(w)
    <2>1. r \in ShortName
      BY <1>2, <1>5 DEF Fits, RemoveRole_Del, RemoveRoleRequest
    <2>2. roles' = [roles EXCEPT ![r] = Absent]
      BY <1>5 DEF RemoveRole_Del, Write, DelRole, storeVars
    <2>3. roles'[r] = Absent /\ req'[w] = req[w]
      BY <1>1, <1>5, <2>1, <2>2 DEF RemoveRole_Del, Write
    <2>4. Whole(r)'
      BY <2>3 DEF Whole, RoleExists
    <2>5. ~UpdateRole_HSet(w) /\ ~AddRole_HMSet(w)
      BY <1>5 DEF AddRole_HMSet, UpdateRole_HSet, RemoveRole_Del
    <2> QED BY <1>1, <2>1, <2>2, <2>4, <2>5
  <1> QED BY <1>3, <1>4, <1>5

(* A role loses its filters to nobody but an UpdateRole whose role is gone.*)
LEMMA RoleHurt ==
  ASSUME IInv, Next, ~UNCHANGED storeVars, NEW r \in ShortName,
         Whole(r), ~Whole(r)'
  PROVE  OvertakenUpdateRole(r) /\ ~RoleExists(r)
  <1>1. roles'[r] # roles[r]
    BY DEF Whole, RoleExists
  <1>2. PICK w \in Worker : StoreWrite(w)
    BY StoreStep
  <1>3. AddRole_HMSet(w) \/ UpdateRole_HSet(w) \/ RemoveRole_Del(w)
    BY <1>1, <1>2
    DEF StoreWrite, AddFilter_Set, RemoveFilter_Del, AddMembers_SAdd,
        RemoveMembers_SRem, Write, LoopWrite, storeVars
  <1>4. req[w].role = r
    BY <1>1, <1>3, RoleWritten
  <1>5. UpdateRole_HSet(w) /\ ~RoleExists(r)
    <2>1. req'[w] = req[w]
      BY <1>3 DEF AddRole_HMSet, UpdateRole_HSet, RemoveRole_Del, Write
    <2>2. ~Whole(req[w].role)'
      BY <1>4, <2>1
    <2> QED BY <1>1, <1>3, <1>4, <2>2, RoleWritten
  <1>6. stale[w]
    BY <1>4, <1>5 DEF IInv, ChecksHold, Holds, UpdateRole_HSet
  <1> QED BY <1>4, <1>5, <1>6 DEF OvertakenUpdateRole

(* A filter is hurt only by an AddMembers or a RemoveFilter of that filter.*)
LEMMA FilterHurt ==
  ASSUME IInv, Next, ~UNCHANGED storeVars, NEW f \in Filter,
         Described(f), ~Described(f)'
  PROVE  \/ OvertakenAddMembers(f) /\ f \notin filters
         \/ OvertakenRemoveFilter(f) /\ members[f] # {}
  <1>1. PICK w \in Worker : StoreWrite(w)
    BY StoreStep
  <1>2. Fits(w) /\ (~stale[w] => Holds(w))
    BY DEF IInv, RequestsFit, ChecksHold
  <1>3. members \in [Filter -> SUBSET User]
    BY DEF IInv, TypeOK, RegistryTypeOK
  <1>4. members'[f] # {} /\ f \notin filters'
    BY DEF Described
  <1>5. CASE AddRole_HMSet(w) \/ UpdateRole_HSet(w) \/ RemoveRole_Del(w)
    <2>1. UNCHANGED <<filters, members>>
      BY <1>5 DEF AddRole_HMSet, UpdateRole_HSet, RemoveRole_Del, Write, storeVars
    <2> QED BY <1>4, <2>1 DEF Described
  <1>6. CASE AddFilter_Set(w)
    <2>1. UNCHANGED members /\ filters \subseteq filters'
      BY <1>6 DEF AddFilter_Set, Write, SetDescription, storeVars
    <2> QED BY <1>4, <2>1 DEF Described
  <1>7. CASE RemoveFilter_Del(w)
    <2>1. /\ UNCHANGED members
          /\ filters' = filters \/ filters' = filters \ {req[w].filter}
      BY <1>7 DEF RemoveFilter_Del, Write, DelDescription, storeVars
    <2>2. members[f] # {} /\ f \in filters /\ req[w].filter = f
      BY <1>4, <2>1 DEF Described
    <2>3. stale[w]
      BY <1>2, <1>7, <2>2 DEF Holds, RemoveFilter_Del
    <2> QED BY <1>7, <2>2, <2>3 DEF OvertakenRemoveFilter
  <1>8. CASE AddMembers_SAdd(w) \/ RemoveMembers_SRem(w)
    <2> DEFINE g == req[w].filter
    <2>1. g \in Filter
      BY <1>2, <1>8 DEF Fits, AddMembers_SAdd, RemoveMembers_SRem, MembersRequest
    <2>2. PICK u \in todo[w] :
             \/ AddMembers_SAdd(w) /\ LoopWrite(w, u, SAdd(g, u))
             \/ RemoveMembers_SRem(w) /\ LoopWrite(w, u, SRem(g, u))
      BY <1>8 DEF AddMembers_SAdd, RemoveMembers_SRem
    <2>3. /\ UNCHANGED filters
          /\ \/ members' = members
             \/ AddMembers_SAdd(w) /\ members' = [members EXCEPT ![g] = @ \cup {u}]
             \/ members' = [members EXCEPT ![g] = @ \ {u}]
      BY <2>2 DEF LoopWrite, SAdd, SRem, storeVars
    <2>4. members[f] = {} /\ f \notin filters
      BY <1>4, <2>3, <1>3, <2>1 DEF Described
    <2>5. AddMembers_SAdd(w) /\ g = f
      BY <1>3, <1>4, <2>1, <2>3, <2>4
    <2>6. stale[w]
      BY <1>2, <2>4, <2>5 DEF Holds, AddMembers_SAdd
    <2> QED BY <2>4, <2>5, <2>6 DEF OvertakenAddMembers
  <1> QED BY <1>1, <1>5, <1>6, <1>7, <1>8 DEF StoreWrite

(***************************************************************************)
(* The races that can hurt the registry are an UpdateRole overtaken by a   *)
(* RemoveRole, and AddMembers and RemoveFilter of one filter overtaking    *)
(* each other (or a RemoveFilter whose SMEMBERS failed); each hurts        *)
(* nothing but its own role or filter, and no other race of any number of  *)
(* requests hurts at all.                                                  *)
(***************************************************************************)
THEOREM OnlyTheseRacesHurt == Spec => RacesThatHurt
  <1> DEFINE Hurt ==
        /\ \A r \in ShortName :
              Whole(r) /\ ~Whole(r)' => OvertakenUpdateRole(r) /\ ~RoleExists(r)
        /\ \A f \in Filter :
              Described(f) /\ ~Described(f)' =>
                 \/ OvertakenAddMembers(f) /\ f \notin filters
                 \/ OvertakenRemoveFilter(f) /\ members[f] # {}
  <1>1. IInv /\ [Next]_vars => [Hurt]_storeVars
    <2> SUFFICES ASSUME IInv, Next, ~UNCHANGED storeVars PROVE Hurt
      BY DEF vars
    <2> QED BY RoleHurt, FilterHurt
  <1>2. Spec => [][Hurt]_storeVars
    <2> HIDE DEF Hurt
    <2> QED BY <1>1, Invariance, PTL DEF Spec
  <1> QED BY <1>2 DEF RacesThatHurt
=============================================================================
