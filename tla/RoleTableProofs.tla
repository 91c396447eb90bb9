-------------------------- MODULE RoleTableProofs ---------------------------
(***************************************************************************)
(* Lemmas about the role hashes, used by the proofs about the handlers and *)
(* about the two synchronisations.                                         *)
(***************************************************************************)
EXTENDS RoleTable, TLAPS

(* What HGETALL returns of a key that does not exist is a hash.            *)
LEMMA EmptyHashType == EmptyHash \in Hash
  <1>1. \A k \in Field : Empty \in FieldValue(k) /\ Empty \in Value
    BY DEF Field, FieldValue, Value
  <1> QED
    BY <1>1 DEF EmptyHash, Hash

(* So is what it returns of any key.                                       *)
LEMMA HGetAllType ==
  ASSUME RolesTypeOK, NEW r \in ShortName
  PROVE  HGetAll(r) \in Hash
  BY EmptyHashType DEF RolesTypeOK, HGetAll

(* A value of the right type put into a field makes a hash of a hash.      *)
LEMMA FieldSetType ==
  ASSUME NEW h \in Hash, NEW k \in Field, NEW v \in FieldValue(k)
  PROVE  [h EXCEPT ![k] = v] \in Hash
  <1>1. v \in Value
    BY DEF Value
  <1>2. h \in [Field -> Value] /\ \A x \in Field : h[x] \in FieldValue(x)
    BY DEF Hash
  <1> DEFINE g == [h EXCEPT ![k] = v]
  <1>3. g \in [Field -> Value]
    BY <1>1, <1>2
  <1>4. \A x \in Field : g[x] \in FieldValue(x)
    BY <1>2
  <1> QED
    BY <1>3, <1>4 DEF Hash

(* UpdateRole's HSET keeps the table well typed, even where it creates the *)
(* hash, because UpdateRole accepts no key outside roleKeys.               *)
LEMMA HSetType ==
  ASSUME RolesTypeOK, NEW r \in ShortName,
         NEW u \in FieldUpdate, u[1] \in roleKeys, HSet(r, u)
  PROVE  RolesTypeOK'
  <1>1. u[1] \in Field /\ u[2] \in FieldValue(u[1])
    BY RoleTableAssumption DEF roleKeys, Field
  <1>2. [HGetAll(r) EXCEPT ![u[1]] = u[2]] \in Hash
    BY <1>1, HGetAllType, FieldSetType
  <1> QED
    BY <1>2 DEF RolesTypeOK, HSet

(* Every single write of a handler keeps the table well typed.             *)
LEMMA RoleWriteType ==
  ASSUME RolesTypeOK, RoleWrite
  PROVE  RolesTypeOK'
  <1>1. PICK r \in ShortName :
           \/ \E h \in RoleSpec : RequiredFields(h) /\ HMSet(r, h)
           \/ \E u \in FieldUpdate : u[1] \in roleKeys /\ HSet(r, u)
           \/ DelRole(r)
    BY DEF RoleWrite
  <1>2. CASE \E h \in RoleSpec : RequiredFields(h) /\ HMSet(r, h)
    BY <1>2, RoleTableAssumption DEF RolesTypeOK, HMSet
  <1>3. CASE \E u \in FieldUpdate : u[1] \in roleKeys /\ HSet(r, u)
    BY <1>3, HSetType
  <1>4. CASE DelRole(r)
    BY <1>4 DEF RolesTypeOK, DelRole
  <1> QED
    BY <1>1, <1>2, <1>3, <1>4
=============================================================================
