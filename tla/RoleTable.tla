----------------------------- MODULE RoleTable -----------------------------
(***************************************************************************)
(* The role hashes role:<ShortName> that the role service keeps in Redis,  *)
(* and the single Redis commands by which its handlers read and write      *)
(* them.  Redis executes one command at a time, so each operator below is  *)
(* one indivisible step; what happens BETWEEN two commands is the business *)
(* of the modules that extend this one.                                    *)
(*                                                                         *)
(* A hash is a function on the fields the service's decisions depend on.   *)
(* HGetAll returns no entry for a field that is not stored and for a key   *)
(* that does not exist, and Go reads a missing map entry as "": a field    *)
(* that is not stored is therefore the value Empty.                        *)
(***************************************************************************)
EXTENDS FiniteSets

CONSTANTS
    ShortName,    \* the keys: what follows "role:"
    DiscordName,  \* the values of field Name: names of Discord roles
    Filter,       \* names of filters, the wildcard among them
    Wildcard,     \* the filter name "wildcard"
    SyncValue,    \* the strings that can be in field Sync
    Color,        \* the values of field Color, which stands for every
                  \* attribute that is only copied to Discord
    RoleSpec,     \* the hashes that requests ask AddRole to store
    FieldUpdate,  \* the pairs <<key, value>> requests ask UpdateRole to set
    Absent        \* what is at a key that does not exist

Empty == ""

Field == {"FilterA", "FilterB", "Sig", "Joinable", "Name", "Sync", "Color"}

\* The fields UpdateRole accepts; the others are fixed when a role is added.
roleKeys == {"Name", "Sync", "Color"}

FieldValue(k) ==
    CASE k \in {"FilterA", "FilterB"} -> Filter \cup {Empty}
      [] k \in {"Sig", "Joinable"}    -> {"0", "1", Empty}
      [] k = "Name"                   -> DiscordName \cup {Empty}
      [] k = "Sync"                   -> SyncValue \cup {Empty}
      [] k = "Color"                  -> Color \cup {Empty}

Value == UNION {FieldValue(k) : k \in Field}

Hash == {h \in [Field -> Value] : \A k \in Field : h[k] \in FieldValue(k)}

EmptyHash == [k \in Field |-> Empty]

\* The service stores "1" and "0" for a protobuf bool.
ASSUME RoleTableAssumption ==
    /\ Wildcard \in Filter
    /\ Absent \notin Hash
    /\ Empty \notin DiscordName
    /\ RoleSpec \subseteq Hash
    /\ \A u \in FieldUpdate : u[1] \in roleKeys => u[2] \in FieldValue(u[1])
    /\ {"0", "1"} \subseteq SyncValue

VARIABLE roles    \* roles[r] is the hash at role:r, or Absent

RolesTypeOK == roles \in [ShortName -> Hash \cup {Absent}]

-----------------------------------------------------------------------------
(* Reads.                                                                  *)

\* EXISTS role:r
RoleExists(r) == roles[r] # Absent

\* HGETALL role:r, as the Go code sees the result.
HGetAll(r) == IF roles[r] = Absent THEN EmptyHash ELSE roles[r]

\* KEYS role:*
getRoles == {r \in ShortName : RoleExists(r)}

\* What AddRole accepts before it asks Redis anything.
RequiredFields(h) ==
    /\ h["Name"] # Empty
    /\ h["FilterA"] # Empty
    /\ h["FilterB"] # Empty

\* The two synchronisations do not read field Sync in the same way: syncRoles
\* names the values that are in, syncMembers the values that are out.
SyncedBySyncRoles(h) == h["Sync"] \in {"1", "true"}
SkippedBySyncMembers(h) == h["Sync"] \in {"0", "false"}

\* Requests may store any other value, which neither of them names.
SyncUnknown(h) == h["Sync"] \notin {"0", "1", "false", "true"}

\* Sig and Joinable as GetRole reports them.
IsSIG(h) == h["Sig"] = "1"
IsJoinable(h) == h["Joinable"] = "1"

-----------------------------------------------------------------------------
(* Writes.  Here and in the modules below, a definition named D_Mutant...  *)
(* is what a plausible slip would make of D: the runs are repeated with it *)
(* to see that a property notices.                                         *)

\* FilterB is written as HSETNX would: an older one stays.
HMSet_MutantSetNX(r, h) ==
    roles' = [roles EXCEPT ![r] =
                IF HGetAll(r)["FilterB"] = Empty THEN h
                ELSE [h EXCEPT !["FilterB"] = HGetAll(r)["FilterB"]]]

\* Fields that are zero are left out, as JSON would.
HMSet_MutantOmitEmpty(r, h) ==
    roles' = [roles EXCEPT ![r] = [k \in {x \in Field : h[x] # "0"} |-> h[k]]]

\* HMSET role:r with every field of the request: structs.Map lists them all,
\* so nothing of an older hash at the same key survives.
HMSet(r, h) == roles' = [roles EXCEPT ![r] = h]

\* Without the fields that a fresh hash does not have.
HSet_MutantBare(r, u) ==
    roles' = [roles EXCEPT ![r] = IF RoleExists(r) THEN [@ EXCEPT ![u[1]] = u[2]]
                                  ELSE [k \in {u[1]} |-> u[2]]]

\* HSET role:r key value, which creates the hash when there is none.
HSet(r, u) == roles' = [roles EXCEPT ![r] = [HGetAll(r) EXCEPT ![u[1]] = u[2]]]

\* DEL role:r
DelRole(r) == roles' = [roles EXCEPT ![r] = Absent]

(***************************************************************************)
(* Any one write that some request handler may perform now.  The two       *)
(* synchronisations run concurrently with all the handlers and see their   *)
(* writes in any order.                                                    *)
(***************************************************************************)
RoleWrite ==
    \E r \in ShortName :
        \/ \E h \in RoleSpec : RequiredFields(h) /\ HMSet(r, h)
        \/ \E u \in FieldUpdate : u[1] \in roleKeys /\ HSet(r, u)
        \/ DelRole(r)
=============================================================================
