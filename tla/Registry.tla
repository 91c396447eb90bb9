------------------------------ MODULE Registry ------------------------------
(***************************************************************************)
(* The role hashes together with the filters: filter_description:<f>,      *)
(* which makes a filter exist, and filter_members:<f>, the set of users    *)
(* that pass it.  They are two Redis keys, and a member set may exist      *)
(* without a description.                                                  *)
(***************************************************************************)
EXTENDS RoleTable

CONSTANT User     \* Discord user ids

VARIABLES
    filters,      \* the filters that have a description
    members       \* members[f] is the set at filter_members:f

storeVars == <<roles, filters, members>>

RegistryTypeOK ==
    /\ RolesTypeOK
    /\ filters \subseteq Filter
    /\ members \in [Filter -> SUBSET User]

\* SMEMBERS filter_members:f; a hash without the field names no filter at all.
MembersOf(f) == IF f \in Filter THEN members[f] ELSE {}

\* SADD, SREM, SET and DEL, one command each.
SAdd(f, u) == members' = [members EXCEPT ![f] = @ \cup {u}]
SRem(f, u) == members' = [members EXCEPT ![f] = @ \ {u}]
SetDescription(f) == filters' = filters \cup {f}
DelDescription(f) == filters' = filters \ {f}

\* The users that hold a role with hash h: getRoleMembership, the checks aside.
Membership(h) ==
    IF h["FilterB"] = Wildcard THEN MembersOf(h["FilterA"])
    ELSE IF h["FilterA"] = Wildcard THEN MembersOf(h["FilterB"])
    ELSE MembersOf(h["FilterA"]) \cap MembersOf(h["FilterB"])

\* Any one write that some request handler may perform now.
RegistryWrite ==
    \/ RoleWrite /\ UNCHANGED <<filters, members>>
    \/ \E f \in Filter :
          \/ /\ SetDescription(f) \/ DelDescription(f)
             /\ UNCHANGED <<roles, members>>
          \/ /\ \E u \in User : SAdd(f, u) \/ SRem(f, u)
             /\ UNCHANGED <<roles, filters>>
=============================================================================
