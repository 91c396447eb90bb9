------------------------------ MODULE RoleAPI -------------------------------
(***************************************************************************)
(* What the RPCs of the role service promise their callers: each request   *)
(* takes effect at one moment, at which its checks hold of the store it    *)
(* changes.  A request that is refused, or that only reads, changes        *)
(* nothing.  The handlers (RoleHandlers) perform the checks and the write  *)
(* as separate Redis commands.                                             *)
(***************************************************************************)
EXTENDS Registry

Usable(f) == f = Wildcard \/ f \in filters

AddRole(r, h) ==
    /\ RequiredFields(h)
    /\ ~RoleExists(r)
    /\ Usable(h["FilterA"])
    /\ Usable(h["FilterB"])
    /\ HMSet(r, h)
    /\ UNCHANGED <<filters, members>>

UpdateRole(r, u) ==
    /\ RoleExists(r)
    /\ u[1] \in roleKeys
    /\ HSet(r, u)
    /\ UNCHANGED <<filters, members>>

RemoveRole(r) ==
    /\ RoleExists(r)
    /\ DelRole(r)
    /\ UNCHANGED <<filters, members>>

AddFilter(f) ==
    /\ f \notin filters
    /\ SetDescription(f)
    /\ UNCHANGED <<roles, members>>

RemoveFilter(f) ==
    /\ f \in filters
    /\ members[f] = {}
    /\ DelDescription(f)
    /\ UNCHANGED <<roles, members>>

\* A request may name several users; each is added or removed on its own.
AddMember(f, u) ==
    /\ f \in filters
    /\ SAdd(f, u)
    /\ UNCHANGED <<roles, filters>>

RemoveMember(f, u) ==
    /\ f \in filters
    /\ SRem(f, u)
    /\ UNCHANGED <<roles, filters>>

Init ==
    /\ roles = [r \in ShortName |-> Absent]
    /\ filters = {}
    /\ members = [f \in Filter |-> {}]

Next ==
    \/ \E r \in ShortName :
          \/ \E h \in RoleSpec : AddRole(r, h)
          \/ \E u \in FieldUpdate : UpdateRole(r, u)
          \/ RemoveRole(r)
    \/ \E f \in Filter :
          \/ AddFilter(f)
          \/ RemoveFilter(f)
          \/ \E u \in User : AddMember(f, u) \/ RemoveMember(f, u)

Spec == Init /\ [][Next]_storeVars

-----------------------------------------------------------------------------
(* Every filter with members has a description, so that it is listed and   *)
(* can be emptied and removed (GetFilters lists descriptions, and          *)
(* RemoveMembers refuses a filter that has none).                          *)
MembersDescribed == \A f \in Filter : members[f] # {} => f \in filters

(* A stored role names its two filters, which no update can change.        *)
RolesWhole ==
    \A r \in ShortName : RoleExists(r) =>
        roles[r]["FilterA"] # Empty /\ roles[r]["FilterB"] # Empty

Integrity == MembersDescribed /\ RolesWhole
=============================================================================
