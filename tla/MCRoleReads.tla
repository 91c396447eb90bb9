----------------------------- MODULE MCRoleReads -----------------------------
(***************************************************************************)
(* Instances of RoleReads for TLC: a role by one filter, and a closed and  *)
(* a joinable SIG by two.                                                  *)
(***************************************************************************)
EXTENDS RoleReads

CONSTANTS f1, f2, n1, u1

MCSpec(a, b, sig, joinable) ==
    [k \in Field |-> CASE k = "FilterA"  -> a
                       [] k = "FilterB"  -> b
                       [] k = "Sig"      -> sig
                       [] k = "Joinable" -> joinable
                       [] k = "Name"     -> n1
                       [] OTHER          -> "0"]

MCRoleSpec == {MCSpec(f1, Wildcard, "0", "0"), MCSpec(f1, f2, "1", "0"),
               MCSpec(Wildcard, f2, "1", "1")}

MCFieldUpdate == {<<"Sync", "1">>}

MCInitialMembers ==
    {[f \in Filter |-> CASE f = f1 -> User [] f = f2 -> {u1} [] OTHER -> {}]}
=============================================================================
