---------------------------- MODULE MCRoleClient -----------------------------
(***************************************************************************)
(* Instances of RoleClient for TLC: one role that can be added as a        *)
(* joinable SIG by two filters, as a closed SIG or as an ordinary role by  *)
(* one filter.                                                             *)
(***************************************************************************)
EXTENDS RoleClient, TLC

CONSTANTS f1, n1

MCSpec(a, b, sig, joinable) ==
    [k \in Field |-> CASE k = "FilterA"  -> a
                       [] k = "FilterB"  -> b
                       [] k = "Sig"      -> sig
                       [] k = "Joinable" -> joinable
                       [] k = "Name"     -> n1
                       [] OTHER          -> "0"]

MCRoleSpec == {MCSpec(Wildcard, f1, "1", "1"), MCSpec(Wildcard, f1, "1", "0"),
               MCSpec(f1, Wildcard, "0", "0")}

\* The second is refused by Set, though UpdateRole would take it.
MCFieldUpdate == {<<"Sync", "1">>, <<"Name", n1>>}

MCSymmetry == Permutations(Client) \cup Permutations(User)
=============================================================================
