--------------------------- MODULE MCRoleHandlers ---------------------------
(***************************************************************************)
(* Instances of RoleHandlers for TLC: a role that two requests can ask for *)
(* with different filters, one proper filter and the wildcard.             *)
(***************************************************************************)
EXTENDS RoleHandlers, TLC

CONSTANTS f1, n1

MCSpec(a, b, n) ==
    [k \in Field |-> CASE k = "FilterA" -> a
                       [] k = "FilterB" -> b
                       [] k = "Name"    -> n
                       [] k = "Sync"    -> "0"
                       [] OTHER         -> "0"]

\* The third is refused: its Name is missing.
MCRoleSpec == {MCSpec(f1, Wildcard, n1), MCSpec(Wildcard, f1, n1),
               MCSpec(f1, f1, Empty)}

\* The second key is not one of roleKeys.
MCFieldUpdate == {<<"Sync", "1">>, <<"FilterA", f1>>}

MCSymmetry == Permutations(Worker)
=============================================================================
