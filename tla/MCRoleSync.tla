----------------------------- MODULE MCRoleSync -----------------------------
(***************************************************************************)
(* Instances of RoleSync for TLC: two role hashes that can share a name or *)
(* exchange names, two ordinary Discord roles and a protected one.         *)
(***************************************************************************)
EXTENDS RoleSync

CONSTANTS f1, n1, n2, bot

MCSpec(n, s, c) ==
    [k \in Field |-> CASE k = "FilterA" -> f1
                       [] k = "FilterB" -> Wildcard
                       [] k = "Name"    -> n
                       [] k = "Sync"    -> s
                       [] k = "Color"   -> c
                       [] OTHER         -> "0"]

MCRoleSpec == {MCSpec(n1, "1", "7"), MCSpec(n2, "1", "0"), MCSpec(bot, "1", "0")}

\* A name, a switch off and a colour that is not a number.
MCFieldUpdate == {<<"Name", n2>>, <<"Sync", "false">>, <<"Color", "x">>}
=============================================================================
