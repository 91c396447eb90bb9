------------------------------ MODULE MCStartUp ------------------------------
(***************************************************************************)
(* Instances of StartUp for TLC: roles of an older release with and        *)
(* without a Sync value, known to the synchronisations or not.             *)
(***************************************************************************)
EXTENDS StartUp

CONSTANTS f1, n1

MCHash(s) ==
    [k \in Field |-> CASE k = "FilterA" -> f1
                       [] k = "FilterB" -> Wildcard
                       [] k = "Name"    -> n1
                       [] k = "Sync"    -> s
                       [] OTHER         -> "0"]

MCOldHash == {MCHash(Empty), MCHash("0"), MCHash("1"), MCHash("False")}
MCRoleSpec == {MCHash("0")}

\* Handlers store the value they are given, which may be the empty string.
MCFieldUpdate == {<<"Sync", Empty>>, <<"Sync", "false">>, <<"Sync", "False">>}
=============================================================================
