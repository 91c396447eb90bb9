---------------------------- MODULE MCMemberSync ----------------------------
(***************************************************************************)
(* Instances of MemberSync for TLC: two hashes for one Discord role, by a  *)
(* single filter or by the intersection of two, which may be renamed and   *)
(* given other filters.                                                    *)
(***************************************************************************)
EXTENDS MemberSync

CONSTANTS f1, f2, n1, n2, r1, r2

MCSpec(a, b, n, s) ==
    [k \in Field |-> CASE k = "FilterA" -> a
                       [] k = "FilterB" -> b
                       [] k = "Name"    -> n
                       [] k = "Sync"    -> s
                       [] OTHER         -> "0"]

MCRoleSpec == {MCSpec(f1, Wildcard, n1, "1"), MCSpec(f1, f2, n1, "1")}

\* A role by a single filter, or by two, or both.  The hashes are alike: which of
\* them holds which makes no difference.
MCInitialRoles ==
    LET single == MCSpec(f1, Wildcard, n1, "1")
        both   == MCSpec(f1, f2, n1, "1")
        Table(a, b) == [r \in ShortName |-> IF r = r1 THEN a ELSE b]
    IN  {Table(single, Absent), Table(both, Absent), Table(single, both)}

MCFieldUpdate == {<<"Sync", "0">>, <<"Name", n2>>}

MCInitialMembers == {[f \in Filter |-> CASE f = f1 -> {1, 2}
                                         [] f = f2 -> {1}
                                         [] OTHER  -> {}]}

\* n1 may just have been created.
MCInitialLists == {{n1, n2}, {n2}}

MCCurrentList == {{n1, n2}}

\* A value that GetRole reports as false.
MCFieldUpdateFalse == {<<"Sync", "False">>}
=============================================================================
