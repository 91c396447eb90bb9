---------------------------- MODULE RequestQueue ----------------------------
(***************************************************************************)
(* The queue of synchronisation requests as a caller sees it: requests are *)
(* served one at a time in the order in which they reached the service,    *)
(* however many wait, and all of them are lost when the process dies.      *)
(***************************************************************************)
EXTENDS Sequences

CONSTANT Client

VARIABLES
    queue,      \* who asked, in order of arrival
    serving     \* whether a request is being served

Init == queue = <<>> /\ serving = FALSE

Put(c) == queue' = Append(queue, c) /\ UNCHANGED serving

Take ==
    /\ ~serving /\ queue # <<>>
    /\ queue' = Tail(queue)
    /\ serving' = TRUE

Finish == serving /\ serving' = FALSE /\ UNCHANGED queue

Die == queue' = <<>> /\ serving' = FALSE

Next == (\E c \in Client : Put(c)) \/ Take \/ Finish \/ Die

Spec == Init /\ [][Next]_<<queue, serving>>
=============================================================================
