----------------------------- MODULE SyncQueue ------------------------------
(***************************************************************************)
(* How a change of the registry reaches Discord.  A chat command (a Client *)
(* here) first calls the RPC that changes the registry, and when that call *)
(* succeeds calls SyncToChatService, whose handler puts a request on the   *)
(* channel syncControl.  One goroutine, syncThread, takes the requests one *)
(* by one and runs a full pass (roles, then members) for each.             *)
(*                                                                         *)
(* The channel holds Cap requests; handlers that find it full are parked   *)
(* in order of arrival.  A parked handler ignores its caller's deadline:   *)
(* the caller gives up, the request stays.                                 *)
(*                                                                         *)
(* A pass reads whatever the registry holds after the request was taken,   *)
(* so requests carry no data: what counts is that a pass BEGINS after a    *)
(* change.  Changes are numbered.                                          *)
(***************************************************************************)
EXTENDS Integers, Sequences

CONSTANTS
    Client,       \* chat commands that can run at one time
    Cap,          \* capacity of syncControl (30 in the code)
    MaxVer,       \* bound: changes of the registry
    MaxManual     \* bound: "sync" commands that change nothing

ASSUME SyncQueueAssumption ==
    /\ Cap \in Nat \ {0}
    /\ MaxVer \in Nat
    /\ MaxManual \in Nat

VARIABLES
    ver,          \* the number of changes made so far
    manual,       \* the number of manual sync requests made so far
    cl,           \* where each command is
    cver,         \* the change it made and has not asked to synchronise, or 0
    buf,          \* the channel's buffer: who asked
    sendq,        \* the parked handlers
    thread,       \* where syncThread is
    passVer,      \* history: the last change before the current pass began
    owed          \* history: the changes a pass is still owed for

clientVars == <<cl, cver>>
chanVars == <<buf, sendq>>
threadVars == <<thread, passVer>>
vars == <<ver, manual, clientVars, chanVars, threadVars, owed>>

\* A parked handler: whose request it is, and whether its caller still waits.
Parked == [from : Client, waits : BOOLEAN]

ChannelTypeOK ==
    /\ buf \in Seq(Client)
    /\ Len(buf) <= Cap
    /\ sendq \in Seq(Parked)

TypeOK ==
    /\ ver \in 0..MaxVer
    /\ manual \in 0..MaxManual
    /\ cl \in [Client -> {"idle", "changed", "calling"}]
    /\ cver \in [Client -> 0..MaxVer]
    /\ ChannelTypeOK
    /\ thread \in {"recv", "roles", "members"}
    /\ passVer \in 0..MaxVer
    /\ owed \subseteq 1..MaxVer

Init ==
    /\ ver = 0
    /\ manual = 0
    /\ cl = [c \in Client |-> "idle"]
    /\ cver = [c \in Client |-> 0]
    /\ buf = <<>>
    /\ sendq = <<>>
    /\ thread = "recv"
    /\ passVer = 0
    /\ owed = {}

-----------------------------------------------------------------------------
(* The commands.  D_Mutant... is a plausible slip in D, with which the run *)
(* is repeated to see that a property notices.                             *)

\* The RPC changed the registry and its answer came back.
Change(c) ==
    /\ cl[c] = "idle"
    /\ ver < MaxVer
    /\ ver' = ver + 1
    /\ cl' = [cl EXCEPT ![c] = "changed"]
    /\ cver' = [cver EXCEPT ![c] = ver + 1]
    /\ owed' = owed \cup {ver + 1}
    /\ UNCHANGED <<manual, chanVars, threadVars>>

\* The RPC changed the registry but the command saw an error (or died): it
\* ends without asking for a synchronisation.
ChangeUnanswered(c) ==
    /\ cl[c] = "idle"
    /\ ver < MaxVer
    /\ ver' = ver + 1
    /\ UNCHANGED <<manual, clientVars, chanVars, threadVars, owed>>

\* The capacity is not respected.
Send_MutantNoCap(c) == buf' = Append(buf, c) /\ UNCHANGED sendq

\* A pass is in progress already: why queue another?
Send_MutantCoalesce(c) ==
    IF thread = "recv" THEN buf' = <<c>> /\ UNCHANGED sendq
    ELSE UNCHANGED chanVars

\* The send syncControl <- syncData{...} of the handler for client c: it goes
\* through when there is room, and parks the handler when there is none.
Send(c) ==
    IF Len(buf) < Cap
    THEN buf' = Append(buf, c) /\ UNCHANGED sendq
    ELSE sendq' = Append(sendq, [from |-> c, waits |-> TRUE]) /\ UNCHANGED buf

\* SyncToChatService is called after the change.
Request(c) ==
    /\ cl[c] = "changed"
    /\ Send(c)
    /\ cl' = [cl EXCEPT ![c] = "calling"]
    /\ cver' = [cver EXCEPT ![c] = 0]
    /\ UNCHANGED <<ver, manual, threadVars, owed>>

\* The call does not reach the service, or the command dies before it: nobody
\* asks for this change any more.
RequestLost(c) ==
    /\ cl[c] = "changed"
    /\ cl' = [cl EXCEPT ![c] = "idle"]
    /\ cver' = [cver EXCEPT ![c] = 0]
    /\ owed' = owed \ {cver[c]}
    /\ UNCHANGED <<ver, manual, chanVars, threadVars>>

\* SyncRoles and SyncMembers ask for a pass and change nothing.
ManualRequest(c) ==
    /\ cl[c] = "idle"
    /\ manual < MaxManual
    /\ manual' = manual + 1
    /\ Send(c)
    /\ cl' = [cl EXCEPT ![c] = "calling"]
    /\ UNCHANGED <<ver, cver, threadVars, owed>>

Waiting(c) == \E i \in DOMAIN sendq : sendq[i] = [from |-> c, waits |-> TRUE]

\* The send went through; the handler answers and the command ends.
Answered(c) ==
    /\ cl[c] = "calling"
    /\ ~Waiting(c)
    /\ cl' = [cl EXCEPT ![c] = "idle"]
    /\ UNCHANGED <<ver, manual, cver, chanVars, threadVars, owed>>

\* The caller's deadline passes.  The handler stays where it is.
TimesOut(c) ==
    /\ cl[c] = "calling"
    /\ Waiting(c)
    /\ cl' = [cl EXCEPT ![c] = "idle"]
    /\ sendq' = [i \in DOMAIN sendq |->
                    [sendq[i] EXCEPT !.waits = @ /\ sendq[i].from # c]]
    /\ UNCHANGED <<ver, manual, cver, buf, threadVars, owed>>

-----------------------------------------------------------------------------
(* syncThread.                                                             *)

\* The room is given to nobody.
Receive_MutantNoUnpark ==
    /\ thread = "recv"
    /\ buf # <<>>
    /\ buf' = Tail(buf)
    /\ thread' = "roles"
    /\ passVer' = ver
    /\ UNCHANGED <<ver, manual, clientVars, sendq, owed>>

\* The room is given to the handler that was parked last.
Receive_MutantLastParked ==
    /\ thread = "recv"
    /\ buf # <<>>
    /\ IF sendq = <<>>
       THEN buf' = Tail(buf) /\ UNCHANGED sendq
       ELSE /\ buf' = Append(Tail(buf), sendq[Len(sendq)].from)
            /\ sendq' = SubSeq(sendq, 1, Len(sendq) - 1)
    /\ thread' = "roles"
    /\ passVer' = ver
    /\ UNCHANGED <<ver, manual, clientVars, owed>>

\* request := <-syncControl; the first parked handler, if any, gets the room.
Receive ==
    /\ thread = "recv"
    /\ buf # <<>>
    /\ IF sendq = <<>>
       THEN buf' = Tail(buf) /\ UNCHANGED sendq
       ELSE buf' = Append(Tail(buf), sendq[1].from) /\ sendq' = Tail(sendq)
    /\ thread' = "roles"
    /\ passVer' = ver
    /\ UNCHANGED <<ver, manual, clientVars, owed>>

\* The thread ends when syncRoles fails.
RolesDone_MutantStops ==
    /\ thread = "roles"
    /\ thread' \in {"members", "stopped"}
    /\ UNCHANGED <<ver, manual, clientVars, chanVars, passVer, owed>>

\* syncRoles returns; its error, if any, is dropped and the pass goes on.
RolesDone ==
    /\ thread = "roles"
    /\ thread' = "members"
    /\ UNCHANGED <<ver, manual, clientVars, chanVars, passVer, owed>>

\* syncMembers returns, and the thread waits for the next request.
MembersDone ==
    /\ thread = "members"
    /\ thread' = "recv"
    /\ owed' = {v \in owed : v > passVer}
    /\ UNCHANGED <<ver, manual, clientVars, chanVars, passVer>>

\* The process restarts.  The channel was in memory: what was queued, parked
\* or being served is gone, and the calls in progress fail.
Restart ==
    /\ buf' = <<>>
    /\ sendq' = <<>>
    /\ thread' = "recv"
    /\ passVer' = 0
    /\ cl' = [c \in Client |-> IF cl[c] = "calling" THEN "idle" ELSE cl[c]]
    /\ owed' = {v \in owed : \E c \in Client : cl[c] = "changed" /\ cver[c] = v}
    /\ UNCHANGED <<ver, manual, cver>>

Next ==
    \/ \E c \in Client :
          \/ Change(c) \/ ChangeUnanswered(c)
          \/ Request(c) \/ RequestLost(c) \/ ManualRequest(c)
          \/ Answered(c) \/ TimesOut(c)
    \/ Receive \/ RolesDone \/ MembersDone
    \/ Restart

\* Go runs a goroutine that can go on, a pass ends because each of its calls
\* does, and a command that made a change goes on to its next call or dies.
Fairness ==
    /\ WF_vars(Receive)
    /\ WF_vars(RolesDone)
    /\ WF_vars(MembersDone)
    /\ \A c \in Client : WF_vars(Request(c) \/ RequestLost(c))
    /\ \A c \in Client : WF_vars(Answered(c))

Spec == Init /\ [][Next]_vars

FairSpec == Spec /\ Fairness

-----------------------------------------------------------------------------
(***************************************************************************)
(* No change is forgotten: as long as a pass is owed for it, its command   *)
(* is about to ask, or a request is queued, or the pass in progress began  *)
(* after the change.  In particular a request that is taken between the    *)
(* change and its own request does not use up the one that is owed.        *)
(***************************************************************************)
Carried(v) ==
    \/ \E c \in Client : cl[c] = "changed" /\ cver[c] = v
    \/ buf # <<>>
    \/ thread # "recv" /\ passVer >= v

NoChangeForgotten == \A v \in owed : Carried(v)

(***************************************************************************)
(* The channel and its parked handlers together are one queue served in    *)
(* order of arrival: the capacity, the parking and the callers that give   *)
(* up cannot be observed in what is served.                                *)
(***************************************************************************)
Queue == INSTANCE RequestQueue WITH
            queue <- buf \o [i \in DOMAIN sendq |-> sendq[i].from],
            serving <- thread # "recv"

ServedInOrder == Queue!Spec

(***************************************************************************)
(* Every change whose command asked for it is eventually followed by a     *)
(* whole pass that began after it, or the process restarted in between.    *)
(***************************************************************************)
EveryChangeServed == \A v \in 1..MaxVer : (v \in owed) ~> (v \notin owed)

(***************************************************************************)
(* A command that waits for SyncToChatService is eventually answered even  *)
(* if no deadline ever passes.                                             *)
(***************************************************************************)
EveryCallAnswered ==
    \A c \in Client : (cl[c] = "calling") ~> (cl[c] # "calling")
=============================================================================
