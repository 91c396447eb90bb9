-------------------------- MODULE SyncQueueProofs ---------------------------
(***************************************************************************)
(* Safety of SyncQueue for every set of clients, capacity and bounds.      *)
(***************************************************************************)
EXTENDS SyncQueue, SequenceTheorems, TLAPS

(***************************************************************************)
(* A pass that begins now covers every change that is owed, because        *)
(* nothing is owed for changes that have not been made.                    *)
(***************************************************************************)
OwedMade == \A v \in owed : v <= ver

(***************************************************************************)
(* Go parks a sender only while the channel is full and wakes the first    *)
(* one with every receive: what the runtime guarantees about the channel,  *)
(* and what makes the buffer and the parked senders one queue.             *)
(***************************************************************************)
ParkedOnlyWhenFull == sendq # <<>> => Len(buf) = Cap

(***************************************************************************)
(* The inductive invariant.  NoChangeForgotten needs OwedMade when a       *)
(* request is taken, and a positive capacity (a full channel is not empty) *)
(* when a request is parked.                                               *)
(***************************************************************************)
IInv == TypeOK /\ OwedMade /\ ParkedOnlyWhenFull /\ NoChangeForgotten

(* The initial state satisfies the invariant.                              *)
LEMMA InitIInv == Init => IInv
  <1> SUFFICES ASSUME Init PROVE IInv
    OBVIOUS
  <1>1. ChannelTypeOK
    BY EmptySeq, SyncQueueAssumption DEF Init, ChannelTypeOK
  <1> QED
    BY <1>1, SyncQueueAssumption
    DEF Init, IInv, TypeOK, OwedMade, ParkedOnlyWhenFull, NoChangeForgotten

(***************************************************************************)
(* A step that leaves the channel alone preserves what is said about it.   *)
(***************************************************************************)
LEMMA ChannelUnchanged ==
  ASSUME IInv, UNCHANGED chanVars
  PROVE  ChannelTypeOK' /\ ParkedOnlyWhenFull' /\ buf' = buf
  BY DEF IInv, TypeOK, ChannelTypeOK, ParkedOnlyWhenFull, chanVars

(***************************************************************************)
(* What the send of a handler does to the channel: the buffer keeps within *)
(* its capacity and is never left empty.                                   *)
(***************************************************************************)
LEMMA SendChannel ==
  ASSUME IInv, NEW c \in Client, Send(c)
  PROVE  ChannelTypeOK' /\ ParkedOnlyWhenFull' /\ buf' # <<>>
  <1>0. /\ buf \in Seq(Client) /\ Len(buf) \in Nat /\ Len(buf) <= Cap
        /\ sendq \in Seq(Parked)
        /\ (sendq # <<>> => Len(buf) = Cap)
        /\ Cap \in Nat \ {0}
    BY LenProperties, SyncQueueAssumption
    DEF IInv, TypeOK, ChannelTypeOK, ParkedOnlyWhenFull
  <1>1. CASE Len(buf) < Cap
    <2>1. buf' = Append(buf, c) /\ sendq' = sendq
      BY <1>1 DEF Send
    <2>2. buf' \in Seq(Client) /\ Len(buf') = Len(buf) + 1 /\ buf' # <<>>
      BY <1>0, <2>1, AppendProperties
    <2>3. sendq' = <<>>
      BY <1>0, <1>1, <2>1
    <2> QED
      BY <1>0, <1>1, <2>1, <2>2, <2>3 DEF ChannelTypeOK, ParkedOnlyWhenFull
  <1>2. CASE ~(Len(buf) < Cap)
    <2> DEFINE p == [from |-> c, waits |-> TRUE]
    <2>1. p \in Parked
      BY DEF Parked
    <2>2. buf' = buf /\ sendq' = Append(sendq, p)
      BY <1>2 DEF Send
    <2> HIDE DEF p
    <2>3. sendq' \in Seq(Parked)
      BY <1>0, <2>1, <2>2, AppendProperties
    <2>4. Len(buf) = Cap
      BY <1>0, <1>2
    <2>5. buf # <<>>
      BY <1>0, <2>4, EmptySeq
    <2> QED
      BY <1>0, <2>2, <2>3, <2>4, <2>5 DEF ChannelTypeOK, ParkedOnlyWhenFull
  <1> QED
    BY <1>1, <1>2

(* One lemma per kind of step: it preserves the invariant.                 *)

LEMMA ChangeStep ==
  ASSUME IInv, NEW c \in Client, Change(c) \/ ChangeUnanswered(c)
  PROVE  IInv'
  <1>1. ChannelTypeOK' /\ ParkedOnlyWhenFull' /\ buf' = buf
    BY ChannelUnchanged DEF Change, ChangeUnanswered
  <1>2. TypeOK' /\ OwedMade'
    <2>1. /\ ver \in Nat /\ MaxVer \in Nat /\ ver < MaxVer /\ ver' = ver + 1
          /\ manual' = manual /\ thread' = thread /\ passVer' = passVer
          /\ owed' \subseteq owed \cup {ver + 1}
          /\ \/ cl' = cl /\ cver' = cver
             \/ /\ cl' = [cl EXCEPT ![c] = "changed"]
                /\ cver' = [cver EXCEPT ![c] = ver + 1]
      BY SyncQueueAssumption
      DEF IInv, TypeOK, Change, ChangeUnanswered, threadVars, clientVars
    <2>2. ver + 1 \in 1..MaxVer
      BY <2>1
    <2>3. owed' \subseteq 1..MaxVer /\ OwedMade'
      BY <2>1, <2>2 DEF IInv, TypeOK, OwedMade
    <2>4. cl' \in [Client -> {"idle", "changed", "calling"}]
      BY <2>1 DEF IInv, TypeOK
    <2>5. cver' \in [Client -> 0..MaxVer]
      BY <2>1, <2>2 DEF IInv, TypeOK
    <2> QED
      BY <1>1, <2>1, <2>2, <2>3, <2>4, <2>5 DEF IInv, TypeOK
  <1>3. NoChangeForgotten'
    BY <1>1, SyncQueueAssumption
    DEF IInv, TypeOK, NoChangeForgotten, Carried, Change, ChangeUnanswered,
        threadVars, clientVars
  <1> QED BY <1>1, <1>2, <1>3 DEF IInv

LEMMA AskStep ==
  ASSUME IInv, NEW c \in Client, Request(c) \/ ManualRequest(c)
  PROVE  IInv'
  <1>1. Send(c)
    BY DEF Request, ManualRequest
  <1>2. ChannelTypeOK' /\ ParkedOnlyWhenFull' /\ buf' # <<>>
    BY <1>1, SendChannel
  <1>3. TypeOK' /\ OwedMade'
    <2>1. /\ ver' = ver /\ owed' = owed /\ thread' = thread /\ passVer' = passVer
          /\ cl' = [cl EXCEPT ![c] = "calling"]
          /\ \/ cver' = [cver EXCEPT ![c] = 0] /\ manual' = manual
             \/ cver' = cver /\ manual < MaxManual /\ manual' = manual + 1
      BY DEF Request, ManualRequest, threadVars
    <2>2. manual' \in 0..MaxManual
      BY <2>1, SyncQueueAssumption DEF IInv, TypeOK
    <2>3. cver' \in [Client -> 0..MaxVer]
      BY <2>1, SyncQueueAssumption DEF IInv, TypeOK
    <2>4. cl' \in [Client -> {"idle", "changed", "calling"}]
      BY <2>1 DEF IInv, TypeOK
    <2> QED
      BY <1>2, <2>1, <2>2, <2>3, <2>4 DEF IInv, TypeOK, OwedMade
  <1>4. NoChangeForgotten'
    BY <1>2 DEF NoChangeForgotten, Carried
  <1> QED BY <1>2, <1>3, <1>4 DEF IInv

LEMMA LostStep ==
  ASSUME IInv, NEW c \in Client, RequestLost(c)
  PROVE  IInv'
  <1>1. ChannelTypeOK' /\ ParkedOnlyWhenFull' /\ buf' = buf
    BY ChannelUnchanged DEF RequestLost
  <1>2. TypeOK' /\ OwedMade'
    <2>1. /\ ver' = ver /\ manual' = manual /\ thread' = thread
          /\ passVer' = passVer /\ owed' \subseteq owed
          /\ cl' = [cl EXCEPT ![c] = "idle"]
          /\ cver' = [cver EXCEPT ![c] = 0]
      BY DEF RequestLost, threadVars
    <2>2. cver' \in [Client -> 0..MaxVer]
      BY <2>1, SyncQueueAssumption DEF IInv, TypeOK
    <2> QED
      BY <1>1, <2>1, <2>2 DEF IInv, TypeOK, OwedMade
  <1>3. ASSUME NEW v \in owed' PROVE Carried(v)'
    <2>1. v # cver[c] /\ Carried(v)
      BY <1>3 DEF IInv, NoChangeForgotten, RequestLost
    <2>2. CASE \E d \in Client : cl[d] = "changed" /\ cver[d] = v
      <3>1. PICK d \in Client : cl[d] = "changed" /\ cver[d] = v
        BY <2>2
      <3>2. d # c /\ cl'[d] = "changed" /\ cver'[d] = v
        BY <2>1, <3>1 DEF IInv, TypeOK, RequestLost
      <3> QED BY <3>2 DEF Carried
    <2>3. CASE buf # <<>> \/ (thread # "recv" /\ passVer >= v)
      BY <1>1, <2>3 DEF Carried, RequestLost, threadVars
    <2> QED BY <2>1, <2>2, <2>3 DEF Carried
  <1> QED BY <1>1, <1>2, <1>3 DEF IInv, NoChangeForgotten

LEMMA AnsweredStep ==
  ASSUME IInv, NEW c \in Client, Answered(c)
  PROVE  IInv'
  <1>1. ChannelTypeOK' /\ ParkedOnlyWhenFull' /\ buf' = buf
    BY ChannelUnchanged DEF Answered
  <1>2. TypeOK' /\ OwedMade'
    BY <1>1 DEF IInv, TypeOK, OwedMade, Answered, threadVars
  <1>3. NoChangeForgotten'
    BY <1>1
    DEF IInv, TypeOK, NoChangeForgotten, Carried, Answered, threadVars
  <1> QED BY <1>1, <1>2, <1>3 DEF IInv

LEMMA TimesOutStep ==
  ASSUME IInv, NEW c \in Client, TimesOut(c)
  PROVE  IInv'
  <1> DEFINE p(i) == [sendq[i] EXCEPT !.waits = @ /\ sendq[i].from # c]
  <1>1. /\ sendq \in Seq(Parked) /\ Len(sendq) \in Nat
        /\ DOMAIN sendq = 1..Len(sendq)
    BY LenProperties DEF IInv, TypeOK, ChannelTypeOK
  <1>2. sendq' = [i \in 1..Len(sendq) |-> p(i)]
    BY <1>1 DEF TimesOut
  <1>3. ASSUME NEW i \in 1..Len(sendq) PROVE p(i) \in Parked
    <2>1. sendq[i] \in Parked
      BY <1>1, ElementOfSeq
    <2> QED BY <2>1 DEF Parked
  <1>4. buf' = buf
    BY DEF TimesOut
  <1> HIDE DEF p
  <1>5. sendq' \in Seq(Parked) /\ Len(sendq') = Len(sendq)
    BY <1>1, <1>2, <1>3
  <1>6. sendq' # <<>> => sendq # <<>>
    BY <1>1, <1>5, EmptySeq
  <1>7. ChannelTypeOK' /\ ParkedOnlyWhenFull'
    BY <1>4, <1>5, <1>6
    DEF IInv, TypeOK, ChannelTypeOK, ParkedOnlyWhenFull
  <1>8. TypeOK' /\ OwedMade'
    BY <1>7 DEF IInv, TypeOK, OwedMade, TimesOut, threadVars
  <1>9. NoChangeForgotten'
    BY <1>4 DEF IInv, TypeOK, NoChangeForgotten, Carried, TimesOut, threadVars
  <1> QED BY <1>7, <1>8, <1>9 DEF IInv

LEMMA ReceiveStep ==
  ASSUME IInv, Receive
  PROVE  IInv'
  <1>1. /\ buf \in Seq(Client) /\ buf # <<>> /\ Len(buf) \in Nat
        /\ Len(buf) <= Cap
        /\ sendq \in Seq(Parked)
        /\ (sendq # <<>> => Len(buf) = Cap)
    BY LenProperties
    DEF IInv, TypeOK, ChannelTypeOK, ParkedOnlyWhenFull, Receive
  <1>2. Tail(buf) \in Seq(Client) /\ Len(Tail(buf)) = Len(buf) - 1
    BY <1>1, HeadTailProperties
  <1>3. ChannelTypeOK' /\ ParkedOnlyWhenFull'
    <2>1. CASE sendq = <<>>
      <3>1. buf' = Tail(buf) /\ sendq' = sendq
        BY <2>1 DEF Receive
      <3> QED
        BY <1>1, <1>2, <2>1, <3>1, SyncQueueAssumption
        DEF ChannelTypeOK, ParkedOnlyWhenFull
    <2>2. CASE sendq # <<>>
      <3>1. buf' = Append(Tail(buf), sendq[1].from) /\ sendq' = Tail(sendq)
        BY <2>2 DEF Receive
      <3>2. Len(sendq) \in Nat \ {0}
        BY <1>1, <2>2, EmptySeq
      <3>3. sendq[1] \in Parked
        BY <1>1, <3>2, ElementOfSeq
      <3>4. sendq[1].from \in Client
        BY <3>3 DEF Parked
      <3>5. buf' \in Seq(Client) /\ Len(buf') = (Len(buf) - 1) + 1
        BY <1>2, <3>1, <3>4, AppendProperties
      <3>6. sendq' \in Seq(Parked)
        BY <1>1, <2>2, <3>1, HeadTailProperties
      <3> QED
        BY <1>1, <2>2, <3>5, <3>6 DEF ChannelTypeOK, ParkedOnlyWhenFull
    <2> QED BY <2>1, <2>2
  <1>4. TypeOK' /\ OwedMade'
    BY <1>3, SyncQueueAssumption
    DEF IInv, TypeOK, OwedMade, Receive, clientVars
  <1>5. NoChangeForgotten'
    BY SyncQueueAssumption
    DEF IInv, TypeOK, OwedMade, NoChangeForgotten, Carried, Receive, clientVars
  <1> QED BY <1>3, <1>4, <1>5 DEF IInv

LEMMA PassStep ==
  ASSUME IInv, RolesDone \/ MembersDone
  PROVE  IInv'
  <1>1. ChannelTypeOK' /\ ParkedOnlyWhenFull' /\ buf' = buf
    BY ChannelUnchanged DEF RolesDone, MembersDone
  <1>2. TypeOK' /\ OwedMade'
    BY <1>1
    DEF IInv, TypeOK, OwedMade, RolesDone, MembersDone, clientVars
  <1>3. ASSUME NEW v \in owed' PROVE Carried(v)'
    <2>1. Carried(v) /\ UNCHANGED <<cl, cver, buf>>
      BY <1>1, <1>3
      DEF IInv, NoChangeForgotten, RolesDone, MembersDone, clientVars
    <2>2. CASE RolesDone
      BY <2>1, <2>2 DEF Carried, RolesDone
    <2>3. CASE MembersDone
      <3>1. v \in Int /\ passVer \in Int /\ v > passVer
        BY <1>3, <2>3, SyncQueueAssumption DEF IInv, TypeOK, MembersDone
      <3>2. ~(passVer >= v)
        BY <3>1
      <3> QED BY <2>1, <3>2 DEF Carried
    <2> QED BY <2>2, <2>3
  <1> QED BY <1>1, <1>2, <1>3 DEF IInv, NoChangeForgotten

LEMMA RestartStep ==
  ASSUME IInv, Restart
  PROVE  IInv'
  <1>1. ChannelTypeOK' /\ ParkedOnlyWhenFull'
    BY EmptySeq, SyncQueueAssumption
    DEF ChannelTypeOK, ParkedOnlyWhenFull, Restart
  <1>2. TypeOK' /\ OwedMade'
    BY <1>1, SyncQueueAssumption DEF IInv, TypeOK, OwedMade, Restart
  <1>3. NoChangeForgotten'
    BY DEF IInv, TypeOK, NoChangeForgotten, Carried, Restart
  <1> QED BY <1>1, <1>2, <1>3 DEF IInv

LEMMA NextIInv == IInv /\ [Next]_vars => IInv'
  <1> SUFFICES ASSUME IInv, [Next]_vars PROVE IInv'
    OBVIOUS
  <1>1. ASSUME NEW c \in Client,
               \/ Change(c) \/ ChangeUnanswered(c) \/ Request(c)
               \/ RequestLost(c) \/ ManualRequest(c) \/ Answered(c)
               \/ TimesOut(c)
        PROVE  IInv'
    BY <1>1, ChangeStep, AskStep, LostStep, AnsweredStep,
       TimesOutStep
  <1>2. CASE Receive \/ RolesDone \/ MembersDone \/ Restart
    BY <1>2, ReceiveStep, PassStep, RestartStep
  <1>3. CASE UNCHANGED vars
    <2>1. ChannelTypeOK' /\ ParkedOnlyWhenFull' /\ buf' = buf
      BY <1>3, ChannelUnchanged DEF vars
    <2> QED
      BY <1>3, <2>1
      DEF vars, clientVars, chanVars, threadVars, IInv, TypeOK, OwedMade,
          NoChangeForgotten, Carried
  <1> QED
    BY <1>1, <1>2, <1>3 DEF Next

(* The invariant holds in every reachable state, however the system is     *)
(* scheduled.                                                              *)
LEMMA Invariant == Spec => []IInv
  BY InitIInv, NextIInv, PTL DEF Spec

(* The variables keep their types, and the channel its capacity.           *)
THEOREM TypeCorrect == Spec => []TypeOK
  <1>1. IInv => TypeOK
    BY DEF IInv
  <1> QED BY <1>1, Invariant, PTL

(* No change whose command has not failed is ever left without a carrier:  *)
(* a command about to ask, a queued request, or a pass that began later.   *)
THEOREM ChangesCarried == Spec => []NoChangeForgotten
  <1>1. IInv => NoChangeForgotten
    BY DEF IInv
  <1> QED BY <1>1, Invariant, PTL

-----------------------------------------------------------------------------
(***************************************************************************)
(* The refinement.  The queue of RequestQueue is the buffer followed by    *)
(* the clients of the parked handlers.                                     *)
(***************************************************************************)
Froms(s) == [i \in DOMAIN s |-> s[i].from]

queue == buf \o Froms(sendq)

LEMMA FromsType ==
  ASSUME NEW s \in Seq(Parked)
  PROVE  Froms(s) \in Seq(Client) /\ Len(Froms(s)) = Len(s)
  <1> DEFINE f(i) == s[i].from
  <1>1. Len(s) \in Nat /\ DOMAIN s = 1..Len(s)
    BY LenProperties
  <1>2. ASSUME NEW i \in 1..Len(s) PROVE f(i) \in Client
    <2>1. s[i] \in Parked
      BY ElementOfSeq
    <2> QED BY <2>1 DEF Parked
  <1>3. Froms(s) = [i \in 1..Len(s) |-> f(i)]
    BY <1>1 DEF Froms
  <1> HIDE DEF f
  <1> QED BY <1>1, <1>2, <1>3

LEMMA FromsEmpty == Froms(<<>>) = <<>>
  BY DEF Froms

(* A handler that is parked asks last.                                     *)
LEMMA FromsAppend ==
  ASSUME NEW s \in Seq(Parked), NEW p \in Parked
  PROVE  Froms(Append(s, p)) = Append(Froms(s), p.from)
  <1> DEFINE t == Append(s, p)
             e == Append(Froms(s), p.from)
  <1>1. Len(s) \in Nat /\ p.from \in Client
    BY LenProperties DEF Parked
  <1>2. /\ t \in Seq(Parked) /\ Len(t) = Len(s) + 1
        /\ \A i \in 1..Len(s) : t[i] = s[i]
        /\ t[Len(s) + 1] = p
    BY AppendProperties
  <1>3. /\ e \in Seq(Client) /\ Len(e) = Len(s) + 1
        /\ \A i \in 1..Len(s) : e[i] = Froms(s)[i]
        /\ e[Len(s) + 1] = p.from
    BY <1>1, FromsType, AppendProperties
  <1>4. Froms(t) \in Seq(Client) /\ Len(Froms(t)) = Len(s) + 1
    BY <1>2, FromsType
  <1>5. DOMAIN s = 1..Len(s) /\ DOMAIN t = 1..(Len(s) + 1)
    BY <1>2, LenProperties
  <1> HIDE DEF t, e
  <1>6. ASSUME NEW i \in 1..(Len(s) + 1) PROVE Froms(t)[i] = e[i]
    <2>1. Froms(t)[i] = t[i].from
      BY <1>5 DEF Froms
    <2>2. CASE i = Len(s) + 1
      BY <1>2, <1>3, <2>1, <2>2
    <2>3. CASE i # Len(s) + 1
      <3>1. i \in 1..Len(s)
        BY <1>1, <2>3
      <3>2. Froms(s)[i] = s[i].from
        BY <1>5, <3>1 DEF Froms
      <3> QED BY <1>2, <1>3, <2>1, <3>1, <3>2
    <2> QED BY <2>2, <2>3
  <1>7. Froms(t) = e
    BY <1>3, <1>4, <1>6, SeqEqual
  <1> QED BY <1>7 DEF t, e

(* The handler that was parked first is first.                             *)
LEMMA FromsTail ==
  ASSUME NEW s \in Seq(Parked), s # <<>>
  PROVE  Froms(s) = <<s[1].from>> \o Froms(Tail(s))
  <1> DEFINE f == s[1].from
             e == <<f>> \o Froms(Tail(s))
  <1>1. Len(s) \in Nat \ {0} /\ DOMAIN s = 1..Len(s)
    BY LenProperties, EmptySeq
  <1>2. f \in Client
    <2>1. s[1] \in Parked
      BY <1>1, ElementOfSeq
    <2> QED BY <2>1 DEF Parked
  <1>3. /\ Tail(s) \in Seq(Parked) /\ Len(Tail(s)) = Len(s) - 1
        /\ \A i \in 1..(Len(s) - 1) : Tail(s)[i] = s[i + 1]
    BY HeadTailProperties
  <1>4. /\ Froms(Tail(s)) \in Seq(Client)
        /\ Len(Froms(Tail(s))) = Len(s) - 1
        /\ DOMAIN Tail(s) = 1..(Len(s) - 1)
    BY <1>3, FromsType, LenProperties
  <1> HIDE DEF f
  <1>5. <<f>> \in Seq(Client) /\ Len(<<f>>) = 1 /\ <<f>>[1] = f
    BY <1>2
  <1>6. /\ e \in Seq(Client) /\ Len(e) = Len(s)
        /\ e[1] = f
        /\ \A i \in 2..Len(s) : e[i] = Froms(Tail(s))[i - 1]
    <2>1. /\ e \in Seq(Client) /\ Len(e) = 1 + (Len(s) - 1)
          /\ \A i \in 1..(1 + (Len(s) - 1)) :
                e[i] = IF i <= 1 THEN <<f>>[i] ELSE Froms(Tail(s))[i - 1]
      BY <1>4, <1>5, ConcatProperties
    <2> HIDE DEF e
    <2> QED BY <1>1, <1>5, <2>1
  <1> HIDE DEF e
  <1>7. Froms(s) \in Seq(Client) /\ Len(Froms(s)) = Len(s)
    BY FromsType
  <1>8. ASSUME NEW i \in 1..Len(s) PROVE Froms(s)[i] = e[i]
    <2>1. Froms(s)[i] = s[i].from
      BY <1>1 DEF Froms
    <2>2. CASE i = 1
      BY <1>6, <2>1, <2>2 DEF f
    <2>3. CASE i # 1
      <3>1. i \in 2..Len(s) /\ i - 1 \in 1..(Len(s) - 1) /\ (i - 1) + 1 = i
        BY <1>1, <2>3
      <3>2. Froms(Tail(s))[i - 1] = Tail(s)[i - 1].from
        BY <1>4, <3>1 DEF Froms
      <3> QED BY <1>3, <1>6, <2>1, <3>1, <3>2
    <2> QED BY <2>2, <2>3
  <1>9. Froms(s) = e
    BY <1>6, <1>7, <1>8, SeqEqual
  <1> QED BY <1>9 DEF e, f

LEMMA TailConcat ==
  ASSUME NEW s \in Seq(Client), s # <<>>, NEW t \in Seq(Client)
  PROVE  s \o t # <<>> /\ Tail(s \o t) = Tail(s) \o t
  <1>1. Len(s) \in Nat \ {0} /\ Len(t) \in Nat
    BY LenProperties, EmptySeq
  <1>2. /\ Tail(s) \in Seq(Client) /\ Len(Tail(s)) = Len(s) - 1
        /\ \A i \in 1..(Len(s) - 1) : Tail(s)[i] = s[i + 1]
    BY HeadTailProperties
  <1> DEFINE u == s \o t
             v == Tail(s) \o t
  <1>3. /\ u \in Seq(Client) /\ Len(u) = Len(s) + Len(t)
        /\ \A i \in 1..(Len(s) + Len(t)) :
              u[i] = IF i <= Len(s) THEN s[i] ELSE t[i - Len(s)]
    BY ConcatProperties
  <1>4. /\ v \in Seq(Client) /\ Len(v) = (Len(s) - 1) + Len(t)
        /\ \A i \in 1..((Len(s) - 1) + Len(t)) :
              v[i] = IF i <= Len(s) - 1 THEN Tail(s)[i] ELSE t[i - (Len(s) - 1)]
    BY <1>2, ConcatProperties
  <1> HIDE DEF u, v
  <1>5. u # <<>>
    BY <1>1, <1>3, EmptySeq
  <1>6. /\ Tail(u) \in Seq(Client) /\ Len(Tail(u)) = Len(u) - 1
        /\ \A i \in 1..(Len(u) - 1) : Tail(u)[i] = u[i + 1]
    BY <1>3, <1>5, HeadTailProperties
  <1>7. Len(Tail(u)) = Len(v)
    BY <1>1, <1>3, <1>4, <1>6
  <1>8. ASSUME NEW i \in 1..Len(v) PROVE Tail(u)[i] = v[i]
    <2>1. /\ i \in 1..(Len(u) - 1) /\ i + 1 \in 1..(Len(s) + Len(t))
          /\ i \in 1..((Len(s) - 1) + Len(t)) /\ i \in Nat
          /\ (i + 1) - Len(s) = i - (Len(s) - 1)
      BY <1>1, <1>3, <1>4
    <2>2. Tail(u)[i] = u[i + 1]
      BY <1>6, <2>1
    <2>3. CASE i <= Len(s) - 1
      <3>1. i \in 1..(Len(s) - 1) /\ i + 1 <= Len(s)
        BY <1>1, <2>1, <2>3
      <3> QED BY <1>2, <1>3, <1>4, <2>1, <2>2, <2>3, <3>1
    <2>4. CASE ~(i <= Len(s) - 1)
      <3>1. ~(i + 1 <= Len(s))
        BY <1>1, <2>1, <2>4
      <3> QED BY <1>3, <1>4, <2>1, <2>2, <2>4, <3>1
    <2> QED BY <2>3, <2>4
  <1>9. Tail(u) = v
    BY <1>4, <1>6, <1>7, <1>8, SeqEqual
  <1> QED BY <1>5, <1>9 DEF u, v

LEMMA QueueTypes ==
  ASSUME IInv
  PROVE  /\ buf \in Seq(Client) /\ sendq \in Seq(Parked)
         /\ Froms(sendq) \in Seq(Client)
         /\ Cap \in Nat \ {0} /\ Len(buf) \in Nat /\ Len(buf) <= Cap
         /\ sendq # <<>> => Len(buf) = Cap /\ buf # <<>>
  <1>1. /\ buf \in Seq(Client) /\ sendq \in Seq(Parked)
        /\ Cap \in Nat \ {0} /\ Len(buf) \in Nat /\ Len(buf) <= Cap
        /\ sendq # <<>> => Len(buf) = Cap
    BY LenProperties, SyncQueueAssumption
    DEF IInv, TypeOK, ChannelTypeOK, ParkedOnlyWhenFull
  <1>2. sendq # <<>> => buf # <<>>
    BY <1>1, EmptySeq
  <1> QED BY <1>1, <1>2, FromsType

(* A request that is sent is the last, whether it is parked or not.        *)
LEMMA SendPuts ==
  ASSUME IInv, NEW c \in Client, Send(c)
  PROVE  queue' = Append(queue, c)
  <1>1. CASE Len(buf) < Cap
    <2>1. sendq = <<>> /\ sendq' = <<>> /\ buf' = Append(buf, c)
      BY <1>1, QueueTypes DEF Send
    <2>2. buf \in Seq(Client) /\ Append(buf, c) \in Seq(Client)
      BY QueueTypes, AppendProperties
    <2>3. queue = buf /\ queue' = Append(buf, c)
      BY <2>1, <2>2, FromsEmpty, ConcatEmptySeq DEF queue
    <2> QED BY <2>3
  <1>2. CASE ~(Len(buf) < Cap)
    <2> DEFINE p == [from |-> c, waits |-> TRUE]
    <2>1. p \in Parked /\ p.from = c
      BY DEF Parked
    <2>2. buf' = buf /\ sendq' = Append(sendq, p)
      BY <1>2 DEF Send
    <2> HIDE DEF p
    <2>3. Froms(sendq)' = Append(Froms(sendq), c)
      <3>1. Froms(Append(sendq, p)) = Append(Froms(sendq), c)
        BY <2>1, QueueTypes, FromsAppend
      <3>2. Froms(sendq)' = Froms(Append(sendq, p))
        BY <2>2 DEF Froms
      <3> QED BY <3>1, <3>2
    <2>4. Append(Froms(sendq), c) = Froms(sendq) \o <<c>>
      BY QueueTypes, AppendIsConcat
    <2>5. /\ queue \in Seq(Client)
          /\ (buf \o Froms(sendq)) \o <<c>> = buf \o (Froms(sendq) \o <<c>>)
      <3>1. <<c>> \in Seq(Client)
        OBVIOUS
      <3> QED BY <3>1, QueueTypes, ConcatProperties, ConcatAssociative DEF queue
    <2>6. Append(queue, c) = queue \o <<c>>
      BY <2>5, AppendIsConcat
    <2> QED BY <2>2, <2>3, <2>4, <2>5, <2>6 DEF queue
  <1> QED BY <1>1, <1>2

(* syncThread takes the first, and a handler that gets the room keeps its  *)
(* place.                                                                  *)
LEMMA ReceiveTakes ==
  ASSUME IInv, Receive
  PROVE  queue # <<>> /\ queue' = Tail(queue)
  <1>1. buf \in Seq(Client) /\ buf # <<>> /\ Tail(buf) \in Seq(Client)
    BY QueueTypes, HeadTailProperties DEF Receive
  <1>2. queue # <<>> /\ Tail(queue) = Tail(buf) \o Froms(sendq)
    BY <1>1, QueueTypes, TailConcat DEF queue
  <1>3. CASE sendq = <<>>
    BY <1>2, <1>3 DEF Receive, queue, Froms
  <1>4. CASE sendq # <<>>
    <2> DEFINE f == sendq[1].from
    <2>1. buf' = Append(Tail(buf), f) /\ sendq' = Tail(sendq)
      BY <1>4 DEF Receive
    <2>2. Froms(sendq) = <<f>> \o Froms(Tail(sendq))
      BY <1>4, QueueTypes, FromsTail
    <2>3. f \in Client /\ Froms(Tail(sendq)) \in Seq(Client)
      <3>1. Len(sendq) \in Nat \ {0} /\ Tail(sendq) \in Seq(Parked)
        BY <1>4, QueueTypes, EmptySeq, HeadTailProperties
      <3>2. sendq[1] \in Parked
        BY <3>1, QueueTypes, ElementOfSeq
      <3>3. f \in Client
        BY <3>2 DEF Parked
      <3> QED BY <3>1, <3>3, FromsType
    <2> HIDE DEF f
    <2>4. Append(Tail(buf), f) = Tail(buf) \o <<f>>
      BY <1>1, <2>3, AppendIsConcat
    <2>5. (Tail(buf) \o <<f>>) \o Froms(Tail(sendq))
             = Tail(buf) \o (<<f>> \o Froms(Tail(sendq)))
      <3>1. <<f>> \in Seq(Client)
        BY <2>3
      <3> QED BY <1>1, <2>3, <3>1, ConcatAssociative
    <2>6. Froms(sendq)' = Froms(Tail(sendq))
      BY <2>1 DEF Froms
    <2> QED BY <1>2, <2>1, <2>2, <2>4, <2>5, <2>6 DEF queue
  <1> QED BY <1>3, <1>4

(* A caller that gives up leaves its request in its place.                 *)
LEMMA TimesOutKeeps ==
  ASSUME IInv, NEW c \in Client, TimesOut(c)
  PROVE  queue' = queue
  <1> DEFINE p(i) == [sendq[i] EXCEPT !.waits = @ /\ sendq[i].from # c]
  <1>1. sendq \in Seq(Parked) /\ DOMAIN sendq = 1..Len(sendq)
    BY QueueTypes, LenProperties
  <1>2. buf' = buf /\ sendq' = [i \in DOMAIN sendq |-> p(i)]
    BY DEF TimesOut
  <1>3. ASSUME NEW i \in DOMAIN sendq PROVE p(i).from = sendq[i].from
    <2>1. sendq[i] \in Parked
      BY <1>1, ElementOfSeq
    <2> QED BY <2>1 DEF Parked
  <1> HIDE DEF p
  <1>4. Froms(sendq)' = Froms(sendq)
    BY <1>2, <1>3 DEF Froms
  <1> QED BY <1>2, <1>4 DEF queue

(* Every step of the service is a step of the abstract queue, or changes   *)
(* nothing that its users see.                                             *)
LEMMA NextIsQueueNext ==
  ASSUME IInv, [Next]_vars
  PROVE  [Queue!Next]_<<queue, thread # "recv">>
  <1>1. ASSUME NEW c \in Client, Request(c) \/ ManualRequest(c)
        PROVE  Queue!Put(c)
    <2>1. Send(c) /\ UNCHANGED thread
      BY <1>1 DEF Request, ManualRequest, threadVars
    <2> QED BY <2>1, SendPuts DEF Queue!Put, queue, Froms
  <1>2. ASSUME Receive PROVE Queue!Take
    <2>1. thread = "recv" /\ thread' = "roles"
      BY <1>2 DEF Receive
    <2>2. ~(thread # "recv") /\ (thread # "recv")' = TRUE
      BY <2>1
    <2> QED BY <1>2, <2>2, ReceiveTakes DEF Queue!Take, queue, Froms
  <1>3. ASSUME MembersDone PROVE Queue!Finish
    <2>1. thread = "members" /\ thread' = "recv" /\ UNCHANGED chanVars
      BY <1>3 DEF MembersDone
    <2>2. (thread # "recv") /\ (thread # "recv")' = FALSE
      BY <2>1
    <2> QED BY <2>1, <2>2 DEF Queue!Finish, chanVars
  <1>4. ASSUME Restart PROVE Queue!Die
    <2>1. queue' = <<>>
      <3>1. buf' = <<>> /\ sendq' = <<>>
        BY <1>4 DEF Restart
      <3>2. <<>> \o <<>> = <<>>
        BY EmptySeq, ConcatEmptySeq
      <3> QED BY <3>1, <3>2, FromsEmpty DEF queue, Froms
    <2>2. (thread # "recv")' = FALSE
      BY <1>4 DEF Restart
    <2> QED BY <2>1, <2>2 DEF Queue!Die, queue, Froms
  <1>5. ASSUME RolesDone PROVE UNCHANGED <<queue, thread # "recv">>
    <2>1. thread = "roles" /\ thread' = "members" /\ UNCHANGED chanVars
      BY <1>5 DEF RolesDone
    <2>2. (thread # "recv")' = (thread # "recv")
      BY <2>1
    <2> QED BY <2>1, <2>2 DEF chanVars, queue, Froms
  <1>6. ASSUME NEW c \in Client,
               \/ Change(c) \/ ChangeUnanswered(c) \/ RequestLost(c)
               \/ Answered(c)
        PROVE  UNCHANGED <<queue, thread # "recv">>
    BY <1>6
    DEF Change, ChangeUnanswered, RequestLost, Answered, chanVars, threadVars,
        queue, Froms
  <1>7. ASSUME NEW c \in Client, TimesOut(c)
        PROVE  UNCHANGED <<queue, thread # "recv">>
    BY <1>7, TimesOutKeeps DEF TimesOut, threadVars
  <1>8. ASSUME UNCHANGED vars PROVE UNCHANGED <<queue, thread # "recv">>
    BY <1>8 DEF vars, chanVars, threadVars, queue, Froms
  <1>9. CASE Next
    <2>1. \/ \E c \in Client : Queue!Put(c)
          \/ Queue!Take \/ Queue!Finish \/ Queue!Die
          \/ UNCHANGED <<queue, thread # "recv">>
      BY <1>1, <1>2, <1>3, <1>4, <1>5, <1>6, <1>7, <1>9 DEF Next
    <2> QED BY <2>1 DEF Queue!Next
  <1> QED BY <1>8, <1>9

(* Seen from outside, the channel, its capacity and the parked handlers    *)
(* are one queue of any length: requests are served one at a time, in the  *)
(* order in which they reached the service.                                *)
THEOREM ServesInOrder == Spec => ServedInOrder
  <1>1. Init => Queue!Init
    <2> SUFFICES ASSUME Init PROVE queue = <<>> /\ ~(thread # "recv")
      BY DEF Queue!Init, queue, Froms
    <2> QED
      BY FromsEmpty, ConcatEmptySeq, EmptySeq DEF Init, queue
  <1>2. ASSUME IInv, [Next]_vars
        PROVE  [Queue!Next]_<<buf \o [i \in DOMAIN sendq |-> sendq[i].from],
                              thread # "recv">>
    BY <1>2, NextIsQueueNext DEF queue, Froms
  <1> QED
    BY <1>1, <1>2, Invariant, PTL DEF Spec, ServedInOrder, Queue!Spec
=============================================================================
