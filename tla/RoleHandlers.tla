---------------------------- MODULE RoleHandlers ----------------------------
(***************************************************************************)
(* The request handlers that change the registry.  The RPC server runs     *)
(* each request on a goroutine of its own (a Worker here) and the handlers *)
(* take no lock: between two Redis commands of one request any command of  *)
(* another may run.  One action below is one Redis command, with the Go    *)
(* code around it.                                                         *)
(*                                                                         *)
(* Redis may fail a command: a read then returns an error, a write either  *)
(* had no effect ("lost") or took effect though its answer did not come    *)
(* back ("late").  The process may crash, which ends all requests.         *)
(***************************************************************************)
EXTENDS Registry

CONSTANTS
    Worker,     \* the goroutines that can be serving requests at one time
    Faults,     \* how Redis commands can fail: a subset of {"lost", "late"}
    Nothing     \* the request of an idle worker

ASSUME FaultsAssumption == Faults \subseteq {"lost", "late"}

VARIABLES
    pc,         \* the Redis command each worker executes next
    req,        \* the request it serves
    todo,       \* the users AddMembers and RemoveMembers still loop over
    failed,     \* the variable err of that loop
    stale,      \* history: what the worker read no longer holds
    raced       \* history: a worker wrote while it was stale

workVars == <<pc, req, todo, failed>>
vars == <<storeVars, workVars, stale, raced>>

AddRoleRequest == [op : {"AddRole"}, role : ShortName, spec : RoleSpec]
UpdateRoleRequest == [op : {"UpdateRole"}, role : ShortName, set : FieldUpdate]
RemoveRoleRequest == [op : {"RemoveRole"}, role : ShortName]
FilterRequest == [op : {"AddFilter", "RemoveFilter"}, filter : Filter]
MembersRequest == [op : {"AddMembers", "RemoveMembers"}, filter : Filter,
                   users : SUBSET User]

Request == AddRoleRequest \cup UpdateRoleRequest \cup RemoveRoleRequest
              \cup FilterRequest \cup MembersRequest

Step == {"idle", "ok", "error",
         "AddRole_Exists", "AddRole_FilterA", "AddRole_FilterB",
         "AddRole_HMSet",
         "UpdateRole_Exists", "UpdateRole_HSet",
         "RemoveRole_Exists", "RemoveRole_Del",
         "AddFilter_Exists", "AddFilter_Set",
         "RemoveFilter_Exists", "RemoveFilter_SMembers", "RemoveFilter_Del",
         "AddMembers_Exists", "AddMembers_SAdd",
         "RemoveMembers_Exists", "RemoveMembers_SRem"}

TypeOK ==
    /\ RegistryTypeOK
    /\ pc \in [Worker -> Step]
    /\ req \in [Worker -> Request \cup {Nothing}]
    /\ todo \in [Worker -> SUBSET User]
    /\ failed \in [Worker -> BOOLEAN]
    /\ stale \in [Worker -> BOOLEAN]
    /\ raced \in BOOLEAN

Init ==
    /\ roles = [r \in ShortName |-> Absent]
    /\ filters = {}
    /\ members = [f \in Filter |-> {}]
    /\ pc = [w \in Worker |-> "idle"]
    /\ req = [w \in Worker |-> Nothing]
    /\ todo = [w \in Worker |-> {}]
    /\ failed = [w \in Worker |-> FALSE]
    /\ stale = [w \in Worker |-> FALSE]
    /\ raced = FALSE

-----------------------------------------------------------------------------
(* History: the keys a worker has read, and what a write does to the       *)
(* workers that have read its key.                                         *)

RoleKey(r) == <<"role", r>>
DescKey(f) == <<"filter_description", f>>
SetKey(f) == <<"filter_members", f>>

Checked(w) ==
    CASE pc[w] = "AddRole_FilterA" -> {RoleKey(req[w].role)}
      [] pc[w] = "AddRole_FilterB" ->
            {RoleKey(req[w].role), DescKey(req[w].spec["FilterA"])}
      [] pc[w] = "AddRole_HMSet" ->
            {RoleKey(req[w].role), DescKey(req[w].spec["FilterA"]),
             DescKey(req[w].spec["FilterB"])}
      [] pc[w] \in {"UpdateRole_HSet", "RemoveRole_Del"} ->
            {RoleKey(req[w].role)}
      [] pc[w] \in {"AddFilter_Set", "RemoveFilter_SMembers",
                    "AddMembers_SAdd", "RemoveMembers_SRem"} ->
            {DescKey(req[w].filter)}
      [] pc[w] = "RemoveFilter_Del" ->
            {DescKey(req[w].filter), SetKey(req[w].filter)}
      [] OTHER -> {}

\* Worker w writes the key.
Wrote(w, key) ==
    /\ stale' = [v \in Worker |-> stale[v] \/ (v # w /\ key \in Checked(v))]
    /\ raced' = (raced \/ stale[w])

-----------------------------------------------------------------------------
(* Steps common to all handlers.                                           *)

GoTo(w, step) == pc' = [pc EXCEPT ![w] = step]

\* A Redis read: it reports an error, or the handler goes on to `step`.
Read(w, step) ==
    /\ \/ GoTo(w, step)
       \/ Faults # {} /\ GoTo(w, "error")
    /\ UNCHANGED <<storeVars, req, todo, failed, stale, raced>>

\* A Redis write of `key` that `write` describes.  `others` is what it leaves
\* alone of the store; the handler answers `bad` when the command fails.
Write(w, key, write, others, bad) ==
    /\ \/ /\ write
          /\ UNCHANGED others
          /\ Wrote(w, key)
          /\ \/ GoTo(w, "ok")
             \/ "late" \in Faults /\ GoTo(w, bad)
       \/ /\ "lost" \in Faults
          /\ GoTo(w, bad)
          /\ UNCHANGED <<storeVars, stale, raced>>
    /\ UNCHANGED <<req, todo, failed>>

Receive(w) ==
    /\ pc[w] = "idle"
    /\ \E q \in Request :
          /\ req' = [req EXCEPT ![w] = q]
          /\ GoTo(w, CASE q.op = "AddRole" ->
                            IF RequiredFields(q.spec)
                            THEN "AddRole_Exists" ELSE "error"
                       [] q.op = "UpdateRole"    -> "UpdateRole_Exists"
                       [] q.op = "RemoveRole"    -> "RemoveRole_Exists"
                       [] q.op = "AddFilter"     -> "AddFilter_Exists"
                       [] q.op = "RemoveFilter"  -> "RemoveFilter_Exists"
                       [] q.op = "AddMembers"    -> "AddMembers_Exists"
                       [] q.op = "RemoveMembers" -> "RemoveMembers_Exists")
          /\ todo' = [todo EXCEPT ![w] = IF q.op \in {"AddMembers", "RemoveMembers"}
                                         THEN q.users ELSE {}]
    /\ failed' = [failed EXCEPT ![w] = FALSE]
    /\ stale' = [stale EXCEPT ![w] = FALSE]
    /\ UNCHANGED <<storeVars, raced>>

\* The answer goes back to the caller.
Answer(w) ==
    /\ pc[w] \in {"ok", "error"}
    /\ GoTo(w, "idle")
    /\ req' = [req EXCEPT ![w] = Nothing]
    /\ todo' = [todo EXCEPT ![w] = {}]
    /\ failed' = [failed EXCEPT ![w] = FALSE]
    /\ stale' = [stale EXCEPT ![w] = FALSE]
    /\ UNCHANGED <<storeVars, raced>>

\* The process dies; Redis keeps its contents.
Crash ==
    /\ pc' = [w \in Worker |-> "idle"]
    /\ req' = [w \in Worker |-> Nothing]
    /\ todo' = [w \in Worker |-> {}]
    /\ failed' = [w \in Worker |-> FALSE]
    /\ stale' = [w \in Worker |-> FALSE]
    /\ UNCHANGED <<storeVars, raced>>

-----------------------------------------------------------------------------
(* AddRole *)

AddRole_Exists(w) ==
    /\ pc[w] = "AddRole_Exists"
    /\ Read(w, IF RoleExists(req[w].role) THEN "error" ELSE "AddRole_FilterA")

\* EXISTS is asked even for the wildcard, which then passes whatever it says.
AddRole_FilterA(w) ==
    /\ pc[w] = "AddRole_FilterA"
    /\ LET f == req[w].spec["FilterA"]
       IN  Read(w, IF f \in filters \cup {Wildcard}
                   THEN "AddRole_FilterB" ELSE "error")

AddRole_FilterB(w) ==
    /\ pc[w] = "AddRole_FilterB"
    /\ LET f == req[w].spec["FilterB"]
       IN  Read(w, IF f \in filters \cup {Wildcard}
                   THEN "AddRole_HMSet" ELSE "error")

AddRole_HMSet(w) ==
    /\ pc[w] = "AddRole_HMSet"
    /\ Write(w, RoleKey(req[w].role), HMSet(req[w].role, req[w].spec),
             <<filters, members>>, "error")

-----------------------------------------------------------------------------
(* UpdateRole: the key is validated after EXISTS, and the error of HSET is *)
(* dropped: the handler answers nil.                                       *)

\* Any field may be set.
UpdateRole_Exists_MutantAnyKey(w) ==
    /\ pc[w] = "UpdateRole_Exists"
    /\ Read(w, IF RoleExists(req[w].role) THEN "UpdateRole_HSet" ELSE "error")

UpdateRole_Exists(w) ==
    /\ pc[w] = "UpdateRole_Exists"
    /\ Read(w, IF RoleExists(req[w].role) /\ req[w].set[1] \in roleKeys
               THEN "UpdateRole_HSet" ELSE "error")

UpdateRole_HSet(w) ==
    /\ pc[w] = "UpdateRole_HSet"
    /\ Write(w, RoleKey(req[w].role), HSet(req[w].role, req[w].set),
             <<filters, members>>, "ok")

-----------------------------------------------------------------------------
(* RemoveRole *)

RemoveRole_Exists(w) ==
    /\ pc[w] = "RemoveRole_Exists"
    /\ Read(w, IF RoleExists(req[w].role) THEN "RemoveRole_Del" ELSE "error")

RemoveRole_Del(w) ==
    /\ pc[w] = "RemoveRole_Del"
    /\ Write(w, RoleKey(req[w].role), DelRole(req[w].role),
             <<filters, members>>, "error")

-----------------------------------------------------------------------------
(* AddFilter *)

AddFilter_Exists(w) ==
    /\ pc[w] = "AddFilter_Exists"
    /\ Read(w, IF req[w].filter \in filters THEN "error" ELSE "AddFilter_Set")

AddFilter_Set(w) ==
    /\ pc[w] = "AddFilter_Set"
    /\ Write(w, DescKey(req[w].filter), SetDescription(req[w].filter),
             <<roles, members>>, "error")

-----------------------------------------------------------------------------
(* RemoveFilter: the error of SMEMBERS is overwritten before it is looked  *)
(* at, so a failed read passes for an empty set.  The member set itself is *)
(* not deleted.                                                            *)

RemoveFilter_Exists(w) ==
    /\ pc[w] = "RemoveFilter_Exists"
    /\ Read(w, IF req[w].filter \in filters
               THEN "RemoveFilter_SMembers" ELSE "error")

\* The filter's members do not matter.
RemoveFilter_SMembers_MutantForce(w) ==
    /\ pc[w] = "RemoveFilter_SMembers"
    /\ GoTo(w, "RemoveFilter_Del")
    /\ UNCHANGED <<storeVars, req, todo, failed, stale, raced>>

RemoveFilter_SMembers(w) ==
    /\ pc[w] = "RemoveFilter_SMembers"
    /\ \/ /\ GoTo(w, IF MembersOf(req[w].filter) # {}
                     THEN "error" ELSE "RemoveFilter_Del")
          /\ UNCHANGED stale
       \/ /\ Faults # {}
          /\ GoTo(w, "RemoveFilter_Del")
          /\ stale' = [stale EXCEPT ![w] = TRUE]
    /\ UNCHANGED <<storeVars, req, todo, failed, raced>>

RemoveFilter_Del(w) ==
    /\ pc[w] = "RemoveFilter_Del"
    /\ Write(w, DescKey(req[w].filter), DelDescription(req[w].filter),
             <<roles, members>>, "error")

-----------------------------------------------------------------------------
(* AddMembers and RemoveMembers: one command per user, all of them tried,  *)
(* and err holds the outcome of the last.                                  *)

\* One command of the loop, for one user that is still to do.
LoopWrite(w, u, write) ==
    /\ \/ /\ write
          /\ UNCHANGED <<roles, filters>>
          /\ Wrote(w, SetKey(req[w].filter))
          /\ \E err \in BOOLEAN :
                /\ err => "late" \in Faults
                /\ failed' = [failed EXCEPT ![w] = err]
       \/ /\ "lost" \in Faults
          /\ failed' = [failed EXCEPT ![w] = TRUE]
          /\ UNCHANGED <<storeVars, stale, raced>>
    /\ todo' = [todo EXCEPT ![w] = @ \ {u}]
    /\ UNCHANGED <<pc, req>>

LoopEnds(w) ==
    /\ pc[w] \in {"AddMembers_SAdd", "RemoveMembers_SRem"}
    /\ todo[w] = {}
    /\ GoTo(w, IF failed[w] THEN "error" ELSE "ok")
    /\ UNCHANGED <<storeVars, req, todo, failed, stale, raced>>

\* Members are added to whatever filter is named.
AddMembers_Exists_MutantAnyFilter(w) ==
    /\ pc[w] = "AddMembers_Exists"
    /\ Read(w, "AddMembers_SAdd")

AddMembers_Exists(w) ==
    /\ pc[w] = "AddMembers_Exists"
    /\ Read(w, IF req[w].filter \in filters THEN "AddMembers_SAdd" ELSE "error")

AddMembers_SAdd(w) ==
    /\ pc[w] = "AddMembers_SAdd"
    /\ \E u \in todo[w] : LoopWrite(w, u, SAdd(req[w].filter, u))

RemoveMembers_Exists(w) ==
    /\ pc[w] = "RemoveMembers_Exists"
    /\ Read(w, IF req[w].filter \in filters
               THEN "RemoveMembers_SRem" ELSE "error")

RemoveMembers_SRem(w) ==
    /\ pc[w] = "RemoveMembers_SRem"
    /\ \E u \in todo[w] : LoopWrite(w, u, SRem(req[w].filter, u))

-----------------------------------------------------------------------------
Handle(w) ==
    \/ AddRole_Exists(w) \/ AddRole_FilterA(w) \/ AddRole_FilterB(w)
    \/ AddRole_HMSet(w)
    \/ UpdateRole_Exists(w) \/ UpdateRole_HSet(w)
    \/ RemoveRole_Exists(w) \/ RemoveRole_Del(w)
    \/ AddFilter_Exists(w) \/ AddFilter_Set(w)
    \/ RemoveFilter_Exists(w) \/ RemoveFilter_SMembers(w)
    \/ RemoveFilter_Del(w)
    \/ AddMembers_Exists(w) \/ AddMembers_SAdd(w)
    \/ RemoveMembers_Exists(w) \/ RemoveMembers_SRem(w)
    \/ LoopEnds(w)

Next ==
    \/ \E w \in Worker : Receive(w) \/ Handle(w) \/ Answer(w)
    \/ Crash

Spec == Init /\ [][Next]_vars

-----------------------------------------------------------------------------
API == INSTANCE RoleAPI

\* The filter pairs that an accepted AddRole asked for.
RequestedFilters ==
    {<<h["FilterA"], h["FilterB"]>> : h \in {s \in RoleSpec : RequiredFields(s)}}

(***************************************************************************)
(* However the handlers interleave, fail and crash, the two filters of a   *)
(* stored role come from one AddRole request (or the hash was created by   *)
(* an overtaken UpdateRole and has none): two AddRoles that both pass the  *)
(* EXISTS check never leave a mixture of their requests.                   *)
(***************************************************************************)
RoleFromOneRequest ==
    \A r \in ShortName : RoleExists(r) =>
        <<roles[r]["FilterA"], roles[r]["FilterB"]>>
            \in RequestedFilters \cup {<<Empty, Empty>>}

\* A worker takes a step though what it read no longer holds.
Overtaken ==
    \E w \in Worker :
        /\ stale[w]
        /\ pc'[w] # pc[w] \/ todo'[w] # todo[w]

(***************************************************************************)
(* A write that changes the store is a step of the atomic RoleAPI unless   *)
(* another request overwrote what this one had checked, or RemoveFilter    *)
(* went on after a failed read.  Without either, the EXISTS-then-write     *)
(* handlers behave as if each request were atomic, whatever fails.         *)
(***************************************************************************)
AtomicUnlessStale == [][API!Next \/ Overtaken]_storeVars

(***************************************************************************)
(* Even a request that was overtaken changes the store only by one command *)
(* that some valid request may ask for: what the synchronisations and the  *)
(* readers take for the behaviour of their surroundings (RegistryWrite) is *)
(* all that the handlers do.                                               *)
(***************************************************************************)
HandlersWriteRegistry == [][RegistryWrite]_storeVars

(***************************************************************************)
(* The registry is sound as long as no request has written on the strength *)
(* of an outdated check: members only in described filters, and no role    *)
(* without its filters.                                                    *)
(***************************************************************************)
SoundUnlessRaced == raced \/ API!Integrity

Whole(r) ==
    RoleExists(r) => roles[r]["FilterA"] # Empty /\ roles[r]["FilterB"] # Empty

Described(f) == members[f] # {} => f \in filters

\* An overtaken request of the named kind takes a step.
OvertakenUpdateRole(r) ==
    \E w \in Worker : stale[w] /\ UpdateRole_HSet(w) /\ req[w].role = r

OvertakenAddMembers(f) ==
    \E w \in Worker : stale[w] /\ AddMembers_SAdd(w) /\ req[w].filter = f

OvertakenRemoveFilter(f) ==
    \E w \in Worker : stale[w] /\ RemoveFilter_Del(w) /\ req[w].filter = f

(***************************************************************************)
(* Which races hurt, and how far, also after others have hurt already: a   *)
(* role loses its filters only when the UpdateRole of that role is         *)
(* overtaken, a filter with members its description only when AddMembers   *)
(* or RemoveFilter of that filter is.  All other overtaken writes (two     *)
(* AddRoles or AddFilters, a RemoveRole of a role added anew, an AddRole   *)
(* whose filter goes) leave every role and every filter sound.             *)
(***************************************************************************)
RacesThatHurt ==
    [][/\ \A r \in ShortName :
             Whole(r) /\ ~Whole(r)' => OvertakenUpdateRole(r) /\ ~RoleExists(r)
       /\ \A f \in Filter :
             Described(f) /\ ~Described(f)' =>
                \/ OvertakenAddMembers(f) /\ f \notin filters
                \/ OvertakenRemoveFilter(f) /\ members[f] # {}]_storeVars

(***************************************************************************)
(* What AddRole says it enforces ("Type, Name and the filters are          *)
(* required"): no role is stored without its filters.  An UpdateRole that  *)
(* is overtaken by a RemoveRole breaks it: HSET creates the hash anew.     *)
(***************************************************************************)
FiltersRequired == API!RolesWhole
=============================================================================
