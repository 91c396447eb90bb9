# The role service in TLA+

A specification of chremoas role-srv: the Go service that keeps a registry of
roles and filters in Redis and makes the roles of a Discord guild, and of its
members, follow that registry. The modules model the code under `src/handler`
and the way `src/client` calls it; TLC checks them on small instances and TLAPS
proves the theorems listed below for every value of the constants.

## 1. The system

| Part | State it keeps | Operations | Interacts with |
|---|---|---|---|
| Registry (Redis) | `role:<ShortName>` hashes, `filter_description:<f>` strings, `filter_members:<f>` sets, `members:no_sync` set | single Redis commands | every part below |
| Request handlers (`handler/Roles.go` 140-266, 863-996) | none of their own | AddRole, UpdateRole, RemoveRole, AddFilter, RemoveFilter, AddMembers, RemoveMembers | one goroutine per request, no lock; several Redis commands each |
| Read-only RPCs (269-398, 614-701, 840-861, 926-944, 1021-1042, 1084-1106) | none | GetRole(s), GetFilters, GetMembers, GetRoleMembership, ListUserRoles, Discord look-ups | Redis, gateway, concurrent handlers |
| Synchronisation queue (1044-1081) | channel `syncControl` (30 places), parked senders, the goroutine `syncThread` | SyncToChatService; receive, syncRoles, syncMembers | called by the chat commands |
| Role pass (`syncRoles`, 703-834) | local sets of one pass | create, delete and edit guild roles | Redis, gateway, concurrent handlers |
| Member pass (`syncMembers`, `getRoleMembership`, 399-612, 639-701) | local maps of one pass | page members, compute memberships, overwrite member roles | Redis, gateway, concurrent handlers |
| Chat commands (`client/*.go`) | none | check permission, read a role or a filter, change the registry, ask for a synchronisation; listings | the RPCs, other commands |
| Start-up (47-128, `main.go`) | none | create admin descriptions, give old roles a Sync value, start `syncThread` | Redis; may die at any command |
| Chat messages, generated RPC code, SQL schema | - | - | no influence on decisions; the SQL schema is unused |

What is hard about it:

* **Check, then act.** Every handler asks EXISTS (and more) and then writes, in
  separate Redis commands, without lock or transaction. Any other request may
  come between.
* **Failure.** Redis may fail a command, and a failed write may have taken
  effect. Some errors are dropped (UpdateRole's HSET, RemoveFilter's SMEMBERS,
  AddMembers' loop, the SISMEMBER of the member pass).
* **Torn reads.** Both passes read the registry key by key while handlers write
  to it; the member pass reads one hash several times. So do the listings, for
  which a key that vanished after KEYS is an error.
* **Commands of several calls.** A chat command reads a role with one RPC,
  changes it with another and asks for a synchronisation with a third; other
  commands come between, answers come late, and the command may die.
* **A start that is cut short.** updateSchema goes role by role over data of an
  older release, drops the error of its writes, and is given up after a failed
  read; the service starts nevertheless.
* **A stale, failing gateway.** Its list of roles may lag behind the guild
  (both passes work with it); members join and leave between two pages.
* **A bounded queue in memory.** Senders block when it is full and do not look
  at their caller's deadline; a restart loses it.
* **Convergence.** Passes are the only repair, and a pass runs only when a
  command asks for one: nothing is retried. Those that run must reach what the
  registry says.

What makes each part correct: the handlers behave as atomic requests as long as
nobody overtakes them, and only by certain races, each of which hurts no more
than its own role or filter, does the registry become unsound; the queue is
first-in first-out, nobody waits in it for ever, and every change asked for is
followed by a pass that began after it; a role pass never deletes what was
wanted throughout, never touches protected roles, and converges; a member pass
misses nobody, takes away no grant that stood throughout (unless the gateway's
list does not show the role), gives only what somebody was entitled to, and
converges; a command asks for a synchronisation of
what it changed unless it saw an error, changes only what it has checked, and
does what it answers; a listing is true of whatever stood still while it ran;
and start-up only fills in what is missing and is made up for when it was cut
short.

## 2. The modules

```
RoleTable        role hashes, one operator per Redis command
 +- Registry     + filters and their members
 |   +- RoleAPI        what the RPCs promise: atomic requests
 |   +- RoleHandlers   the handlers, one action per Redis command   (API == INSTANCE RoleAPI)
 |   |   +- MCRoleHandlers, RoleHandlersProofs
 |   +- RoleClient     the chat commands, one action per call       (API == INSTANCE RoleAPI)
 |   |   +- MCRoleClient, RoleClientProofs
 |   +- RoleReads      the listings
 |   |   +- MCRoleReads, RoleReadsProofs
 |   +- MemberSync     syncMembers
 |       +- MCMemberSync, MemberSyncProofs
 +- RoleSync     syncRoles
 |   +- MCRoleSync, RoleSyncProofs
 +- StartUp      main, NewRolesHandler, updateSchema
 |   +- MCStartUp, StartUpProofs
 +- RoleTableProofs    lemmas about the hashes
RequestQueue     a first-in first-out queue
SyncQueue        syncControl and syncThread   (Queue == INSTANCE RequestQueue)
 +- SyncQueueProofs
```

**RoleTable, Registry.** A hash is a function on the seven fields that decisions
depend on; `Color` stands for all the attributes that are only passed on to
Discord. Go reads a missing map entry as "", so a field that is not stored has
the value `Empty` and `HGetAll` of a missing key is `EmptyHash`. AddRole's
HMSET writes the whole structure (`structs.Map` lists every field), so it
replaces a hash; UpdateRole's HSET changes one field and creates the hash when
there is none. `SyncedBySyncRoles` and `SkippedBySyncMembers` are the two
different readings of the field Sync, which is a free string; `SyncUnknown` are
the values that neither names; `IsSIG` and `IsJoinable` the flags as
GetRole reports them. `RoleWrite` and `RegistryWrite` are any
one write some handler may do: the two passes and the listings see the handlers
that way, and `HandlersWriteRegistry` says that the handlers do nothing else.

**RoleHandlers.** A `Worker` is a goroutine that serves one request after
another; `pc[w]` is the Redis command it executes next, and the action named
`Handler_Command` is that command with the Go code up to the next one. `Read`
and `Write` are the two shapes of a command: a read succeeds or fails, a write
succeeds, is lost, or takes effect and is reported as failed. The exceptions of
the code are written out: UpdateRole answers nil whatever HSET says,
RemoveFilter takes a failed SMEMBERS for an empty set, and the loop of
AddMembers and RemoveMembers keeps only its last error. `stale` and `raced` are
history: `stale[w]` when another worker wrote a key that w has read (or w
misread it), `raced` once a stale worker has written.

**RoleAPI** is the abstract specification: each request is one step at which
its checks hold.

**SyncQueue.** A client is a chat command between its two calls. `buf` is the
buffer of the channel and `sendq` its blocked senders in order of arrival, as
the Go runtime keeps them; a parked handler whose caller gave up stays parked.
Changes of the registry are numbered: `passVer` is the last one the present
pass is sure to see, `owed` the changes a pass is still owed for. Requests carry
no data that a pass uses, except where to send messages.

**RequestQueue** is the abstract queue.

**RoleSync.** syncThread waits in its receive, and `Receive` is the request that
makes a pass begin; a pass that is over, or was ended by an error, waits for the
next one (`Again`). In a pass `pc` follows syncRoles: list the hashes, read each
(`ReadHash`), get the gateway's list and compare (`GetAllRoles`), then create,
delete, edit, each loop in any order as Go iterates a map. `cache` is what the gateway lists,
`guild` what is there. A create that finds the role is passed over; any other
error ends the pass, whose variables are then gone (`PassEnds`). History:
`steady`, the pairs <<hash, name>> that were to be synchronised ever since the
pass began; `ever`, the pairs <<name, colour>> that some hash asked for while the
pass read them; `alone`, that nothing but the pass acted and no call failed since
it began; `quiet`, that the list it got was current, too; and `settled`, that all
this is also true of the pass before it.

**MemberSync.** A pass begins with a request (`Begin`), as in RoleSync. `cache`
is what the gateway lists, which may lag behind `guildRoles`: `GetAllRoles` takes
it for the name map, current or not. A listed role that was deleted meanwhile
(`gone`) is known to the pass by a dead id (`deadIds`), with which UpdateMember
fails; a role that the list does not show (`unlisted`, history) has no id, and
UpdateMember takes it away. `pc` follows syncMembers and, inside its loop,
`getRoleMembership`: the description is checked only when one filter is the
wildcard, otherwise SINTER is asked at once. `Compare` builds `updateMembers`
and `UpdateMember` is SISMEMBER plus the gateway's call, which replaces all
roles of a member. The Redis set `members:no_sync` is written by nothing in the
repository and is a constant. `steady` and `ever` are history: the tuples
<<hash, role, user>> that held ever since the pass began, until the hash gets
other filters, and the pairs that held at some moment.

**RoleClient.** A client runs one chat command at a time; `pc[c]` is the RPC it
makes next, and each RPC is one step of RoleAPI, which `AtomicUnlessStale`
justifies for handlers nobody overtakes. A call may be refused, fail without
effect, or take effect and answer too late; AddMembers and RemoveMembers may
half succeed and answer with the outcome of their last user (`MembersCall`), and
UpdateRole answers nil whatever became of its write (`SetLost`). sigAction reads
the role twice (`GetRole`, `GetRoleAgain`), as the code does: once for the
checks, once for the filter. `dirty` and `lapsed`, `quiet` and `spared` are
history. What a command answers in words is left out, except whether it says
success.

**RoleReads.** One reader runs GetRoles, GetFilters, ListUserRoles or
ListMembers, one action per Redis command, against any writes
(`RegistryWrite`). ListUserRoles contains getRoleMembership and getRole:
the two filters are read first, the members of those filters later, and the hash
once more for the answer; if it has gone by then the answer has a blank entry
(`ShortNameIn`). `MapName` is
one turn of the client's loop over the members of a filter, with its `found`
that is never reset. `kept` is history: the roles and filters that were not
written to since the listing began; `held` and `ever` the roles the user held
throughout, and at some time.

**StartUp.** `pc` is the Redis command that main, NewRolesHandler and
updateSchema execute next. A failed PING stops the service (the panic in NewRolesHandler);
any other failure is logged or dropped and start-up goes on as `Fallback` says.
`Dies` may strike at every command, `Redeploy` restarts a serving process, and
handlers write while it serves. The hashes at the beginning are those an older
release may have left, without Sync.

Definitions named `D_Mutant...` are plausible slips in `D`. Each run was
repeated with `D` replaced by its mutant to see that the property notices.

## 3. The runs

| Run | Question | Result |
|---|---|---|
| `handlers` | Are two concurrent requests of any kind atomic, whatever fails, unless one overtakes the other? | holds |
| `handlers_zombie` | Does AddRole's requirement of filters hold for every stored role? | violated |
| `queue` | Is the channel with its parked senders a FIFO queue, and is every change served? | holds |
| `role_sync` | Do role passes protect, keep and converge under disturbance? | holds |
| `member_sync` | Do member passes miss nobody, keep and justify grants, and converge? | holds |
| `member_no_roles` | Are users with no roles picked up? | violated |
| `member_no_sync` | Are users on the no-sync list left alone? | violated |
| `member_false` | Are roles set to not sync left out of the member pass? | violated |
| `client` | Which changes stay without a synchronisation, does what a command read bind its change, and is its answer true? | holds |
| `leave_sig` | Is LeaveSIG refused for a SIG that is not joinable? | violated |
| `reads` | Is a listing true of what stood still while it ran, and what makes it fail? | holds |
| `start` | Does start-up only fill in, and is it made up for when it is cut short? | holds |

### Properties

* `AtomicUnlessStale` (handlers): a step that changes the store is a step of
  `RoleAPI`, or the write of a stale worker. `SoundUnlessRaced`: members only in
  described filters, roles with filters, until a stale worker has written.
  `RoleFromOneRequest`: the two filters of a stored role come from one request.
  `HandlersWriteRegistry`: even the write of a stale worker is one command that a
  valid request may ask for. `RacesThatHurt`: which races do harm, also when the
  registry is unsound already: a role loses its filters only by the overtaken
  UpdateRole of that role, a filter with members its description only by an
  overtaken AddMembers or RemoveFilter of that filter. The other races (two
  AddRoles or AddFilters, a RemoveRole of a role added anew, an AddRole whose
  filter goes) do none.
* `NoChangeForgotten`, `ServedInOrder` (refinement of
  RequestQueue), `EveryChangeServed`, `EveryCallAnswered` (queue).
* `SteadyRoleKept`, `ProtectedUntouched`, `PassJustified` (what a pass creates or
  recolours some hash asked for while it read), `QuietPassConverges`,
  `TwoPassesConverge` (the attributes of a created role come with the next pass,
  so one pass is not enough; two always are), `ConvergedStays` (whatever list the
  gateway serves), `EventuallyConverged` (if requests do not cease; role pass).
* `NobodyMissed`, `SteadyGrantKept` (but for a role that the list did not show),
  `GrantJustified`, `QuietPassConverges` (an undisturbed pass ends in step, but for
  what the list did not show or showed with a dead id, or over a role that cannot
  be resolved), `QuietUpdatesExact` (no update of an undisturbed pass takes
  somebody out of step whom the list does not), `EventuallyInStep` (if requests do
  not cease; member pass).
* `ChangesAskedFor` (a change without a request means that a command saw an error
  or died), `KindRespected` (a change made after a check is of a role of the kind
  that was checked), `SIGAnswerTrue`, `RemoveAllEmpties` (chat commands). Each
  says what can still be promised with other commands in between.
* `ListingTrue` (a role the user held throughout is listed, one that is listed he
  held at some time), `ListedByKind` (GetRoles and GetRole read the two flags
  differently and still agree on whole hashes), `FailureExplained`,
  `OnlyStrangersOmitted` (listings).
* `OnlyFillsIn`, `CleanStartAgrees` (after a clean start the two passes agree on
  which roles are synchronised, but for a value of Sync that somebody stored and
  neither pass knows), `EventuallyUpdated` (start-up).

### Bounds, and why they are enough

* `handlers`: two workers, one role, one proper filter and the wildcard, one
  user. A request is overtaken by one other request at a time, and each handler
  reads at most one role and two filters; the two possible AddRoles differ in
  both filters, so a mixture would show. Workers are interchangeable (symmetry;
  the run checks no liveness).
* `queue`: three clients, capacity 2, three changes, two manual requests. The
  channel fills, a handler is parked, its caller gives up, and the thread is in
  any part of a pass meanwhile. The code's capacity is 30; only the difference
  between full and not full matters, and the theorems hold for every capacity.
* `role_sync`: two hashes that can share or exchange a name, two ordinary
  Discord roles and a protected one, two disturbances (`MaxChanges`: a write of
  a handler or a change on Discord), one failing call (`MaxFaults`). Two
  disturbances are what it takes to move a name from one hash to another within
  a pass. The list the gateway serves is refreshed at any time or not for the
  whole pass. The theorems hold for any number.
* `member_sync`: two users, pages of one, and two hashes for one Discord role: at
  first one by a single filter, one by an intersection, or both (`InitialRoles`;
  the hashes are interchangeable), which may be added, get other filters or
  another name, or be switched off; two disturbances and one fault. User 2 is
  on the no-sync list. The list of roles may lack the role of the two hashes
  from the start (`InitialLists`), or fall behind by a change on Discord, which
  also makes dead ids. Pages of one make a join or leave between pages possible
  with two users; two hashes for one name let one grant end while the other
  stands.
* `client`: two commands of any kind at a time, one role that can be a joinable
  SIG, a closed one or an ordinary role, one filter and the wildcard, two users.
  A command is disturbed by one other at a time and concerns one role and one
  filter. Commands and users are interchangeable (symmetry; the run checks no
  liveness). Failures are not bounded.
* `reads`: one reader (listings do not disturb one another), two roles, two
  filters and the wildcard, two users, three writes: enough to remove a role, add
  it again with other filters and change its members within one listing.
* `start`: three roles, each absent or with one of four Sync values, among them
  none and "False", which neither pass knows, two writes of handlers (which may
  store either) and two failures or deaths: a start can be cut short, and so can
  the next.
* Runs that look for a violation use the smallest faults that show it: none at
  all, except one for `member_no_sync`.

`CHECK_DEADLOCK` is on everywhere: no model stops.

### Fairness

* SyncQueue: weak fairness of `syncThread`'s three steps (a goroutine that can
  go on does, and a pass ends because each of its calls does), of each command's
  next call after its change (it goes on or dies) and of answering. Nothing is
  assumed of `TimesOut`, `Restart` or new requests.
* RoleSync, MemberSync: weak fairness of the steps of a pass that has begun
  (`PassStep`: each of its calls returns) and of the gateway's list (it is not
  served unchanged for ever). Nothing is assumed of requests: `Receive` and `Begin`
  are in no fairness condition, since syncThread blocks until somebody asks and
  retries nothing. That requests do not cease is the premise of the convergence
  properties (`[]<><<Receive>>_vars`, `[]<><<Begin>>_vars`). `MaxChanges` and
  `MaxFaults` make the disturbances finite, which is their "once they stop".
* StartUp: weak fairness of start-up's own steps: the service manager starts a
  process that is down, and Go executes it. A serving process need not be
  restarted: `EventuallyUpdated` begins when it is down.

### What the violations show

1. `handlers_zombie`: UpdateRole's HSET after a RemoveRole creates a role hash
   with one field (Roles.go 231), against the requirement of Roles.go 145.
2. `member_no_roles`: `updateMembers` gets a key only inside the loop over the
   roles a user is to have (Roles.go 563), against the comment at 414: the last
   role of a user is never taken away.
3. `member_no_sync`: the error of SISMEMBER is dropped (Roles.go 585), against
   the comment at 583.
4. `member_false`: Sync is compared with different lists of strings in the two
   passes (Roles.go 509 and 731), against CHANGELOG.md 11.
5. `leave_sig`: LeaveSIG does not ask sigAction for the joinable check (sigs.go
   24), against the comment at sigs.go 45.

## 4. What is proved

For every number of workers, clients, roles, filters, users, any capacity, page
size and bounds, from the named assumptions on the constants
(`RoleTableAssumption`, `FaultsAssumption`, `SyncQueueAssumption`,
`RoleSyncAssumption`, `MemberSyncAssumption`, which has finitely many users,
`InitialAssumption`, `RoleClientAssumption`, `RoleReadsAssumption`,
`StartUpAssumption`). Every invariant and every action property of the passing runs is a theorem, and so is
the refinement of the queue. The theorem marked * assumes more, which is said
below the table.

| Module | Theorems | Argument |
|---|---|---|
| RoleHandlersProofs | TypeCorrect, FiltersFromOneRequest, SoundWithoutRaces, HandlersAtomic, HandlersAreTheSurroundings, AtomicApiSound, UnovertakenImplementsApi, OnlyTheseRacesHurt | `IInv` adds `RequestsFit` (a worker's request is of the kind its step serves, and passed the checks without Redis) and `ChecksHold`: what a worker that is not stale has read is what the store holds. A write of another worker to a key it has not read keeps that (lemmas `HoldsBeside...`), a write to one it has read makes it stale. So the write of a worker that is not stale meets the guard of its RoleAPI action, and behaviours in which nobody is ever stale implement RoleAPI, which keeps `Integrity`. For `OnlyTheseRacesHurt` each kind of write is taken by itself, in a store that may be unsound already: a command leaves every role whole and every filter described unless it is an HSET that finds no hash, an SADD that finds no description, or a DEL of a description that finds members; by `ChecksHold` the worker that issues it is stale. |
| SyncQueueProofs | TypeCorrect, ChangesCarried, ServesInOrder | A change is owed while its command is about to ask, while something is queued, or while a pass that began after it runs. The invariants need each other: a parked handler implies a full, hence non-empty, buffer. For the refinement, the queue is the buffer followed by what the parked senders carry: a send appends to it whether it parks or not, and a receive takes its head and moves the first parked request over the boundary, which leaves the rest as it was. |
| RoleSyncProofs | TypeCorrect, SteadyRolesKept, ProtectedNeverTouched, PassesAreJustified, QuietPassesConverge, TwoPassesEnough, ConvergedGuildStays | A steady pair is either still to be read or its name is among what was read; `toDelete` and `toUpdate` contain no protected name once they are set. For convergence `QInv` says, as long as the pass is alone, that what it recorded are hashes of the wanted roles and no wanted role is missed, so that whatever the list it never sets out to create or edit an unwanted role or to delete a wanted one (`AloneSets`, which `ConvergedGuildStays` needs); and, from the comparison on, if the list was current, that the guild's unprotected roles are the wanted ones that need not be added any more and those still to be deleted. So a deletion or an edit never finds its role gone, and the sets are empty when their loops end. For the second pass (`SettledInv`): while `settled`, the unprotected roles of the guild are the wanted ones from its beginning on, so it creates none of them, and the exception that `QuietPassConverges` makes for created roles is empty. For `PassesAreJustified` (`JustInv`), whatever has been read was asked for when it was read, and nothing is left of an earlier pass. |
| MemberSyncProofs | TypeCorrect, NobodyIsMissed, SteadyGrantsKept, GrantsJustified, QuietPassesConverge, QuietUpdatesAreExact, KnownSyncAgrees, BothPassesDeliver | Paging: whoever stayed and has an id the loop has passed is listed, and an empty page means that it has passed all (here the finiteness of the ids is needed). A steady tuple's hash is still to be read, or is being read with the filters and the members that the store holds, or the name is recorded for the user. A user found in a role's filters was entitled at the moment of that read, as the role's Name and Sync are those of the store unless a hash was rewritten. In a quiet pass the three histories are what is true now, so what it has collected for a user when it compares is exactly what he is entitled to (`QuietCollected`), and what it sends for him is that (`QuietRoleIds`). Such a pass gives up only over a role that cannot be resolved (`FailInv`): the roles it has yet to read exist, and when it looks for a description the filters it holds are those of a stored role that is to be synchronised. What the list did to a pass is in `unlisted` and `deadIds`: a name that is a role of the guild and in neither has a live id in the name map (`PassInv`), so UpdateMember leaves exactly the roles the list showed. `KnownSyncAgrees` and `BothPassesDeliver` say where the finding of `member_false` ends, for any strings in Sync: the two readings differ only on the values that neither names; the second joins the two passes, on a guild that has what `QuietPassesConverge` of RoleSyncProofs says a role pass leaves. |
| RoleClientProofs | TypeCorrect, ChangesGetAskedFor, RemoveAllLeavesNone, SIGAnswersAreTrue, KindsAreRespected, CommandsKeepIntegrity | While a command is quiet, nobody else has written since it read: what it knows of its role (kind, joinable, filter) is what is stored, until its own change, after which the user is in the filter or out of it. The change of one command ends the quiet of all the others. `CommandsKeepIntegrity` is what atomic RPCs are worth to the commands: each change is one step of RoleAPI, or a loop of its additions or removals cut short, and both keep `Integrity`. |
| RoleReadsProofs | TypeCorrect, ListingsTrue, FailuresExplained, StrangersOmitted, RolesListedByKind* | What is in `kept` stands now, and what getRoleMembership has read of such a role still is its filters; so the members it asks for are those who hold the role, and a role held throughout is to be read, being read, or shown. |
| StartUpProofs | TypeCorrect, StartUpOnlyFillsIn, CleanStartsAgree | Between updateSchema's read and its write nobody else writes (the service does not serve yet), so the role it fills in still has no Sync; in a clean start every role without Sync is still to be read or being written. |
| RoleTableProofs | lemmas only | What a command of the handlers leaves in the table is a hash. |

`RolesListedByKind` (*) also assumes that the requests that add roles fill in the
flags, as `structs.Map` of a protobuf message does.

The properties themselves are not inductive: `SoundUnlessRaced`, for instance,
says nothing of what a worker is about to write, so `IInv` has to; a quiet pass
converges only because of what it knew three loops earlier.

Only model-checked: liveness (`EveryChangeServed`, `EveryCallAnswered`,
`EventuallyConverged`, `EventuallyInStep`, `EventuallyUpdated`), which is out of
reach of the proof system's installed back ends. `TwoPassesConverge` and
`ConvergedStays` are its safety part for the role pass, and they are proved: what
is left to fairness is that two passes go by undisturbed.

## 5. What is not modelled

* The composition of all parts in one model. The modules meet at interfaces that
  are checked on both sides: RoleHandlers implements RoleAPI as far as it does,
  RoleClient uses RoleAPI; the passes see any `RegistryWrite`, in any order, and
  the handlers make no other change (HandlersAreTheSurroundings); SyncQueue says that passes follow changes. The product of two passes of
  a dozen steps each with concurrent handlers is beyond TLC on any instance in
  which they interact.
* Of the read-only RPCs GetRoleKeys and GetRoleTypes (constants) and
  GetDiscordUser (one look-up); of the commands RoleInfo, which prints a role.
* Conversions: integer widths (GetRole parses 32 bits and clamps, syncRoles 64)
  and spellings of booleans; `ParseInt` only as "a number or zero".
* The syntax of Redis keys (a ShortName with a colon), and `Name` collisions
  beyond two hashes for one Discord role.
* Messages to the chat channel, logging, metrics; generated RPC code; the unused
  SQL schema.
* The gateway, Discord and the permission service are external: they are
  modelled by what this code can see of them.

## 6. Plan

Done, in this order: RoleTable, Registry, RoleAPI, RoleHandlers, SyncQueue,
RoleSync and MemberSync as the core; then RoleClient, RoleReads and StartUp; and
the proofs of section 4. What is left:

1. The syntax of keys: what the listings say of roles whose ShortName has a
   colon.
2. The numeric conversions of GetRole against those of syncRoles, as operators
   over bounded words.
3. A coarse composition: commands as RoleAPI steps, SyncQueue, and one abstract
   pass for each of the two, with the theorems of section 4 as the reason why
   that pass may be taken for the detailed one.
