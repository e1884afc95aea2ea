# A TLA+ specification of gateway-lite

gateway-lite is the self-hosted rendezvous server of OpenP2P: nodes keep a websocket
session with it, and it tells them about each other, passes their connection requests on,
finds relays, and manages virtual (SDWAN) networks that users configure over a web API.
This directory holds TLA+ modules that model its concurrent parts, configurations that
check them with TLC on small instances, and proofs checked by TLAPS. File and line
references are to the repository's `src/`.

## 1. The system

Everything runs in one process. Its goroutines:

- for each connection, the goroutine of the login request (`handleLogin`), which registers
  the session and starts `readLoop` and `writeLoop` (`wssession.go`);
- 16 message workers (`msghandler.go`), which take messages from `MsgQueue` and run the
  handler of the message's type to its end;
- 16 `notifyLoop`s (`notify.go`), which tell every session that a node has come online;
- a goroutine per web request (`web.go`, `webmgmt.go`);
- UDP and TCP servers for NAT detection, and the log's rotation.

| component | state | operations | interacts through |
|---|---|---|---|
| session registry (`sessionMgr`) | `allSessions`, `allSessionsMtx` | enter at login, look up, remove at teardown | every handler looks sessions up in it |
| websocket session (`wssSession`) | `running`, `writeCh`, `rspCh`, where its two loops are | login, read, enqueue, write, teardown | `MsgQueue`, `writeCh` (10 messages), registry |
| dispatch and workers | `MsgQueue` (1000) | one handler call per message | sessions' `writeCh`, `rspCh`, `onlineNodes`, store |
| online notification | `onlineNodes` (100000) | `PushNotifyChan`, `dealOne` | registry lock, every `writeCh` |
| push permissions | `pushPermission` (a `sync.Map`) | grant, check, expire, delete at teardown | push and query handlers, `readLoop` |
| device requests | `rspCh` of a session (10) | `listApps`, `getDeviceLog`, report handler | session, workers |
| login guard | `records` under a mutex | `allowed`, `onFailure`, `onSuccess`, `gcLocked` | `webLogin` |
| virtual networks | `gStore.data.Networks`, `gateway-data.json` | save, delete, add / update / remove member, refresh, answer | store's mutex, sessions, workers |
| users and devices | `gStore.data.Users`, `.Devices` | register, profile, upsert, rename | login, report handler, web |
| relay selection | `relayTime`, `failNodes` of sessions | choose the most idle node | registry's read lock |
| NAT detection, protocol, log, helpers, web pages | none that others depend on | | |

What is hard here: goroutines that share a session through an unsynchronised flag and a
bounded channel that is closed under their feet; locks kept over channel sends; lookups
used after the lock is released; web requests and workers that change the same network
through a pointer; answers without a request id; timeouts; a crash or an error between the
change of the store and its file. `PROJECT.json` lists each of these hazards at its line,
with the properties that would catch it.

What makes each component correct:

- registry: a lookup returns a live session of that node; the end of an old session leaves
  the new one alone;
- session: a teardown completes; nobody starts a send on a closed channel; writers are not
  stuck for ever behind each other (but for the stall of section 3);
- notification: a broadcast reaches the sessions that are in the map; announcing never
  blocks a worker;
- permissions: no push on an expired permission; both ends of a granted request may push
  from the moment it is forwarded until the permission expires;
- device requests: a request that meets no other traffic gets its own answer or none; a
  full `rspCh` has a reason;
- login guard: a lock lasts, guessing is bounded, and every key is throttled as if it had a
  record of its own that nobody resets or collects;
- networks: a saved change survives a restart; every member hears of every change and ends
  with the latest state; a node is a member once; an allocated address is the next free one
  and no other member's;
- users and devices: a name is registered once; what has been saved is not lost; a listing
  leaves no device of its user out;
- relay: the node chosen can relay between the two, and is the most idle one.

## 2. The modules

| module | models | composes |
|---|---|---|
| `SessionRegistry` | what the registry promises: `Login` and `Logout` as atomic changes of the map | |
| `Session` | connections, loops, workers, notifiers, web pushes, the registry's lock | implements `SessionRegistry` (`RefinesRegistry`) |
| `SessionProofs` | proofs about `Session` | `Session` |
| `LoginPolicy` | what the login guard promises for each key: count, lock, forget | |
| `LoginGuard` | `loginGuard` and `webLogin` | implements `LoginPolicy` (`RefinesPolicy`) |
| `LoginGuardProofs` | proofs about `LoginGuard` | `LoginGuard` |
| `PushPermission` | the permission cache | `SessionRegistry` in place of the goroutines |
| `DeviceQuery` | web requests that wait on a session's `rspCh` | |
| `Networks` | virtual networks: handlers, store, file, refreshes, answers | |
| `Store` | users and device records: registration, profiles, login, reports, renames, listings, file, restart | `SessionRegistry` in place of the goroutines |
| `Addresses` | `incIP` and `allocVirtualIP` with bytes | |
| `PushPermissionProofs`, `DeviceQueryProofs`, `NetworksProofs`, `StoreProofs` | proofs about the module of that name | that module |
| `Relay` | the loop of `relayHandler` that chooses a node | |
| `Algorithms` | one input at a time for `Addresses` and `Relay`, and what the result is to be | `Addresses`, `Relay` |
| `AlgorithmsProofs` | proofs about what `incIP`, `allocVirtualIP` and the loop of `relayHandler` compute | `Algorithms` |
| `NatRecursion` | induction and recursion over the natural numbers, for the proofs | |
| `MCSession`, `MCLoginGuard`, `MCPushPermission`, `MCDeviceQuery`, `MCNetworks`, `MCStore`, `MCAlgorithms` | instances for TLC | |

`PROJECT.json` maps each definition to the lines it stands for. Operators whose comment
begins with "Mutant:" are plausible bugs in those lines; substituted for the definition
they vary, each makes a property fail. No specification uses them.

### Session

A session is an element of `Sess`; `login`, `rl` and `wl` say where `handleLogin`,
`readLoop` and `writeLoop` are. A step is one channel operation, one acquisition of the
lock, or one access to `running`. A critical section that only touches the map is one step
that waits for `LockFree`; `dealOne` and `relayHandler` keep the lock over several steps
(`lockW`, `lockR`). Every goroutine that writes to sessions is a `Writer`, with a stage and
the list `todo` of sessions it has still to write to; `wssSession.write` is `WriteTest`
(the flag is read) and `WriteSend` (the channel has room), and `SendPanics` or
`SendRecovered` when the channel was closed in between: gin's recovery catches the panic
of a login or a web handler, nothing catches that of a worker or a `notifyLoop`, which ends
the process (`panicked`). What a client's message asks for is chosen when a worker takes
it, among what the constant `Sent` lets the clients send; they may send for ever. A handler
is modelled by what it looks up, locks, waits for and writes.

Abstractions, and why they are safe for the properties stated:

- `running` is an unsynchronised bool. It is modelled as if every goroutine saw the write
  at once. The Go memory model promises less; the models say what holds on hardware and
  compilers that do not delay the write without bound.
- An RWMutex that a writer waits for lets no new reader in. That is part of the strong
  fairness of the lock steps and not modelled otherwise.
- `rspCh` is module `DeviceQuery`'s. Here, a worker with an answer for a web request
  (`HandleAnswer`) may wait there for any time, for ever included.
- The bodies of messages, and the connection itself (`conn`), are not modelled: a read
  returns or fails at any time. Messages are assumed to have a header, and frames that are
  not binary, which `readLoop` ignores, are left out. The UDP servers, which put messages
  into the same queue, are left out too.
- `editNode`'s rename of a device record is left to `Store`: here `devices` says whether a
  node's record has been stored, and `OfflineListed` is about the order of login and
  teardown.

### LoginGuard

`allowed`, `onFailure` and `onSuccess` hold the mutex and are one step each; between the
first and the others a request is in flight (`key[r]`), while other requests and the clock
move on. The clock counts units; the zero `time.Time` is 0 and the clock starts at 1, so
that "never locked" is in the past. `failures` is a history variable: the times of the
failures of a key since its last lock or success. It does not forget what the garbage
collection drops. `LoginPolicy` has no table of records: each key has a count, a window and
a lock, and what is over is forgotten when its time comes. `LoginGuard` maps to it what is
not stale and not unlocked (`countOf`, `startOf`, `tillOf`).

### PushPermission

The entry of a node is its expiry time; 0 is "no entry". A connect request or a query
stores two entries in two steps (`StoreFrom`, `StoreTo`); a checked push loads, compares
and deletes in three. `Revoke` is `pushPermission.Delete` at the end of `readLoop`, after
the session has left the map. Logins and logouts are those of `SessionRegistry`, which
`Session` is proved to implement. A push names its sender in its header (`From`), the check
and the grant are keyed by that name, and the code nowhere compares it with the session the
push came over (`pushhandler.go:38`, `:70`, `:78`); so `Receive` takes any node for it, and
the properties speak of the node that is named, whoever sent the message. A query's sender is
its session's node. `lastGrant`, `promised`, `ends` and `due` are history variables: the last
grant of a node, until when a forwarded request lets it push, and for each worker the nodes
its message is about and the time until which it lets them push or, of a push, until which
its sender was let.

### DeviceQuery

One session. An answer is represented by the request it answers; the device (external)
answers in order, late, or not at all, and sends reports unasked or a second time
(`DeviceReports`): `reportHandler` puts any report of the three types into `rspCh`, and
nobody in the gateway requests a `MsgReportQuery`. Each worker carries one report, so that
reports can overtake each other. `alone` and `unasked` are history variables: the request
that has met no other traffic, and the number of unasked reports. The session stays up; what
a teardown does to it is module `Session`'s.

### Networks

The network's object is shared: a handler that has looked it up reads and writes it after
the store's lock is released. An addition looks for the name among the members (`Scan`),
allocates an address (`Allocate`), reads the slice (`ReadMembers`) and assigns it (`Change`) in
steps of their own; a slice header is read or written as a whole (a
torn read, which Go's memory model allows, is left out). `Store.save` marshals under the
lock (`Save`) and renames (`Rename`), each may fail; marshalling is one step although other
handlers may write to what it reads. The fields of a network's configuration are written
in one step. The members of a change are refreshed in any order (the code takes the
slice's), and one who is in the slice twice once. Nodes are online; a node that is pushed a refresh asks for its network, and a
worker answers it (`FindNetwork`, `BuildInfo`, `Reply`). After `Restart` the nodes have
connected and asked. One user is modelled, since a network of another user is "not found";
the resource and enable flags of a member are not tracked (every member is enabled).
`Address` takes the first free address, which is what `allocVirtualIP` finds by `AllocFirstFree`
of `Algorithms`. `told`, `crossed`, `saved`, `raced` and `wished` are history variables: who
has been refreshed since the last change, whose requests two workers answered at a time,
whether the latest save succeeded, which networks had two requests edit their members at a
time, and the members whose address a user asked for.

### Store

Each operation of the store holds its lock, and saves before it releases it: one step. The
steps between which other requests run are the two of a registration (`RegisterTest`,
`AddUser`), the entry in the map and the record of a login (`Login`, `PersistDevice`), the
arrival and the handling of a report, and the two readings of a listing (`ListOnline`,
`ListStored`). A save may fail without a trace (`Save`). `Start` is a restart at any point:
the file is loaded, or cannot be read and counts as none, and `ensureUser` gives the
built-in user the password of the environment, which may have changed. A user is its
password (one that `checkPasswordStrength` accepts), a record its name, user and Addtime;
the other fields are copied from the session. `created` numbers the records, so that two
Addtimes are equal only if one was taken from the other. `granted`, `known` and `expected`
are history variables: the registrations that succeeded, who has used which name, and what
a listing that is under way has to name.

Left out: which user a token means when two users have the same one (`Login` takes any
user), and a rename while a listing reads records it has already got from the store, which
it does without the lock.

### Addresses, Relay, Algorithms

`IncIP` and `AllocVirtualIP` work on four bytes of `Base` values (256 in the code) and
compute what the loops do; a subnet is its gateway's address and its size, which is what
package net makes of the text. `RelayNode` applies `Visit`, one iteration of the loop, to
the sessions in the order the map yields them. `relayTime` is written by workers that hold
the lock for reading only; a `time.Time` is several words, so a reading that meets a write
may find anything (`Torn`). `Algorithms` has one step, the choice of an input, and compares
the result with what it is to be.

## 3. What the runs check

| run | instance | states | shows |
|---|---|---|---|
| `SessionReconnect` | 2 sessions of one node, 1 worker, 1 notifier; the first session reports for ever | 3.74 M | `TypeOK`, `LookupsLive`, `OfflineListed`, `BroadcastTargetsMapped`, `RefinesRegistry`, `NoLateSender`: a reconnection while the old session is torn down |
| `SessionNotify` | 1 session that sends for every handler, 2 workers, 1 notifier, 1 web handler, `ChanSize` 2, `Slack` 1 | 5.74 M | `NotifyNeverBlocks`: both workers between test and send, the channel at its limit; `NoCircularWait`: full channels under the lock, before the loops run and after writeLoop has ended |
| `SessionLive` | sessions of 2 nodes that have logged in, the second reports for ever; 1 worker, 1 notifier, all channels of capacity 1 | 274 k | `TeardownCompletes`, `OnlyCloggedStalls` under `LoopFairness` |
| `LoginGuard` | 2 keys, 2 requests, 3 failures lock, window and lock 2, time 7, `RecordsMaxKeep` 0 | 1.0 M | `TypeOK`, `BoundedGuessing`, `LockLasts`, `RefinesPolicy` |
| `PushPermission` | 2 nodes, 3 sessions, 2 workers, `TTL` 1, time 2 | 4.2 M | `TypeOK`, `ExpiryEnforced`, `AnswerPasses` |
| `DeviceQuery` | 2 `listApps`, 2 `getDeviceLog`, 2 workers, 3 unasked reports, `RspCap` 2 | 1.58 M | `TypeOK`, `OwnAnswer`, `BlockedByLeftovers` |
| `Store` | 2 users (one built in), 2 passwords, 2 names, 2 sessions of one name, 2 requests, 2 records created, 1 restart | 1.8 M | `TypeOK`, `RegisteredOnce`, `SavedKept`, `ListingComplete` |
| `Algorithms` | 6 gateways, 7 subnet sizes, up to 256 members, bytes of 4 values; up to 3 other sessions of 10 kinds in any order, one concurrent write | 312 k | `AllocFirstFree`, `RelayFits`, `RelayIdlest` |
| `Networks` | 2 networks, 2 nodes, 2 handlers, 2 workers, 2 requests, 1 crash | 3.1 M | `TypeOK`, `Persisted`, `MembersTold`, `ViewCurrent`, `MembersDistinct` |

What some of them say, and what they do not:

- A session whose writeLoop has ended at a failed write (`wssession.go:179`) and whose peer
  keeps sending is not torn down: each message renews the read deadline (`wssession.go:186`).
  Its `writeCh` stays full, and `dealOne` or `relayHandler` may wait there with the lock for
  ever; then no login, lookup or teardown gets on. `TeardownCompletes` and
  `OnlyCloggedStalls` exempt this case (`Clogged`) and no other: without the exemption both
  are false in the instance, with it they show that the lock, the channels and the loops of
  several sessions keep each other waiting for ever in no other way. The instance has a
  clogged session of one node and the teardown of the other.
- `AnswerPasses` does not say who pushes: a client that names a permitted node as its sender
  is let through like that node.
- `BlockedByLeftovers` gives the reasons why a worker waits at a full `rspCh`; that a device
  can bring it about alone, by reports nobody asked for, is one of them.
- `MembersTold` is about current members: one who was lost to an overlapping assignment of
  the members is not told. `SavedKept` is silent on a start that cannot read the file, after
  which what was saved is gone (`store.go:92`).

Three runs end in a violation, each of what a comment of the repository says:

- `DeviceQueryDrain`: `web.go:320` drains "any stale response", and takes at most one.
- `PushPermissionKept`: `pushhandler.go:69` caches a permission for 60 s; the end of a
  replaced session deletes the permission of its node's new session, and a check that saw
  an expired entry deletes one that has been granted since.
- `NetworksAlloc`: `allocVirtualIP` "picks the next free virtual ip" (`store.go:292`); two
  members added at a time can be given the same one. `MembersDistinct` says what does hold:
  without two edits at a time, allocated addresses are distinct whatever else overlaps.

Three more differences between text and code, which no run shows:

- `loginsecurity.go:12` and `USAGE-GATEWAY-ZH.md:317` promise a lock after five consecutive
  failures in ten minutes. The window is fixed, not sliding: failures at the end of one
  window and at the start of the next are counted apart. `BoundedGuessing` states the bound
  that does hold, and is proved.
- After a refresh, members hold "the latest SDWAN config" (`webmgmt.go:274`); two workers
  that answer one node can write in the wrong order. `ViewCurrent` exempts such answers
  (`crossed`).
- `store.go:312` says that `Contains` skips "broadcast-ish boundaries"; the broadcast address
  is in the subnet and is given out when all others are taken. Whether that is meant is left
  open: `AllocFirstFree` asks for the first free address other than it, and lets the result
  be the broadcast address or none when no other is free.

### Bounds

Each bound is a constant: `MaxTime`, `MaxOps`, `MaxCrashes`, `MaxCreated`, `MaxStarts`,
`MaxUnasked` and the capacities; `Session` has no bound but its constants, and `Sent` says
which messages come.
Two sessions of one node give every interleaving of a reconnection, and properties of the
map relate sessions of one node only; a second node, without a session, is there as an
absent target of lookups. A channel of capacity 1 is full and empty within two steps, as
one of 10 is within eleven; the code treats capacities alike. `Slack` 1 and two workers are
the largest number of workers that the slack allows for, as `Slack` 100 would allow for
101 of which the code has 16. Three failures instead of five leave room for a window that
ends between failures, two windows and a lock that ends within time 7. With `TTL` 1, time 2
has a grant, its last instant and the first one after it; three unasked reports fill an
`rspCh` of two and keep a worker waiting. `SessionLive` starts when both sessions have logged
in (`LoggedIn`), which every behaviour in question comes through: logins are `SessionReconnect`'s
and `SessionNotify`'s. Two overlapping
handlers and one crash show each pair of steps of the network code in each order.
In `Store`, two requests overlap in each of their steps, two sessions of one name are an old
and a new connection, the second name is the target of renames, and the second record
created is one after a rename or a loss; a restart at any point shows every state of memory
and file. In `Algorithms`, `MaxTries` is `Base` cubed as 2^24 is of 256; the gateways lie at
and around the ends of one, two and all bytes, and the relay times around the 30 minutes;
three other sessions are the best one so far, a better one and one after the loop is left.
`SessionReconnect` has one session node because a broadcast to sessions of two nodes
multiplies the states beyond use; `BroadcastTargetsMapped` is proved for all instances.

Runs switch the deadlock check off because the models stop at their bounds (clock at its
end, all requests made), a process that has panicked does not move, and a session that has
ended does not return.

### Fairness

`LoopFairness` and `LoginFairness` of `Session` assume what the Go runtime and the code
provide: goroutines that can move do (weak fairness); waiters for a channel or for
`allSessionsMtx` are served in the order they came, so that a step that is possible again and
again is taken (strong fairness for read loops, writers and the login routine once it is
accepted). `TakeWork` is fair for workers and notifiers together. Nothing is assumed of a
read: it may succeed for ever, since each message renews the deadline, and a silent peer's
deadline is not needed by any property. Two things are not given by the code: that
`conn.WriteMessage` returns (`WriteLoopWrite`; there is no write deadline), which is assumed
and named as an assumption, and that `rspCh` has room, which is not assumed. Nothing obliges
clients to send, or users to make requests.

## 4. What is proved

For every value of the constants that satisfies `SessionAssumption` and `SlackAssumption`
(sessions, nodes, workers and other goroutines of any number, any capacity), module
`SessionProofs` proves

- `TypeCorrect`: `TypeOK`, with `WorkOK` (a worker that works has a message, a committed
  sender has a session to send to), without which types are not inductive;
- `LookupsAreLive`, `OfflineAreListed`, `RegistryRefined`: from the inductive invariant
  `CoreInv`. `PhaseOK` ties the two flags and the two loops to the login: the loops run
  from the end of the login on, `running` is cleared before the channel is closed, which is
  closed before the map is left. `MapOK` says an entry is a registered session of that node
  that has not been torn down, and `DeviceOK` that the record is stored before the loops
  run. The refinement maps each step of `Session` to `Login`, `Logout` or a stutter; the
  teardown of a replaced session is a `Logout` that leaves the map alone;
- `NoLateSenders`: from `PhaseOK`, since a goroutine commits to a send only when it sees
  `running`, which a closed channel excludes;
- `BroadcastsReachMapped`: by `LockInv`, since while a notifier holds the lock no login or
  teardown changes the map, and its list only shrinks;
- `NotifySendsAtOnce`: by counting: names in the channel plus workers between test and send
  never exceed `ChanSize - Slack - 1` plus the number of workers (`NotifyInv`);
- `WaitingIsNotCircular`: the safety part of `OnlyCloggedStalls`. By `WaitInv`, whoever
  holds the lock is at a write (`HoldOK`), and what it writes to is a session that is at
  least in the map (`TargetsOK`): its loops run or are about to (`LoopsOK`), and as long as
  its channel is open it has a readLoop (`PhaseOK`). So a full channel is emptied or closed
  by a goroutine that can move, unless writeLoop has ended and readLoop waits for room in
  `MsgQueue` (`Jammed`). A readLoop in a read counts as able to move; that the read may never
  fail is what `Clogged` is about.

`LoginGuardProofs` proves, for every set of keys and requests and every limit of at least
two failures: `GuardTypeCorrect`, `LocksLast`, `PolicyRefined` and `GuessingIsBounded`.
`PolicyRefined` shows that each step maps to one of `LoginPolicy` or a stutter: a failure finds
the count of its key as the policy has it, whatever `allowed` has reset and the collection has
dropped, because both touch only what counts for nothing (`Dated`: a record's window began and
its lock ends at possible times; `FailureRefined`, `PolicyStep`). `GuessingIsBounded` is proved by
an invariant (`GuessInv`) that places the history of a key in its windows: all but the
last `fails` failures are no later than the start of the current window, all but
`MaxFails - 1` more are out of reach of it, and when the window is over or the record gone,
weaker facts of the same kind still hold (`Counted`, `Spaced`, `Aged`, `Forgotten`).

`AlgorithmsProofs` proves what the algorithms compute. `IncIPCounts`: for any number of
values of a byte, `incIP` adds one to the number an address writes, and wraps only at the
last of all addresses. The proof goes byte by byte: `AppendByte` says what adding one to a
number does to its last byte and the rest. `AllocFindsFirstFree`, and by it
`FirstFreeAllocated`: the search of `allocVirtualIP` returns the free address nearest to the
network address, or none if there is none within its reach: `Search` unfolds the loop one
turn at a time, `Block` says which addresses the subnet has, and the proof goes by induction
over the turns that are left; `LeastIs` picks the least of the free addresses but the last.
`RelayIsFit` and `RelayIsIdlest`: after each iteration of the loop of
`relayHandler` the best session so far is a usable one among those visited and no usable
visited one was idle for longer, unless another worker writes to the times (`RelayLoop`,
`RelayFound`). They assume what the code is used with: `AddressesAssumption` (the search is
shorter than a turn around all addresses: 2^24 of 2^32), `InputsAssumption` (the size of a
subnet divides the number of all addresses, as every power of two up to it does) and
`RelayAssumption` (nil is no session).

`NatRecursion` is how loops are reasoned about. The library states induction for an operator,
which no installed prover can instantiate; here it is stated for a set of numbers
(`Induction`) and proved from the well-foundedness of `<`, and so is, for a step given as a
function, that a recursively defined function exists (`Recursion`), without which nothing
is known of a `CHOOSE`n one.

`PushPermissionProofs` proves, for any nodes, sessions, workers and `TTL`, a push naming any
node as its sender: `PermissionTypeCorrect`; `ExpiredAreDenied`, since a loaded expiry time is
never later than the last grant plus `TTL`, whatever replaces the entry between the load and
the comparison; and `AnswersPass`, from an invariant that relates entries to promises: the
entry of a node lasts at least as long as any forwarded request has promised it, so does what
a worker has loaded for a push that came in under that promise, and a worker that has stored
its grants has entries that last as long as its message is to let the ends push, unless they
were deleted.

`DeviceQueryProofs` proves, for any requests, workers, unasked reports and capacity:
`QueryTypeCorrect`; `BlockedOnlyByLeftovers` by counting (`CountOK`: requests and reports on
their way, at workers and in `rspCh` are no more than the requests that wait or have timed out
and the unasked reports together); `AnswersAreOwn` from `AloneOK`, which says where a request's
answer can be while it meets no other traffic.

`NetworksProofs` proves, for any networks, nodes, handlers, workers, requests, crashes and
first files: `SavedNetworksPersist`, `MembersAreTold`, `ViewsAreCurrent`, `NetworksTypes` and
`MembersAreDistinct`.
The first rests
on `BufOK`: what the holder of the store's lock has marshalled agrees with the memory except
where another handler has changed a network and waits for the lock, so that the rename
makes the file agree as well. The second is nearly inductive itself (`ToldOK`). The third
says of an answer on its way what is to be shown of one that has arrived (`ViewOK`,
`Pending`): one that is still to be built will be of the latest state, and `HandlerTells`
shows that a handler changes a network's answer only while it is bound to refresh the
member. Up to here the proofs need of a list of members its names only. The types
(`Typed`) are inductive once a request is known to have what its next step uses (`RequestOK`:
its network, the name of a member, and a new member's address, which is 0 only until one is
allocated), and `Without` to yield members (`WithoutType`, by induction over the loop). With the types,
`MembersAreDistinct` follows from two invariants. `EditOK`: a handler that edits the members
of a network nobody else edits still knows what it has read: the node it adds and the address
it has allocated are not among the members, and the list it will assign is the current one.
`ListsOK`: the lists in memory, in the file and in what a save has marshalled are all
distinct, as any of them can be the one in memory after a rename and a restart. An address
that was asked for needs its object remembered (`wished`), since a later update changes it
through the object.

`StoreProofs` proves, for any users, names, sessions, requests and restarts:
`StoreTypeCorrect`; `NameRegisteredOnce`, since `addUser` tests again under the lock
(`GrantedOK`: a registration that has succeeded is its user's only one, and the record is its);
`SavedIsKept`, an action property of memory and file proved one operation at a time, the
file's part from one fact about every save (`FileFollows`); and
`ListingsAreComplete`, from `KnownOK` (a device that has logged in has a record, or a session
whose login is about to store one) and `ListingOK` (what a listing has to name it has seen
online, or the store has a record of).

Only model-checked: the liveness properties `TeardownCompletes` and `OnlyCloggedStalls`,
since the provers reason neither about fairness nor about `ENABLED`; of what they say,
`WaitingIsNotCircular` and `LookupsAreLive` prove the safety part. Every other property of a
passing run is a theorem. The three runs that end in a violation have no theorem, of course.

## 5. Not modelled

- NAT detection (`nathandler.go`, `udpsession.go`, `tcpserver.go`): servers that answer with
  the address a datagram or connection comes from, and keep nothing.
- JWT checking, CORS and the embedded page: library calls without state. `getProfile` and
  `listNetworks` only read.
- Wire format and constants (`protocol.go`, `errorcode.go`): the models keep the kinds of
  messages.
- Log files (`log.go`): output only.
- `common.go`: hashing, version comparison, padding, encryption and network probing, pure
  functions that the server hardly uses; `checkPasswordStrength` is a predicate on a
  password's characters.
- `connectResult` and `failNodes`: they only feed log lines.
- IPv6 subnets and texts that are no subnet, which `allocVirtualIP` answers with an error.

## 6. Plan

1. Done: all modules of section 2, with their runs and proofs.
2. `Networks` with the enable flags of members and more than one user; `Store` with the
   tokens of users.
