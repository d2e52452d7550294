# Specifications of QtSssShttps

TLA+ models of QtSssShttps, an HTTPS server and ZeroConf publisher written on
Qt, with TLC configurations that check them on small instances and TLAPS proofs
about them for every value of their constants.

## 1. The system

The program is one process with one Qt event loop. `main.cpp` creates the
singleton `AppController`, which reads the settings, loads one module object per
enabled configuration file, initialises and starts the modules in order, and
stops and kills them in reverse order. Modules talk through a bus
(`AppController::onBusMessage`), and through signals relayed to the ZeroConf
module. Nothing runs in a second thread; what makes the program hard is
re-entrance: a signal is a call, so a handler may delete the object whose method
called it.

| component | state it keeps | operations | what makes it correct |
|---|---|---|---|
| `AppController` | the list of modules, their objects, the settings | run, loadModules, initModules, startModules, stopModules, killModules, onBusMessage, quit | a module is initialised before it is started and stopped before it is killed; UIDs are unique; a message reaches its targets and nobody else |
| `ModuleBase`, `ModuleAppControl` | `pMC`, `bActive`, exposed commands | init, start, stop, die, executeBusCommand, onBusMessage | an accepted command gets one answer; commands toggle what they name |
| `ModuleHTTPSserver`, `MHTTPSShandler*` | `apHandlers`, `asMethods`; per request `ubHandlerIndex`, `bRewritesDone`, `sTarget` | initHandlers, onAppendHandler, initMethods, onRequest, onNextHandler, handle | one answer per request, from the first handler that wants it, on the path the rewriters made |
| `WWWSserver`, `WWWSsession`, `WWWSrequest`, `WWWSresponse` | `apSessions`, pending connections, `pRequest`, `iTimer`, `iCount`, the socket | incomingConnection, onReadyRead, ignore, startSending, timerEvent, onDisconnected, start, stop | no more sessions than allowed, no slot lost, nothing runs on a deleted object, answers go out in order and whole |
| `ModuleZeroConfig`, `ZeroConfHelpers` | `apDescriptors`, `apServices` | onAdd/onRemoveServiceDescriptor(s), onStart/onStopZeroConfServices, start, stop | what is published is what is registered and started, once each |
| `ModuleConf`, `PersistantObject` | a JSON object, `bChanged`, `bOK` | load, set*, save | a change is saved, an unreadable file is not overwritten |
| `AppSettings` | a settings file, the list of `ModuleConf` | init, get, set, sync, readModules | a setting read is the one last written, or its default |
| `WSSserver`, `WSSsession`, `WSSclient` | `apSessions` | onNewConnection, onSocketDisconnected, start, stop | as for the HTTPS server: cap, no lost slot |
| `QZeroConf` (`avahicore.cpp`, `avahiclient.cpp`, `bonjour.cpp`) | services found, one published | startServicePublish, startBrowser, stopBrowser, callbacks | the list is what is on the network |
| Avahi's core (`avahi-core`): publishing | entries, groups, announcers, interfaces, the host's name | add, commit, reset, update, probe, announce, goodbye, conflict | nothing unique is served before it was probed for, and what was said is taken back |
| ... looking up | cache, queriers, query jobs, lookups, record browsers | receive, expire, ask, follow, restart, free | a browser was told what the cache holds, and asks before it expires |
| ... answering | jobs, history, suppressed answers, probes | post, suppress, elapse, goodbye | who asked gets an answer, with all it refers to |
| ... clients | resolvers and browsers for services, hosts, addresses, DNS servers, domains, types; wide-area lookups | new, records told and taken back, time-outs, free | an answer is held as long as its records are there |
| ... event loop | watches, timeouts, the heap of time events | new, update, free, poll, run | no wake-up lost, events in order |
| Bonjour's client library (`dnssd_clientstub.c`) | operations, shared connections, replies | new, process result, deallocate, add and remove records | a reply reaches its operation or nobody |

Hard behaviours: a socket that disconnects at once or later (section 3.1);
several requests on one connection, each answered over several timer events; a
limit that is only ever approached (pending connections); handlers that
re-enter the module that called them; descriptors that are removed while their
services are published; a settings file truncated before it is written; and in
the ZeroConf libraries timers that race packets, answers that make others
unnecessary, callbacks that free what called them, interfaces that go and come
back, and an event loop on a second thread.
`PROJECT.json` lists forty of them under "hazards", at their lines; those it does not
list are in section 8.

What is built depends on the system (`qtzeroconf.pri`): `avahicore.cpp` with the
vendored Avahi on Android, `bonjour.cpp` on Windows, macOS and iOS (with the
vendored client library on Windows), and `avahiclient.cpp` with the system's Avahi on
other Linux systems.

## 2. The plan

Most important behaviour first; 1 to 14 are written, 15 to 17 are left.

1. `WWWSserver`, with `ConnectionPool` as its abstract specification.
2. `HandlerChain`: what a request's answer is.
3. `ModuleZeroConfig`: descriptors, service objects and publication.
4. `AppController`: module life cycle and bus, composed with 3.
5. `Configuration`: configuration files, changes, crashes between truncate and write.
6. `WSSserver`: a second implementation of `ConnectionPool`.
7. `AvahiServer`: publishing.
8. `RecordLookup`: the record browser and all beneath it.
9. `MdnsTraffic`: answers and probes of one interface.
10. `ServiceClient`: QZeroConf's list of services, on what 8 shows of a record browser.
11. `DaemonClient`, `BonjourBrowser`: the same on the Bonjour daemon.
12. `PrioQueue`, `TimeEventQueue`, `SimplePoll`: time events and the event loop.
13. `NameClients`: the other users of record browsers.
14. `WideArea`: lookups by ordinary DNS.
15. (left) `WWWSresponse`: one response in detail - header, Content-Length and what
    is written, the widths of `int`, and sequential files.
16. (left) `avahiclient.cpp`: QZeroConf on the Avahi daemon.
17. (left) Avahi's packets (`dns.c`): names compressed and read again.

No safety property of a passing run is left to prove (section 6).

## 3. The modules

For each component there is a module of its name, `MC<module>.tla` with the
values TLC needs, one configuration per run, and, where theorems are proved,
`<module>_proofs.tla`; those of `Configuration` and `WSSserver` are in
`Module_proofs`, that of `HandlerChain` is with the server's in `WWWSserver_proofs`, and
section 6 says which are in `Platform_proofs` and `Multicast_proofs`. State and operations keep the names of the source. A
definition whose comment calls it a mutant, or a way to get the next one wrong,
is a plausible bug; no specification uses it, and the properties must notice it
when it takes the place of the right one.

The program has one thread, so an event and all it calls would be one atomic step
everywhere. Where a signal re-enters an object in the middle of its method, the
step is smaller (`HandlerChain`, `AppController`) or its outcomes include the
re-entrance (`WWWSserver`).

### 3.1 `WWWSserver`

`WWWSserver.cpp`, `WWWSsession.cpp`, and the parts of `WWWSrequest.cpp` and
`WWWSresponse.cpp` that create, send, close and delete. A connection's socket is in one of seven
states (`link`); the objects that exist are the sets `sessions`, `requests` and
`responses`; a response is the pair of its connection and the number of the
request. `wire` is the sequence of parts that went to the socket: part 0 is the
header, part i the i-th portion of the body.

An answer is sent in one write when it is small; otherwise a header is written
and each `timerEvent` (`Timer`) writes one portion. What makes it hard is the
socket: `close()` and `flush()` emit `disconnected()` on the spot when nothing is
buffered or the peer is gone, and then `onDisconnected` deletes session,
requests and responses under the method that called. Otherwise the socket
lingers in "closing" and `Drain` brings the signal later. Both are modelled for
every such call. A method that goes on after its object was deleted may crash
the program or not; the model records the crash in `halted`.

`ConnectionPool` says what a server promises to its clients: enter once, never
above capacity, and stay out after leaving. `WWWSserver` implements it with
`inside` as the listed sessions; `WSSserver` with `inside` as the open
connections.

### 3.2 `HandlerChain`

`ModuleHTTPSserver::initHandlers`, `onAppendHandler`, `onNextHandler` and the
handlers' `init` and `handle`. The chain is built from a list of configurations
(inactive, broken and unknown ones are dropped, and the others compute their
methods as `initMethods` does; it keeps the text "^GET" of a negation in the list that a
request's method is looked up in, so requests with the method "^GET" are modelled too); then
requests come and one step is one turn of
`onNextHandler`'s loop with all that the handler does. A regular expression is
the set of paths it matches and the function `replace` makes of them. The file
system may change between two looks at it: a file that was readable may not open.

### 3.3 `ModuleZeroConfig`

`ModuleZeroConfig.cpp` and the calls of it in `ModuleBase::start`, `stop` and
`die`. `zc` is the object as a record, and each slot an operator from record to
record, since slots call one another; an action is what one module's `start`,
`stop` or `die` amounts to. `bTouched` remembers that a deleted service was used. Descriptors and services are numbered, so that a
pointer to a deleted object differs from one to its successor at the same name.

### 3.4 `AppController`

`AppController.cpp`, `ModuleBase.cpp` and the life cycle of `ModuleAppControl`
and `ModuleHTTPSserver`. It instantiates `ModuleZeroConfig` and drives it: a
module's start is `ZC!ModuleStart`, and so on. `bus` is the stack of the loops of
`onBusMessage`: a reply is delivered within the delivery it replies to, and one
step is one call of a module. No part of this commit sends a message of its own:
the slots are public, and the model sends any message from outside. Reading
through a null pointer crashes; using a deleted object crashes or goes on.
UIDs are taken to be unique here, which is proved in `Configuration`, and there
is one ZeroConf module, whose file can be read.

### 3.5 `Configuration`

`PersistantObject.cpp`, the setters of `ModuleConf.cpp`, `AppSettings::readModules`
and the loop of `AppController::loadModules`. A save is two steps, since opening
the file empties it; the process may die between them, the open may fail, and the
write may be short, in which case the file is cut off and yet counts as saved. After a restart a file that does not parse has no object. A
document is two tags: the UID, which `loadModules` makes unique with dots, and
`bActive`, which the bus sets; the other setters have the same shape.

### 3.6 `WSSserver`

`WSSserver.cpp` and `WSSsession.cpp`. `later` holds the objects that wait for
their deferred delete, and the destructor may come at any time. In contrast to
`WWWSserver` a session is taken from the list at once and deleted later, so that
no method runs on a deleted object; the properties say that list, objects and
connections nevertheless stay in step and that nothing is left over.

### 3.7 `AvahiServer`

`entry.c`, `announce.c`, `iface.c`, `iface-linux.c`, and the parts of `server.c` and
`avahicore.cpp` that publish. One record holds what the C structures hold, and every C
function that changes it is an operator from state to state, so that a handler
is composed as its calls nest; the callbacks of groups and of the server re-enter
those functions, and do so here; a loop along a C list is `Along`, a recursive
function. Entries are the host's addresses, a service's unique records and its
shared one. Which addresses are published is up to the link, the scope, the other
addresses and the state of the server (`Wanted`), and any of these may change. `heard` is what listeners were told: it is no
part of the program but what its announcements and goodbyes are about. A
conflict, a probe of another host, a link or an address that comes or goes, and
the application's commit, update, reset and rename may come at any time. A record that
a conflict withdraws (`WithdrawEntry`) goes without a goodbye, as do all of its group on every
interface: what listeners hold of it moves from `heard` to `stale`, until it is announced or
said goodbye to again.

### 3.8 `RecordLookup`

`cache.c`, `querier.c`, `query-sched.c`, `multicast-lookup.c`, `browse.c`, in the same
way. An entry of the cache is in a state of `cache.c` and of an age; queriers
count their users; a query is scheduled, sent or heard; a browser follows CNAMEs
to further lookups. An alias leads to a name that is none itself
(`AliasesAreOneDeep`), so lookups are one below the other and no deeper: what the C
functions do by calling themselves are loops here (`Along`); chains of aliases, which the code
follows up to fifteen lookups, are left out. A failed assertion ends
the process and the loop it is in (`aborted`): the one of browse.c:298 does fail.

### 3.9 `MdnsTraffic`

`rrlist.c`, `response-sched.c`, `probe-sched.c`, and what `server.c` does with a query and a
response. Timers are not ordered: any job may elapse. `owed` is who asked and was
not answered yet, `said` what the link still believes in. Records are withdrawn with a
goodbye (`Withdraw`) or, by a conflict, without one (`Conflict`); `forsaken` remembers the
latter until the record is announced again.

### 3.10 `ServiceClient`

`browse-service.c`, `resolve-service.c`, `avahicore.cpp` and the browser of
`ZeroConfHelpers.cpp`. A record browser is what `RecordLookup` shows of it
(`ToldIsCached`): it tells, sooner or later, of what is cached and is not. When an SRV goes the
browsers of its host's addresses go with it, and the address that was found stays; `kept` says
so of a resolver.

### 3.11 `DaemonClient`, `BonjourBrowser`

`dnssd_clientstub.c`: operations are memory that is handed out again; each has its
connection or shares that of a primary, and replies wait on a connection until
the application reads them. A callback may release any operation, the one the
loop works on included. `bonjour.cpp` is modelled on top, with references by
address: a new operation may get memory nobody knew or that of a released one
(`Allocated`). `refused` and `mistaken` are history: the calls for the resolver that failed, and
that the browser or the published service was given the address the resolver's reference still holds.

### 3.12 `PrioQueue`, `TimeEventQueue`, `SimplePoll`

`prioq.c` on sequences: node number `i` of the tree, counted along its rows, is the
`i`-th, and each loop of `avahi_prio_queue_shuffle` is `Rounds`, a recursive function
that takes as many rounds as there are parents. `timeeventq.c` uses it: a callback of an
event may make, free and change any. `SimplePoll` is `simple-watch.c` with
`thread-watch.c`: the loop's thread leaves the mutex only around `poll()`, and there the
other thread's calls interleave with the three steps of the wait.

### 3.13 `NameClients`, `WideArea`

The resolvers of host names and addresses, the browsers for DNS servers, domains
and service types, each a state machine of its own variables; and `wide-area.c`:
lookups that take turns at servers and share a cache. The list of servers is any, with
repetitions, up to `MaxServers`.

## 4. The runs

Each line names the run and its configuration, and what it shows. A run's
properties are composed of named parts, which the modules state one by one with
their reasons; the parts are in brackets.

| run, configuration | distinct states | what it shows |
|---|---|---|
| answers, `MCWWWSserver_answers` | 479 930 | a busy house of one (four clients, one of them blocked, two pending places in all) and a quiet one (one client with two overlapping requests, answers of up to four portions): `NothingLeaks` (`SessionCap`, `SlotsMatchSockets`, `LifetimeBudget`, `OwnersAlive`), `AnswersIntact` (`PartsInOrder`, `AnswerWhole`), the server implements `ConnectionPool` (`PoolSpec`), who asked has his socket closed, and gives the slot back if he reads what is left (`AnswerFreesSlot`) |
| chain, `MCHandlerChain_answers` | 178 429 | every chain of up to three out of thirteen handlers and every list of up to three method entries: `OneAnswer` (`AnsweredOnce`, `MethodsAsMeant`), `FirstTakerAnswers`, `FinalIsFinal`, `AllAnswered` |
| lists, `MCModuleZeroConfig_lists` | 259 119 | two modules and the ZeroConf module start up to twice, stop and die in every order: `PointersSound` (`PointersLive`, `RunningListLive`, and deleted services are used by a second `stop()` only: `TouchedBySecondStop`), who is started is published (`Served`), nobody's calls touch the services of others (`OthersUntouched`) |
| cleanup, `MCModuleZeroConfig_cleanup` | violated | see section 7 |
| bus, `MCAppController_bus` | 79 908 | four configurations, one of unknown class, each readable or not: `EndsInOrder` (`BusDepth`, `StoppedBeforeKilled`), `InactiveStaysInactive`, `EverythingEnds` (`BusQuiet`, `QuitEnds`) |
| files, `MCConfiguration_files` | 1 077 056 | four files with any of four UIDs, two faults, any number of restarts: `UniqueUIDs`, `FilesAgree` (`UnsavedIsMarked`, `CutByFaults`), `FilesKept` (`DamagedIsLeft`, `NamesStay`) |
| sockets, `MCWSSserver_sockets` | 1 018 | four clients for two places, one not on the white list: `ObjectsOwned` (`SlotsAreOpen`, `OneOwner`), `PoolSpec`, and in the end nothing is left (`ObjectsGo`) |
| publish, `MCAvahiServer_publish` | 364 655 | two interfaces, one of which may have an address of global and one of local scope, the other a global one; a service with unique and shared records, two host names, any two events between and during timers: `RegistrationsKept` (`ServedAfterProbe`, `ProbesCounted`, `PendingCounted`, `PublishedIsWanted`), `HeardIsServed`, `NeverStuck` |
| lookup, `MCRecordLookup_lookup` | 1 326 426 | two browsers, one of which reaches the other's key through a CNAME; three events: `LookupsCounted` (`QueriersCounted`, `LookupsReferenced`, `OneJob`), `ToldIsCached`, `AskedBeforeExpiry`, `SupersededGoes` (`DroppedStaysDropped`, `FlushReplaces`) |
| traffic, `MCMdnsTraffic_traffic` | 268 469 | a PTR and the SRV it refers to, two hosts that ask: `SchedulesKept` (`OneJobEach`, `OwedIsScheduled`), `GoodbyeComes`, `AnswersComplete` (`AuxAccompanies`, `EverybodyServed`); no bound on events |
| clients, `MCServiceClient_clients` | 380 928 | a service on two protocols and two hosts, every record coming and going, no bound: `ListSound` (`ListedHasResolver`, `ListedIsFound`, `HeldIsTold`), and what is settled is listed in the end (`Recovers`) |
| platform, `MCPlatform_platform` | 1 582 493 | eight parts that share no state, one of them moving: `RepliesKept` (`LoopIsTold`, `WireIsReplies`, `OwnReplies`) and `SharingKept` (`SharesLive`, `NoOrphans`, `RecordsKnown`) of `DaemonClient`; `BrowserSound` (`NotifierWatchesOpen`, `HeadIsResolved`); `TimesKept` (`HeapOrder`, `ArmedForFirst`, `TakesTurns`, `FreesTheOne`); `LoopWakes` (`NoLostWakeup`, `IndexIsOwn`); `NamesAnswered` (`Answers`, `FindsAnother`, `KnowsServers`) and `DomainsInOrder` (`StaticsFirst`, `CallsOwner`) of `NameClients`; `WideAnswers` (`EndsInTime`, `AsksAnother`, `CacheIsTold`) |

The type invariant of a module is a part of one of its composed properties. For
most parts there is a mutant of its own, listed under the composed property.

Bounds, and why they are enough:

- `Client` (4, or 1 in a long conversation: the quiet house): enough to fill the house, be turned
  away when it is full, be let in when a place is free again, and use up the
  pending list; connections of different clients share only the lists and their sizes.
- `MaxPending` is Qt's 30 in the program and 2 in the run that reaches it. The
  code never takes a connection from that list, so the number is all it is.
- `MaxReads` and `MaxChunks`: two requests overlap on one connection, and an
  answer of four portions has a first, a last and two in between.
- Chains of three: a rewriter in front of, between and after handlers that answer;
  the loop looks at one handler at a time and keeps two variables between them.
- `MaxStarts` and `MaxPublish`: a second start is the first restart, and
  publications number objects only. In `bus` they are so large that no
  behaviour reaches them.
- `MaxSends`: one message from outside; its replies and theirs are not counted.
- `FirstDots`, `MaxFaults`: a file may have a dot before the first start, so that a UID
  made with a dot may meet one that had it; two faults are a fault in a run and
  another in the run after it.

- `Iterations` is 2 for the 4 of `announce.c`: one probe and one announcement more,
  which is what the code tells apart. `MaxEvents` (2 in `publish`, 3 in `lookup`)
  counts what comes from outside; timers are not counted, so two events meet in
  every state of the work the first has started.
- `CacheMax` (2), `PoofMax` (1) and `MaxDelay` (0) are below the program's, so that the
  limits are reached: the cache is full with two records, one query without an
  answer makes a record doubtful, and every further query of a querier is at its longest
  delay. `MaxLookups` is the program's 15 and is not reached.
- `Room` (1): every second record needs another packet. `Low` is a TTL below half.
- `MaxSockets`, `MaxUid`, `MaxReplies` (2), `MaxIndex` (1), three operations: one
  connection shared by two operations and one of its own; two replies wait while
  operations are released and made.
- `MaxWork` (2 services): one is resolved, one waits. Five addresses: QZeroConf remembers
  four at most, and there is always one more.
- `MaxTime` (2), six time events of the same or different times: a heap of three rows,
  the last one started. The event loop has two watches and one timeout.
- `MaxInfo` is 2 for the 10 of `browse-dns-server.c`, with three servers.
- `MaxChanges` (1): the list of servers changes once; two lookups, two servers. `MaxServers`
  is 3 for the program's 4 (core.h:38): a list of three has a server twice in a row, with another
  one behind it, and one that comes back later.
- The daemon's three operations are interchangeable (`SYMMETRY`), which TLC allows
  here because the run's properties are invariants and action properties.

`CHECK_DEADLOCK FALSE` is set where the program may stop: it has quit or crashed,
the server was deleted, all modules are dead or their bounded starts used up, or the
bounded events and the clock are used up and no timer runs.

## 5. Fairness

There is one thread and one event loop. What is assumed is that it goes on:

- `WWWSserver`: weak fairness of each running zero timer (`Timer`), which the loop
  calls in each turn. Nothing is assumed of clients: they need not send, finish a handshake,
  read, or leave. No write has a timeout, so a client that does not read its answer keeps its
  slot: `AnswerFreesSlot` promises the closing of the socket to everyone, and the slot only
  on the premise, stated in the property, that this client's closing socket drains.
- `HandlerChain`: weak fairness of the loop that a request has started.
- `AppController`: weak fairness of `Program`, the loops that load, initialise,
  start, deliver, stop and kill. Sending, timers and `quit` are not forced.
- `WSSserver`: weak fairness of each deferred delete.
- `MdnsTraffic`: weak fairness of each record's job, whose time event the queue runs
  sooner or later (`TimesKept`). No host is obliged to anything.
- `ServiceClient`: weak fairness of `Tell`, that record browsers tell what they have to
  tell; `RecordLookup` shows that they have told whatever the cache holds
  (`ToldIsCached`) after every step. Whether a resolver times out, and when, is open.
  `Recovers` only speaks of behaviours in which records come to rest.

The other modules state no liveness; where something must not be left waiting
they say so as an invariant: work that is left has a timer (`NeverStuck`,
`OwedIsScheduled`, `ArmedForFirst`, `NoLostWakeup`, `EndsInTime`).

## 6. The proofs

All theorems hold for every value of the constants that the named assumptions
allow: any number of clients, handlers, modules, files, any limits. They are
proved by invariance, and the last step of each is temporal logic.

- `WWWSserver_proofs`. The inductive invariant is `IInv`: types with `Counted` (no
  more of a body is left than it has, and nothing of requests not read yet), which makes the number
  of a portion a part number; `SlotsMatchSockets` and `OwnersAlive` with `Fresh`
  (a connection that is not established yet has no request), without which a new
  session could have requests to delete; and the two limits. From it `TypeOK`,
  `SessionCap`, `SlotsMatchSockets`, `OwnersAlive`, `LifetimeBudget`, and that each
  step is one of `ConnectionPool` or leaves the pool alone. `AnswersIntact`
  takes `Wired`, connection by connection: while the socket is open, what an answer has
  on the wire is what `timerEvent` has taken from its body (`Sent`); a connection that has
  not asked yet, or whose end has a reason, sends nothing more (`Ends`).
- `WWWSserver_proofs` on `HandlerChain`, which shares no state with the server.
  `ChainTypeOK`, `AnsweredOnce`, `FinalIsFinal`; and `MethodsAsMeant` by the lemma that the one pass of `initMethods` collects what a
  list of any length means: what it skips after "*" is brought in by "*".
  `FirstTakerAnswers` speaks of a request's course, a recursive function along the chain.
  That its equation has one solution is part of the invariant, settled for each index as
  the request gets there: the steps of the specification take the place of an induction.
  The premise is a chain shorter than `IndexModulus`, the 256 of a `quint8`; beyond, the
  index wraps (section 8).
- `ModuleZeroConfig_proofs`. `PointersLive` is strengthened by `Pointers`: only
  listed descriptors that are to be published have a service pointer, so that
  the descriptors a start makes have none. `RunningListLive` holds with it. The list of a stopped
  module does hold deleted services, and the next `stop()` or `die()` uses them: `SecondStopTouches` is
  that nothing else does, for which the list must be empty once the module is dead (`Emptied`). `Served` needs
  `ServedInv`: every entry of a started module is registered, and while the ZeroConf
  module runs has a service of its own; `OthersUntouched` a lemma per slot that says what it leaves alone.
- `AppController_proofs`. `Composes`: each step of the controller is a step of
  `ModuleZeroConfig` or leaves it alone, so that what is proved there holds in the
  program. `StoppedBeforeKilled`: while `stopModules` runs, the modules that are
  still started lie below its index. `BusDepth`: the stack is at most a message, a
  reply and a "pong", which asks for nothing. `InactiveStaysInactive`, `TypeOK`.
- `Module_proofs`, two parts that share no state:
  - `Configuration`: `UniqueUIDs` with the fact that loaded files lie before the loop's
    index, so that the one that is named is not among them; `UnsavedIsMarked`; `TypeOK`.
    `CutByFaults` counts the files that do not parse: each but the one being written took a
    fault of its own, a short write among them, after which `save()` believes the file good.
    `FilesKept` is `DamagedStays` and `NamesAreStable`; the latter needs `Names`: a module
    whose new UID could not be saved took it since two loaded files agree on the disk,
    and these are not written to any more.
  - `WSSserver`: the invariant adds that a connection has no objects before it is
    open (`Fresh`), and that while the server lives an open one has a session
    (`Served`). From it `ObjectsTypeOK`, `SlotsAreOpen`, `OneOwner`, and `PoolSpec`.
- `AvahiServer_proofs`. `CountersAreRight` is `RegistrationsKept`, for any interfaces,
  addresses, host names and numbers of probes and events. The invariant is `Upright`. Of each group it says that
  announcers exist for committed records and are bounded, that nothing unique is served
  before the group is established, that the count covers the announcers that probe
  (`Sound`), and that a group which registers has a timer or a count above zero
  (`Driven`); of the host that exactly the wanted addresses are live (`Exact`) and that
  the pending registrations are never negative, and positive while the server
  registers (`Counts`). It says nothing of what happens within a step, and that is where the
  difficulty lies: a commit may establish a group at once, and its callback may let the server
  run and bring all addresses up to date, in the middle of the loop that is doing so. So each C
  function has a lemma about the state it may meet half-way and what it makes of it:
  all but one group are as they should be (`Nearly`), that one is live and not yet registered
  (`Filled`), nothing is published that should not be, though some may be missing
  (`Fillable`). What a function may do is a relation: it touches the host's side only
  (`Elsewhere`), takes at most one registration off (`Advanced`) or adds at most one
  (`Joined`), and never undoes what a nested call has completed (`Reviewed`). The relations
  are transitive, so each holds along a loop, which is a recursive function on
  the list's indexes; where the proofs need an induction they use the least number
  for which it would fail.
  `ListenersAgree` is `HeardIsServed`, which leaves what a conflict withdrew in silence to
  `stale`, `NothingIsStuck` is `NeverStuck`, both from `Upright`
  and `Shown`. Neither is inductive. That an announcer which is done was heard
  (`Told`) lasts only while its record's data do, and that what is heard is served (`Taken`)
  only if whatever leaves says goodbye first, which is done per announcer: so each announcer
  must be of a committed record, on a link that announces (`Linked`), and a record that is
  served must have all of its own (`Manned`). `Manned` gives `NeverStuck` with `Waits`: an
  announcer waits only for a group that registers, hence, by `Driven`, for one with a timer
  or a probe left. `Unhurried` says that the application's group, which QZeroConf commits
  from a callback, never has to wait for its timer with announcers it had
  before. `Manned` fails within `DelLink`, which removes the announcers of a link before it
  takes its addresses back, and `Waits` in the callback that establishes a group. Hence
  `Shown` has two parameters, the links whose announcers are all there and
  the groups whose callback is running; with them it holds after every single call, so
  that each function has one lemma and an event keeps `Shown` call by call.
- `RecordLookup_proofs`. All that its run checks, for any browsers, records, keys and
  aliases: `LookupsAreCounted`, `ToldIsWhatIsCached`, `NoneExpiresUnasked`,
  `SupersededEntriesGo`. The invariant is `Inv`. Also after a failed assertion there is one
  job for a key, and an id that a querier remembers is that of no other key's job
  (`Queries`), so that a query is withdrawn only by those who posted it. While
  the process runs (`Whole`), a querier counts the lookups of its key (`Served`); an entry
  that nears its end was asked for, or its querier has a job that will ask (`Asked`); the
  lookups of a browser are that of its own name and one for each alias of it, each
  referenced once (`Rooted`); and the browser was told what the cache holds for them (`Told`).
  Within a step none of the four holds: a record that comes or goes is
  reported browser by browser, and each report may start or restart lookups, which
  add and remove queriers that others use. The invariant of that loop says which browsers
  know already and which do not; that of an interface that goes adds which records have
  left the cache, that of one that comes which lookups have their querier back. `Served`
  counts what is left to be counted. The loops are recursive functions, and
  what holds along them is shown by the least number for which it would fail. `Asked`
  rests on the timing of the code: an entry's timer runs when no query waits or is
  remembered, so the one it posts is accepted; and a querier that nobody uses any more is
  freed when its query can be withdrawn, or at the next timer instead of asking.
- `Platform_proofs`, six parts that share no state:
  - `WideArea`: `AlwaysAnswers`, for any queries and keys. That a lookup asks two servers
    needs `Turns`: after the third send, while the list was not changed, it has asked two.
    The lists are of any length and may repeat a server; a lookup whose server follows itself in
    the list (`FollowsItself`) fails without asking another, as the property says.
  - `NameClients`: `NamesAreAnswered`, with `NoneMissed` (a resolver that waits was told of no
    record it could take) and a server that is being resolved not known before;
    `DomainsComeInOrder`, with the browser's references counted: its user's, and that of
    `defer_callback` while it is on the stack.
  - `DaemonClient`: `RepliesAreKept`, `SharingIsKept`, for any operations, sockets and
    replies. `DaemonInv` says that the numbers of a connection's operations only go up
    (`Numbered`), that memory which is no connection has neither replies nor tasks
    (`NothingLeft`), and that every reply and every task bears a number given before (`Marked`), so that a
    new operation can inherit none.
  - `BonjourBrowser`: `BrowserStaysSound`, whatever memory is handed out again. `BonjourInv` says that the
    references of the service, the browser and the resolver are apart from one another
    (`Apart`), until one of the former two is given the address the resolver's keeps (`mistaken`;
    section 7 says what follows); and that the queue stands still exactly once a call for the
    resolver was refused (`HeadResolved`).
  - `SimplePoll`: `LoopAlwaysWakes`, for any finite set of watches. `Settled`: while the loop
    is about to wait or waits, a byte is in the pipe or nothing it prepared for has
    changed. `Exact`: unless they are to be rebuilt, pollfds are those of the live
    watches. That the indexes fit takes a counting argument (`KeptFacts`): the number
    of live watches up to one in the list numbers them from one on, without gaps.
  - `TimeEventQueue`: `TimesAreKept`, for any times and any number of events. `TimeInv` says
    that the queue is `Ordered` and, between callbacks, the timer what `update_timeout` makes
    it. Each loop of the shuffle keeps an invariant: while a node rises, only it may be before
    those above (`MayRise`), while it sinks, only it may be after those below (`MaySink`);
    the rounds suffice since a node that moves is at another parent each time (`UpIs`, `DownIs`).
    `Shuffled` counts the copies of every event, so nothing is lost or doubled; and the first is
    before all of them by the least number for which that would fail (`FirstIsFirst`).
- `Multicast_proofs`, two parts that share no state:
  - `ServiceClient`: `ListStaysSound`, with the fact that a complete resolver has no timer
    (`FoundRests`): only then does each loss of a record begin a time of its own. An address
    that outlived its SRV is excepted (`kept`).
  - `MdnsTraffic`: `SchedulesStayKept`, `GoodbyeAlwaysComes`, `AuxAlwaysAccompanies`, for any
    records, queriers and packet size. `Fine` says that each record is at one place of the
    scheduler and each job is for what is true of its record, the full TTL or a goodbye;
    so a goodbye is refused only where the link does not believe in the record
    (`GoodbyeHeard`). What a conflict withdraws without a goodbye is excepted, until it is
    announced again (`forsaken`). `Follows` is what a packet, and the posts it makes, may do to the rest: no
    job goes but by being sent, or into one that no single querier can silence. It is
    transitive, so it holds along `Packets` and `Forced`, loops that are recursive
    functions here: that they are defined, and what holds of each of their values, is shown by the
    least number for which it would fail (`AllAlong`, `Iterates`). That the last packets leave no
    goodbye behind counts the records that still have a job (`ForceSendsAll`).

The composed properties of the runs are theorems as a whole where their parts
are: `LeaksNothing`, `AnswersOnce`, `PointersStaySound`, `OrderlyEnd`, `AlwaysAgree`,
`AlwaysOwned`, and the theorems of `Platform_proofs`,
`Multicast_proofs`, `RecordLookup_proofs` and `AvahiServer_proofs`.

Model-checked only: `AnswerFreesSlot`, `AllAnswered`, `EverythingEnds`, `ObjectsGo`,
`EverybodyServed` and `Recovers`, which say "leads to": they need fairness, and
fairness needs ENABLED, which the prover does not handle. Every safety property of the
passing runs is a theorem.

## 7. Where code and comments disagree

A finding with a run of its own:

- `DieCleansUp` (`cleanup`, ModuleZeroConfig.cpp:82): `onRemoveServiceDescriptors` calls
  `onStartZeroConfServices` where the stop is meant.

Properties that the modules state and that do not hold, in instances like those of
the runs; they have no run of their own:

- `NoUseOfDeleted` (WWWSresponse.cpp:314): a broken connection is noticed in
  `startSending`'s `flush()`; the response is deleted, and the method goes on.
- `ActiveHasMethods` (MHTTPSShandlerBase.cpp:140): a handler whose list only negates
  stays active and accepts nothing.
- `StopSilences` (ModuleZeroConfig.cpp:152): services of a module started before the
  ZeroConf module are published twice and one is lost track of.
- `QuitSignalsDone` (WWWSserver.cpp:35): `~WWWSserver` reads a null `pTCPserver`, so
  `done()` is not signalled.
- `Renamed` (`AvahiServer`, core.h:119): `avahi_server_set_host_name` while the server is
  registering publishes an address again under the old name.
- `CnameDropped` (`RecordLookup`, browse.c:294): a lookup made for a CNAME is never
  dropped when the CNAME goes, for the comparison never matches; and the assertion of
  browse.c:298 ends the process in some behaviours.
- `BothReported` (`ServiceClient`, QtZeroConf/README.md:96): the second protocol of a service is
  never resolved, because the key of the resolver is name and interface
  (avahicore.cpp:130).
- `NotifierWatchesOpen` (`BonjourBrowser`, bonjour.cpp:222): "it should be removed BEFORE
  DNSServiceRefDeallocate() is called" (dns_sd.h:755). The resolver's reference keeps the
  address of an operation that was released; a browser or a published service that is given the
  same memory is released as if it were the resolver, and its notifier stays. `BrowserSound` has
  this as the exception `mistaken`.
- `RestartResolves` (`BonjourBrowser`, bonjour.cpp:219): the remedy of QtZeroConf/README.md:122, to
  stop and start the browser, does not help after `DNSServiceResolve` or `DNSServiceGetAddrInfo`
  was refused: the reference is NULL, `cleanUp(NULL)` returns at once, and the queue is
  neither taken from nor emptied, so that no service is resolved until the program ends.
  `HeadIsResolved` says that this is the only way the queue stops.
- `OnlyServerFails` (`WideArea`, wide-area.c:184): "There is no other DNS server, fail". With a list of
  A, A and B a lookup moves from A to A and fails without having asked B, for
  `avahi_wide_area_set_servers` keeps repetitions. `AsksAnother` has this as the exception
  `FollowsItself`.

What the models show besides, each as a behaviour that a property allows or that its
comment names:

- Own code: a short write counts as saved and leaves a file that does not parse
  (`PersistantObject.cpp:75`, `CutByFaults`); a handler takes a request whose method is the text
  "^GET" (`ModuleHTTPSserver.cpp:240`); a control module without a certificate crashes in `stop()`
  (`ModuleAppControl.cpp:384`); the second `stop()` of a ZeroConf module deletes the
  services on its list again (`ModuleZeroConfig.cpp:175`); `WWWSserver::stop` and
  `WSSserver::stop` leave the port open; `WWWSserver` never takes a connection from the
  pending list; `ZeroConfHelpers.cpp:273` connects `serviceRemoved` to `onServiceAdded`.
- Publishing: records that a conflict withdraws are not said goodbye to (server.c:169), and listeners
  on other links keep them; `remove_announcer` does not decrement `n_probing`, so that a group may
  stay registering for good; the server says RUNNING too early when an interface
  cannot join the group, and once on its way to COLLISION; a goodbye after an update
  is for the new data (announce.c:389); after a conflict over the host's name on a
  link with several global addresses, one of their records starts anew (server.c:325)
  while listeners flush all, so `HeardIsServed` asks of a record that it is alone
  under its name there (`Alone`).
- Answers: a goodbye of another host that is heard within half a second of our own
  answer is not countered; a known answer of any TTL is dropped from the list
  (`avahi_record_list_drop`).
- Clients: a REMOVE on one protocol takes out a service that is still announced
  on the other; a resolver that failed never recovers; the address of a host whose SRV is gone stays
  with the service and nothing takes it back (resolve-service.c:281).
- Event loop: `cleanup_watches` resets `timeout_req_cleanup` (simple-watch.c:241), so dead
  timeouts stay in the list; a watch made by another thread during the wait has no
  index yet (simple-watch.c:581).
- Names: a DNS server whose host is not found in time is not told of later; nor is one
  beyond the tenth.
- Bonjour: each service that is resolved leaves its first operation with the daemon.
- Ordinary DNS: the number of a dead lookup counts as free (wide-area.c:231).

## 8. What is not modelled

- Text: header lines, the syntax of requests, percent encodings, the HTML of error
  pages and directory lists, and lengths in bytes (planned as 15).
- Sequential files and their `readChannelFinished` (WWWSresponse.cpp:331); `QFile` reports
  none of the files the server offers as sequential.
- Starting a server again: `stop()` leaves the socket listening and the second
  `listen()` fails, which is only reported (WWWSserver.cpp:477). A module's second `start()` registers its descriptors again
  (ModuleBase.cpp:290), which `ModuleZeroConfig` does have.
- Delegates of handlers: declared, and nothing sets one.
- `ModuleAppControl`'s web page and what a WebSocket message asks for.
- `WSSclient`, a stub; `WWWheader`, which splits one line.
- `AppSettings` apart from the list of files: defaults, the ini file and the command
  line are read once at the start.
- A configuration file that vanishes after it was listed.
- `ubHandlerIndex` wraps at 256. `HandlerChain` has the wrap (`IndexModulus`); the
  runs' chains are shorter, so `AllAnswered` is claimed only for those.
- `avahiclient.cpp` (planned as 16), whose peer is a daemon outside the repository.
- Avahi's encoding of packets, its records, names, lists and hash tables (`dns.c`, `rr.c`,
  `rrlist.h`, `domain.c`, `strlst.c`, `hashmap.c`): data, which the models hold as values.
- Chains of aliases in `RecordLookup`: an alias leads to a name that is no alias.
- Its sockets, netlink, logging, memory and time arithmetic; allocation that fails.
- The reflector, legacy unicast replies and rate limits, which `avahicore.cpp` leaves off.
- Registered records with replies of their own, TXT records and the constants of the
  Bonjour client library, and its headers for other systems.
