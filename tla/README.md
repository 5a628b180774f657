# TLA+ models of obmc-yadro-webapp

TLA+ specifications of the OpenBMC web application in this repository, the TLC
configurations that check them on small instances, and proofs that TLAPS checks.
Paths below are relative to the repository's `src/` unless they say otherwise.

* Model-check one run: `tlc -config MCEntityCache_startup.cfg MCEntityCache`
  (`PROJECT.json`, "runs", lists module and configuration of each).
* Check proofs: `tlapm DBusConnectProofs.tla`, and the same for the other seven
  modules `*Proofs.tla`.
* `PROJECT.json` also maps each definition to the lines it models ("map"), lists
  for each property a plausible slip in the code that makes it fail ("mutants";
  the slips are operators next to the definitions they change), the places where
  the code does not do what its comments say ("findings"), and everything that
  is hard to test here ("hazards").

## 1. The system

The application answers HTTP requests that lighttpd hands over by FastCGI. What
it knows of the BMC comes from D-Bus and is cached in *entities*; who may ask is
decided by *sessions* it shares with bmcweb through files; what an answer looks
like is decided by the Redfish tree and the GraphQL visitor.

| Component | State it keeps | Operations | Talks to |
|---|---|---|---|
| Guard of the connection, `core/connect/dbus_connect.hpp` | `capturedByThreadId`; in each guard object the id the swap saw and `calledUnsafe` | take the connection with a compare-and-swap (spinning with naps), run an operation, release | every caller of the bus |
| Connection, `core/connect/dbus_connect.cpp` | observing thread, `alive`, the bus, names of services | run, process (prune, dispatch, sleep), call methods, create watchers, terminate | guard, queries, application |
| Entity cache, `core/entity/entity.*`, `entity_manager.*` | the map of instances and its mutex; `initialized`, `hasErrors`, `cachingInProgress`, the time stamp; function-local statics of default getters and relations | populate (cached, lazy, short-time), getInstances, mergeInstance, removeInstance, resetCache, relations and conditions | queries, route handlers |
| Queries and instances, `core/entity/dbus_query.*`, `proxy_query.hpp` | instances with members, state and spin lock; watchers by hash; hashes to prune; lists of signal handlers | find objects, create and fill instances, derive members, handle InterfacesAdded, InterfacesRemoved, PropertiesChanged, prune watchers, test criteria | connection, cache |
| Entity definitions, `*.hpp` | none of their own | queries, providers, relations of 41 entities and 19 providers; setters of derived members | cache, roll-up |
| Status roll-up, `status_provider.hpp` | the fields of the instance that is read | maximum over related instances; causes of the callback manager | relations of entities |
| Sessions, `service/session.*` | `authTokens`, time of the last sweep, timeout, methods, uuid; two files | readData, commit, restore, sweep, log in by token, Basic session | file system, bmcweb |
| Authorization, `service/authorization.hpp`, `pam_authenticate.hpp` | none | white list, four methods in a fixed order, commit after success | sessions, PAM |
| Router, connection, `core/router.*`, `core/connection.*` | the request, its session, the response | choose a handler, read the files, authenticate, run it, respond | all of these |
| Application, `core/application.*` | the connection, the FastCGI manager, the guard file of the tree | initEntities, configure, start, wait for the base entities, signal handler, terminate | all of these |
| Redfish tree, `core/route/redfish/*` | the static tree of nodes; the segment that is being matched, the verified parameters, the response | match a URI segment by segment, run the getters of a node | entity manager |
| GraphQL, `core/route/handlers/graphql_handler.*` | the visitor's stack of builders and their fragments | walk a query over entities and members | entity manager |
| Formatters, `formatters.hpp`, `core/helpers/utils.hpp` | none | conversions | |

Request handling runs on the FastCGI manager's threads, signals on one observing
thread, and the SIGINT handler on whichever thread the kernel picks. All share
one bus connection, the entities, the session store and the files; bmcweb, another
process, writes the same files.

### What is hard, and what correct means

* **Guard.** Threads compete with a compare-and-swap; the observing thread
  re-enters from inside a dispatch. Correct: one thread at a time, a nested guard
  never frees the connection under the outer one, an exception never keeps it.
* **Connection.** The shutdown comes as a signal at any moment and joins the
  observing thread. Correct: it ends, and nothing uses a closed connection.
* **Cache and queries.** Instances are created, stored, copied, refilled and
  destroyed by request threads while signals add, change and remove the same
  objects; destructors queue hashes that the observing thread prunes. Correct:
  no watcher leaks, and a settled cache agrees with the bus.
* **One instance.** A request initializes it interface by interface while signals
  fill single members, and members are derived from others after each filling.
  Correct: when nobody works on it, it shows what the service has.
* **Startup and relations.** Filling one entity reads others, and the first read
  builds function-local statics that ask for further entities. Correct: no
  initializer meets itself, a failed entity heals, the guard file goes.
* **Reads and roll-up.** Readers supplement one shared instance at once. Correct:
  an undisturbed read is current, a roll-up is never better or worse than what the
  sensors were meanwhile.
* **Criteria.** `std::set_difference` over lists whose order comes from a message.
  Meant: an object is rejected exactly when no interface matches. The code keeps that
  of ascending lists only (section 5).
* **Sessions.** Two request threads and bmcweb read, truncate and write the same
  files; a sweep that is throttled decides who is still in. Correct: an accepted
  session is overdue by less than the throttle, and nothing of this process's own
  reaches the files.
* **Redfish and GraphQL.** Sequential over instances that come and go between two
  steps. Correct: the node that is spelled, the members that resolve, a status
  that tells the failure, nobody else's rows, and an end.

## 2. Modules

| Module | Lines of the code | Role |
|---|---|---|
| `ReentrantLock` | what `DBusCallGuard` promises | abstract: owner and count |
| `DBusCallGuard` | `dbus_connect.hpp` 40-125 | the guard, with spin, nap, unsafe re-entry and destructor |
| `DBusConnect` | `dbus_connect.cpp`, `application.cpp` 100-146 | extends the guard: observing loop, calls, SIGINT, close |
| `EntityCache` | `entity.hpp` 553-684, `entity.cpp` 312-478, `dbus_query.cpp` 49-91, 331-550, 726-910, 996-1086 | one entity, its query, its instances, the signals and the services |
| `InterfaceCriteria` | `dbus_query.cpp` 176-213, 275-313 | `set_difference` one comparison at a time |
| `SessionSharing` | `session.cpp`, `authorization.hpp` 28-113, 201-275, `router.cpp` 26-53 | store, files, authentication, bmcweb, clock |
| `StatusRollup` | `status_provider.hpp`, `sensors.hpp` 298-348, `firmware.hpp` 185-196, `server.hpp` 436-530 | the statuses and boot modes as functions |
| `EntityRead` (extends `StatusRollup`) | `entity.cpp` 324-371, 41-96, 528-542, `server.hpp` 702-896 | readers that supplement one shared instance |
| `EntityCatalogue` | the definitions, `*.hpp` | what each entity is declared with: data |
| `EntityManager` (extends `EntityCatalogue`) | `application.cpp` 30-127, 148-196, `entity.hpp` 69-85, 553-684, `entity.cpp` 405-521, `proxy_query.hpp` | all entities: startup, relations, requests, object signals |
| `StaticFields` | the setters behind `supplementByStaticFields` of 13 classes | derived members as functions of the others |
| `InstanceState` (extends `StaticFields`) | `dbus_query.cpp` 331-550, 576-586, `dbus_query.hpp` 86-183 | the life of one instance |
| `LiveInstances` | `entity.cpp` 41-96, 499-521, `network_interface.hpp` 539-602 | what a request sees of the caches, and the relations |
| `RedfishNode` (extends `LiveInstances`) | `node.hpp`, `response.*`, `router.hpp`, `redfish_root.hpp` | one URI: resolution and getters |
| `GraphqlHandler` (extends `LiveInstances`) | `graphql_handler.cpp` | one query: visitor, builders, fragments |
| `WebApi` | `router.cpp` 26-90, `connection.cpp` 29-69 | a request through router and handler, composed with both |
| `*Proofs` | | theorems of `DBusConnect` (with those of the guard it extends), `EntityCache`, `InterfaceCriteria`, `SessionSharing`, `EntityRead`, `EntityManager`, `InstanceState`, `WebApi` (with those of both handlers) |
| `MC*` | | small instances |

### DBusCallGuard and ReentrantLock

`depth[t]` counts the guard objects of `t` whose operation runs, `calledUnsafe`
their flags, `pc[t]` says where `operator()` of the newest one stands. Actions:
`Construct`, `Capture` (the swap succeeds), `CallUnsafe` (it fails because the
caller is the captor), `Sleep` and `Wake` (it fails for another reason),
`Destroy` (the scope is left, by return or exception). Swap and thread test are
one step, because the test only looks at the value the swap stored in the
object. Threads in `Nesting` construct inside an operation; only the observing
thread does. `Lock == INSTANCE ReentrantLock` maps owner to the captor and count
to the depth. The guard is checked inside the connection that uses it.

### DBusConnect

The loop of `process` is `LoopCheck`, `LoopCleanup`, `LoopCleaned`,
`LoopDispatch`, `LoopDispatched` or `LoopFailed`, `LoopSlept`; a request thread
starts a call (`RequestCall`) and makes progress through the guard's actions.
`HandleSignal(t)` freezes `t`, empties the pointer and clears `alive`;
`Disconnect` happens when the thread is joined. On the observing thread itself
`join` throws in a noexcept function: the process aborts.

### EntityCache

`Populate` .. `Mark` are the lines of `populate` with the query in between (one
step per call on the bus, per shared flag and per change of the map), `Copy` ..
`Done` those of `getInstances` and of the answer made from its result. A request
thread gets the bus only when no handler runs (`BusFree`): this is what the guard
gives. Its other steps interleave with handlers. `Dispatch*` and `Handler*` are
the signal handlers, `Cleanup` is `cleanupInstacesWatchers`. `Appear`, `Vanish`
and `Change` are the services. Instances are model values; one lives while
something in `Refs` names it, and each step that drops a reference runs the
destructors it causes (`Destructors`). A hash is the object it is made of. Every
populate of a cached source registers the two observers of the query once more
(`registered`), so that an InterfacesAdded is handled as often as the entity was
filled.

### InterfaceCriteria

`SearchLists` and `InputLists` are sequences of interface numbers in the order
of the criteria and of the message, none assumed to be ascending: `MCInterfaceCriteria`
has the lists the definitions declare, numbered as `std::less` orders the names; `KeepRest`, `KeepSearch`, `PassInput` and
`PassBoth` are the branches of the merge, `Decide` compares the number kept.

### SessionSharing

`Arrive`, `Lock`, `ReadFile`, `ReadDone` are `readData` under its static mutex,
with the commit of a generated uuid in the middle; `CommitOpen` (which truncates)
and `CommitWrite` are `commit`, which takes no lock; `SkipMethod`, `LoginByToken`,
`BasicAuth` and `Reject` are `authenticate`; `Respond` ends the request. A file is
missing, JSON with a set of sessions, or garbled; lengths decide whether a second
writer's text covers the first one's. bmcweb logs in and out, the application
restarts with empty memory. The clock ticks in fractions of a second, `Second` of
them to one: `steady_clock` durations are compared as they are, so that a sweep may
come right before the timeout and put off the next one beyond it.

### StatusRollup and EntityRead

A status is 0, 1 or 2 as in the enumeration, and `getHigherStatus`, `setStatus`,
`FormatStatus`, `FormatMode` and `FormatSource` are the functions of those names.
`EntityRead` looks at one instance - a Chassis, Fan, PSU or the Server - whose
`fields` all readers share. `Begin(r)` is the entry to `getInstances`; the pass is
the `Pipeline`: the two default getters, in either order of the unordered map
(`fromFirst`), then the providers in the order of the definition. `Supplement`
is one stage, `RollupStart`, `RollupSensor` and `RollupNothing` are the loop of
`StatusRollup` over related sensors, one sensor at a time; `Answer` ends the pass.
The observing thread handles a PropertiesChanged in two steps: the member is
filled (`SensorChanged`, `BootModeChanged`, ...) and the derived ones are set
(`Handled`). The one-time boot object has all three of its properties, mode, source
and `Enabled`; a source the dictionary does not know (`Unknown`) leaves the mode as it
is, whatever that was. `span` records the lowest and highest health of every sensor since
the oldest read that is still going on.

### EntityCatalogue and EntityManager

The catalogue has a record for each entity and provider: source, own query,
providers, relations and how each matches, members created and members with
default getters. `EntityManager` runs what `Application::configure` and `start`
do with them. What a call has still to do is kept as an agenda, because one
populate calls others: `PopulateFills` is replaced by the queries of the providers
and the own one, a query for objects by the answer of the mapper (`QueryObjects`) and,
in a step of its own, `SetInstances`, a query that is a proxy by a read of the other
entity, the first
read of an entity by the construction of its dictionary and relations
(`InitDefaultFieldsValue`, `BuildRelations`, `RelationsBuilt`), and so on down to
`Await` and `Decide`, the loop of `waitBootingBmc`. The roll-up tests each destination
for a Status when it comes to it (`RollupDestination`), as its loop does: which
members it has depends on what was read before. Requests come one at a time;
objects move, queries fail, and `Dispatch` handles an object signal between any
two operations, the answer of the mapper and `SetInstances` included; `overtaken`
records of which entities a removal was handled just there. The entities in
`FixedObject` do not ask the mapper: their query makes an instance of one object whether
the bus has it or not. A failing query ends in one outcome here, `hasErrors`: the mapper
is the only call whose error is passed on as such. An `SdBusError` that leaves a query
and is caught around all of them (`entity.cpp` 460-465), which ends the fill without
`hasErrors`, is left out here and in `EntityCache`.

### StaticFields and InstanceState

For each of 13 classes `...Shape` names the members, the interface and the values
of each, and the derived members; `...Fields` is `supplementByStaticFields`. The
instance is created and initialized (`VerifyState`, `QueryProperties` or
`QueryFails`, `FillMembers`, `Derive`, `EndInitialize`), its watchers are bound,
signals fill single members (`HandleChanged`, `HandlerDerives`, `HandlerWrites`),
and an InterfacesAdded adds to the interfaces it asks for (`HandleAdded`). A thread
reads what it derives from in one step and writes in another.

### LiveInstances, RedfishNode, GraphqlHandler, WebApi

`live` are the instances in the caches; `Arrive`, `Depart` and `Rename` are what
the observing thread does between two steps of a request. A request keeps shared
pointers, so an instance that departed stays readable. `GetConditions` and
`getRelatedInstances` follow a relation, and drop the condition when the source
instance is gone, as the code does.

`RedfishNode` has the part of the generated tree with every construct the
generator has: static segments, a prefix of static segments, parameters, parameters
below parameters of the same entity, collections, objects, links, link templates.
`EnterStatic`, `EnterParameterized`, `NextSibling` and `NodeNotFound` are
`nextChildResolver` and `validateSegment` with the depth by reference; `MethodGet`
and `Get*` are the construction and the processing of the getters, one per step.
A name is a sequence of words and separators: `encodeUriSegment` and
`decodeUriSegment` exchange blanks and underscores in it.

A GraphQL query is the sequence of the visitor's calls. `VisitObject` makes a
builder with a fragment for each instance there is, `VisitScalar` supplements each,
`EndVisitObject` asks for the fragments of what is there *now* (`MissingItem` is the
exception), `PushFragment` hands them to the parent, `Unwind` runs
`~GqlQueryVisitor`.

`WebApi` routes one request: `PreHandler` chooses the handler, `Unauthorized`,
`NoHandler`, `Run` and `Reply` are the branches of `process` and of the connection.
Authentication itself is `SessionSharing`.

## 3. Runs

| Run | Shows | Bounds, and why they are enough |
|---|---|---|
| `connect` | `GuardInv`, `OneThreadOnBus`, `ImplementsLock`, `BusFreedAgain` of the guard; `ConnectInv`, `ObserverGoneWhenClosed`, `ShutdownCompletes` of the connection | two request threads, so that the observing thread can lose the race twice; guard objects three deep: a middle one that is neither outermost nor innermost; one errno of a corrupt connection and one other. Its safety part is proved for all bounds |
| `startup` | `TypeOK`, `SettledIsPresent`: what comes and goes around `update()` and `runDBusObserve()` is repaired by the queued signals | two objects, three changes: an object that vanishes and comes back while another changes; four instances allow each object a cached and a new one. Both are proved for all bounds |
| `lazy` | `NoOrphanWatch`, `WatchInv` from which it is proved, `OrphansPruned`, for a source filled by every request, with failing queries and exceptions | two threads, three instances (no creation handler exists): one per thread and the cached one. The invariants are proved for all bounds |
| `double_fill` | two threads fill at once despite `cachingInProgress` | two threads |
| `criteria` | an object that matches is rejected: `RejectedIffNoneMatches` fails | the search lists of several interfaces as they are declared; signals of up to three of their interfaces in any order |
| `sessions` | `FilesHoldLogins`, `LoginsInv` from which it is proved, `SessionTypeOK`, `AcceptedIsFresh` | two threads and bmcweb: the smallest number of writers that garble a file; one token and one Basic session; half seconds, a timeout of one second within two, one restart at any point: half a second before and after each edge of timeout and throttle. All are proved for all bounds |
| `timed_out` | a session the sweep ended is accepted again | one thread, one token, a timeout of one second within two and a half |
| `read` | `ReadTypeOK`, `QuietReadIsCurrent`, `BootModeIsFresh`, `RollupWithinSpan`, `StatusOnePassBehind` | two readers of one instance, two sensors of which one is related by association, two images, three signals or removals: mode, source and a second change of either, or one in each of two overlapping passes. All are proved for all bounds |
| `entities` | `ManagerTypeOK`, `NoReentry`, `SettledShowsObjects`, `AnswerHeals`, `ObservedOnce`, `GuardFileRemoved` | all entities and providers as defined. One failure (of an entity, of an entity with a callback manager, or of a provider) and one movement (of a base entity, of a provider or of a fixed object) at any point; one request, of one of five entities with different sources and relations: the failure makes the request fill again while the movement is handled. The invariants are proved for any of these, and any number of them |
| `instance` | `InstanceTypeOK`, `DerivedIsCurrent`, `CacheIsCurrent`, `InitializedInTheEnd` | all 13 classes, two changes, one failure: the two properties a derived member reads can change in both orders. The invariants are proved for any number of both |
| `api` | `ApiTypeOK`, `ResolvesAsSpelled`, `MembersResolve`, `StatusTellsFailure`, `RelatedOnly`, `OnlyArrivalsBreak`, `RequestAnswered` | 23 paths that end at each node, beyond it, or in a name that does not exist; seven queries: nested, unknown, object and array; eleven instances, two arrivals, departures or renamings at any step. The invariants are proved for any instances, paths, queries and number of changes |
| `wrong_parameter` | a VLAN that does not exist verifies | as `api` |

Model-value bounds (`Instances`, `BasicTokens`) disable a step when no value is
free; `MaxEvents`, `MaxTime`, `MaxRestarts`, `MaxDepth`, `MaxChanges`,
`MaxFailures`, `MaxRequests` stop what would grow for ever. `startup` and `read` use
the symmetry of instances, and of readers and images, which no operator orders
(`CHOOSE` in `Store` picks from the instances of one object that a query found, of
which there is one), and check no liveness. `CHECK_DEADLOCK FALSE` stands where the
system stops: after the end of the process, after `checkCriteria` returned, after
the answer, and where all requests and changes of a bound are used up.

### Fairness

* Connection and guard: weak fairness of each thread's steps and strong fairness of
  the end of each operation: the kernel runs threads, and a D-Bus call returns or
  times out. Which spinning thread wins is not promised; `BusFreedAgain` says only
  that the connection becomes free again. Nobody has to send a signal.
* Cache: weak fairness of the observing thread's step as a whole and of each
  request thread once it has a request. Nothing obliges a service to act.
* Sessions: strong fairness of each thread, which only the mutex of `readData`
  disables again. No liveness is checked there: at bounds where a file is garbled it
  takes longer than the safety run by far.
* All entities: weak fairness of the main thread (`Configure`: one step of the
  agenda) and of the observing thread (`Dispatch`).
* One instance: weak fairness of the handler's steps and of the filler's: requests
  keep coming, which the wait of `InitializedInTheEnd` needs and a browser provides.
* Answer of a request: weak fairness of its thread. Instances may come and go, or not.

## 4. Proofs

* **`GuardInvariant`, `BusExclusion`, `OutermostRelease`** (`DBusConnectProofs`).
  For any threads and depth, from `GuardAssumption`. Exclusion alone is not
  inductive: whether a destructor frees the connection depends on the flag of its
  guard object. `GuardInv` adds that the connection is captured exactly while some
  thread's depth is positive, and then by that thread, and that of its guard
  objects the outermost alone has `calledUnsafe` unset. That is
  `OutermostReleases`; `PendingIsFresh` adds that a guard object which is still
  trying to enter has its flag cleared: a flag left over from an earlier call would
  make a later outermost destructor skip the release.
* **`GuardImplementsLock`**: under `GuardInv` each step of the guard is an acquire,
  a release or a stutter of `ReentrantLock`.
* **`ConnectInvariant`, `ObserverGone`, `ConnectUsesGuard`** (the same module).
  `ConnectInv` says how `alive`, the pointer, the state of the loop and the closed
  connection go together, and that the observing thread is inside the guard only
  while its loop dispatches. That is not inductive without `GuardInv`: a request
  thread's step must be known to leave the observing thread's depth alone.
  `ConnectUsesGuard` makes the theorems of the guard hold of the connection: each
  step is a step of the guard or leaves its variables alone.
* **`WatchInvariant`, `NoWatchLeaks`, `CacheTypes`** (`EntityCacheProofs`). For any
  objects, instances and request threads, both sources, failing queries and
  exceptions. That every registered match is of a referenced instance or has its
  hash queued is not inductive: a destructor queues the hash of its object, so the
  match must be kept under that object (`WatchesOwnObject`), and a reference that is
  overwritten instead of dropped would be lost without a destructor
  (`NothingOverwritten`). `DestructorsKeep` is the lemma every step that drops a
  reference uses; `GrowthKeeps` the one of the steps that only add references. The
  types (`TypeOK`) are a part of the same invariant.
* **`SettledCacheIsPresent`** (the same module). For a cached source and queries that
  do not fail. That the cache is what is there once no signal is left says nothing
  of the states in between; `StartupInv` does. The last queued signal of an object
  tells whether it is there (`LastTells`), no signal is handled before the dbus
  thread observes (`StartInv`), and what a fill in progress or the cache lacks, or
  holds although it is gone, has a signal that waits (`FilledInv`).
* **`LoginsInvariant`, `FilesOnlyLogins`** (`SessionSharingProofs`). A commit
  writes what `authTokens` holds, so `FilesHoldLogins` needs the same of the store:
  `LoginsInv` adds that each session in it which a commit may write (every one
  but the `SINGLE_REQUEST` ones of Basic requests) is one bmcweb logged in, with
  the storage type of that login.
* **`AcceptedFresh`** (the same module). The sweep does not run for every request, and
  the clock counts fractions of a second. `SweptInv`: at the last sweep every session
  that is still in the store was younger than the timeout, and a request that
  authenticates sweeps first unless at most a second has passed. So what is accepted
  is overdue by less than a second; that it may be overdue at all is the code's
  (section 5).
* **`MutexHeldInside`** (the same module). The types, among them that `mutex` is
  held by the thread that stands inside `readData`. A thread whose file does not parse, or
  that commits a generated uuid, is still inside: `MutexInv` adds `FreshInv`, which
  says where each thread of a request stands.
* **`WalkInvariant`, `CriteriaCorrect`, `AscendingExact`** (`InterfaceCriteriaProofs`).
  For lists of any length and any numbers, in any order. The decision itself is not
  right (finding `criteria`); `OnlyHiddenMissed` says how wrong it may be: what is
  accepted shares an interface, and a shared interface is missed only where it stands
  behind a greater one in the definition or in the signal (`BehindGreater`). The
  inductive invariant `WalkInv` says the same of the walk: an element that was passed
  without being counted is in the other list (`CountInv`), and while everything is
  counted, what was passed of a shared interface stood behind a greater one
  (`PassedInv`). `AscendingExact` follows: of two ascending lists nothing is missed.
* **`ReadTypes`, `BootModeFresh`, `RollupWithin`** (`EntityReadProofs`). For any
  number of readers, sensors, images and signals. `TypeInv` adds to the types that a
  thread which has sensors left to visit stands at `StatusRollup`, or a pass could
  run past its last provider. `BootInv` says that the mode is fresh or half handled,
  in which case the rest of the handler makes it fresh: `FormatSource` keeps a
  special mode and replaces any other by that of the source (`BootFormats`). With an
  unknown source it replaces nothing, and what remains is that the mode is none of the
  special ones, for both boot objects. `SpanInv` says for each
  thread in the roll-up that what it has gathered is no lower than any sensor it
  visited has been and no higher than some related sensor has been (`Gathered`), and
  that what is stored is so as soon as any thread is past the roll-up: the last
  thread to store overwrites the result of the others, and theirs must stand up to
  it.
* **`QuietReadCurrent`, `OnePassBehind`** (the same module). While only one reader
  runs and no signal comes, at every stage of its pipeline the members of the stages
  it has passed are those of the services, whatever the fields held before; so the
  answer at the end is current. The status is written before or after the roll-up,
  as the map orders the getters, so it is of this pass or the one before.
* **`InstanceTypes`, `DerivedCurrent`, `CacheCurrent`** (`InstanceStateProofs`). For
  any numbers of changes and failures, and each class whose setters do not consume
  what they read. Of the setters three facts are enough, proved per class
  (`SettersOK`): they leave the properties as they are, but for a default; run twice
  they change nothing; and what they derive depends on the properties only. With
  these, `InstanceInv` says that the last signal of a property carries what the
  service has (`LastIsCurrent`) and, for each place of the filler and of the handler,
  what is derived by now (`DerivedInv`) and what is current, about to be written, or
  announced by a signal (`CurrentInv`). Two threads at work at once (`mixed`) and
  interfaces changed before they are watched (`unseen`) are where the code loses it.
* **`ManagerTypes`, `AnswersHeal`, `SettledShown`, `NothingReenters`,
  `HandlersOnce`** (`EntityManagerProofs`). For any objects that move, failures,
  requests and signals, over the catalogue as the code declares it: `Catalogue` reads
  off it which entities depend on what. The invariants speak of the agenda. `ManagerInv`: a
  cached entity is being filled only while the end of its fill is on the agenda
  (`FillsEnd`); between requests nothing is, so that a request for a failed entity
  asks again (`HealInv`); what is stored next is at the head of the agenda
  (`SetFirst`); and an entity that counts as filled has its query ahead, or has its
  handlers registered and failed, waits for a signal, is about to be stored, or shows
  its object - the other way round with the two exceptions of `SettledShowsObjects`
  (`ShownInv`). `CallInv`: ahead of the end of a cached fill are only queries for
  objects (`FillRuns`), ahead of relations that are being built only populates and
  reads of what depends on nothing (`BuildRuns`), so no fill and no static can meet
  itself; and a query that belongs to one cached entity is on the agenda or done, not
  both, and only since its fill began (`OnceInv`). `FirmwareProvider`, which two
  entities fill, is the exception that `ObservedOnce` and these sets name.
* **`ApiTypes`, `StatusTells`, `ShowsRelatedOnly`, `OnlyArrivals`** (`WebApiProofs`).
  For any instances, names, paths, queries and changes. `ApiInv` has a part for each
  handler. `RedfishInv`: nothing is noted before the getters run, what was verified
  is of its node's entity and live or departed (`RedfishParts`), and while the getters
  run the status is OK as long as no top-level member is annotated (`PhaseInv`).
  `GraphqlInv`: the stack has one builder for each selection set that is open
  (`VisitInv`), each with an item for all that is live as long as nothing arrived
  (`BuildersOK`), so no fragment is missed.
* **`ResolvesSpelled`, `ListedMembersResolve`** (the same module). That the node found
  is the one spelled needs what the walk has passed over: `ResolveInv` says that what
  is matched so far spells the node it stands at (`SpellsInv`), that a node which
  spells the rest is still ahead while its instances last (`SoughtInv`), and which
  instance each parameter found as long as nothing changed (`QuietInv`). Two facts
  about the modelled part of the tree carry it: siblings differ, so at most one is
  spelled, and the node with a prefix has no siblings, so none is tried at a wrong depth;
  what happens to a sibling that is tried behind a prefix is thus not exercised. What the nodes
  spell is derived level by level from the root, as an induction over the tree is out
  of reach. A listed member then resolves, since the two conversions of a name cancel
  where it has neither an underscore nor a slash.

Every invariant the passing runs check is proved, and the refinement of the lock. The theorems assume
only the modules' named assumptions (`GuardAssumption`, `ConnectAssumption`,
`CacheAssumption`, `SessionAssumption`, `ReadAssumption`,
`ClassesAssumption`, `ManagerAssumption`, `InstancesAssumption`, `RedfishAssumption`,
`GraphqlAssumption`, `QueriesAssumption`, `PathsAssumption`), which type the constants
and say that names are distinct. Four say more, and why they may:

* `ManagerAssumption`: what comes and goes are objects on the bus, so of an entity
  made from another entity's members it is the other that moves; and of the queries
  only those that ask the mapper fail, not those of a fixed object.
* `QueriesAssumption`: the visitor closes only selection sets it opened, since the
  parser accepts nothing else.
* `PathsAssumption`: a path begins with the root's segment, as the router only hands
  such paths to the Redfish handler.
* `SessionAssumption`: the files that are there at the start hold sessions with
  tokens bmcweb gave out.

`SettledCacheIsPresent` is about a cached source whose queries do not fail: with
failures the code does not keep it (section 5).

Only model-checked: liveness (`BusFreedAgain`, `ShutdownCompletes`, `OrphansPruned`,
`GuardFileRemoved`, `InitializedInTheEnd`, `RequestAnswered`), which needs fairness
and ENABLED and is out of the prover's reach. The tables of the catalogue, of the
classes and of the Redfish tree are definitions, not parameters: the proofs go
through them as they are, and a changed table needs its lemmas (`Catalogue`,
`SettersOK` of the class, `DownTheTree`) checked again.

## 5. Findings

The runs that end in a violation: `criteria` (`set_difference` over a search list that
is not ascending overlooks the interface that matches), `double_fill` (test and set of `cachingInProgress`
are two steps), `timed_out` (the file restores what the sweep ended, with a fresh
idle time), `wrong_parameter` (a parameter that nothing matches verifies as the
instance before it). `PROJECT.json` quotes the comment each one contradicts.

### Known behaviours

The models also reach these states, or leave them out by name, which follow from the
code and which the properties above are stated so as not to deny. To see a trace
where a formula stands, add it to the module as an invariant.

Connection, cache and queries:

* errno is compared with negative numbers (`dbus_connect.cpp` 97), so a corrupt
  connection never ends the process.
* The pruning of watchers talks to the bus without the guard, while a request
  thread is inside a call: `DBusConnect`, `loop = "cleanup" /\ \E t \in Threads : depth[t] > 0`.
* A SIGINT on a request thread inside a guarded call never ends: the handler joins
  the observing thread, which waits for the guard that the interrupted thread holds.
  `ShutdownCompletes` leaves that thread out.
* After an exception in `populate`, `cachingInProgress` stays set and the entity is
  never filled again: `EntityCache` with `MayThrow = TRUE`,
  `cachingInProgress => \E t \in Readers : reader[t].pc \in FillSteps`.
* The hash of a destroyed duplicate prunes the watchers of the living, cached
  instance of the same object, which then misses changes:
  `Settled => \A o \in Cached : instances[o] \in listeners[o]`.
* Values are read before the match is registered, so a change in between is lost:
  `Settled => \A o \in Cached \cap present : state[instances[o]] => field[instances[o]] = world[o]`.
* When a failed query makes a request fill the entity again, an InterfacesRemoved
  between query and store leaves a removed object in the cache (`SettledIsPresent`
  with `MayFail = TRUE`; `SettledShowsObjects` without `overtaken`).
* A query for a fixed object makes an instance of it whether it exists or not
  (`SettledShowsObjects` without `FixedObject`).
* A provider that is marked populated is not asked again when its query failed: the
  next fill of its entity does that, the next request alone does not. Short-time
  entities, their providers and what fails register their handlers with every fill.
* Two requests on one lazy source: the reset of one empties what the other found.
* A short-time entity whose query failed is stamped as fresh and stays empty for its
  time to live.
* `FirmwareProvider` is processed by its own proxy and by Server's providers, twice
  at startup, although `proxy_query.hpp` is there to save that.
* `supplementOrUpdate` never removes a member the source no longer has.
  `captureDBusAssociations` clears the complex instances while `getComplex` copies
  them. `enqueueSignalHandler` is dead code, since `is_same_v` in
  `processGlobalSignal` is always false. An overload of `getSignalHash` that nobody
  calls reads an uninitialized hash.

Instances, definitions and roll-up:

* A request that initializes an instance while the observing thread handles a signal
  for it may store the older value last (`mixed` in `InstanceState`).
* Interfaces that were added to a known object are fetched once and never watched
  (`unseen`).
* `setDeviceSubClass` and `setImageName` consume what they read: the second
  derivation gives another value (`Consuming`).
* An IP address keeps its mask when it becomes an IPv6 one.
* A boot source the dictionary does not know leaves the mode of an earlier one standing
  (`server.hpp` 524), so the mode then depends on what came before.
* Between the two steps of a handler a reader sees a member without what is derived
  from it (HostPower, firmware).
* `alarmFieldsDict` (`sensors.hpp` 304-313) lists the critical alarms under
  `Status::ok`: a sensor in a critical alarm shows ok.
* `NetAdapter` overwrites its status with that of a roll-up without relations, which
  is ok. `Drive` has the getters of a roll-up and no relations either.
* `StatusFromRollup` may show the roll-up of the pass before, since the order of the
  getters is that of an unordered map.
* `getRelation` does not fill its destination anew, whatever its comment says.
* `getNetmask(0)` shifts a 32-bit word by 32.

Sessions:

* A sweep shortly before the timeout keeps a session and puts off the next sweep: for
  up to a second a session that is overdue is accepted (`AcceptedIsFresh` with
  `age < Timeout`).
* A session that bmcweb ended stays accepted, because `restore` only adds; the next
  commit writes it back.
* The session of a Basic request stays in the store until it has been idle for the
  timeout, although `SINGLE_REQUEST` says it ends with the request.
* A login of bmcweb between `readData` and `commit` of a request is overwritten, as
  are the sessions on disk when the persistent file is missing at start; two commits
  at once may leave a file that does not parse.

Redfish and GraphQL:

* A sibling tried after a node with a prefix starts behind the prefix. That does no
  harm in this tree, where the two nodes with a prefix (`HTTPSCertificates` and
  `DriveNode`) have no siblings; it is what `ResolvesAsSpelled` depends on.
* Names with an underscore or a slash never resolve, and a physical interface without VLANs
  lists itself as the VLAN N/A.
* The status of an error inside an object or a link is lost: the answer is 200 with
  an annotation.
* Links to `/redfish/v1/UpdateService/...` lead out of the tree; the links to PCIe
  functions are made from another member than the one the node is found by.
* When the source of a relation left its cache, all instances of the destination are
  shown.
* An instance that appears between two fields of a GraphQL query makes the visitor
  ask for a fragment nobody made: the exception is not the one that is caught, and
  the destructor throws again while unwinding, which ends the process
  (`outcome = "terminated"`). Every other GraphQL answer has the status OK.

## 6. Not modelled

* Data races as such: `authTokens`, the vectors of handlers and the map changed by
  `removeInstance` have no lock. Each access is one atomic step here; what a torn
  container does is undefined.
* The names of services (`getWellKnownServiceName` with its 17 tries under the guard,
  `NameOwnerChanged`): a call goes to the right service here.
* Method-call queries read their reply like any other: how it is parsed is left out.
* PAM, the parsing of headers and of JSON, the run-time change of timeout and
  methods, TLS methods, FastCGI.
* The formatters but those of statuses and boot modes: tables of conversions.
* The branches of the Redfish tree that repeat constructs of those modelled: Systems,
  the other children of `ChassisNode`, and the rest of what the generator makes.
* The catch of an `SdBusError` around the queries of one fill (`entity.cpp` 460-465).
* Command line tools, scripts and tests.

## 7. What is left

1. `ServiceNames`: `getWellKnownServiceName`, `NameOwnerChanged`, a unique connection
   that owns two names. Property: a name is resolved to its current owner; a handler
   ends after finitely many tries.
2. Proofs: nothing the runs check as an invariant is left. Worth stating next are
   bounds the code relies on without saying so: how often a handler is registered
   when queries fail, and that a prune loses only watchers of an equal hash.
3. `InstanceAccessGuard`, the mutex of the entity and the guard of the bus together:
   deadlock freedom and lock order with `ReentrantLock` in place of the guard.
4. An abstract specification of the cache that `EntityCache` implements: a settled
   cache is a snapshot of the bus.
