----------------------------- MODULE EntityCache -----------------------------
(***************************************************************************)
(* One entity, its single FindObject query and the instances it caches:    *)
(* EntityManager::getEntity (populate) and BaseEntity::getInstances on the *)
(* request threads, the signal handlers and the pruning of watchers on the *)
(* dbus thread, the D-Bus services they all look at.                       *)
(*                                                                         *)
(* Source = "cached" is a CachedSource entity, "lazy" a LazySource one.    *)
(* An instance is a DBusInstance object: it lives while the cache or a     *)
(* thread refers to it, and its destructor queues its hash for pruning.    *)
(* The hash of service and path is the object itself.  listeners[o] holds  *)
(* the instances for which a PropertiesChanged match of o is registered.   *)
(*                                                                         *)
(* Calls on the bus go through DBusCallGuard, so a request thread's call   *)
(* never falls inside a signal handler (module DBusCallGuard); its other   *)
(* steps do.  A value of an object is a version number that grows.         *)
(***************************************************************************)
EXTENDS Integers, FiniteSets, Sequences, Functions

CONSTANTS Objects,        \* D-Bus objects that match the query
          Readers,        \* threads that ask for the entity
          Main,           \* the one that runs Application::configure
          Instances,      \* DBusInstance objects (bound: alive or watched)
          None,
          Source,         \* "cached" or "lazy"
          MayFail,        \* GetSubTree may fail
          MayThrow,       \* a formatter may throw what populate lets through
          MaxEvents       \* bound: changes on the bus and failed calls

ASSUME CacheAssumption ==
    /\ Main \in Readers
    /\ None \notin Instances \cup Objects /\ Objects # {}
    /\ Source \in {"cached", "lazy"}
    /\ MayFail \in BOOLEAN /\ MayThrow \in BOOLEAN
    /\ MaxEvents \in Nat

VARIABLES present,            \* the objects the services export
          world,              \* the current value of each object
          events,             \* how many of these happened
          inbox,              \* signals received and not dispatched
          instances,          \* BaseEntity::instances, hash -> instance
          field,              \* instance -> value of its member, NoValue
          state,              \* instance -> DBusInstance::state
          object,             \* instance -> its object
          listeners,          \* DBusInstance::listeners
          toCleanupInstances, \* DBusInstance::toCleanupInstances
          initialized, hasErrors, cachingInProgress,    \* CachedSource
          registered,         \* observer pairs pushed by DBusQuery::configure
          reader,             \* what each request thread is doing
          handler,            \* what the dbus thread is doing
          observing           \* DBusConnect::run was called

worldVars == <<present, world, events>>
dataVars == <<field, state, object>>
flagVars == <<initialized, hasErrors, cachingInProgress>>
vars == <<worldVars, inbox, instances, dataVars, listeners,
          toCleanupInstances, flagVars, registered, reader, handler, observing>>

NoValue == -1
Signal == [kind : {"added", "removed", "changed"}, obj : Objects, val : Int]

FillSteps == {"claim", "reset", "query", "create", "bind", "finish"}
ReaderSteps == FillSteps \cup {"idle", "mark", "copy", "verify", "fill", "answer"}

IdleReader == [pc |-> "idle", todo |-> {}, holds |-> {}, new |-> None,
               reply |-> NoValue]
IdleHandler == [pc |-> "idle", obj |-> None, left |-> 0, new |-> None,
                found |-> None]

ReaderType == [pc : ReaderSteps, todo : SUBSET (Objects \cup Instances),
               holds : SUBSET Instances, new : Instances \cup {None}, reply : Int]
HandlerType == [pc : {"idle", "introspect", "create", "merge"},
                obj : Objects \cup {None}, left : Nat,
                new : Instances \cup {None}, found : Instances \cup {None}]

TypeOK ==
    /\ present \subseteq Objects /\ world \in [Objects -> Nat]
    /\ events \in 0..MaxEvents /\ inbox \in Seq(Signal)
    /\ instances \in [Objects -> Instances \cup {None}]
    /\ field \in [Instances -> Int] /\ state \in [Instances -> BOOLEAN]
    /\ object \in [Instances -> Objects]
    /\ listeners \in [Objects -> SUBSET Instances]
    /\ toCleanupInstances \subseteq Objects
    /\ initialized \in BOOLEAN /\ hasErrors \in BOOLEAN
    /\ cachingInProgress \in BOOLEAN /\ observing \in BOOLEAN
    /\ registered \in Nat
    /\ reader \in [Readers -> ReaderType]
    /\ \A t \in Readers :
        /\ reader[t].pc \in {"create", "bind"} => reader[t].todo \subseteq Objects
        /\ reader[t].pc \in {"verify", "fill"} => reader[t].todo \subseteq Instances
    /\ handler \in HandlerType
    /\ handler.left <= registered
    /\ handler.pc = "idle" <=> handler.left = 0
    /\ handler.pc # "idle" => handler.obj \in Objects

Init ==
    /\ present \in SUBSET Objects
    /\ world = [o \in Objects |-> 0]
    /\ events = 0 /\ inbox = <<>>
    /\ instances = [o \in Objects |-> None]
    /\ field = [i \in Instances |-> NoValue]
    /\ state = [i \in Instances |-> FALSE]
    /\ object = [i \in Instances |-> CHOOSE o \in Objects : TRUE]
    /\ listeners = [o \in Objects |-> {}]
    /\ toCleanupInstances = {}
    /\ initialized = FALSE /\ hasErrors = FALSE /\ cachingInProgress = FALSE
    /\ registered = 0
    /\ reader = [t \in Readers |-> IdleReader]
    /\ handler = IdleHandler
    /\ observing = FALSE

-----------------------------------------------------------------------------
(* Lifetime of instances *)

\* The instances some shared_ptr refers to.
Refs(map, rdr, hdl) ==
    (Range(map) \cup (UNION {rdr[t].holds \cup {rdr[t].new} : t \in Readers})
        \cup {hdl.new, hdl.found}) \ {None}

Referenced == Refs(instances, reader, handler)

\* A destructor that does not queue the hash.
NobodyMarked(before, after) == toCleanupInstances

\* ~DBusInstance -> markInstanceIsUnavailable of what lost its last reference.
MarkInstances(before, after) ==
    toCleanupInstances \cup {object[i] : i \in before \ after}

\* Every step that may drop references runs the destructors it causes.
Destructors ==
    toCleanupInstances' = MarkInstances(Referenced,
                                        Refs(instances', reader', handler'))

Fresh(i) == i \notin Referenced /\ \A o \in Objects : i \notin listeners[o]

\* make_shared<DBusInstance> and initialize(): GetAll fills the members, or
\* fails when the object is gone and leaves the instance uninitialized.
NewInstance(i, o) ==
    /\ Fresh(i)
    /\ object' = [object EXCEPT ![i] = o]
    /\ field' = [field EXCEPT ![i] = IF o \in present THEN world[o] ELSE NoValue]
    /\ state' = [state EXCEPT ![i] = o \in present]

\* update() of the startup only populates; a request goes on to getInstances.
AfterPopulate == IF observing THEN "copy" ELSE "idle"

\* The dbus thread is not inside a handler: a request thread gets the bus.
BusFree == handler.pc = "idle"

-----------------------------------------------------------------------------
(* populate() and getInstances() on a request thread *)

At(t, step) == reader[t].pc = step
Goto(t, step) == reader' = [reader EXCEPT ![t].pc = step]

\* CachedSource::populate's test; LazySource::populate has none.
MustFill == Source = "cached" =>
                ~cachingInProgress /\ (~initialized \/ hasErrors)

\* getEntity(): before run() only Application::configure asks.
Populate(t) ==
    /\ At(t, "idle")
    /\ observing \/ t = Main
    /\ \/ /\ MustFill
          /\ Goto(t, IF Source = "cached" THEN "claim" ELSE "reset")
       \/ /\ ~MustFill
          /\ Goto(t, AfterPopulate)
    /\ UNCHANGED <<worldVars, inbox, instances, dataVars, listeners,
                   toCleanupInstances, flagVars, registered, handler, observing>>

\* cachingInProgress = true; hasErrors = false
Claim(t) ==
    /\ At(t, "claim")
    /\ cachingInProgress' = TRUE
    /\ hasErrors' = FALSE
    /\ Goto(t, "reset")
    /\ UNCHANGED <<worldVars, inbox, instances, dataVars, listeners,
                   toCleanupInstances, initialized, registered, handler, observing>>

\* resetCache(), then configure(query): CachedSource pushes the two observers
\* of the query once more, LazySource registers nothing.
Reset(t) ==
    /\ At(t, "reset")
    /\ instances' = [o \in Objects |-> None]
    /\ registered' = IF Source = "cached" THEN registered + 1 ELSE registered
    /\ Goto(t, "query")
    /\ UNCHANGED <<worldVars, inbox, dataVars, listeners, flagVars, handler,
                   observing>>
    /\ Destructors

\* FindObjectDBusQuery::process: GetSubTree.  A failure raises hasFailures,
\* which invalidateCache() hears, and the query goes on with no objects.
Query(t) ==
    /\ At(t, "query") /\ BusFree
    /\ \/ /\ reader' = [reader EXCEPT ![t].pc = "create", ![t].todo = present]
          /\ UNCHANGED <<events, hasErrors>>
       \/ /\ MayFail /\ events < MaxEvents /\ events' = events + 1
          /\ reader' = [reader EXCEPT ![t].pc = "create", ![t].todo = {}]
          /\ hasErrors' = (hasErrors \/ Source = "cached")
    /\ UNCHANGED <<present, world, inbox, instances, dataVars, listeners,
                   toCleanupInstances, initialized, cachingInProgress,
                   registered, handler, observing>>

\* createInstance() for the next object of the answer.
Create(t) ==
    /\ At(t, "create") /\ BusFree
    /\ \E o \in reader[t].todo, i \in Instances :
        /\ NewInstance(i, o)
        /\ reader' = [reader EXCEPT ![t].pc = "bind", ![t].new = i,
                                    ![t].todo = @ \ {o}]
    /\ UNCHANGED <<worldVars, inbox, instances, listeners, toCleanupInstances,
                   flagVars, registered, handler, observing>>

\* bindListeners(): the match is made on the bus and kept under the hash.
Bind(t) ==
    /\ At(t, "bind") /\ BusFree
    /\ LET i == reader[t].new IN
        /\ listeners' = [listeners EXCEPT ![object[i]] = @ \cup {i}]
        /\ reader' = [reader EXCEPT ![t].pc = "create", ![t].new = None,
                                    ![t].holds = @ \cup {i}]
    /\ UNCHANGED <<worldVars, inbox, instances, dataVars, toCleanupInstances,
                   flagVars, registered, handler, observing>>

\* A formatter throws something other than SdBusError: populate() is left and
\* the request fails (during the startup the process would end).
Throw(t) ==
    /\ MayThrow /\ observing
    /\ At(t, "create") /\ reader[t].todo # {}
    /\ reader' = [reader EXCEPT ![t] = IdleReader]
    /\ UNCHANGED <<worldVars, inbox, instances, dataVars, listeners, flagVars,
                   registered, handler, observing>>
    /\ Destructors

\* setInstances(): insert_or_assign every instance of the query.
Store(t) ==
    /\ At(t, "create") /\ reader[t].todo = {}
    /\ instances' = [o \in Objects |->
                        LET mine == {i \in reader[t].holds : object[i] = o}
                        IN  IF mine = {} THEN instances[o]
                            ELSE CHOOSE i \in mine : TRUE]
    /\ reader' = [reader EXCEPT
                    ![t].pc = IF Source = "cached" THEN "finish" ELSE AfterPopulate,
                    ![t].holds = {}]
    /\ UNCHANGED <<worldVars, inbox, dataVars, listeners, flagVars, registered,
                   handler, observing>>
    /\ Destructors

\* cachingInProgress = false
Finish(t) ==
    /\ At(t, "finish")
    /\ cachingInProgress' = FALSE
    /\ Goto(t, "mark")
    /\ UNCHANGED <<worldVars, inbox, instances, dataVars, listeners,
                   toCleanupInstances, initialized, hasErrors, registered,
                   handler, observing>>

\* if (!hasErrors) initialized = true
Mark(t) ==
    /\ At(t, "mark")
    /\ initialized' = (initialized \/ ~hasErrors)
    /\ Goto(t, AfterPopulate)
    /\ UNCHANGED <<worldVars, inbox, instances, dataVars, listeners,
                   toCleanupInstances, hasErrors, cachingInProgress,
                   registered, handler, observing>>

\* getInstances(): the map is copied under the mutex.
Copy(t) ==
    /\ At(t, "copy")
    /\ LET snapshot == Range(instances) \ {None} IN
        reader' = [reader EXCEPT ![t].pc = "verify", ![t].holds = snapshot,
                                 ![t].todo = snapshot]
    /\ UNCHANGED <<worldVars, inbox, instances, dataVars, listeners,
                   toCleanupInstances, flagVars, registered, handler, observing>>

\* verifyState(): an uninitialized instance asks for its properties again.
Verify(t) ==
    /\ At(t, "verify")
    /\ \E i \in reader[t].todo :
        \/ /\ state[i]
           /\ reader' = [reader EXCEPT ![t].todo = @ \ {i}]
        \/ /\ ~state[i] /\ BusFree
           /\ reader' = IF object[i] \in present
                        THEN [reader EXCEPT ![t].pc = "fill", ![t].new = i,
                                            ![t].reply = world[object[i]]]
                        ELSE [reader EXCEPT ![t].todo = @ \ {i}]
    /\ UNCHANGED <<worldVars, inbox, instances, dataVars, listeners,
                   toCleanupInstances, flagVars, registered, handler, observing>>

\* The answer is written into the shared instance and it is initialized.
Fill(t) ==
    /\ At(t, "fill")
    /\ field' = [field EXCEPT ![reader[t].new] = reader[t].reply]
    /\ state' = [state EXCEPT ![reader[t].new] = TRUE]
    /\ reader' = [reader EXCEPT ![t].pc = "verify", ![t].new = None,
                                ![t].reply = NoValue,
                                ![t].todo = @ \ {reader[t].new}]
    /\ UNCHANGED <<worldVars, inbox, instances, object, listeners, flagVars,
                   registered, handler, observing>>
    /\ Destructors

\* The list is complete and answered from,
Answer(t) ==
    /\ At(t, "verify") /\ reader[t].todo = {}
    /\ Goto(t, "answer")
    /\ UNCHANGED <<worldVars, inbox, instances, dataVars, listeners,
                   toCleanupInstances, flagVars, registered, handler, observing>>

\* and goes out of scope.
Done(t) ==
    /\ At(t, "answer")
    /\ reader' = [reader EXCEPT ![t] = IdleReader]
    /\ UNCHANGED <<worldVars, inbox, instances, dataVars, listeners, flagVars,
                   registered, handler, observing>>
    /\ Destructors

ReaderStep(t) ==
    \/ Populate(t) \/ Claim(t) \/ Reset(t) \/ Query(t) \/ Create(t) \/ Bind(t)
    \/ Throw(t) \/ Store(t) \/ Finish(t) \/ Mark(t) \/ Copy(t) \/ Verify(t)
    \/ Fill(t) \/ Answer(t) \/ Done(t)

-----------------------------------------------------------------------------
(* The dbus thread *)

\* runDBusObserve() before entityManager.update().
ObserveFirst == TRUE

\* Application::configure runs entityManager.update() before runDBusObserve().
\* What update() left in a LazySource entity the next populate resets.
UpdatedFirst == Source = "lazy" \/ (registered > 0 /\ At(Main, "idle"))

Observe ==
    /\ ~observing /\ UpdatedFirst
    /\ observing' = TRUE
    /\ UNCHANGED <<worldVars, inbox, instances, dataVars, listeners,
                   toCleanupInstances, flagVars, registered, reader, handler>>

Dispatching(kind) ==
    /\ observing /\ BusFree
    /\ inbox # <<>> /\ Head(inbox).kind = kind
    /\ inbox' = Tail(inbox)

\* PropertiesChanged: every match of the object fills its living instance.
DispatchChanged ==
    /\ Dispatching("changed")
    /\ field' = [i \in Instances |->
                    IF i \in listeners[Head(inbox).obj] /\ i \in Referenced
                    THEN Head(inbox).val ELSE field[i]]
    /\ UNCHANGED <<worldVars, instances, state, object, listeners, flagVars,
                   toCleanupInstances, registered, reader, handler, observing>>

\* InterfacesRemoved: removeInstance(hash), without the mutex.
DispatchRemoved ==
    /\ Dispatching("removed")
    /\ instances' = IF registered > 0
                    THEN [instances EXCEPT ![Head(inbox).obj] = None]
                    ELSE instances
    /\ UNCHANGED <<worldVars, dataVars, listeners, flagVars, registered, reader,
                   handler, observing>>
    /\ Destructors

\* InterfacesAdded: one creation handler after another takes the signal.
DispatchAdded ==
    /\ Dispatching("added")
    /\ handler' = IF registered = 0 THEN IdleHandler
                  ELSE [IdleHandler EXCEPT !.pc = "introspect", !.left = registered,
                                           !.obj = Head(inbox).obj]
    /\ UNCHANGED <<worldVars, instances, dataVars, listeners, flagVars,
                   toCleanupInstances, registered, reader, observing>>

\* One handler too many is asked.
PastTheLast(h) == [h EXCEPT !.pc = "introspect", !.left = @ - 1,
                            !.new = None, !.found = None]

NextHandler(h) == IF h.left = 1 THEN IdleHandler
                  ELSE [h EXCEPT !.pc = "introspect", !.left = @ - 1,
                                 !.new = None, !.found = None]

\* introspectDBusObjectInterfaces: of an object that is gone nothing is found,
\* the criteria fail and the handler returns.
HandlerIntrospect ==
    /\ handler.pc = "introspect"
    /\ handler' = IF handler.obj \in present
                  THEN [handler EXCEPT !.pc = "create"] ELSE NextHandler(handler)
    /\ UNCHANGED <<worldVars, inbox, instances, dataVars, listeners, flagVars,
                   toCleanupInstances, registered, reader, observing>>

\* createInstance(), and the entity is asked for the instance it has.
HandlerCreate ==
    /\ handler.pc = "create"
    /\ \E i \in Instances :
        /\ NewInstance(i, handler.obj)
        /\ handler' = [handler EXCEPT !.pc = "merge", !.new = i,
                                      !.found = instances[handler.obj]]
    /\ UNCHANGED <<worldVars, inbox, instances, listeners, flagVars,
                   toCleanupInstances, registered, reader, observing>>

\* Not cached: bindListeners and mergeInstance, which meets an instance that
\* a request thread stored meanwhile and then only updates that one.
HandlerInsert ==
    /\ handler.pc = "merge" /\ handler.found = None
    /\ LET o == handler.obj
           i == handler.new IN
        /\ listeners' = [listeners EXCEPT ![o] = @ \cup {i}]
        /\ instances' = [instances EXCEPT ![o] = IF @ = None THEN i ELSE @]
        /\ field' = IF instances[o] = None THEN field
                    ELSE [field EXCEPT ![instances[o]] = field[i]]
    /\ handler' = NextHandler(handler)
    /\ UNCHANGED <<worldVars, inbox, state, object, flagVars, registered,
                   reader, observing>>
    /\ Destructors

\* Cached: its metadata is merged and it is marked uninitialized; the new
\* instance is destroyed.
HandlerUpdate ==
    /\ handler.pc = "merge" /\ handler.found # None
    /\ state' = [state EXCEPT ![handler.found] = FALSE]
    /\ handler' = NextHandler(handler)
    /\ UNCHANGED <<worldVars, inbox, instances, field, object, listeners,
                   flagVars, registered, reader, observing>>
    /\ Destructors

\* A pruning that only forgets what there was to prune.
PruneNothing == listeners

\* cleanupInstacesWatchers: the whole entry of each queued hash is erased.
Pruned == [o \in Objects |-> IF o \in toCleanupInstances THEN {} ELSE listeners[o]]

Cleanup ==
    /\ observing /\ BusFree
    /\ toCleanupInstances # {}
    /\ listeners' = Pruned
    /\ toCleanupInstances' = {}
    /\ UNCHANGED <<worldVars, inbox, instances, dataVars, flagVars, registered,
                   reader, handler, observing>>

BusStep == Observe \/ DispatchChanged \/ DispatchRemoved \/ DispatchAdded
           \/ HandlerIntrospect \/ HandlerCreate \/ HandlerInsert \/ HandlerUpdate
           \/ Cleanup

-----------------------------------------------------------------------------
(* The services on the bus *)

Emit(kind, o, v) == Append(inbox, [kind |-> kind, obj |-> o, val |-> v])

Appear(o) ==
    /\ o \notin present /\ present' = present \cup {o}
    /\ inbox' = Emit("added", o, NoValue)
    /\ UNCHANGED world

Vanish(o) ==
    /\ o \in present /\ present' = present \ {o}
    /\ inbox' = Emit("removed", o, NoValue)
    /\ UNCHANGED world

\* The daemon forwards the signal when a match of ours asks for it.
Change(o) ==
    /\ o \in present
    /\ world' = [world EXCEPT ![o] = @ + 1]
    /\ inbox' = IF listeners[o] = {} THEN inbox ELSE Emit("changed", o, world[o] + 1)
    /\ UNCHANGED present

Services ==
    /\ events < MaxEvents
    /\ events' = events + 1
    /\ \E o \in Objects : Appear(o) \/ Vanish(o) \/ Change(o)
    /\ UNCHANGED <<instances, dataVars, listeners, toCleanupInstances, flagVars,
                   registered, reader, handler, observing>>

Next == Services \/ BusStep \/ \E t \in Readers : ReaderStep(t)

\* Every thread keeps running; services need not do anything.
Fairness ==
    /\ WF_vars(BusStep)
    /\ \A t \in Readers : WF_vars(ReaderStep(t) /\ ~At(t, "idle"))

Spec == Init /\ [][Next]_vars /\ Fairness

-----------------------------------------------------------------------------
Cached == {o \in Objects : instances[o] # None}

\* Nothing is under way: no signal, no request, no pruning.
Settled ==
    /\ observing /\ inbox = <<>> /\ BusFree /\ toCleanupInstances = {}
    /\ \A t \in Readers : At(t, "idle")

\* No watcher leaks: a registered match belongs to a living instance, or its
\* hash is queued and the next pruning drops it.  Destructors run on request
\* threads, inside handlers and inside resetCache at any moment.
NoOrphanWatch ==
    \A o \in Objects : \A i \in listeners[o] :
        i \in Referenced \/ o \in toCleanupInstances

\* A match is kept under the object of its instance, and what an instance is
\* about does not change while something refers to it or watches for it.
WatchesOwnObject ==
    /\ \A o \in Objects : \A i \in listeners[o] : object[i] = o
    /\ handler.pc = "merge" => /\ handler.new # None
                               /\ object[handler.new] = handler.obj
    /\ \A t \in Readers : reader[t].pc = "bind" => reader[t].new # None

\* A step that takes a reference finds its place empty, and so drops none
\* without running the destructor.
NothingOverwritten ==
    /\ \A t \in Readers :
        /\ reader[t].pc \notin {"bind", "fill"} => reader[t].new = None
        /\ reader[t].pc \in {"idle", "claim", "reset", "query", "finish", "mark",
                             "copy"} => reader[t].holds = {}
    /\ handler.pc # "merge" => handler.new = None /\ handler.found = None

\* The inductive strengthening of NoOrphanWatch.
WatchInv == TypeOK /\ WatchesOwnObject /\ NothingOverwritten /\ NoOrphanWatch

\* A match of a destroyed instance does not stay for ever.
OrphansPruned ==
    \A o \in Objects, i \in Instances :
        (i \in listeners[o] /\ i \notin Referenced) ~> i \notin listeners[o]

\* Application::configure populates before it observes: whatever objects came
\* and went meanwhile, once the queued signals are handled an initialized
\* entity caches exactly the objects there are.
SettledIsPresent == Settled /\ initialized => Cached = present

\* The comment on cachingInProgress: "the guard to avoid double processing of
\* the populate action".
NoDoubleFill ==
    Cardinality({t \in Readers : reader[t].pc \in FillSteps \ {"claim"}}) <= 1
=============================================================================
