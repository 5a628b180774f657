------------------------------ MODULE EntityManager ------------------------------
(***************************************************************************)
(* The main thread of the application from Application::configure on:      *)
(* EntityManager::configure and update, the wait of finishInitialization,  *)
(* and requests that acquire an entity and read it, one at a time.  What a *)
(* call has still to do is kept as an agenda of operations, because one    *)
(* populate calls others: a lazy entity reads its provider, the first read *)
(* of an entity builds its default getters and its relations, which        *)
(* acquire further entities.  The dbus thread handles object signals       *)
(* between any two of these operations.                                    *)
(*                                                                         *)
(* Whether an entity has instances is all that is kept of them.            *)
(***************************************************************************)
EXTENDS EntityCatalogue, Integers, SequencesExt

CONSTANTS Movable,       \* entities and providers whose D-Bus object may come and go
          Unreliable,    \* those whose query may fail
          Requested,     \* entities that are requested
          MaxChanges,    \* bound: object signals
          MaxFailures,   \* bound: failing queries
          MaxRequests    \* bound: requests

(* What EntityManager and the singletons of the providers hold.            *)
Class ==
    [AccountSettings |-> AccountSettings, Accounts |-> Accounts, Baseboard |-> Baseboard,
     BmcManager |-> BmcManager, Chassis |-> Chassis, DomainAccounts |-> DomainAccounts,
     DomainGroups |-> DomainGroups, Drive |-> Drive, Ethernet |-> Ethernet, Fan |-> Fan,
     Firmware |-> Firmware, FirmwareManagment |-> FirmwareManagment,
     HTTPSCertificates |-> CertificateBase, HostPower |-> HostPower, IP |-> IP,
     IntrusionSensor |-> IntrusionSensor, LDAPCertificates |-> CertificateBase,
     Memory |-> Memory, MemorySummary |-> MemorySummary, NetAdapter |-> NetAdapter,
     NetworkConfig |-> NetworkConfig, NetworkDHCPConfig |-> NetworkDHCPConfig,
     NetworkProtocol |-> NetworkProtocol, NtpProtocol |-> NtpProtocol,
     PCIeDevice |-> PCIeDevice, PCIeFunction |-> PCIeFunction, PID |-> PID,
     PIDProfile |-> PIDProfile, PIDZone |-> PIDZone, PSU |-> PSU, Processor |-> Processor,
     ProcessorSummary |-> ProcessorSummary, Roles |-> Roles, Sensors |-> Sensors,
     Server |-> Server, SessionManager |-> SessionManager, Settings |-> Settings,
     SnmpProtocol |-> SnmpProtocol, StorageControllers |-> StorageControllers,
     TrustStoreCertificates |-> CertificateBase, VirtualMedia |-> VirtualMedia]

ProviderClass ==
    [AccountSettingsProvider |-> AccountSettingsProvider, AssetTagProvider |-> AssetTagProvider,
     BootSettingsProvider |-> BootSettingsProvider, ChassisStateProvider |-> ChassisStateProvider,
     CpuSMBiosProvider |-> CpuSMBiosProvider, DimmSMBiosProvider |-> DimmSMBiosProvider,
     FirmwareProvider |-> FirmwareProvider, HostBootOnceProvider |-> HostBootOnceProvider,
     HostBootProvider |-> HostBootProvider, HostWatchdogProvider |-> HostWatchdogProvider,
     IndicatorLedProvider |-> IndicatorLedProvider,
     IpmiSolProtocolProvider |-> IpmiSolProtocolProvider, PCIeProvider |-> PCIeProvider,
     PMBusProvider |-> PMBusProvider, PowerRestorePolicyProvider |-> PowerRestorePolicyProvider,
     RebootRemainingProvider |-> RebootRemainingProvider]

(* One StatusByCallbackManager per observed entity.                        *)
StatusManagers == {"StatusByCallbackManager<PSU>", "StatusByCallbackManager<BmcManager>",
                   "StatusByCallbackManager<Server>"}

Names     == DOMAIN Class
Providers == DOMAIN ProviderClass \cup StatusManagers
Known     == Names \cup Providers

Declared(e) == CASE e \in Names                -> Class[e]
                 [] e \in DOMAIN ProviderClass -> ProviderClass[e]
                 [] e \in StatusManagers       -> StatusByCallbackManager

ProvidersOf(e) == [i \in DOMAIN Declared(e).providers |-> Declared(e).providers[i].by]
Destinations(e) == [i \in DOMAIN Declared(e).relations |-> Declared(e).relations[i].dest]

(* Queries of one fixed object: GetObjectDBusQuery does not ask the mapper *)
(* and makes an instance whether the bus has the object or not.            *)
FixedObject ==
    {"AccountSettingsProvider", "BootSettingsProvider", "ChassisStateProvider",
     "FirmwareManagment", "HostBootOnceProvider", "HostBootProvider", "HostWatchdogProvider",
     "NtpProtocol", "PowerRestorePolicyProvider", "RebootRemainingProvider", "SnmpProtocol"}
        \cup StatusManagers

(* Only an entity whose query looks for objects gains or loses one, and    *)
(* only a call of the mapper raises the error of a query.                  *)
ASSUME ManagerAssumption ==
    /\ Movable \subseteq {e \in Known : Declared(e).reads = {} /\ e # "StorageControllers"}
    /\ Unreliable \cap FixedObject = {}
    /\ Requested \subseteq Names
    /\ MaxChanges \in Nat /\ MaxFailures \in Nat /\ MaxRequests \in Nat

IsCached(e)  == Declared(e).source = "cached"
ShortTime    == {e \in Known : Declared(e).source = "shortTime"}

(* entityDictionary is a std::map: by name.                                *)
NameOrder ==
    <<"AccountSettings", "Accounts", "Baseboard", "BmcManager", "Chassis", "DomainAccounts",
      "DomainGroups", "Drive", "Ethernet", "Fan", "Firmware", "FirmwareManagment",
      "HTTPSCertificates", "HostPower", "IP", "IntrusionSensor", "LDAPCertificates", "Memory",
      "MemorySummary", "NetAdapter", "NetworkConfig", "NetworkDHCPConfig", "NetworkProtocol",
      "NtpProtocol", "PCIeDevice", "PCIeFunction", "PID", "PIDProfile", "PIDZone", "PSU",
      "Processor", "ProcessorSummary", "Roles", "Sensors", "Server", "SessionManager", "Settings",
      "SnmpProtocol", "StorageControllers", "TrustStoreCertificates", "VirtualMedia">>

(* Application::isBaseEntitiesInitialized asks in this order.              *)
BaseEntities == <<"Server", "Chassis", "Baseboard">>

----------------------------------------------------------------------------
VARIABLES agenda,      \* what the main thread or the request has still to do
          initialized, \* CachedSource::initialized
          caching,     \* CachedSource::cachingInProgress
          failed,      \* CachedSource::hasErrors
          fresh,       \* ShortTimeCachedSource: the time to live is not over
          inst,        \* entities and providers that have instances
          observers,   \* how often the handlers of a query are registered, 2: or more
          dicts,       \* entities whose default getters are built
          building,    \* entities whose relations are being built
          built,       \* entities whose relations are built
          guardFile,   \* the init-guard file exists
          observing,   \* the dbus thread runs
          objects,     \* movable objects that exist
          signals,     \* object signals not handled yet
          changes,     \* how many object signals there were
          failures,    \* how many queries failed
          requests,    \* how many requests there were
          quiet,       \* no signal was handled since the request began
          failedNow,   \* entities whose query failed since the request began
          overtaken    \* entities whose removal was handled before setInstances

cacheVars  == <<initialized, caching, failed, fresh, inst, observers>>
staticVars == <<dicts, building, built>>
worldVars  == <<objects, changes, requests>>
seenVars   == <<quiet, failedNow, overtaken>>
vars == <<agenda, cacheVars, staticVars, guardFile, observing, worldVars, signals, failures,
          seenVars>>

Op(do, e)        == [do |-> do, of |-> e]
Each(do, es)     == [i \in DOMAIN es |-> Op(do, es[i])]
Operations == {"populate", "query", "set", "store", "filled", "instances", "defaults",
               "relations", "built", "rollup", "status", "links", "related", "observe", "await",
               "decide", "remove", "answer"}

Exists(e)     == e \in Movable => e \in objects
Cleared(e)    == {e} \cup ToSet(ProvidersOf(e))

(* BaseEntity::hasMember: the getters of the roll-up create their members. *)
Members(e) ==
    Declared(e).dbus \cup Declared(e).created \cup {metaObjectPath}
        \cup (IF e \in dicts THEN Declared(e).defaults ELSE {})

(* Application::initEntities has built and configured all entities.        *)
Init ==
    /\ agenda = Each("populate", NameOrder) \o <<Op("observe", "Server"), Op("await", "Server")>>
    /\ initialized = {} /\ caching = {} /\ failed = {} /\ inst = {}
    /\ fresh \in SUBSET ShortTime
    /\ observers = [e \in Known |-> 0]
    /\ dicts = {} /\ building = {} /\ built = {}
    /\ guardFile = TRUE /\ observing = FALSE
    /\ objects \in SUBSET Movable /\ signals = <<>>
    /\ changes = 0 /\ failures = 0 /\ requests = 0
    /\ quiet = TRUE /\ failedNow = {} /\ overtaken = {}

(* The next operation is do(e), and these take its place.                  *)
At(do, e) == agenda # <<>> /\ Head(agenda) = Op(do, e)
Goes(ops) == agenda' = ops \o Tail(agenda)

----------------------------------------------------------------------------
(* Mutants: a failed entity is not asked again; all is asked each time.    *)
NeverRetries(e) == e \notin caching /\ e \notin initialized \cup failed
AlwaysFills(e)  == e \notin caching

(* CachedSource, ShortTimeCachedSource and LazySource::populate.           *)
MustFill(e) == e \notin caching /\ (e \notin initialized \/ e \in failed)

Fills(e) == CASE IsCached(e)        -> MustFill(e)
              [] e \in ShortTime    -> e \notin fresh
              [] OTHER              -> TRUE

PopulateSkips(e) ==
    /\ At("populate", e) /\ ~ Fills(e)
    /\ Goes(<<>>)
    /\ UNCHANGED <<cacheVars, staticVars, guardFile, observing, worldVars, signals, failures,
                   seenVars>>

(* BaseEntity::processQueries: the queries of the providers - directly, no *)
(* populate of theirs is asked - and then the own one.                     *)
PopulateFills(e) ==
    /\ At("populate", e) /\ Fills(e)
    /\ Goes(Each("query", ProvidersOf(e)) \o <<Op("query", e), Op("filled", e)>>)
    /\ caching' = IF IsCached(e) THEN caching \cup {e} ELSE caching
    /\ failed' = failed \ {e}
    /\ inst' = inst \ Cleared(e) /\ overtaken' = overtaken \ Cleared(e)
    /\ UNCHANGED <<initialized, fresh, observers, staticVars, guardFile, observing, worldVars,
                   signals, failures, quiet, failedNow>>

(* Mutants: the count has no end; the handlers are not appended.           *)
CountsOn(e)   == [observers EXCEPT ![e] = @ + 1]
NotRegistered(e) == observers

(* DBusQuery::configure appends the handlers of a query to the global ones *)
(* each time; LazySource::configure does not call it.                      *)
Registered(e) ==
    IF Declared(e).source = "lazy" THEN observers
    ELSE [observers EXCEPT ![e] = IF @ = 2 THEN 2 ELSE @ + 1]

(* The answer of the mapper, or the fixed object: what is created from it  *)
(* is stored in a step of its own, and a signal may be handled before.     *)
QueryObjects(e) ==
    /\ At("query", e) /\ Declared(e).reads = {} /\ e # "StorageControllers"
    /\ Goes(IF e \in FixedObject \/ Exists(e) THEN <<Op("set", e)>> ELSE <<>>)
    /\ observers' = Registered(e)
    /\ UNCHANGED <<initialized, caching, failed, fresh, inst, staticVars, guardFile, observing,
                   worldVars, signals, failures, seenVars>>

(* setInstances: whatever the signals have removed meanwhile.              *)
SetInstances(e) ==
    /\ At("set", e) /\ Goes(<<>>)
    /\ inst' = inst \cup {e}
    /\ UNCHANGED <<initialized, caching, failed, fresh, observers, staticVars, guardFile,
                   observing, worldVars, signals, failures, seenVars>>

(* The mapper does not answer: raiseError.                                 *)
QueryFails(e) ==
    /\ At("query", e) /\ e \in Unreliable /\ failures < MaxFailures
    /\ Goes(<<>>)
    /\ observers' = Registered(e)
    /\ failed' = failed \cup {e} /\ failures' = failures + 1
    /\ failedNow' = failedNow \cup {e}
    /\ UNCHANGED <<initialized, caching, fresh, inst, staticVars, guardFile, observing, worldVars,
                   signals, quiet, overtaken>>

Reads(es) == Each("instances", es)

(* A query over the instances of another entity or provider.               *)
QueryReads(e) ==
    /\ At("query", e) /\ (Declared(e).reads # {} \/ e = "StorageControllers")
    /\ LET read == SetToSeq(Declared(e).reads)
       IN  Goes(Each("populate", read) \o Reads(read) \o <<Op("store", e)>>)
    /\ observers' = Registered(e)
    /\ UNCHANGED <<initialized, caching, failed, fresh, inst, staticVars, guardFile, observing,
                   worldVars, signals, failures, seenVars>>

(* The summaries, Roles (guest), the controller and the list of protocols  *)
(* always have an instance, a proxy those of its provider.                 *)
HasOwn == {"ProcessorSummary", "MemorySummary", "Roles", "StorageControllers", "NetworkProtocol"}

Store(e) ==
    /\ At("store", e) /\ Goes(<<>>)
    /\ inst' = IF e \in HasOwn \/ Declared(e).reads \subseteq inst THEN inst \cup {e} ELSE inst
    /\ UNCHANGED <<initialized, caching, failed, fresh, observers, staticVars, guardFile,
                   observing, worldVars, signals, failures, seenVars>>

Filled(e) ==
    /\ At("filled", e) /\ Goes(<<>>)
    /\ caching' = caching \ {e}
    /\ initialized' = IF IsCached(e) /\ e \notin failed THEN initialized \cup {e} ELSE initialized
    /\ fresh' = IF e \in ShortTime THEN fresh \cup {e} ELSE fresh
    /\ UNCHANGED <<failed, inst, observers, staticVars, guardFile, observing, worldVars, signals,
                   failures, seenVars>>

----------------------------------------------------------------------------
(* BaseEntity::getInstances: default getters and providers, per instance.  *)
ReadInstance(e) ==
    (IF Declared(e).defaults = {} THEN <<>> ELSE <<Op("defaults", e)>>) \o Reads(ProvidersOf(e))

GetInstances(e) ==
    /\ At("instances", e)
    /\ Goes(IF e \in inst THEN ReadInstance(e) ELSE <<>>)
    /\ UNCHANGED <<cacheVars, staticVars, guardFile, observing, worldVars, signals, failures,
                   seenVars>>

(* The dictionary of getters is a static: built by the first read, it      *)
(* acquires the entity for StatusRollup and for StatusFromRollup.          *)
InitDefaultFieldsValue(e) ==
    LET rollup == "StatusRollup" \in Declared(e).defaults
        first  == IF rollup /\ e \notin dicts THEN <<Op("populate", e)>> ELSE <<>>
        getter == CASE rollup -> <<Op("relations", e), Op("rollup", e)>>
                    [] e = "Ethernet" -> <<Op("populate", "NetworkConfig")>>
                    [] OTHER -> <<>>
    IN  /\ At("defaults", e)
        /\ Goes(first \o getter)
        /\ dicts' = dicts \cup {e}
        /\ UNCHANGED <<cacheVars, building, built, guardFile, observing, worldVars, signals,
                       failures, seenVars>>

(* getRelations: a static, too, whose first use acquires the entity itself *)
(* and every destination.                                                  *)
RelationsKnown(e) ==
    /\ At("relations", e) /\ (e \in built \/ Destinations(e) = <<>>)
    /\ Goes(<<>>)
    /\ UNCHANGED <<cacheVars, staticVars, guardFile, observing, worldVars, signals, failures,
                   seenVars>>

BuildRelations(e) ==
    /\ At("relations", e) /\ e \notin built /\ Destinations(e) # <<>>
    /\ building' = building \cup {e}
    /\ Goes([i \in 1..2 * Len(Destinations(e)) |->
                 Op("populate", IF i % 2 = 1 THEN e ELSE Destinations(e)[i \div 2])]
            \o <<Op("built", e)>>)
    /\ UNCHANGED <<cacheVars, dicts, built, guardFile, observing, worldVars, signals, failures,
                   seenVars>>

RelationsBuilt(e) ==
    /\ At("built", e) /\ Goes(<<>>)
    /\ building' = building \ {e} /\ built' = built \cup {e}
    /\ UNCHANGED <<cacheVars, dicts, guardFile, observing, worldVars, signals, failures,
                   seenVars>>

(* StatusRollup::operator() reads destinations that have a Status.         *)
Rollup_(e) ==
    /\ At("rollup", e) /\ Goes(Each("status", Destinations(e)))
    /\ UNCHANGED <<cacheVars, staticVars, guardFile, observing, worldVars, signals, failures,
                   seenVars>>

RollupDestination(d) ==
    /\ At("status", d)
    /\ Goes(IF "Status" \in Members(d) THEN <<Op("related", d)>> ELSE <<>>)
    /\ UNCHANGED <<cacheVars, staticVars, guardFile, observing, worldVars, signals, failures,
                   seenVars>>

(* A request follows the relations of what it read: BaseEntity::getRelation*)
(* finds the relation and leaves its destination as it is.                 *)
FollowLinks(e) ==
    /\ At("links", e) /\ Goes(Each("related", Destinations(e)))
    /\ UNCHANGED <<cacheVars, staticVars, guardFile, observing, worldVars, signals, failures,
                   seenVars>>

GetRelatedInstances(d) ==
    /\ At("related", d) /\ Goes(Reads(<<d>>))
    /\ UNCHANGED <<cacheVars, staticVars, guardFile, observing, worldVars, signals, failures,
                   seenVars>>

----------------------------------------------------------------------------
(* Application::runDBusObserve and finishInitialization.                   *)
Observe ==
    /\ At("observe", "Server") /\ Goes(<<>>)
    /\ observing' = TRUE
    /\ UNCHANGED <<cacheVars, staticVars, guardFile, worldVars, signals, failures, seenVars>>

Await(e) ==
    /\ At("await", e) /\ Goes(<<Op("populate", e), Op("decide", e)>>)
    /\ UNCHANGED <<cacheVars, staticVars, guardFile, observing, worldVars, signals, failures,
                   seenVars>>

(* The next base entity, or the end of the wait.                           *)
AfterBase(i) ==
    IF i = Len(BaseEntities) THEN <<Op("remove", "Server")>>
    ELSE <<Op("await", BaseEntities[i + 1])>>

(* Mutant: an empty base entity ends the wait.                             *)
DecidesOnce(i) ==
    LET e == BaseEntities[i]
    IN  /\ At("decide", e)
        /\ Goes(IF e \in inst THEN ReadInstance(e) \o AfterBase(i) ELSE <<>>)
        /\ UNCHANGED <<cacheVars, staticVars, guardFile, observing, worldVars, signals, failures,
                       seenVars>>

(* getInstances().empty(): the copy it takes decides, and is then read.    *)
Decide(i) ==
    LET e == BaseEntities[i]
    IN  /\ At("decide", e)
        /\ Goes(IF e \in inst THEN ReadInstance(e) \o AfterBase(i) ELSE <<Op("await", "Server")>>)
        /\ UNCHANGED <<cacheVars, staticVars, guardFile, observing, worldVars, signals, failures,
                       seenVars>>

removeInitGuardFile ==
    /\ At("remove", "Server") /\ Goes(<<>>)
    /\ guardFile' = FALSE
    /\ UNCHANGED <<cacheVars, staticVars, observing, worldVars, signals, failures, seenVars>>

(* The server listens when configure has returned.                         *)
Request(e) ==
    /\ agenda = <<>> /\ requests < MaxRequests /\ requests' = requests + 1
    /\ agenda' = <<Op("populate", e), Op("instances", e), Op("relations", e), Op("links", e),
                   Op("answer", e)>>
    /\ quiet' = TRUE /\ failedNow' = {}
    /\ UNCHANGED <<cacheVars, staticVars, guardFile, observing, objects, changes, signals,
                   failures, overtaken>>

Answer(e) ==
    /\ At("answer", e) /\ Goes(<<>>)
    /\ UNCHANGED <<cacheVars, staticVars, guardFile, observing, worldVars, signals, failures,
                   seenVars>>

Expire(e) ==
    /\ agenda = <<>> /\ e \in fresh /\ fresh' = fresh \ {e}
    /\ UNCHANGED <<agenda, initialized, caching, failed, inst, observers, staticVars, guardFile,
                   observing, worldVars, signals, failures, seenVars>>

----------------------------------------------------------------------------
(* Services export and withdraw objects.                                   *)
Move(e) ==
    /\ changes < MaxChanges /\ changes' = changes + 1
    /\ objects' = IF e \in objects THEN objects \ {e} ELSE objects \cup {e}
    /\ signals' = Append(signals, [added |-> e \notin objects, of |-> e])
    /\ UNCHANGED <<agenda, cacheVars, staticVars, guardFile, observing, failures, requests,
                   seenVars>>

(* DBusQuery::processGlobalSignal: the registered handlers merge or remove.*)
Dispatch ==
    /\ observing /\ signals # <<>>
    /\ LET signal == Head(signals)
       IN  /\ inst' = IF observers[signal.of] = 0 THEN inst
                      ELSE IF signal.added THEN inst \cup {signal.of}
                      ELSE inst \ {signal.of}
           /\ overtaken' = IF ~ signal.added /\ At("set", signal.of)
                           THEN overtaken \cup {signal.of}
                           ELSE overtaken \ {signal.of}
    /\ signals' = Tail(signals) /\ quiet' = FALSE
    /\ UNCHANGED <<agenda, initialized, caching, failed, fresh, observers, staticVars, guardFile,
                   observing, worldVars, failures, failedNow>>

(* What the next operation is about.                                       *)
Current == IF agenda = <<>> THEN {} ELSE {Head(agenda).of}

Populate == \E e \in Current : PopulateSkips(e) \/ PopulateFills(e) \/ Filled(e)
Query    == \E e \in Current : \/ QueryObjects(e) \/ SetInstances(e) \/ QueryFails(e)
                             \/ QueryReads(e) \/ Store(e)
Read     == \E e \in Current : \/ GetInstances(e) \/ InitDefaultFieldsValue(e)
                             \/ Rollup_(e) \/ RollupDestination(e)
                             \/ FollowLinks(e) \/ GetRelatedInstances(e)
Build    == \E e \in Current : RelationsKnown(e) \/ BuildRelations(e) \/ RelationsBuilt(e)
Finish   == \/ Observe \/ removeInitGuardFile
            \/ \E i \in DOMAIN BaseEntities : Await(BaseEntities[i]) \/ Decide(i)

Configure == Populate \/ Query \/ Read \/ Build \/ Finish \/ \E e \in Current : Answer(e)

Next ==
    \/ Configure
    \/ \E e \in Requested : Request(e)
    \/ \E e \in ShortTime : Expire(e)
    \/ \E e \in Movable : Move(e)
    \/ Dispatch

Fairness == WF_vars(Configure) /\ WF_vars(Dispatch)

Spec == Init /\ [][Next]_vars /\ Fairness
----------------------------------------------------------------------------
(* Types of all variables.                                                 *)
ManagerTypeOK ==
    /\ \A i \in DOMAIN agenda : agenda[i].do \in Operations /\ agenda[i].of \in Known
    /\ \A set \in {initialized, caching, failed, inst, dicts, building, built, failedNow,
                   overtaken} : set \subseteq Known
    /\ fresh \subseteq ShortTime /\ objects \subseteq Movable
    /\ observers \in [Known -> 0..2]
    /\ \A i \in DOMAIN signals : signals[i].added \in BOOLEAN /\ signals[i].of \in Movable
    /\ {guardFile, observing, quiet} \subseteq BOOLEAN
    /\ changes \in 0..MaxChanges /\ failures \in 0..MaxFailures /\ requests \in 0..MaxRequests

(* The functions build their statics on one thread without meeting them-   *)
(* selves: a static that acquires an entity whose fill needs the static    *)
(* again would never end, and a cached entity that is being filled would   *)
(* be read half filled.                                                    *)
NoReentry ==
    agenda # <<>> =>
        LET next == Head(agenda)
        IN  /\ next.do = "populate" /\ IsCached(next.of) => next.of \notin caching
            /\ next.do = "relations" => next.of \notin building
            /\ next.do = "instances" => next.of \notin caching

(* When the dbus thread has handled all signals and nothing runs, a cached *)
(* entity whose query did not fail has instances of every object the bus   *)
(* has: no signal between the fill and the start of the thread, or between *)
(* the answer of the mapper and setInstances, loses one.  The other way it *)
(* may have an instance the bus has no object for, for two reasons only:   *)
(* the removal was handled before setInstances stored the answer, or the   *)
(* query makes an instance of its fixed object unasked.                    *)
SettledShowsObjects ==
    observing /\ signals = <<>> /\ agenda = <<>> =>
        \A e \in (Movable \cap initialized) \ failed :
            /\ e \in objects => e \in inst
            /\ e \in inst => e \in objects \cup overtaken \cup FixedObject

(* A request heals a failed entity: it answers without only when the query *)
(* failed again.                                                           *)
AnswerHeals ==
    \A e \in Requested : At("answer", e) /\ IsCached(e) /\ e \in failed => e \in failedNow

(* Without failures the handlers of an object are registered once for each *)
(* entity, however often it is read - except for what lives a short time,  *)
(* its providers, and FirmwareProvider, which a proxy and Server process.  *)
RegisteredOften ==
    ShortTime \cup {"FirmwareProvider"} \cup UNION {ToSet(ProvidersOf(e)) : e \in ShortTime}

ObservedOnce ==
    failures = 0 => \A e \in Known \ RegisteredOften : observers[e] < 2

(* The init-guard file disappears when the base entities are there to stay.*)
GuardFileRemoved ==
    <>[](ToSet(BaseEntities) \cap Movable \subseteq objects) => <>(~ guardFile)
=============================================================================
