---------------------------- MODULE EntityManagerProofs ----------------------------
(***************************************************************************)
(* What is proved of the main thread that fills and reads the entities of  *)
(* the whole catalogue while the dbus thread handles signals, for any      *)
(* movable objects, failing queries, requested entities and numbers of     *)
(* signals, failures and requests. The catalogue itself is the code's:     *)
(* Catalogue reads off what every entity depends on. ManagerInv is the     *)
(* inductive invariant. Its parts speak of what is still on the agenda: a  *)
(* cached entity is being filled only while the end of its fill is there   *)
(* (FillsEnd), so nothing is being filled when a request begins, and its   *)
(* populate asks a failed entity again (HealInv); an entity that counts as *)
(* filled has its query ahead, or its handlers are registered and it       *)
(* failed, waits for a signal, or shows its object (ShownInv), of which    *)
(* the last signal tells the truth (LastTells).  CallInv is about who      *)
(* calls whom, and rests on what the catalogue declares: what is ahead of  *)
(* the end of a fill only asks for objects (FillRuns), what is ahead of    *)
(* built relations reads at most what depends on nothing (BuildRuns), and  *)
(* a query that belongs to one cached entity is on the agenda or done, but *)
(* not both, and only since that fill began (OnceInv).                     *)
(***************************************************************************)
EXTENDS EntityManager, FiniteSetTheorems, TLAPS

-----------------------------------------------------------------------------
(* The catalogue *)

\* Providers that only supplement the instances of one entity.
Supplements ==
    {"AssetTagProvider", "BootSettingsProvider", "ChassisStateProvider", "CpuSMBiosProvider",
     "HostBootOnceProvider", "HostBootProvider", "HostWatchdogProvider", "IndicatorLedProvider",
     "IpmiSolProtocolProvider", "PMBusProvider", "PowerRestorePolicyProvider",
     "RebootRemainingProvider", "StatusByCallbackManager<PSU>",
     "StatusByCallbackManager<BmcManager>", "StatusByCallbackManager<Server>"}

\* What others read and that depends on nothing itself.
Leaves == {"AccountSettingsProvider", "DimmSMBiosProvider", "FirmwareProvider", "NtpProtocol",
           "PCIeProvider"}

\* Destinations of relations.
Targets == {"BmcManager", "DomainGroups", "Drive", "Ethernet", "Firmware", "IP", "NtpProtocol",
            "PCIeDevice", "PCIeFunction", "PID", "PIDZone", "Roles", "Sensors", "Server",
            "SnmpProtocol"}

\* How an entity is populated.
Sources == {"cached", "lazy", "shortTime"}

\* An entity that depends on no other.
Bare(d) ==
    d.providers = <<>> /\ d.relations = <<>> /\ d.reads = {} /\ d.source \in Sources

\* What an entity depends on is known. It reads one other at most, and none when it is
\* cached; with relations, one that depends on nothing. A lazy one has no providers.
LinksOK(d) ==
    /\ d.source \in Sources
    /\ \E n \in Nat : DOMAIN d.providers = 1..n
    /\ \E n \in Nat : DOMAIN d.relations = 1..n
    /\ \A i \in DOMAIN d.providers : d.providers[i].by \in Supplements \cup {"FirmwareProvider"}
    /\ \A i \in DOMAIN d.relations : d.relations[i].dest \in Targets
    /\ d.reads = {} \/ \E k \in Leaves \cup {"Processor"} : d.reads = {k}
    /\ d.source = "cached" => d.reads = {}
    /\ d.source = "lazy" => DOMAIN d.providers = {}
    /\ DOMAIN d.relations # {} => d.reads \subseteq Leaves

\* The names of the entities and of the providers.
LEMMA KnownAre ==
  /\ Names = {"AccountSettings", "Accounts", "Baseboard", "BmcManager", "Chassis",
              "DomainAccounts", "DomainGroups", "Drive", "Ethernet", "Fan", "Firmware",
              "FirmwareManagment", "HTTPSCertificates", "HostPower", "IP",
                    "IntrusionSensor",
              "LDAPCertificates", "Memory", "MemorySummary", "NetAdapter", "NetworkConfig",
              "NetworkDHCPConfig", "NetworkProtocol", "NtpProtocol", "PCIeDevice",
              "PCIeFunction", "PID", "PIDProfile", "PIDZone", "PSU", "Processor",
              "ProcessorSummary", "Roles", "Sensors", "Server", "SessionManager",
                    "Settings",
              "SnmpProtocol", "StorageControllers", "TrustStoreCertificates",
                    "VirtualMedia"}
  /\ DOMAIN ProviderClass =
             {"AccountSettingsProvider", "AssetTagProvider", "BootSettingsProvider",
              "ChassisStateProvider", "CpuSMBiosProvider", "DimmSMBiosProvider",
              "FirmwareProvider", "HostBootOnceProvider", "HostBootProvider",
              "HostWatchdogProvider", "IndicatorLedProvider", "IpmiSolProtocolProvider",
              "PCIeProvider", "PMBusProvider", "PowerRestorePolicyProvider",
              "RebootRemainingProvider"}
BY DEF Names, Class, ProviderClass

\* Entities that depend on nothing.
LEMMA BareLinks == ASSUME NEW d, Bare(d) PROVE LinksOK(d)
<1>1. DOMAIN d.providers = 1..0 /\ DOMAIN d.relations = 1..0
  BY DEF Bare
<1> QED BY <1>1 DEF Bare, LinksOK

\* The entities and providers that depend on no other.
LEMMA BareEntities ==
  \A d \in {StatusByCallbackManager, Sensors, CpuSMBiosProvider, ChassisStateProvider,
        IntrusionSensor, PMBusProvider, NetAdapter, Drive, FirmwareProvider,
        FirmwareManagment, AssetTagProvider, IndicatorLedProvider, BootSettingsProvider,
        HostWatchdogProvider, RebootRemainingProvider, PowerRestorePolicyProvider,
        HostBootProvider, HostBootOnceProvider, DimmSMBiosProvider, NetworkConfig,
        NetworkDHCPConfig, IP, SnmpProtocol, NtpProtocol, IpmiSolProtocolProvider,
        PCIeProvider, AccountSettingsProvider, CertificateBase, VirtualMedia, PIDProfile,
        SessionManager, HostPower, Settings} : LinksOK(d)
<1>1. \A d \in {StatusByCallbackManager, Sensors, CpuSMBiosProvider} : Bare(d)
  BY DEF Bare, Sources, Entity, StatusByCallbackManager, Sensors, CpuSMBiosProvider
<1>2. \A d \in {ChassisStateProvider, IntrusionSensor, PMBusProvider} : Bare(d)
  BY DEF Bare, Sources, Entity, ChassisStateProvider, IntrusionSensor, PMBusProvider
<1>3. \A d \in {NetAdapter, Drive, FirmwareProvider} : Bare(d)
  BY DEF Bare, Sources, Entity, NetAdapter, Drive, FirmwareProvider
<1>4. \A d \in {FirmwareManagment, AssetTagProvider, IndicatorLedProvider} : Bare(d)
  BY DEF Bare, Sources, Entity, FirmwareManagment, AssetTagProvider, IndicatorLedProvider
<1>5. \A d \in {BootSettingsProvider, HostWatchdogProvider, RebootRemainingProvider} : Bare(d)
  BY DEF Bare, Sources, Entity, BootSettingsProvider, HostWatchdogProvider, RebootRemainingProvider
<1>6. \A d \in {PowerRestorePolicyProvider, HostBootProvider, HostBootOnceProvider} : Bare(d)
  BY DEF Bare, Sources, Entity, PowerRestorePolicyProvider, HostBootProvider, HostBootOnceProvider
<1>7. \A d \in {DimmSMBiosProvider, NetworkConfig, NetworkDHCPConfig} : Bare(d)
  BY DEF Bare, Sources, Entity, DimmSMBiosProvider, NetworkConfig, NetworkDHCPConfig
<1>8. \A d \in {IP, SnmpProtocol, NtpProtocol} : Bare(d)
  BY DEF Bare, Sources, Entity, IP, SnmpProtocol, NtpProtocol
<1>9. \A d \in {IpmiSolProtocolProvider, PCIeProvider, AccountSettingsProvider} : Bare(d)
  BY DEF Bare, Sources, Entity, IpmiSolProtocolProvider, PCIeProvider, AccountSettingsProvider
<1>10. \A d \in {CertificateBase, VirtualMedia, PIDProfile} : Bare(d)
  BY DEF Bare, Sources, Entity, CertificateBase, VirtualMedia, PIDProfile
<1>11. \A d \in {SessionManager, HostPower, Settings} : Bare(d)
  BY DEF Bare, Sources, Entity, SessionManager, HostPower, Settings
<1> QED BY BareLinks, <1>1, <1>2, <1>3, <1>4, <1>5, <1>6, <1>7, <1>8, <1>9, <1>10, <1>11

\* The entities with providers, relations, or a query over others.
LEMMA LinkedEntities ==
  \A d \in {Fan, Baseboard, Processor, ProcessorSummary, Chassis, PSU, StorageControllers,
        BmcManager, Firmware, Server, Memory, MemorySummary, Ethernet, NetworkProtocol,
        PCIeDevice, PCIeFunction, Accounts, DomainGroups, DomainAccounts, AccountSettings,
        Roles, PID, PIDZone} : LinksOK(d)
<1>1. LinksOK(Fan)
  <2>1. /\ DOMAIN Fan.providers = 1..0
        /\ DOMAIN Fan.relations = 1..1
        /\ Fan.reads = {}
        /\ Fan.source = "cached"
        /\ Fan.relations[1].dest = "Sensors"
    BY DEF Fan, Entity, inventoryRelation, Relation
  <2> QED BY <2>1 DEF LinksOK, Sources, Supplements, Targets, Leaves
<1>2. LinksOK(Baseboard)
  <2>1. /\ DOMAIN Baseboard.providers = 1..0
        /\ DOMAIN Baseboard.relations = 1..1
        /\ Baseboard.reads = {}
        /\ Baseboard.source = "cached"
        /\ Baseboard.relations[1].dest = "Sensors"
    BY DEF Baseboard, Entity, inventoryRelation, Relation
  <2> QED BY <2>1 DEF LinksOK, Sources, Supplements, Targets, Leaves
<1>3. LinksOK(Processor)
  <2>1. /\ DOMAIN Processor.providers = 1..1
        /\ DOMAIN Processor.relations = 1..1
        /\ Processor.reads = {}
        /\ Processor.source = "cached"
        /\ Processor.providers[1].by = "CpuSMBiosProvider"
        /\ Processor.relations[1].dest = "Sensors"
    BY DEF Processor, Entity, Matching, inventoryRelation, Relation
  <2> QED BY <2>1 DEF LinksOK, Sources, Supplements, Targets, Leaves
<1>4. LinksOK(ProcessorSummary)
  <2>1. /\ DOMAIN ProcessorSummary.providers = 1..0
        /\ DOMAIN ProcessorSummary.relations = 1..0
        /\ ProcessorSummary.reads = {"Processor"}
        /\ ProcessorSummary.source = "lazy"
    BY DEF ProcessorSummary, Entity
  <2> QED BY <2>1 DEF LinksOK, Sources, Supplements, Targets, Leaves
<1>5. LinksOK(Chassis)
  <2>1. /\ DOMAIN Chassis.providers = 1..1
        /\ DOMAIN Chassis.relations = 1..1
        /\ Chassis.reads = {}
        /\ Chassis.source = "cached"
        /\ Chassis.providers[1].by = "ChassisStateProvider"
        /\ Chassis.relations[1].dest = "Sensors"
    BY DEF Chassis, Entity, Default, Direct, Relation
  <2> QED BY <2>1 DEF LinksOK, Sources, Supplements, Targets, Leaves
<1>6. LinksOK(PSU)
  <2>1. /\ DOMAIN PSU.providers = 1..2
        /\ DOMAIN PSU.relations = 1..1
        /\ PSU.reads = {}
        /\ PSU.source = "cached"
        /\ PSU.providers[1].by = "PMBusProvider"
        /\ PSU.providers[2].by = "StatusByCallbackManager<PSU>"
        /\ PSU.relations[1].dest = "Sensors"
    BY DEF PSU, Entity, Default, Matching, inventoryRelation, Relation
  <2> QED BY <2>1 DEF LinksOK, Sources, Supplements, Targets, Leaves
<1>7. LinksOK(StorageControllers)
  <2>1. /\ DOMAIN StorageControllers.providers = 1..0
        /\ DOMAIN StorageControllers.relations = 1..1
        /\ StorageControllers.reads = {}
        /\ StorageControllers.source = "lazy"
        /\ StorageControllers.relations[1].dest = "Drive"
    BY DEF StorageControllers, Entity, Direct, Relation
  <2> QED BY <2>1 DEF LinksOK, Sources, Supplements, Targets, Leaves
<1>8. LinksOK(BmcManager)
  <2>1. /\ DOMAIN BmcManager.providers = 1..1
        /\ DOMAIN BmcManager.relations = 1..1
        /\ BmcManager.reads = {}
        /\ BmcManager.source = "cached"
        /\ BmcManager.providers[1].by = "StatusByCallbackManager<BmcManager>"
        /\ BmcManager.relations[1].dest = "Firmware"
    BY DEF BmcManager, Entity, Default, Relation
  <2> QED BY <2>1 DEF LinksOK, Sources, Supplements, Targets, Leaves
<1>9. LinksOK(Firmware)
  <2>1. /\ DOMAIN Firmware.providers = 1..0
        /\ DOMAIN Firmware.relations = 1..2
        /\ Firmware.reads = {"FirmwareProvider"}
        /\ Firmware.source = "lazy"
        /\ Firmware.relations[1].dest = "BmcManager"
        /\ Firmware.relations[2].dest = "Server"
    BY DEF Firmware, Relation, FirmwareProvider, Entity
  <2> QED BY <2>1 DEF LinksOK, Sources, Supplements, Targets, Leaves
<1>10. LinksOK(Server)
  <2>1. /\ DOMAIN Server.providers = 1..10
        /\ DOMAIN Server.relations = 1..1
        /\ Server.reads = {}
        /\ Server.source = "cached"
        /\ Server.providers[1].by = "AssetTagProvider"
        /\ Server.providers[2].by = "BootSettingsProvider"
        /\ Server.providers[3].by = "HostWatchdogProvider"
        /\ Server.providers[4].by = "PowerRestorePolicyProvider"
        /\ Server.providers[5].by = "RebootRemainingProvider"
        /\ Server.providers[6].by = "HostBootProvider"
        /\ Server.providers[7].by = "HostBootOnceProvider"
        /\ Server.providers[8].by = "IndicatorLedProvider"
        /\ Server.providers[9].by = "FirmwareProvider"
        /\ Server.providers[10].by = "StatusByCallbackManager<Server>"
        /\ Server.relations[1].dest = "Firmware"
    BY DEF Server, Entity, Default, Link, Relation
  <2> QED BY <2>1 DEF LinksOK, Sources, Supplements, Targets, Leaves
<1>11. LinksOK(Memory)
  <2>1. /\ DOMAIN Memory.providers = 1..0
        /\ DOMAIN Memory.relations = 1..0
        /\ Memory.reads = {"DimmSMBiosProvider"}
        /\ Memory.source = "lazy"
    BY DEF Memory, DimmSMBiosProvider, Entity
  <2> QED BY <2>1 DEF LinksOK, Sources, Supplements, Targets, Leaves
<1>12. LinksOK(MemorySummary)
  <2>1. /\ DOMAIN MemorySummary.providers = 1..0
        /\ DOMAIN MemorySummary.relations = 1..0
        /\ MemorySummary.reads = {"DimmSMBiosProvider"}
        /\ MemorySummary.source = "lazy"
    BY DEF MemorySummary, Entity
  <2> QED BY <2>1 DEF LinksOK, Sources, Supplements, Targets, Leaves
<1>13. LinksOK(Ethernet)
  <2>1. /\ DOMAIN Ethernet.providers = 1..0
        /\ DOMAIN Ethernet.relations = 1..2
        /\ Ethernet.reads = {}
        /\ Ethernet.source = "cached"
        /\ Ethernet.relations[1].dest = "IP"
        /\ Ethernet.relations[2].dest = "Ethernet"
    BY DEF Ethernet, Entity, Relation
  <2> QED BY <2>1 DEF LinksOK, Sources, Supplements, Targets, Leaves
<1>14. LinksOK(NetworkProtocol)
  <2>1. /\ DOMAIN NetworkProtocol.providers = 1..1
        /\ DOMAIN NetworkProtocol.relations = 1..2
        /\ NetworkProtocol.reads = {"NtpProtocol"}
        /\ NetworkProtocol.source = "shortTime"
        /\ NetworkProtocol.providers[1].by = "IpmiSolProtocolProvider"
        /\ NetworkProtocol.relations[1].dest = "SnmpProtocol"
        /\ NetworkProtocol.relations[2].dest = "NtpProtocol"
    BY DEF NetworkProtocol, Entity, Link, Relation
  <2> QED BY <2>1 DEF LinksOK, Sources, Supplements, Targets, Leaves
<1>15. LinksOK(PCIeDevice)
  <2>1. /\ DOMAIN PCIeDevice.providers = 1..0
        /\ DOMAIN PCIeDevice.relations = 1..1
        /\ PCIeDevice.reads = {"PCIeProvider"}
        /\ PCIeDevice.source = "lazy"
        /\ PCIeDevice.relations[1].dest = "PCIeFunction"
    BY DEF PCIeDevice, Relation, PCIeProvider, Entity
  <2> QED BY <2>1 DEF LinksOK, Sources, Supplements, Targets, Leaves
<1>16. LinksOK(PCIeFunction)
  <2>1. /\ DOMAIN PCIeFunction.providers = 1..0
        /\ DOMAIN PCIeFunction.relations = 1..1
        /\ PCIeFunction.reads = {"PCIeProvider"}
        /\ PCIeFunction.source = "lazy"
        /\ PCIeFunction.relations[1].dest = "PCIeDevice"
    BY DEF PCIeFunction, Entity, Relation
  <2> QED BY <2>1 DEF LinksOK, Sources, Supplements, Targets, Leaves
<1>17. LinksOK(Accounts)
  <2>1. /\ DOMAIN Accounts.providers = 1..0
        /\ DOMAIN Accounts.relations = 1..1
        /\ Accounts.reads = {}
        /\ Accounts.source = "cached"
        /\ Accounts.relations[1].dest = "Roles"
    BY DEF Accounts, Entity, Relation
  <2> QED BY <2>1 DEF LinksOK, Sources, Supplements, Targets, Leaves
<1>18. LinksOK(DomainGroups)
  <2>1. /\ DOMAIN DomainGroups.providers = 1..0
        /\ DOMAIN DomainGroups.relations = 1..1
        /\ DomainGroups.reads = {}
        /\ DomainGroups.source = "cached"
        /\ DomainGroups.relations[1].dest = "Roles"
    BY DEF DomainGroups, Entity, Relation
  <2> QED BY <2>1 DEF LinksOK, Sources, Supplements, Targets, Leaves
<1>19. LinksOK(DomainAccounts)
  <2>1. /\ DOMAIN DomainAccounts.providers = 1..0
        /\ DOMAIN DomainAccounts.relations = 1..1
        /\ DomainAccounts.reads = {}
        /\ DomainAccounts.source = "shortTime"
        /\ DomainAccounts.relations[1].dest = "DomainGroups"
    BY DEF DomainAccounts, Entity, Relation
  <2> QED BY <2>1 DEF LinksOK, Sources, Supplements, Targets, Leaves
<1>20. LinksOK(AccountSettings)
  <2>1. /\ DOMAIN AccountSettings.providers = 1..0
        /\ DOMAIN AccountSettings.relations = 1..0
        /\ AccountSettings.reads = {"AccountSettingsProvider"}
        /\ AccountSettings.source = "lazy"
    BY DEF AccountSettings, AccountSettingsProvider, Entity
  <2> QED BY <2>1 DEF LinksOK, Sources, Supplements, Targets, Leaves
<1>21. LinksOK(Roles)
  <2>1. /\ DOMAIN Roles.providers = 1..0
        /\ DOMAIN Roles.relations = 1..0
        /\ Roles.reads = {"AccountSettingsProvider"}
        /\ Roles.source = "lazy"
    BY DEF Roles, Entity
  <2> QED BY <2>1 DEF LinksOK, Sources, Supplements, Targets, Leaves
<1>22. LinksOK(PID)
  <2>1. /\ DOMAIN PID.providers = 1..0
        /\ DOMAIN PID.relations = 1..1
        /\ PID.reads = {}
        /\ PID.source = "cached"
        /\ PID.relations[1].dest = "PIDZone"
    BY DEF PID, Entity, Relation
  <2> QED BY <2>1 DEF LinksOK, Sources, Supplements, Targets, Leaves
<1>23. LinksOK(PIDZone)
  <2>1. /\ DOMAIN PIDZone.providers = 1..0
        /\ DOMAIN PIDZone.relations = 1..1
        /\ PIDZone.reads = {}
        /\ PIDZone.source = "cached"
        /\ PIDZone.relations[1].dest = "PID"
    BY DEF PIDZone, Entity, Relation
  <2> QED BY <2>1 DEF LinksOK, Sources, Supplements, Targets, Leaves
<1> QED BY <1>1, <1>2, <1>3, <1>4, <1>5, <1>6, <1>7, <1>8, <1>9, <1>10, <1>11, <1>12,
      <1>13, <1>14, <1>15, <1>16, <1>17, <1>18, <1>19, <1>20, <1>21, <1>22, <1>23

\* Every entity of the catalogue.
LEMMA Catalogue == ASSUME NEW e \in Known PROVE LinksOK(Declared(e))
<1>1. CASE e \in Names
  <2>1. Class[e] \in {AccountSettings, Accounts, Baseboard, BmcManager, Chassis,
        DomainAccounts,
                     DomainGroups, Drive, Ethernet, Fan, Firmware, FirmwareManagment,
                     CertificateBase, HostPower, IP, IntrusionSensor, Memory, MemorySummary,
                     NetAdapter, NetworkConfig, NetworkDHCPConfig, NetworkProtocol,
                     NtpProtocol, PCIeDevice, PCIeFunction, PID, PIDProfile, PIDZone, PSU,
                     Processor, ProcessorSummary, Roles, Sensors, Server, SessionManager,
                     Settings, SnmpProtocol, StorageControllers, VirtualMedia}
    BY <1>1 DEF Names, Class
  <2>2. Declared(e) = Class[e]
    BY <1>1, KnownAre DEF Declared, StatusManagers
  <2>3. LinksOK(Class[e])
    BY <2>1, BareEntities, LinkedEntities
  <2> QED BY <2>2, <2>3
<1>2. CASE e \in DOMAIN ProviderClass
  <2>1. ProviderClass[e] \in {AccountSettingsProvider, AssetTagProvider,
        BootSettingsProvider,
              ChassisStateProvider, CpuSMBiosProvider, DimmSMBiosProvider,
              FirmwareProvider, HostBootOnceProvider, HostBootProvider,
              HostWatchdogProvider, IndicatorLedProvider, IpmiSolProtocolProvider,
              PCIeProvider, PMBusProvider, PowerRestorePolicyProvider,
              RebootRemainingProvider}
    BY <1>2 DEF ProviderClass
  <2>2. e \notin Names
    BY <1>2, KnownAre
  <2> QED BY <1>2, <2>1, <2>2, BareEntities DEF Declared
<1>3. CASE e \in StatusManagers
  <2>1. e \notin Names /\ e \notin DOMAIN ProviderClass
    BY <1>3, KnownAre DEF StatusManagers
  <2> QED BY <1>3, <2>1, BareEntities DEF Declared
<1> QED BY <1>1, <1>2, <1>3 DEF Known, Providers

\* The sets above are of entities and providers, and what is populated by name does not
\* supplement.
LEMMA NamedAre ==
  /\ Supplements \cup Leaves \cup Targets \cup {"Processor"} \subseteq Known
  /\ (Names \cup Targets \cup Leaves) \cap Supplements = {}
<1>1. Supplements \cup Leaves \cup Targets \cup {"Processor"} \subseteq Known
  BY KnownAre DEF Known, Providers, StatusManagers, Supplements, Leaves, Targets
<1>2. Names \cap Supplements = {}
  BY KnownAre DEF Supplements
<1>3. (Targets \cup Leaves) \cap Supplements = {}
  BY DEF Supplements, Leaves, Targets
<1> QED BY <1>1, <1>2, <1>3

\* An entity is declared by its class.
LEMMA DeclaredBy ==
  /\ \A e \in Names : Declared(e) = Class[e]
  /\ \A e \in DOMAIN ProviderClass : Declared(e) = ProviderClass[e]
  /\ \A e \in StatusManagers : Declared(e) = StatusByCallbackManager
BY KnownAre DEF Declared, StatusManagers

\* What supplements others has nothing of its own to read or build.
LEMMA SupplementsBare ==
  ASSUME NEW e \in Supplements
  PROVE  /\ Declared(e).providers = <<>> /\ Declared(e).defaults = {}
         /\ Declared(e).reads = {} /\ Declared(e).source = "cached" /\ e # "StorageControllers"
<1> DEFINE Nothing(d) == /\ d.providers = <<>> /\ d.defaults = {}
                         /\ d.reads = {} /\ d.source = "cached"
<1>1. CASE e \in StatusManagers
  <2>1. Nothing(StatusByCallbackManager)
    BY DEF Entity, StatusByCallbackManager
  <2> QED BY <1>1, <2>1, DeclaredBy DEF StatusManagers
<1>2. CASE e \notin StatusManagers
  <2>1. e \in DOMAIN ProviderClass
    BY <1>2, KnownAre DEF Supplements, StatusManagers
  <2>2. ProviderClass[e] \in
          {AssetTagProvider, BootSettingsProvider, ChassisStateProvider, CpuSMBiosProvider,
           HostBootOnceProvider, HostBootProvider, HostWatchdogProvider, IndicatorLedProvider,
           IpmiSolProtocolProvider, PMBusProvider, PowerRestorePolicyProvider,
           RebootRemainingProvider}
    BY <1>2 DEF Supplements, StatusManagers, ProviderClass
  <2>3. \A d \in {AssetTagProvider, BootSettingsProvider, ChassisStateProvider} : Nothing(d)
    BY DEF Entity, AssetTagProvider, BootSettingsProvider, ChassisStateProvider
  <2>4. \A d \in {CpuSMBiosProvider, HostBootOnceProvider, HostBootProvider} : Nothing(d)
    BY DEF Entity, CpuSMBiosProvider, HostBootOnceProvider, HostBootProvider
  <2>5. \A d \in {HostWatchdogProvider, IndicatorLedProvider, IpmiSolProtocolProvider} :
           Nothing(d)
    BY DEF Entity, HostWatchdogProvider, IndicatorLedProvider, IpmiSolProtocolProvider
  <2>6. \A d \in {PMBusProvider, PowerRestorePolicyProvider, RebootRemainingProvider} :
           Nothing(d)
    BY DEF Entity, PMBusProvider, PowerRestorePolicyProvider, RebootRemainingProvider
  <2>7. e # "StorageControllers"
    BY DEF Supplements
  <2> HIDE DEF Nothing
  <2>8. Nothing(ProviderClass[e])
    BY <2>2, <2>3, <2>4, <2>5, <2>6
  <2>9. Nothing(Declared(e))
    BY <2>1, <2>8, DeclaredBy
  <2> QED BY <2>7, <2>9 DEF Nothing
<1> QED BY <1>1, <1>2

\* Neither has what others read.
LEMMA LeavesBare ==
  ASSUME NEW e \in Leaves
  PROVE  /\ Declared(e).providers = <<>> /\ Declared(e).defaults = {}
         /\ Declared(e).reads = {}
<1> DEFINE Nothing(d) == d.providers = <<>> /\ d.defaults = {} /\ d.reads = {}
<1>1. Nothing(NtpProtocol) /\ Nothing(AccountSettingsProvider) /\ Nothing(FirmwareProvider)
  BY DEF Entity, NtpProtocol, AccountSettingsProvider, FirmwareProvider
<1>2. Nothing(DimmSMBiosProvider) /\ Nothing(PCIeProvider)
  BY DEF Entity, DimmSMBiosProvider, PCIeProvider
<1> HIDE DEF Nothing
<1>3. CASE e = "NtpProtocol"
  <2>1. e \in Names /\ Class[e] = NtpProtocol
    BY <1>3, KnownAre DEF Class
  <2>2. Declared(e) = NtpProtocol
    BY <2>1, DeclaredBy
  <2> QED BY <1>1, <2>2 DEF Nothing
<1>4. CASE e # "NtpProtocol"
  <2>1. e \in DOMAIN ProviderClass
    BY <1>4, KnownAre DEF Leaves
  <2>2. ProviderClass[e] \in {AccountSettingsProvider, FirmwareProvider, DimmSMBiosProvider,
                              PCIeProvider}
    BY <1>4 DEF Leaves, ProviderClass
  <2>3. Nothing(ProviderClass[e])
    BY <1>1, <1>2, <2>2
  <2>4. Nothing(Declared(e))
    BY <2>1, <2>3, DeclaredBy
  <2> QED BY <2>4 DEF Nothing
<1> QED BY <1>3, <1>4

\* The destinations of relations read only what depends on nothing.
LEMMA TargetsRead ==
  ASSUME NEW e \in Targets
  PROVE  Declared(e).reads \subseteq Leaves
<1> DEFINE ReadsLeaves(d) == d.reads \subseteq Leaves
<1>1. e \in Names
  BY KnownAre DEF Targets
<1>2. Class[e] \in {BmcManager, DomainGroups, Drive, Ethernet, Firmware, IP, NtpProtocol,
                    PCIeDevice, PCIeFunction, PID, PIDZone, Roles, Sensors, Server, SnmpProtocol}
  BY DEF Targets, Class
<1>3. \A d \in {BmcManager, DomainGroups, Drive} : ReadsLeaves(d)
  BY DEF Entity, BmcManager, DomainGroups, Drive
<1>4. \A d \in {Ethernet, IP, NtpProtocol} : ReadsLeaves(d)
  BY DEF Entity, Ethernet, IP, NtpProtocol
<1>5. \A d \in {PID, PIDZone, Sensors} : ReadsLeaves(d)
  BY DEF Entity, PID, PIDZone, Sensors
<1>6. \A d \in {Server, SnmpProtocol} : ReadsLeaves(d)
  BY DEF Entity, Server, SnmpProtocol
<1>7. ReadsLeaves(Firmware) /\ ReadsLeaves(Roles)
  BY DEF Entity, Firmware, FirmwareProvider, Roles, Leaves
<1>8. ReadsLeaves(PCIeDevice) /\ ReadsLeaves(PCIeFunction)
  BY DEF Entity, PCIeDevice, PCIeProvider, PCIeFunction, Leaves
<1> HIDE DEF ReadsLeaves
<1>9. ReadsLeaves(Class[e])
  BY <1>2, <1>3, <1>4, <1>5, <1>6, <1>7, <1>8
<1>10. ReadsLeaves(Declared(e))
  BY <1>1, <1>9, DeclaredBy
<1> QED BY <1>10 DEF ReadsLeaves

\* The entity a provider supplements; the others belong to themselves.
Owner(x) ==
    IF x = "CpuSMBiosProvider" THEN "Processor"
    ELSE IF x = "ChassisStateProvider" THEN "Chassis"
    ELSE IF x \in {"PMBusProvider", "StatusByCallbackManager<PSU>"} THEN "PSU"
    ELSE IF x = "StatusByCallbackManager<BmcManager>" THEN "BmcManager"
    ELSE IF x = "IpmiSolProtocolProvider" THEN "NetworkProtocol"
    ELSE IF x \in Supplements THEN "Server"
    ELSE x

\* Entities that have providers.
Supplemented == {"BmcManager", "Chassis", "NetworkProtocol", "PSU", "Processor", "Server"}

\* No other has any.
LEMMA NoProviders ==
  ASSUME NEW p \in Known \ Supplemented
  PROVE  DOMAIN ProvidersOf(p) = {}
<1> DEFINE Alone(d) == d.providers = <<>>
<1>1. \A d \in {StatusByCallbackManager, Sensors, CpuSMBiosProvider} : Alone(d)
  BY DEF Entity, StatusByCallbackManager, Sensors, CpuSMBiosProvider
<1>2. \A d \in {ChassisStateProvider, IntrusionSensor, PMBusProvider} : Alone(d)
  BY DEF Entity, ChassisStateProvider, IntrusionSensor, PMBusProvider
<1>3. \A d \in {NetAdapter, Drive, FirmwareProvider} : Alone(d)
  BY DEF Entity, NetAdapter, Drive, FirmwareProvider
<1>4. \A d \in {FirmwareManagment, AssetTagProvider, IndicatorLedProvider} : Alone(d)
  BY DEF Entity, FirmwareManagment, AssetTagProvider, IndicatorLedProvider
<1>5. \A d \in {BootSettingsProvider, HostWatchdogProvider, RebootRemainingProvider} : Alone(d)
  BY DEF Entity, BootSettingsProvider, HostWatchdogProvider, RebootRemainingProvider
<1>6. \A d \in {PowerRestorePolicyProvider, HostBootProvider, HostBootOnceProvider} : Alone(d)
  BY DEF Entity, PowerRestorePolicyProvider, HostBootProvider, HostBootOnceProvider
<1>7. \A d \in {DimmSMBiosProvider, NetworkConfig, NetworkDHCPConfig} : Alone(d)
  BY DEF Entity, DimmSMBiosProvider, NetworkConfig, NetworkDHCPConfig
<1>8. \A d \in {IP, SnmpProtocol, NtpProtocol} : Alone(d)
  BY DEF Entity, IP, SnmpProtocol, NtpProtocol
<1>9. \A d \in {IpmiSolProtocolProvider, PCIeProvider, AccountSettingsProvider} : Alone(d)
  BY DEF Entity, IpmiSolProtocolProvider, PCIeProvider, AccountSettingsProvider
<1>10. \A d \in {CertificateBase, VirtualMedia, PIDProfile} : Alone(d)
  BY DEF Entity, CertificateBase, VirtualMedia, PIDProfile
<1>11. \A d \in {SessionManager, HostPower, Settings} : Alone(d)
  BY DEF Entity, SessionManager, HostPower, Settings
<1>12. \A d \in {Fan, Baseboard, ProcessorSummary} : Alone(d)
  BY DEF Entity, Fan, Baseboard, ProcessorSummary, inventoryRelation, Relation
<1>13. \A d \in {StorageControllers, Firmware, Memory} : Alone(d)
  BY DEF Entity, StorageControllers, Firmware, Memory, Direct, Relation, FirmwareProvider,
         DimmSMBiosProvider
<1>14. \A d \in {MemorySummary, Ethernet, PCIeDevice} : Alone(d)
  BY DEF Entity, MemorySummary, Ethernet, PCIeDevice, Relation, PCIeProvider
<1>15. \A d \in {PCIeFunction, Accounts, DomainGroups} : Alone(d)
  BY DEF Entity, PCIeFunction, Accounts, DomainGroups, Relation
<1>16. \A d \in {DomainAccounts, AccountSettings, Roles} : Alone(d)
  BY DEF Entity, DomainAccounts, AccountSettings, Roles, Relation, AccountSettingsProvider
<1>17. \A d \in {PID, PIDZone} : Alone(d)
  BY DEF Entity, PID, PIDZone, Relation
<1> HIDE DEF Alone
<1>18. CASE p \in Names
  <2>1. Class[p] \in {Sensors, IntrusionSensor, NetAdapter, Drive, FirmwareManagment,
                      NetworkConfig, NetworkDHCPConfig, IP, SnmpProtocol, NtpProtocol,
                      CertificateBase, VirtualMedia, PIDProfile, SessionManager, HostPower,
                      Settings, Fan, Baseboard, ProcessorSummary, StorageControllers,
                      Firmware, Memory, MemorySummary, Ethernet, PCIeDevice, PCIeFunction,
                      Accounts, DomainGroups, DomainAccounts, AccountSettings, Roles, PID,
                      PIDZone}
    BY <1>18, KnownAre DEF Supplemented, Class
  <2>2. Alone(Class[p])
    BY <2>1, <1>1, <1>2, <1>3, <1>4, <1>5, <1>6, <1>7, <1>8, <1>9, <1>10, <1>11, <1>12,
             <1>13, <1>14, <1>15, <1>16, <1>17
  <2>3. Alone(Declared(p))
    BY <1>18, <2>2, DeclaredBy
  <2> QED BY <2>3 DEF Alone, ProvidersOf
<1>19. CASE p \in DOMAIN ProviderClass
  <2>1. ProviderClass[p] \in {AccountSettingsProvider, AssetTagProvider,
                              BootSettingsProvider, ChassisStateProvider,
                              CpuSMBiosProvider, DimmSMBiosProvider, FirmwareProvider,
                              HostBootOnceProvider, HostBootProvider, HostWatchdogProvider,
                              IndicatorLedProvider, IpmiSolProtocolProvider, PCIeProvider,
                              PMBusProvider, PowerRestorePolicyProvider,
                              RebootRemainingProvider}
    BY <1>19 DEF ProviderClass
  <2>2. Alone(ProviderClass[p])
    BY <2>1, <1>1, <1>2, <1>3, <1>4, <1>5, <1>6, <1>7, <1>8, <1>9, <1>10, <1>11, <1>12,
             <1>13, <1>14, <1>15, <1>16, <1>17
  <2>3. Alone(Declared(p))
    BY <1>19, <2>2, DeclaredBy
  <2> QED BY <2>3 DEF Alone, ProvidersOf
<1>20. CASE p \in StatusManagers
  <2>1. Alone(Declared(p))
    BY <1>1, <1>20, DeclaredBy
  <2> QED BY <2>1 DEF Alone, ProvidersOf
<1> QED BY <1>18, <1>19, <1>20 DEF Known, Providers

\* A provider supplements one entity, once; but FirmwareProvider is read as well.
LEMMA OneOwner ==
  ASSUME NEW p \in Known
  PROVE  /\ \A i \in DOMAIN ProvidersOf(p) :
               ProvidersOf(p)[i] = "FirmwareProvider" \/ Owner(ProvidersOf(p)[i]) = p
         /\ \A i, j \in DOMAIN ProvidersOf(p) : ProvidersOf(p)[i] = ProvidersOf(p)[j] => i = j
<1> DEFINE Owns(es, x) ==
             /\ \A i \in DOMAIN es : es[i] = "FirmwareProvider" \/ Owner(es[i]) = x
             /\ \A i, j \in DOMAIN es : es[i] = es[j] => i = j
<1>1. CASE p = "BmcManager"
  <2>1. Declared(p) = BmcManager
    BY <1>1, KnownAre, DeclaredBy DEF Class
  <2>2. /\ DOMAIN BmcManager.providers = 1..1
        /\ BmcManager.providers[1].by = "StatusByCallbackManager<BmcManager>"
    BY DEF BmcManager, Entity, Default, Relation
  <2>3. DOMAIN ProvidersOf(p) = 1..1 /\ \A i \in 1..1 : ProvidersOf(p)[i] = BmcManager.providers[i].by
    BY <2>1, <2>2 DEF ProvidersOf
  <2> HIDE DEF Owns
  <2>4. Owns(ProvidersOf(p), p)
    BY <1>1, <2>2, <2>3 DEF Owns, Owner, Supplements
  <2> QED BY <2>4 DEF Owns
<1>2. CASE p = "Chassis"
  <2>1. Declared(p) = Chassis
    BY <1>2, KnownAre, DeclaredBy DEF Class
  <2>2. /\ DOMAIN Chassis.providers = 1..1
        /\ Chassis.providers[1].by = "ChassisStateProvider"
    BY DEF Chassis, Entity, Default, Direct, Relation
  <2>3. DOMAIN ProvidersOf(p) = 1..1 /\ \A i \in 1..1 : ProvidersOf(p)[i] = Chassis.providers[i].by
    BY <2>1, <2>2 DEF ProvidersOf
  <2> HIDE DEF Owns
  <2>4. Owns(ProvidersOf(p), p)
    BY <1>2, <2>2, <2>3 DEF Owns, Owner, Supplements
  <2> QED BY <2>4 DEF Owns
<1>3. CASE p = "NetworkProtocol"
  <2>1. Declared(p) = NetworkProtocol
    BY <1>3, KnownAre, DeclaredBy DEF Class
  <2>2. /\ DOMAIN NetworkProtocol.providers = 1..1
        /\ NetworkProtocol.providers[1].by = "IpmiSolProtocolProvider"
    BY DEF NetworkProtocol, Entity, Link, Relation
  <2>3. DOMAIN ProvidersOf(p) = 1..1 /\ \A i \in 1..1 : ProvidersOf(p)[i] = NetworkProtocol.providers[i].by
    BY <2>1, <2>2 DEF ProvidersOf
  <2> HIDE DEF Owns
  <2>4. Owns(ProvidersOf(p), p)
    BY <1>3, <2>2, <2>3 DEF Owns, Owner, Supplements
  <2> QED BY <2>4 DEF Owns
<1>4. CASE p = "PSU"
  <2>1. Declared(p) = PSU
    BY <1>4, KnownAre, DeclaredBy DEF Class
  <2>2. /\ DOMAIN PSU.providers = 1..2
        /\ PSU.providers[1].by = "PMBusProvider"
        /\ PSU.providers[2].by = "StatusByCallbackManager<PSU>"
    BY DEF PSU, Entity, Default, Matching, inventoryRelation, Relation
  <2>3. DOMAIN ProvidersOf(p) = 1..2 /\ \A i \in 1..2 : ProvidersOf(p)[i] = PSU.providers[i].by
    BY <2>1, <2>2 DEF ProvidersOf
  <2> HIDE DEF Owns
  <2>4. Owns(ProvidersOf(p), p)
    BY <1>4, <2>2, <2>3 DEF Owns, Owner, Supplements
  <2> QED BY <2>4 DEF Owns
<1>5. CASE p = "Processor"
  <2>1. Declared(p) = Processor
    BY <1>5, KnownAre, DeclaredBy DEF Class
  <2>2. /\ DOMAIN Processor.providers = 1..1
        /\ Processor.providers[1].by = "CpuSMBiosProvider"
    BY DEF Processor, Entity, Matching, inventoryRelation, Relation
  <2>3. DOMAIN ProvidersOf(p) = 1..1 /\ \A i \in 1..1 : ProvidersOf(p)[i] = Processor.providers[i].by
    BY <2>1, <2>2 DEF ProvidersOf
  <2> HIDE DEF Owns
  <2>4. Owns(ProvidersOf(p), p)
    BY <1>5, <2>2, <2>3 DEF Owns, Owner, Supplements
  <2> QED BY <2>4 DEF Owns
<1>6. CASE p = "Server"
  <2>1. Declared(p) = Server
    BY <1>6, KnownAre, DeclaredBy DEF Class
  <2>2. /\ DOMAIN Server.providers = 1..10
        /\ Server.providers[1].by = "AssetTagProvider"
        /\ Server.providers[2].by = "BootSettingsProvider"
        /\ Server.providers[3].by = "HostWatchdogProvider"
        /\ Server.providers[4].by = "PowerRestorePolicyProvider"
        /\ Server.providers[5].by = "RebootRemainingProvider"
        /\ Server.providers[6].by = "HostBootProvider"
        /\ Server.providers[7].by = "HostBootOnceProvider"
        /\ Server.providers[8].by = "IndicatorLedProvider"
        /\ Server.providers[9].by = "FirmwareProvider"
        /\ Server.providers[10].by = "StatusByCallbackManager<Server>"
    BY DEF Server, Entity, Default, Link, Relation
  <2>3. DOMAIN ProvidersOf(p) = 1..10 /\ \A i \in 1..10 : ProvidersOf(p)[i] = Server.providers[i].by
    BY <2>1, <2>2 DEF ProvidersOf
  <2> HIDE DEF Owns
  <2>4. Owns(ProvidersOf(p), p)
    BY <1>6, <2>2, <2>3 DEF Owns, Owner, Supplements
  <2> QED BY <2>4 DEF Owns
<1>7. CASE p \notin Supplemented
  BY <1>7, NoProviders
<1> QED BY <1>1, <1>2, <1>3, <1>4, <1>5, <1>6, <1>7 DEF Supplemented

-----------------------------------------------------------------------------
(* The invariant *)

\* What may be on the agenda: what only supplements others is asked and read with them,
\* never populated.
OpType ==
    {o \in [do : Operations, of : Known] : o.of \in Supplements => o.do \in {"query", "set", "instances"}}

SignalType == [added : BOOLEAN, of : Movable]

\* Still to be done.
On(op) == \E i \in 1..Len(agenda) : agenda[i] = op

\* A signal for the object is not handled yet.
Awaited(e) == \E n \in 1..Len(signals) : signals[n].of = e

\* Only the next operation stores what a query was answered.
SetFirst == \A i \in 1..Len(agenda) : agenda[i].do = "set" => i = 1

\* The types of ManagerTypeOK, with what their proof needs of the sequences; what
\* is stored are instances of other entities, never those of a movable object; and
\* only a cached entity counts as initialized.
PartsOK ==
    /\ ManagerTypeOK
    /\ agenda \in Seq(OpType) /\ signals \in Seq(SignalType) /\ SetFirst
    /\ \A e \in Movable : ~On(Op("store", e))
    /\ \A e \in initialized : IsCached(e)

\* A cached entity is being filled only as long as that is on the agenda.
FillsEnd == \A e \in caching : On(Op("filled", e))

\* A request that is to answer for a failed entity has yet to populate it, when
\* nothing is being filled, or has tried in vain.
HealInv ==
    \A e \in Requested : On(Op("answer", e)) /\ IsCached(e) /\ e \in failed =>
        e \in failedNow \/ (At("populate", e) /\ caching = {})

\* The last signal for an object tells of it as it is.
LastTells ==
    \A n \in 1..Len(signals) :
        (\A k \in 1..Len(signals) : k > n => signals[k].of # signals[n].of) =>
            (signals[n].added <=> signals[n].of \in objects)

\* It is there, or about to be stored.
Stored(e) == e \in inst \/ On(Op("set", e))

\* An object whose handlers may not be registered yet has to be queried, and what
\* has been queried, and did not fail, is there unless a signal for it follows, or
\* about to be stored; unless its removal was handled before that, or the query did
\* not look for it, the bus has it.
ShownInv ==
    \A e \in Movable : Declared(e).source # "lazy" =>
        /\ Stored(e) => observers[e] > 0
        /\ Stored(e) /\ ~Awaited(e) => e \in objects \cup overtaken \cup FixedObject
        /\ e \in initialized \/ On(Op("filled", e)) =>
              \/ On(Op("query", e))
              \/ /\ observers[e] > 0
                 /\ \/ e \in failed
                    \/ Awaited(e)
                    \/ e \in objects => Stored(e)

ManagerInv == PartsOK /\ FillsEnd /\ HealInv /\ LastTells /\ ShownInv

-----------------------------------------------------------------------------
(* The agenda *)

In(s, op) == \E i \in 1..Len(s) : s[i] = op

\* What populates others or reads them, and neither fills nor answers.
PlainType ==
    {o \in [do : Operations \ {"query", "set", "filled", "store", "answer"}, of : Known] :
        o.of \in Supplements => o.do = "instances"}

\* Operations are the same when their parts are.
LEMMA OpsDiffer == \A do, e, to, x : Op(do, e) = Op(to, x) <=> do = to /\ e = x
BY DEF Op

\* Operations of the two sets are typed.
LEMMA OpTyped ==
  \A do \in Operations, e \in Known :
     (e \in Supplements => do \in {"query", "set", "instances"}) => Op(do, e) \in OpType
BY DEF Op, OpType

\* What is at the head.
LEMMA HeadIs ==
  ASSUME PartsOK, NEW do, NEW e, At(do, e)
  PROVE  /\ e \in Known /\ (e \in Supplements => do \in {"query", "set", "instances"})
         /\ agenda # <<>> /\ Head(agenda) = Op(do, e) /\ On(Op(do, e))
<1>1. /\ agenda \in Seq(OpType) /\ agenda # <<>> /\ Head(agenda) = Op(do, e)
  BY DEF PartsOK, At
<1>2. 1 \in 1..Len(agenda) /\ agenda[1] = Head(agenda) /\ Head(agenda) \in OpType
  BY <1>1
<1> QED BY <1>1, <1>2 DEF On, OpType, Op

\* What is to be done with it.
LEMMA HeadDoes == ASSUME PartsOK, NEW do, NEW e, At(do, e) PROVE Head(agenda).do = do
<1>1. Head(agenda) = Op(do, e)
  BY HeadIs
<1> QED BY <1>1 DEF Op

\* The head is replaced by others, and the rest stays.
LEMMA AgendaGoes ==
  ASSUME PartsOK, agenda # <<>>, NEW ops \in Seq(OpType), Goes(ops)
  PROVE  /\ agenda' \in Seq(OpType)
         /\ \A op : In(ops, op) => On(op)'
         /\ \A op : On(op)' => In(ops, op) \/ On(op)
         /\ \A op : On(op) /\ op # Head(agenda) => On(op)'
<1>1. agenda \in Seq(OpType) /\ agenda' = ops \o Tail(agenda)
  BY DEF PartsOK, Goes
<1> DEFINE rest == Tail(agenda)
<1>2. /\ rest \in Seq(OpType) /\ Len(rest) = Len(agenda) - 1 /\ Len(rest) \in Nat
      /\ Len(ops) \in Nat /\ Len(agenda) \in Nat
      /\ \A i \in 1..Len(rest) : rest[i] = agenda[i + 1]
      /\ Head(agenda) = agenda[1]
  BY <1>1
<1>3. agenda' \in Seq(OpType)
  BY <1>1, <1>2
<1> HIDE DEF rest
<1>4. /\ Len(agenda') = Len(ops) + Len(rest)
      /\ \A i \in 1..Len(ops) : agenda'[i] = ops[i]
      /\ \A i \in 1..Len(rest) : agenda'[Len(ops) + i] = rest[i]
  BY <1>1, <1>2 DEF rest
<1>5. ASSUME NEW op, In(ops, op) PROVE On(op)'
  <2>1. 1..Len(ops) \subseteq 1..Len(agenda')
    BY <1>2, <1>4
  <2> QED BY <1>4, <1>5, <2>1 DEF In, On
<1>6. ASSUME NEW op, On(op)' PROVE In(ops, op) \/ On(op)
  <2>1. PICK i \in 1..Len(agenda') : agenda'[i] = op
    BY <1>6 DEF On
  <2>2. CASE i <= Len(ops)
    BY <1>2, <1>4, <2>1, <2>2 DEF In
  <2>3. CASE i > Len(ops)
    <3>1. /\ i - Len(ops) \in 1..Len(rest) /\ Len(ops) + (i - Len(ops)) = i
      BY <1>2, <1>4, <2>3
    <3>2. PICK k \in 1..Len(rest) : Len(ops) + k = i
      BY <3>1
    <3>3. rest[k] = op /\ rest[k] = agenda[k + 1] /\ k + 1 \in 1..Len(agenda)
      BY <1>2, <1>4, <2>1, <3>2
    <3> QED BY <3>3 DEF On
  <2> QED BY <1>2, <2>2, <2>3
<1>7. ASSUME NEW op, On(op), op # Head(agenda) PROVE On(op)'
  <2>1. PICK i \in 1..Len(agenda) : agenda[i] = op
    BY <1>7 DEF On
  <2>2. i # 1 /\ i - 1 \in 1..Len(rest) /\ (i - 1) + 1 = i
    BY <1>2, <1>7, <2>1
  <2>3. PICK k \in 1..Len(rest) : k + 1 = i
    BY <2>2
  <2>4. rest[k] = agenda[i] /\ agenda'[Len(ops) + k] = rest[k]
    BY <1>2, <1>4, <2>3
  <2>5. Len(ops) + k \in 1..Len(agenda')
    BY <1>2, <1>4
  <2> QED BY <2>1, <2>4, <2>5 DEF On
<1> QED BY <1>3, <1>5, <1>6, <1>7

\* What is stored next is at the head, and nothing else is to be stored.
LEMMA NoSet ==
  ASSUME PartsOK, agenda = <<>> \/ Head(agenda).do # "set"
  PROVE  \A x : ~On(Op("set", x))
<1> SUFFICES ASSUME NEW x, On(Op("set", x)) PROVE FALSE
  OBVIOUS
<1>1. PICK i \in 1..Len(agenda) : agenda[i] = Op("set", x)
  BY DEF On
<1>2. agenda[i].do = "set"
  BY <1>1 DEF Op
<1>3. i = 1
  BY <1>2 DEF PartsOK, SetFirst
<1>4. agenda \in Seq(OpType)
  BY DEF PartsOK
<1>5. agenda # <<>> /\ Head(agenda) = agenda[1]
  BY <1>1, <1>3, <1>4
<1> QED BY <1>2, <1>3, <1>5

\* Nothing behind the head is stored next, unless it is put there alone.
LEMMA SetGoes ==
  ASSUME PartsOK, agenda # <<>>, NEW ops \in Seq(OpType), Goes(ops),
         \A op : In(ops, op) => op.do # "set" \/ Len(ops) = 1
  PROVE  /\ SetFirst'
         /\ (\A op : In(ops, op) => op.do # "set") => \A x : ~On(Op("set", x))'
<1> DEFINE rest == Tail(agenda)
<1>1. agenda \in Seq(OpType) /\ agenda' = ops \o rest
  BY DEF PartsOK, Goes
<1>2. /\ rest \in Seq(OpType) /\ Len(rest) = Len(agenda) - 1 /\ Len(rest) \in Nat
      /\ Len(ops) \in Nat /\ Len(agenda) \in Nat
      /\ \A i \in 1..Len(rest) : rest[i] = agenda[i + 1]
  BY <1>1
<1> HIDE DEF rest
<1>3. /\ Len(agenda') = Len(ops) + Len(rest)
      /\ \A i \in 1..Len(ops) : agenda'[i] = ops[i]
      /\ \A i \in 1..Len(rest) : agenda'[Len(ops) + i] = rest[i]
  BY <1>1, <1>2 DEF rest
<1>4. ASSUME NEW i \in 1..Len(agenda'), agenda'[i].do = "set"
      PROVE  i \in 1..Len(ops) /\ In(ops, agenda'[i])
  <2>1. CASE i <= Len(ops)
    BY <1>2, <1>3, <2>1 DEF In
  <2>2. CASE i > Len(ops)
    <3>1. i - Len(ops) \in 1..Len(rest) /\ Len(ops) + (i - Len(ops)) = i
      BY <1>2, <1>3, <2>2
    <3>2. PICK k \in 1..Len(rest) : Len(ops) + k = i
      BY <3>1
    <3>3. agenda'[i] = agenda[k + 1] /\ k + 1 \in 1..Len(agenda) /\ k + 1 # 1
      BY <1>2, <1>3, <3>2
    <3> QED BY <1>4, <3>3 DEF PartsOK, SetFirst
  <2> QED BY <1>2, <2>1, <2>2
<1>5. SetFirst'
  <2> SUFFICES ASSUME NEW i \in 1..Len(agenda'), agenda'[i].do = "set" PROVE i = 1
    BY DEF SetFirst
  <2>1. i \in 1..Len(ops) /\ Len(ops) = 1
    BY <1>4
  <2> QED BY <2>1
<1>6. ASSUME \A op : In(ops, op) => op.do # "set", NEW x, On(Op("set", x))' PROVE FALSE
  <2>1. PICK i \in 1..Len(agenda') : agenda'[i] = Op("set", x)
    BY <1>6 DEF On
  <2>2. agenda'[i].do = "set"
    BY <2>1 DEF Op
  <2> QED BY <1>4, <1>6, <2>2
<1> QED BY <1>5, <1>6

\* The same to be done with one after another.
LEMMA EachOf ==
  ASSUME NEW S, NEW es \in Seq(S), NEW do \in Operations
  PROVE  /\ Each(do, es) \in Seq([do : {do}, of : S])
         /\ Len(Each(do, es)) = Len(es)
         /\ \A i \in 1..Len(es) : Each(do, es)[i] = Op(do, es[i])
<1> DEFINE each == [i \in 1..Len(es) |-> Op(do, es[i])]
<1>1. Each(do, es) = each
  BY DEF Each
<1>2. /\ Len(es) \in Nat
      /\ \A i \in 1..Len(es) : Op(do, es[i]) \in [do : {do}, of : S]
  BY DEF Op
<1>3. each \in [1..Len(es) -> [do : {do}, of : S]]
  BY <1>2
<1>4. each \in Seq([do : {do}, of : S]) /\ Len(each) = Len(es)
  BY <1>2, <1>3
<1> QED BY <1>1, <1>4

\* The providers and the destinations of an entity.
LEMMA Dependencies ==
  ASSUME NEW e \in Known
  PROVE  ProvidersOf(e) \in Seq(Known) /\ Destinations(e) \in Seq(Targets)
<1>1. LinksOK(Declared(e))
  BY Catalogue
<1>2. ProvidersOf(e) \in Seq(Known)
  <2>1. PICK n \in Nat : DOMAIN Declared(e).providers = 1..n
    BY <1>1 DEF LinksOK
  <2>2. ProvidersOf(e) \in [1..n -> Known]
    BY <1>1, <2>1, NamedAre, KnownAre DEF LinksOK, ProvidersOf, Leaves
  <2> QED BY <2>2
<1>3. Destinations(e) \in Seq(Targets)
  <2>1. PICK n \in Nat : DOMAIN Declared(e).relations = 1..n
    BY <1>1 DEF LinksOK
  <2>2. Destinations(e) \in [1..n -> Targets]
    BY <1>1, <2>1 DEF LinksOK, Destinations
  <2> QED BY <2>2
<1> QED BY <1>2, <1>3

\* A part of the operations.
LEMMA Weaker ==
  ASSUME NEW S, NEW T, S \subseteq T, NEW s \in Seq(S)
  PROVE  s \in Seq(T)
OBVIOUS

\* Populating or reading others one after another is plain.
LEMMA EachPlain ==
  ASSUME NEW S \in SUBSET Known, NEW es \in Seq(S),
         NEW do \in Operations \ {"query", "set", "filled", "store", "answer"},
         do = "instances" \/ S \cap Supplements = {}
  PROVE  Each(do, es) \in Seq(PlainType)
<1>1. [do : {do}, of : S] \subseteq PlainType
  BY DEF PlainType
<1>2. Each(do, es) \in Seq([do : {do}, of : S])
  BY EachOf
<1> QED BY <1>1, <1>2, Weaker

\* No operation, and a single plain one.
LEMMA PlainOps ==
  /\ <<>> \in Seq(PlainType)
  /\ \A do \in Operations \ {"query", "set", "filled", "store", "answer"}, e \in Known :
        do = "instances" \/ e \notin Supplements =>
            Op(do, e) \in PlainType /\ <<Op(do, e)>> \in Seq(PlainType)
<1>1. \A do \in Operations \ {"query", "set", "filled", "store", "answer"}, e \in Known :
        do = "instances" \/ e \notin Supplements => Op(do, e) \in PlainType
  BY DEF Op, PlainType
<1> QED BY <1>1

\* One sequence after another.
LEMMA Joined ==
  ASSUME NEW T, NEW s \in Seq(T), NEW t \in Seq(T)
  PROVE  /\ s \o t \in Seq(T)
         /\ Len(s \o t) = Len(s) + Len(t)
         /\ \A i \in 1..Len(s) : (s \o t)[i] = s[i]
         /\ \A i \in 1..Len(t) : (s \o t)[Len(s) + i] = t[i]
OBVIOUS

\* Reading an instance.
LEMMA ReadPlain ==
  ASSUME NEW e \in Known
  PROVE  ReadInstance(e) \in Seq(PlainType)
<1>1. {"defaults", "instances"} \subseteq Operations \ {"query", "set", "filled", "store", "answer"}
  BY DEF Operations
<1>2. Reads(ProvidersOf(e)) \in Seq(PlainType)
  BY <1>1, Dependencies, EachPlain DEF Reads
<1>3. (IF Declared(e).defaults = {} THEN <<>> ELSE <<Op("defaults", e)>>) \in Seq(PlainType)
  BY <1>1, PlainOps, SupplementsBare
<1> QED BY <1>2, <1>3, Joined DEF ReadInstance

\* The steps that read, and neither fill nor ask, put such operations in the place
\* of the head.
Reading(e) ==
    \/ PopulateSkips(e) \/ GetInstances(e) \/ InitDefaultFieldsValue(e)
    \/ RelationsKnown(e) \/ BuildRelations(e) \/ RelationsBuilt(e)
    \/ Rollup_(e) \/ RollupDestination(e) \/ FollowLinks(e) \/ GetRelatedInstances(e)
    \/ Answer(e)

\* What these steps leave on the agenda is plain.
LEMMA ReadingGoes ==
  ASSUME PartsOK, NEW e, Reading(e)
  PROVE  /\ e \in Known /\ agenda # <<>>
         /\ \E ops \in Seq(PlainType) : Goes(ops)
         /\ Head(agenda).do \notin {"query", "set", "filled", "store"}
         /\ Head(agenda).do = "populate" => PopulateSkips(Head(agenda).of)
<1>1. {"populate", "relations", "rollup", "status", "related", "built", "instances", "defaults"}
        \subseteq Operations \ {"query", "set", "filled", "store", "answer"}
  BY DEF Operations
<1>2. /\ e \in Known /\ agenda # <<>> /\ Head(agenda).do \notin {"query", "set", "filled", "store"}
      /\ Head(agenda).do = "populate" => PopulateSkips(Head(agenda).of)
  <2>1. PICK do \in {"populate", "instances", "defaults", "relations", "built", "rollup",
                     "status", "links", "related", "answer"} :
               At(do, e) /\ (do = "populate" => PopulateSkips(e))
    BY DEF Reading, PopulateSkips, GetInstances, InitDefaultFieldsValue, RelationsKnown,
       BuildRelations, RelationsBuilt, Rollup_, RollupDestination, FollowLinks,
       GetRelatedInstances, Answer
  <2>2. e \in Known /\ agenda # <<>> /\ Head(agenda) = Op(do, e)
    BY <2>1, HeadIs
  <2>3. Head(agenda).do = do /\ Head(agenda).of = e
    BY <2>2 DEF Op
  <2> QED BY <2>1, <2>2, <2>3
<1>10. \A do \in {"defaults", "relations", "rollup", "status", "links", "related"} :
          At(do, e) => e \notin Supplements
  BY HeadIs
<1>3. CASE PopulateSkips(e) \/ RelationsKnown(e) \/ RelationsBuilt(e) \/ Answer(e)
  <2>1. Goes(<<>>)
    BY <1>3 DEF PopulateSkips, RelationsKnown, RelationsBuilt, Answer
  <2>2. <<>> \in Seq(PlainType)
    BY PlainOps
  <2> QED BY <1>2, <2>1, <2>2
<1>4. CASE GetInstances(e)
  BY <1>2, <1>4, PlainOps, ReadPlain DEF GetInstances
<1>5. CASE InitDefaultFieldsValue(e)
  <2> DEFINE rollup == "StatusRollup" \in Declared(e).defaults
             first  == IF rollup /\ e \notin dicts THEN <<Op("populate", e)>> ELSE <<>>
             getter == CASE rollup -> <<Op("relations", e), Op("rollup", e)>>
                         [] e = "Ethernet" -> <<Op("populate", "NetworkConfig")>>
                         [] OTHER -> <<>>
  <2>1. Goes(first \o getter)
    BY <1>5 DEF InitDefaultFieldsValue
  <2>9. e \notin Supplements
    BY <1>5, <1>10 DEF InitDefaultFieldsValue
  <2>2. first \in Seq(PlainType)
    BY <1>1, <1>2, <2>9, PlainOps
  <2>3. "NetworkConfig" \in Known /\ "NetworkConfig" \notin Supplements
    BY KnownAre DEF Known, Supplements
  <2>4. <<Op("relations", e), Op("rollup", e)>> \in Seq(PlainType)
    <3>1. Op("relations", e) \in PlainType /\ Op("rollup", e) \in PlainType
      BY <1>1, <1>2, <2>9, PlainOps
    <3> QED BY <3>1
  <2>5. <<Op("populate", "NetworkConfig")>> \in Seq(PlainType)
    BY <1>1, <2>3, PlainOps
  <2>6. ~("StatusRollup" \in Declared("Ethernet").defaults)
    BY KnownAre DEF Declared, Class, Ethernet, Entity, Known, StatusManagers
  <2>7. getter \in Seq(PlainType)
    <3>1. CASE rollup
      BY <2>4, <2>6, <3>1
    <3>2. CASE ~rollup /\ e = "Ethernet"
      BY <2>5, <3>2
    <3>3. CASE ~rollup /\ e # "Ethernet"
      BY <3>3, PlainOps
    <3> QED BY <3>1, <3>2, <3>3
  <2> HIDE DEF first, getter
  <2>8. first \o getter \in Seq(PlainType)
    BY <2>2, <2>7
  <2> QED BY <1>2, <2>1, <2>8
<1>6. CASE BuildRelations(e)
  <2> DEFINE dests == Destinations(e)
             asked == [i \in 1..2 * Len(dests) |->
                         Op("populate", IF i % 2 = 1 THEN e ELSE dests[i \div 2])]
  <2>1. Goes(asked \o <<Op("built", e)>>)
    BY <1>6 DEF BuildRelations
  <2>2. dests \in Seq(Targets) /\ Len(dests) \in Nat
    BY <1>2, Dependencies
  <2>6. e \notin Supplements
    BY <1>6, <1>10 DEF BuildRelations
  <2>3. ASSUME NEW i \in 1..2 * Len(dests)
        PROVE  (IF i % 2 = 1 THEN e ELSE dests[i \div 2]) \in Known \ Supplements
    <3>1. i % 2 # 1 => i \div 2 \in 1..Len(dests)
      BY <2>2, <2>3
    <3> QED BY <1>2, <2>2, <2>6, <3>1, NamedAre
  <2>4. asked \in [1..2 * Len(dests) -> PlainType]
    BY <1>1, <2>3, PlainOps
  <2>5. asked \in Seq(PlainType)
    BY <2>2, <2>4
  <2> HIDE DEF asked
  <2> QED BY <1>1, <1>2, <2>1, <2>5, <2>6, PlainOps, Joined
<1>7. CASE Rollup_(e) \/ FollowLinks(e)
  <2>1. Goes(Each("status", Destinations(e))) \/ Goes(Each("related", Destinations(e)))
    BY <1>7 DEF Rollup_, FollowLinks
  <2>2. Destinations(e) \in Seq(Targets) /\ Targets \in SUBSET Known /\ Targets \cap Supplements = {}
    BY <1>2, Dependencies, NamedAre
  <2>3. \A do \in {"status", "related"} : Each(do, Destinations(e)) \in Seq(PlainType)
    BY <1>1, <2>2, EachPlain
  <2> QED BY <1>2, <2>1, <2>3
<1>8. CASE RollupDestination(e)
  BY <1>1, <1>2, <1>8, <1>10, PlainOps DEF RollupDestination
<1>9. CASE GetRelatedInstances(e)
  <2>1. <<e>> \in Seq(Known)
    BY <1>2
  <2>2. Reads(<<e>>) \in Seq(PlainType)
    BY <1>1, <2>1, EachPlain DEF Reads
  <2> QED BY <1>2, <1>9, <2>2 DEF GetRelatedInstances
<1> QED BY <1>2, <1>3, <1>4, <1>5, <1>6, <1>7, <1>8, <1>9 DEF Reading

\* The steps of finishInitialization do the same.
LEMMA FinishGoes ==
  ASSUME PartsOK, Finish
  PROVE  /\ agenda # <<>>
         /\ \E ops \in Seq(PlainType) : Goes(ops)
         /\ Head(agenda).do \notin {"query", "set", "filled", "store", "populate"}
<1>1. {"populate", "await", "decide", "remove"}
        \subseteq Operations \ {"query", "set", "filled", "store", "answer"}
  BY DEF Operations
<1>2. /\ DOMAIN BaseEntities = 1..3 /\ Len(BaseEntities) = 3
      /\ \A i \in 1..3 : BaseEntities[i] \in Known \ Supplements
  BY KnownAre DEF BaseEntities, Known, Supplements
<1>3. /\ agenda # <<>> /\ Head(agenda).do \notin {"query", "set", "filled", "store", "populate"}
  <2>1. PICK do \in {"observe", "await", "decide", "remove"} : \E e : At(do, e)
    BY DEF Finish, Observe, removeInitGuardFile, Await, Decide
  <2>2. PICK e : At(do, e)
    BY <2>1
  <2>3. Head(agenda) = Op(do, e) /\ agenda # <<>>
    BY <2>2, HeadIs
  <2> QED BY <2>1, <2>3 DEF Op
<1>4. CASE Observe \/ removeInitGuardFile
  <2>1. Goes(<<>>)
    BY <1>4 DEF Observe, removeInitGuardFile
  <2> QED BY <1>3, <2>1, PlainOps
<1>5. ASSUME NEW i \in DOMAIN BaseEntities, Await(BaseEntities[i])
      PROVE  \E ops \in Seq(PlainType) : Goes(ops)
  <2> DEFINE e == BaseEntities[i]
  <2>1. Goes(<<Op("populate", e), Op("decide", e)>>)
    BY <1>5 DEF Await
  <2>2. Op("populate", e) \in PlainType /\ Op("decide", e) \in PlainType
    BY <1>1, <1>2, PlainOps
  <2>3. <<Op("populate", e), Op("decide", e)>> \in Seq(PlainType)
    BY <2>2
  <2> QED BY <2>1, <2>3
<1>6. ASSUME NEW i \in DOMAIN BaseEntities, Decide(i)
      PROVE  \E ops \in Seq(PlainType) : Goes(ops)
  <2> DEFINE e == BaseEntities[i]
  <2>1. e \in Known /\ "Server" \in Known \ Supplements
    BY <1>2, KnownAre DEF Known, Supplements
  <2>2. ReadInstance(e) \in Seq(PlainType)
    BY <2>1, ReadPlain
  <2>3. AfterBase(i) \in Seq(PlainType)
    <3>1. i # 3 => i + 1 \in 1..3
      BY <1>2
    <3> QED BY <1>1, <1>2, <2>1, <3>1, PlainOps DEF AfterBase
  <2>4. <<Op("await", "Server")>> \in Seq(PlainType)
    BY <1>1, <2>1, PlainOps
  <2>5. Goes(IF e \in inst THEN ReadInstance(e) \o AfterBase(i) ELSE <<Op("await", "Server")>>)
    BY <1>6 DEF Decide
  <2>6. ReadInstance(e) \o AfterBase(i) \in Seq(PlainType)
    BY <2>2, <2>3
  <2> QED BY <2>4, <2>5, <2>6
<1> QED BY <1>3, <1>4, <1>5, <1>6 DEF Finish

-----------------------------------------------------------------------------
(* Steps that only read *)

\* The first part of ManagerTypeOK, from the type of the agenda.
LEMMA AgendaTyped ==
  ASSUME NEW s \in Seq(OpType)
  PROVE  \A i \in DOMAIN s : s[i].do \in Operations /\ s[i].of \in Known
<1>1. \A i \in DOMAIN s : s[i] \in OpType
  OBVIOUS
<1> QED BY <1>1 DEF OpType

\* The part of ManagerTypeOK about signals, from their type.
LEMMA SignalsTyped ==
  ASSUME NEW s \in Seq(SignalType)
  PROVE  \A i \in DOMAIN s : s[i].added \in BOOLEAN /\ s[i].of \in Movable
<1>1. \A i \in DOMAIN s : s[i] \in SignalType
  OBVIOUS
<1> QED BY <1>1 DEF SignalType

\* What is on the agenda after such a step.
LEMMA PlainGoes ==
  ASSUME PartsOK, agenda # <<>>, NEW ops \in Seq(PlainType), Goes(ops)
  PROVE  /\ agenda' \in Seq(OpType)
         /\ \A do \in {"query", "set", "filled", "store", "answer"} : \A e : On(Op(do, e))' => On(Op(do, e))
         /\ \A do, e : On(Op(do, e)) /\ do # Head(agenda).do => On(Op(do, e))'
         /\ SetFirst' /\ \A x : ~On(Op("set", x))'
<1>1. PlainType \subseteq OpType
  BY DEF PlainType, OpType
<1>2. ops \in Seq(OpType)
  BY <1>1
<1>3. /\ agenda' \in Seq(OpType)
      /\ \A op : On(op)' => In(ops, op) \/ On(op)
      /\ \A op : On(op) /\ op # Head(agenda) => On(op)'
  BY <1>2, AgendaGoes
<1>4. ASSUME NEW do \in {"query", "set", "filled", "store", "answer"}, NEW e
      PROVE  ~In(ops, Op(do, e))
  <2>1. \A i \in 1..Len(ops) : ops[i] \in PlainType
    OBVIOUS
  <2> QED BY <2>1 DEF In, PlainType, Op
<1>5. \A do, e : Op(do, e).do = do
  BY DEF Op
<1>6. ASSUME NEW do \in {"query", "set", "filled", "store", "answer"}, NEW e, On(Op(do, e))'
      PROVE  On(Op(do, e))
  <2> DEFINE op == Op(do, e)
  <2>1. On(op)' => In(ops, op) \/ On(op)
    BY <1>3
  <2> QED BY <1>4, <1>6, <2>1
<1>7. ASSUME NEW do, NEW e, On(Op(do, e)), do # Head(agenda).do
      PROVE  On(Op(do, e))'
  <2> DEFINE op == Op(do, e)
  <2>1. On(op) /\ op # Head(agenda) => On(op)'
    BY <1>3
  <2> QED BY <1>5, <1>7, <2>1
<1>8. \A op : In(ops, op) => op.do # "set"
  BY DEF In, PlainType
<1>9. SetFirst' /\ \A x : ~On(Op("set", x))'
  BY <1>2, <1>8, SetGoes
<1> QED BY <1>3, <1>6, <1>7, <1>9

\* A step that changes neither caches nor signals keeps the invariant: what it puts on
\* the agenda fills nothing, answers nothing, and takes no fill, query or answer away.
LEMMA PlainKeeps ==
  ASSUME ManagerInv, agenda # <<>>, NEW ops \in Seq(PlainType), Goes(ops),
         Head(agenda).do \notin {"query", "set", "filled", "store"},
         Head(agenda).do = "populate" => PopulateSkips(Head(agenda).of),
         UNCHANGED <<cacheVars, worldVars, signals, failures, seenVars>>,
         dicts' \cup building' \cup built' \subseteq Known,
         guardFile' \in BOOLEAN, observing' \in BOOLEAN
  PROVE  ManagerInv'
<1>1. PartsOK /\ FillsEnd /\ HealInv /\ LastTells /\ ShownInv
  BY DEF ManagerInv
<1>2. UNCHANGED <<initialized, caching, failed, fresh, inst, observers, objects, changes,
                  requests, signals, failures, quiet, failedNow, overtaken>>
  BY DEF cacheVars, worldVars, seenVars
<1>3. /\ agenda' \in Seq(OpType)
      /\ \A do \in {"query", "set", "filled", "store", "answer"} : \A e : On(Op(do, e))' => On(Op(do, e))
      /\ \A do, e : On(Op(do, e)) /\ do # Head(agenda).do => On(Op(do, e))'
      /\ SetFirst' /\ \A x : ~On(Op("set", x))'
  BY <1>1, PlainGoes
<1>4. PartsOK'
  <2>1. \A i \in DOMAIN agenda' : agenda'[i].do \in Operations /\ agenda'[i].of \in Known
    BY <1>3, AgendaTyped
  <2>2. \A set \in {initialized, caching, failed, inst, dicts, building, built, failedNow,
                    overtaken}' :
           set \subseteq Known
    BY <1>1, <1>2 DEF PartsOK, ManagerTypeOK
  <2>3. ManagerTypeOK'
    BY <1>1, <1>2, <2>1, <2>2 DEF PartsOK, ManagerTypeOK
  <2>4. \A e \in Movable : ~On(Op("store", e))'
    BY <1>1, <1>3 DEF PartsOK
  <2> QED BY <1>1, <1>2, <1>3, <2>3, <2>4 DEF PartsOK
<1>5. FillsEnd'
  BY <1>1, <1>2, <1>3 DEF FillsEnd
<1>6. ASSUME NEW e \in Requested, On(Op("answer", e))', IsCached(e), e \in failed
      PROVE  e \in failedNow
  <2>1. e \in failedNow \/ (At("populate", e) /\ caching = {})
    BY <1>1, <1>3, <1>6 DEF HealInv
  <2>2. ASSUME At("populate", e), caching = {} PROVE FALSE
    <3>1. Head(agenda) = Op("populate", e)
      BY <1>1, <2>2, HeadIs
    <3>2. PopulateSkips(e)
      BY <3>1 DEF Op
    <3>3. e \notin ShortTime
      BY <1>6 DEF IsCached, ShortTime
    <3>4. Fills(e) = MustFill(e)
      BY <1>6, <3>3 DEF Fills
    <3> QED BY <1>6, <2>2, <3>2, <3>4 DEF PopulateSkips, MustFill
  <2> QED BY <2>1, <2>2
<1>7. HealInv'
  BY <1>2, <1>6 DEF HealInv
<1>8. LastTells'
  BY <1>1, <1>2 DEF LastTells
<1>9. ShownInv'
  <2>1. \A e : Awaited(e)' <=> Awaited(e)
    BY <1>2 DEF Awaited
  <2>2. \A e : On(Op("query", e)) => On(Op("query", e))'
    BY <1>3
  <2>3. \A e : On(Op("filled", e))' => On(Op("filled", e))
    BY <1>3
  <2>4. \A e : Stored(e)' <=> Stored(e)
    BY <1>1, <1>2, <1>3, NoSet DEF Stored
  <2> QED BY <1>1, <1>2, <2>1, <2>2, <2>3, <2>4 DEF ShownInv
<1> QED BY <1>4, <1>5, <1>7, <1>8, <1>9 DEF ManagerInv

\* The steps that only read are of this kind.
LEMMA ReadingKeeps ==
  ASSUME ManagerInv, (\E e \in Current : Reading(e)) \/ Finish
  PROVE  ManagerInv'
<1>1. PartsOK
  BY DEF ManagerInv
<1>2. dicts \cup building \cup built \subseteq Known /\ {guardFile, observing} \subseteq BOOLEAN
  BY <1>1 DEF PartsOK, ManagerTypeOK
<1>3. ASSUME NEW e, Reading(e) PROVE ManagerInv'
  <2>1. /\ e \in Known /\ agenda # <<>>
        /\ \E ops \in Seq(PlainType) : Goes(ops)
        /\ Head(agenda).do \notin {"query", "set", "filled", "store"}
        /\ Head(agenda).do = "populate" => PopulateSkips(Head(agenda).of)
    BY <1>1, <1>3, ReadingGoes
  <2>2. /\ UNCHANGED <<cacheVars, worldVars, signals, failures, seenVars, guardFile, observing>>
        /\ dicts' \cup building' \cup built' \subseteq Known
    BY <1>2, <1>3, <2>1 DEF Reading, PopulateSkips, GetInstances, InitDefaultFieldsValue,
       RelationsKnown, BuildRelations, RelationsBuilt, Rollup_, RollupDestination,
       FollowLinks, GetRelatedInstances, Answer, staticVars
  <2> QED BY <1>2, <2>1, <2>2, PlainKeeps
<1>4. ASSUME Finish PROVE ManagerInv'
  <2>1. /\ agenda # <<>>
        /\ \E ops \in Seq(PlainType) : Goes(ops)
        /\ Head(agenda).do \notin {"query", "set", "filled", "store", "populate"}
    BY <1>1, <1>4, FinishGoes
  <2>2. /\ UNCHANGED <<cacheVars, staticVars, worldVars, signals, failures, seenVars>>
        /\ guardFile' \in BOOLEAN /\ observing' \in BOOLEAN
    BY <1>2, <1>4 DEF Finish, Observe, removeInitGuardFile, Await, Decide
  <2>3. dicts' \cup building' \cup built' \subseteq Known
    BY <1>2, <2>2 DEF staticVars
  <2> QED BY <2>1, <2>2, <2>3, PlainKeeps
<1> QED BY <1>3, <1>4

-----------------------------------------------------------------------------
(* Steps that fill *)

\* The head is done with.
LEMMA HeadDone ==
  ASSUME PartsOK, NEW do, NEW e, At(do, e), Goes(<<>>)
  PROVE  /\ agenda' \in Seq(OpType)
         /\ \A op : On(op)' => On(op)
         /\ \A op : On(op) /\ op # Op(do, e) => On(op)'
         /\ SetFirst' /\ \A x : ~On(Op("set", x))'
<1>1. agenda # <<>> /\ Head(agenda) = Op(do, e)
  BY HeadIs
<1>2. <<>> \in Seq(OpType) /\ \A op : ~In(<<>>, op)
  BY DEF In
<1> QED BY <1>1, <1>2, AgendaGoes, SetGoes

\* The end of a fill.
LEMMA FilledKeeps ==
  ASSUME ManagerInv, NEW e, Filled(e)
  PROVE  ManagerInv'
<1>1. PartsOK /\ FillsEnd /\ HealInv /\ LastTells /\ ShownInv
  BY DEF ManagerInv
<1>2. /\ UNCHANGED <<failed, inst, observers, dicts, building, built, guardFile, observing,
                     objects, changes, requests, signals, failures, quiet, failedNow,
                     overtaken>>
      /\ caching' = caching \ {e} /\ initialized' \subseteq initialized \cup {e}
      /\ \A x \in initialized' \ initialized : IsCached(x)
      /\ fresh' \subseteq fresh \cup (ShortTime \cap {e})
  BY DEF Filled, staticVars, worldVars, seenVars
<1>3. /\ e \in Known /\ Head(agenda) = Op("filled", e) /\ On(Op("filled", e))
      /\ agenda' \in Seq(OpType)
      /\ \A op : On(op)' => On(op)
      /\ \A op : On(op) /\ op # Op("filled", e) => On(op)'
      /\ SetFirst' /\ \A x : ~On(Op("set", x)) /\ ~On(Op("set", x))'
  BY <1>1, HeadIs, HeadDoes, HeadDone, NoSet DEF Filled
<1>4. PartsOK'
  <2>1. \A i \in DOMAIN agenda' : agenda'[i].do \in Operations /\ agenda'[i].of \in Known
    BY <1>3, AgendaTyped
  <2>2. \A set \in {initialized, caching, failed, inst, dicts, building, built, failedNow,
                    overtaken}' :
           set \subseteq Known
    BY <1>1, <1>2, <1>3 DEF PartsOK, ManagerTypeOK
  <2>3. ManagerTypeOK'
    BY <1>1, <1>2, <2>1, <2>2 DEF PartsOK, ManagerTypeOK
  <2> QED BY <1>1, <1>2, <1>3, <2>3 DEF PartsOK
<1>5. FillsEnd'
  <2>1. ASSUME NEW x \in caching, x # e PROVE On(Op("filled", x))'
    BY <1>1, <1>3, <2>1, OpsDiffer DEF FillsEnd
  <2> QED BY <1>2, <2>1 DEF FillsEnd
<1>6. HealInv'
  <2>1. \A x : ~At("populate", x)
    BY <1>3, OpsDiffer DEF At
  <2> QED BY <1>1, <1>2, <1>3, <2>1 DEF HealInv
<1>7. LastTells'
  BY <1>1, <1>2 DEF LastTells
<1>8. ShownInv'
  <2>1. \A x : Awaited(x)' <=> Awaited(x)
    BY <1>2 DEF Awaited
  <2>2. \A x : On(Op("query", x)) => On(Op("query", x))'
    BY <1>3, OpsDiffer
  <2>3. \A x : On(Op("filled", x))' => On(Op("filled", x))
    BY <1>3
  <2>4. ASSUME NEW x, x \in initialized' PROVE x \in initialized \/ On(Op("filled", x))
    BY <1>2, <1>3, <2>4
  <2>5. \A x : Stored(x)' <=> Stored(x)
    BY <1>2, <1>3 DEF Stored
  <2> QED BY <1>1, <1>2, <2>1, <2>2, <2>3, <2>4, <2>5 DEF ShownInv
<1> QED BY <1>4, <1>5, <1>6, <1>7, <1>8 DEF ManagerInv

\* What a query over others stores is no movable object.
LEMMA StoreKeeps ==
  ASSUME ManagerInv, NEW e, Store(e)
  PROVE  ManagerInv'
<1>1. PartsOK /\ FillsEnd /\ HealInv /\ LastTells /\ ShownInv
  BY DEF ManagerInv
<1>2. /\ UNCHANGED <<initialized, caching, failed, fresh, observers, dicts, building, built,
                     guardFile, observing, objects, changes, requests, signals, failures,
                     quiet, failedNow, overtaken>>
      /\ inst \subseteq inst' /\ inst' \subseteq inst \cup {e}
  BY DEF Store, staticVars, worldVars, seenVars
<1>3. /\ e \in Known /\ Head(agenda) = Op("store", e) /\ On(Op("store", e))
      /\ agenda' \in Seq(OpType)
      /\ \A op : On(op)' => On(op)
      /\ \A op : On(op) /\ op # Op("store", e) => On(op)'
      /\ SetFirst' /\ \A x : ~On(Op("set", x)) /\ ~On(Op("set", x))'
  BY <1>1, HeadIs, HeadDoes, HeadDone, NoSet DEF Store
<1>4. PartsOK'
  <2>1. \A i \in DOMAIN agenda' : agenda'[i].do \in Operations /\ agenda'[i].of \in Known
    BY <1>3, AgendaTyped
  <2>2. \A set \in {initialized, caching, failed, inst, dicts, building, built, failedNow,
                    overtaken}' :
           set \subseteq Known
    BY <1>1, <1>2, <1>3 DEF PartsOK, ManagerTypeOK
  <2>3. ManagerTypeOK'
    BY <1>1, <1>2, <2>1, <2>2 DEF PartsOK, ManagerTypeOK
  <2> QED BY <1>1, <1>2, <1>3, <2>3 DEF PartsOK
<1>5. FillsEnd'
  BY <1>1, <1>2, <1>3, OpsDiffer DEF FillsEnd
<1>6. HealInv'
  <2>1. \A x : ~At("populate", x)
    BY <1>3, OpsDiffer DEF At
  <2> QED BY <1>1, <1>2, <1>3, <2>1 DEF HealInv
<1>7. LastTells'
  BY <1>1, <1>2 DEF LastTells
<1>8. ShownInv'
  <2>1. \A x : Awaited(x)' <=> Awaited(x)
    BY <1>2 DEF Awaited
  <2>2. \A x : On(Op("query", x)) => On(Op("query", x))'
    BY <1>3, OpsDiffer
  <2>3. \A x : On(Op("filled", x))' => On(Op("filled", x))
    BY <1>3
  <2>4. \A x \in Movable : Stored(x)' <=> Stored(x)
    BY <1>1, <1>2, <1>3 DEF PartsOK, Stored
  <2> QED BY <1>1, <1>2, <2>1, <2>2, <2>3, <2>4 DEF ShownInv
<1> QED BY <1>4, <1>5, <1>6, <1>7, <1>8 DEF ManagerInv

\* What was answered is stored, whether the bus still has it or not.
LEMMA SetKeeps ==
  ASSUME ManagerInv, NEW e, SetInstances(e)
  PROVE  ManagerInv'
<1>1. PartsOK /\ FillsEnd /\ HealInv /\ LastTells /\ ShownInv
  BY DEF ManagerInv
<1>2. /\ UNCHANGED <<initialized, caching, failed, fresh, observers, dicts, building, built,
                     guardFile, observing, objects, changes, requests, signals, failures,
                     quiet, failedNow, overtaken>>
      /\ inst' = inst \cup {e}
  BY DEF SetInstances, staticVars, worldVars, seenVars
<1>3. /\ e \in Known /\ Head(agenda) = Op("set", e) /\ On(Op("set", e))
      /\ agenda' \in Seq(OpType)
      /\ \A op : On(op)' => On(op)
      /\ \A op : On(op) /\ op # Op("set", e) => On(op)'
      /\ SetFirst' /\ \A x : ~On(Op("set", x))'
  BY <1>1, HeadIs, HeadDone DEF SetInstances
<1>4. PartsOK'
  <2>1. \A i \in DOMAIN agenda' : agenda'[i].do \in Operations /\ agenda'[i].of \in Known
    BY <1>3, AgendaTyped
  <2>2. \A set \in {initialized, caching, failed, inst, dicts, building, built, failedNow,
                    overtaken}' :
           set \subseteq Known
    BY <1>1, <1>2, <1>3 DEF PartsOK, ManagerTypeOK
  <2>3. ManagerTypeOK'
    BY <1>1, <1>2, <2>1, <2>2 DEF PartsOK, ManagerTypeOK
  <2> QED BY <1>1, <1>2, <1>3, <2>3 DEF PartsOK
<1>5. FillsEnd'
  BY <1>1, <1>2, <1>3, OpsDiffer DEF FillsEnd
<1>6. HealInv'
  <2>1. \A x : ~At("populate", x)
    BY <1>3, OpsDiffer DEF At
  <2> QED BY <1>1, <1>2, <1>3, <2>1 DEF HealInv
<1>7. LastTells'
  BY <1>1, <1>2 DEF LastTells
<1>8. ShownInv'
  <2>1. \A x : Awaited(x)' <=> Awaited(x)
    BY <1>2 DEF Awaited
  <2>2. \A x : On(Op("query", x)) => On(Op("query", x))'
    BY <1>3, OpsDiffer
  <2>3. \A x : On(Op("filled", x))' => On(Op("filled", x))
    BY <1>3
  <2>4. \A x : Stored(x)' <=> Stored(x)
    <3>1. \A x : On(Op("set", x)) => x = e
      <4> SUFFICES ASSUME NEW x, On(Op("set", x)) PROVE x = e
        OBVIOUS
      <4>1. PICK i \in 1..Len(agenda) : agenda[i] = Op("set", x)
        BY DEF On
      <4>2. agenda[i].do = "set"
        BY <4>1 DEF Op
      <4>3. i = 1 /\ agenda \in Seq(OpType)
        BY <1>1, <4>2 DEF PartsOK, SetFirst
      <4>4. Head(agenda) = Op("set", x)
        BY <4>1, <4>3
      <4> QED BY <1>3, <4>4, OpsDiffer
    <3> QED BY <1>2, <1>3, <3>1 DEF Stored
  <2> QED BY <1>1, <1>2, <2>1, <2>2, <2>3, <2>4 DEF ShownInv
<1> QED BY <1>4, <1>5, <1>6, <1>7, <1>8 DEF ManagerInv

\* The operations of a fill: a query of each provider and of the entity, and its end.
LEMMA FillOps ==
  ASSUME NEW e \in Known \ Supplements
  PROVE  LET ops == Each("query", ProvidersOf(e)) \o <<Op("query", e), Op("filled", e)>>
         IN  /\ ops \in Seq(OpType)
             /\ In(ops, Op("filled", e))
             /\ \A x \in Cleared(e) : In(ops, Op("query", x))
             /\ \A op : In(ops, op) => op.do = "query" \/ op = Op("filled", e)
             /\ Len(ops) = Len(ProvidersOf(e)) + 2
             /\ \A i \in 1..Len(ProvidersOf(e)) : ops[i] = Op("query", ProvidersOf(e)[i])
             /\ ops[Len(ProvidersOf(e)) + 1] = Op("query", e)
             /\ ops[Len(ProvidersOf(e)) + 2] = Op("filled", e)
<1> DEFINE es   == ProvidersOf(e)
           each == Each("query", es)
           last == <<Op("query", e), Op("filled", e)>>
           ops  == each \o last
<1>1. es \in Seq(Known) /\ {"query", "filled"} \subseteq Operations
  BY Dependencies DEF Operations
<1>2. /\ each \in Seq([do : {"query"}, of : Known]) /\ Len(each) = Len(es)
      /\ \A i \in 1..Len(es) : each[i] = Op("query", es[i])
  BY <1>1, EachOf
<1>3. [do : {"query"}, of : Known] \subseteq OpType
  BY <1>1 DEF OpType
<1>4. last \in Seq(OpType) /\ Len(last) = 2
  BY <1>1, OpTyped
<1>5. last[1] = Op("query", e) /\ last[2] = Op("filled", e)
  OBVIOUS
<1>6. DOMAIN es = 1..Len(es) /\ Len(es) \in Nat
  BY <1>1
<1> HIDE DEF es, each, last
<1>7. each \in Seq(OpType)
  <2> DEFINE queries == [do : {"query"}, of : Known]
  <2>1. each \in Seq(queries) /\ queries \subseteq OpType
    BY <1>2, <1>3
  <2> HIDE DEF queries
  <2> QED BY <2>1, Weaker
<1>8. /\ ops \in Seq(OpType) /\ Len(ops) = Len(es) + 2
      /\ \A i \in 1..Len(es) : ops[i] = each[i]
      /\ ops[Len(es) + 1] = last[1] /\ ops[Len(es) + 2] = last[2]
  <2>1. /\ ops \in Seq(OpType) /\ Len(ops) = Len(each) + Len(last)
        /\ \A i \in 1..Len(each) : ops[i] = each[i]
        /\ \A i \in 1..Len(last) : ops[Len(each) + i] = last[i]
    <3>1. \A s, t \in Seq(OpType) :
             /\ s \o t \in Seq(OpType) /\ Len(s \o t) = Len(s) + Len(t)
             /\ \A i \in 1..Len(s) : (s \o t)[i] = s[i]
             /\ \A i \in 1..Len(t) : (s \o t)[Len(s) + i] = t[i]
      BY Joined
    <3> QED BY <1>4, <1>7, <3>1, Zenon
  <2>2. 1 \in 1..Len(last) /\ 2 \in 1..Len(last)
    BY <1>4
  <2> QED BY <1>2, <1>4, <2>1, <2>2
<1> HIDE DEF ops
<1>9. In(ops, Op("filled", e)) /\ In(ops, Op("query", e))
  BY <1>5, <1>6, <1>8 DEF In
<1>10. ASSUME NEW x \in ToSet(es) PROVE In(ops, Op("query", x))
  <2>1. PICK i \in 1..Len(es) : es[i] = x
    BY <1>6 DEF ToSet
  <2>2. ops[i] = Op("query", x) /\ i \in 1..Len(ops)
    BY <1>2, <1>6, <1>8, <2>1
  <2> QED BY <2>2 DEF In
<1>11. ASSUME NEW op, In(ops, op) PROVE op.do = "query" \/ op = Op("filled", e)
  <2>1. PICK i \in 1..Len(ops) : ops[i] = op
    BY <1>11 DEF In
  <2>2. i \in 1..Len(es) \/ i = Len(es) + 1 \/ i = Len(es) + 2
    BY <1>6, <1>8
  <2>3. \A y : Op("query", y).do = "query"
    BY DEF Op
  <2> QED BY <1>2, <1>5, <1>8, <2>1, <2>2, <2>3
<1>12. \A x \in Cleared(e) : In(ops, Op("query", x))
  BY <1>9, <1>10 DEF Cleared, es
<1>13. /\ Len(ops) = Len(es) + 2
       /\ \A i \in 1..Len(es) : ops[i] = Op("query", es[i])
       /\ ops[Len(es) + 1] = Op("query", e) /\ ops[Len(es) + 2] = Op("filled", e)
  BY <1>2, <1>5, <1>8
<1> QED BY <1>8, <1>9, <1>11, <1>12, <1>13 DEF ops, each, last, es

\* The start of a fill clears what the entity and its providers have, and puts a query
\* of each of them on the agenda.
LEMMA PopulateKeeps ==
  ASSUME ManagerInv, NEW e, PopulateFills(e)
  PROVE  ManagerInv'
<1>1. PartsOK /\ FillsEnd /\ HealInv /\ LastTells /\ ShownInv
  BY DEF ManagerInv
<1>2. /\ UNCHANGED <<initialized, fresh, observers, dicts, building, built, guardFile,
                     observing, objects, changes, requests, signals, failures, quiet,
                     failedNow>>
      /\ caching' \subseteq caching \cup {e} /\ failed' = failed \ {e}
      /\ inst' = inst \ Cleared(e) /\ overtaken' = overtaken \ Cleared(e)
  BY DEF PopulateFills, staticVars, worldVars
<1>3. e \in Known \ Supplements /\ agenda # <<>> /\ Head(agenda) = Op("populate", e)
  BY <1>1, HeadIs DEF PopulateFills
<1> DEFINE ops == Each("query", ProvidersOf(e)) \o <<Op("query", e), Op("filled", e)>>
<1>4. /\ ops \in Seq(OpType)
      /\ In(ops, Op("filled", e))
      /\ \A x \in Cleared(e) : In(ops, Op("query", x))
      /\ \A op : In(ops, op) => op.do = "query" \/ op = Op("filled", e)
  BY <1>3, FillOps
<1>5. Goes(ops)
  BY DEF PopulateFills
<1> HIDE DEF ops
<1>6. /\ agenda' \in Seq(OpType)
      /\ \A op : In(ops, op) => On(op)'
      /\ \A op : On(op)' => In(ops, op) \/ On(op)
      /\ \A op : On(op) /\ op # Head(agenda) => On(op)'
  BY <1>1, <1>3, <1>4, <1>5, AgendaGoes
<1>14. SetFirst' /\ \A x : ~On(Op("set", x)) /\ ~On(Op("set", x))'
  <2>1. \A op : In(ops, op) => op.do # "set"
    BY <1>4 DEF Op
  <2>2. Head(agenda).do # "set"
    BY <1>3 DEF Op
  <2>3. \A x : ~On(Op("set", x))
    BY <1>1, <2>2, NoSet
  <2>4. SetFirst' /\ \A x : ~On(Op("set", x))'
    BY <1>1, <1>3, <1>4, <1>5, <2>1, SetGoes
  <2> QED BY <2>3, <2>4
<1>7. \A do, x : Op(do, x).do = do
  BY DEF Op
<1>8. /\ \A x : On(Op("answer", x))' => On(Op("answer", x))
      /\ \A x : On(Op("store", x))' => On(Op("store", x))
      /\ \A x : On(Op("filled", x))' => On(Op("filled", x)) \/ x = e
      /\ \A x : On(Op("filled", x)) \/ x = e => On(Op("filled", x))'
      /\ \A x : On(Op("query", x)) \/ x \in Cleared(e) => On(Op("query", x))'
  <2>1. \A x : ~In(ops, Op("answer", x)) /\ ~In(ops, Op("store", x))
    BY <1>4, <1>7, OpsDiffer
  <2>2. \A x : In(ops, Op("filled", x)) => x = e
    BY <1>4, <1>7, OpsDiffer
  <2>3. \A x : Op("filled", x) # Head(agenda) /\ Op("query", x) # Head(agenda)
    BY <1>3, OpsDiffer
  <2> QED BY <1>4, <1>6, <2>1, <2>2, <2>3
<1>9. PartsOK'
  <2>1. \A i \in DOMAIN agenda' : agenda'[i].do \in Operations /\ agenda'[i].of \in Known
    BY <1>6, AgendaTyped
  <2>2. \A set \in {initialized, caching, failed, inst, dicts, building, built, failedNow,
                    overtaken}' :
           set \subseteq Known
    BY <1>1, <1>2, <1>3 DEF PartsOK, ManagerTypeOK
  <2>3. ManagerTypeOK'
    BY <1>1, <1>2, <2>1, <2>2 DEF PartsOK, ManagerTypeOK
  <2> QED BY <1>1, <1>2, <1>6, <1>8, <1>14, <2>3 DEF PartsOK
<1>10. FillsEnd'
  BY <1>1, <1>2, <1>8 DEF FillsEnd
<1>11. HealInv'
  <2>1. \A x : At("populate", x) => x = e
    BY <1>3, OpsDiffer DEF At
  <2> QED BY <1>1, <1>2, <1>8, <2>1 DEF HealInv
<1>12. LastTells'
  BY <1>1, <1>2 DEF LastTells
<1>13. ShownInv'
  <2>1. \A x : Awaited(x)' <=> Awaited(x)
    BY <1>2 DEF Awaited
  <2>2. \A x : x \notin Cleared(e) => x # e
    BY DEF Cleared
  <2>3. \A x : Stored(x)' <=> Stored(x) /\ x \notin Cleared(e)
    BY <1>2, <1>14 DEF Stored
  <2>4. \A x : x \notin Cleared(e) => (x \in overtaken' <=> x \in overtaken)
    BY <1>2
  <2> QED BY <1>1, <1>2, <1>8, <2>1, <2>2, <2>3, <2>4 DEF ShownInv
<1> QED BY <1>9, <1>10, <1>11, <1>12, <1>13 DEF ManagerInv

\* Each time a query is configured its handlers are registered once more.
LEMMA Registering ==
  ASSUME PartsOK, NEW e \in Known
  PROVE  /\ Registered(e) \in [Known -> 0..2]
         /\ \A x \in Known : observers[x] > 0 => Registered(e)[x] > 0
         /\ Declared(e).source # "lazy" => Registered(e)[e] > 0
<1>1. observers \in [Known -> 0..2]
  BY DEF PartsOK, ManagerTypeOK
<1> QED BY <1>1 DEF Registered

\* A query that has what it found stored, fails, or has others populated and read first.
LEMMA QueryStep ==
  ASSUME ManagerInv, NEW e, At("query", e), NEW ops \in Seq(OpType), Goes(ops),
         \A op : In(ops, op) =>
            \/ op \in PlainType
            \/ op = Op("store", e) /\ e \notin Movable
            \/ /\ op = Op("set", e) /\ Len(ops) = 1
               /\ e \in Movable => e \in objects \cup FixedObject,
         observers' = Registered(e),
         UNCHANGED <<initialized, caching, fresh, dicts, building, built, guardFile, observing,
                     objects, changes, requests, signals, quiet, inst, overtaken>>,
         failed \subseteq failed', failed' \subseteq failed \cup {e},
         failedNow \cup (failed' \ failed) \subseteq failedNow', failedNow' \subseteq failedNow \cup {e},
         failures' \in 0..MaxFailures,
         e \in Movable => e \in failed' \/ e \notin objects \/ In(ops, Op("set", e))
  PROVE  ManagerInv'
<1>1. PartsOK /\ FillsEnd /\ HealInv /\ LastTells /\ ShownInv
  BY DEF ManagerInv
<1>2. e \in Known /\ agenda # <<>> /\ Head(agenda) = Op("query", e)
  BY <1>1, HeadIs
<1>3. /\ agenda' \in Seq(OpType)
      /\ \A op : On(op)' => In(ops, op) \/ On(op)
      /\ \A op : On(op) /\ op # Head(agenda) => On(op)'
      /\ \A op : In(ops, op) => On(op)'
  BY <1>1, <1>2, AgendaGoes
<1>4. \A do \in {"query", "set", "filled", "store", "answer"} : \A x :
         In(ops, Op(do, x)) =>
            \/ do = "store" /\ x = e /\ e \notin Movable
            \/ do = "set" /\ x = e /\ (e \in Movable => e \in objects \cup FixedObject)
  BY OpsDiffer DEF PlainType, Op
<1>12. /\ SetFirst'
       /\ \A x : ~On(Op("set", x))
       /\ \A x : On(Op("set", x))' => x = e /\ (e \in Movable => e \in objects \cup FixedObject)
  <2>1. \A op : In(ops, op) => op.do # "set" \/ Len(ops) = 1
    BY OpsDiffer DEF PlainType, Op
  <2>2. SetFirst'
    BY <1>1, <1>2, <2>1, SetGoes
  <2>3. Head(agenda).do # "set"
    BY <1>2 DEF Op
  <2>4. \A x : ~On(Op("set", x))
    BY <1>1, <2>3, NoSet
  <2>5. \A x : On(Op("set", x))' => In(ops, Op("set", x))
    BY <1>3, <2>4
  <2> QED BY <1>4, <2>2, <2>4, <2>5
<1>5. /\ \A x : On(Op("answer", x))' => On(Op("answer", x))
      /\ \A x : On(Op("filled", x))' => On(Op("filled", x))
      /\ \A x : On(Op("filled", x)) => On(Op("filled", x))'
      /\ \A x \in Movable : On(Op("store", x))' => On(Op("store", x))
      /\ \A x : On(Op("query", x)) /\ x # e => On(Op("query", x))'
  <2>1. \A x : ~In(ops, Op("answer", x)) /\ ~In(ops, Op("filled", x))
    BY <1>4
  <2>2. \A x \in Movable : ~In(ops, Op("store", x))
    BY <1>4
  <2>3. \A x : Op("filled", x) # Head(agenda) /\ (x # e => Op("query", x) # Head(agenda))
    BY <1>2, OpsDiffer
  <2> QED BY <1>3, <2>1, <2>2, <2>3
<1>6. /\ observers' \in [Known -> 0..2]
      /\ \A x \in Known : observers[x] > 0 => observers'[x] > 0
      /\ Declared(e).source # "lazy" => observers'[e] > 0
  BY <1>1, <1>2, Registering
<1>7. PartsOK'
  <2>1. \A i \in DOMAIN agenda' : agenda'[i].do \in Operations /\ agenda'[i].of \in Known
    BY <1>3, AgendaTyped
  <2>2. \A set \in {initialized, caching, failed, inst, dicts, building, built, failedNow,
                    overtaken}' :
           set \subseteq Known
    BY <1>1, <1>2 DEF PartsOK, ManagerTypeOK
  <2>3. ManagerTypeOK'
    BY <1>1, <1>6, <2>1, <2>2 DEF PartsOK, ManagerTypeOK
  <2> QED BY <1>1, <1>3, <1>5, <1>12, <2>3 DEF PartsOK
<1>8. FillsEnd'
  BY <1>1, <1>5 DEF FillsEnd
<1>9. HealInv'
  <2>1. \A x : ~At("populate", x)
    BY <1>2, OpsDiffer DEF At
  <2> QED BY <1>1, <1>5, <2>1 DEF HealInv
<1>10. LastTells'
  BY <1>1 DEF LastTells
<1>11. ShownInv'
  <2> SUFFICES ASSUME NEW x \in Movable, Declared(x).source # "lazy"
               PROVE  /\ Stored(x)' => observers'[x] > 0
                      /\ Stored(x)' /\ ~Awaited(x)' => x \in objects \cup overtaken \cup FixedObject
                      /\ x \in initialized \/ On(Op("filled", x))' =>
                            \/ On(Op("query", x))'
                            \/ /\ observers'[x] > 0
                               /\ x \in failed' \/ Awaited(x)' \/ (x \in objects => Stored(x)')
    BY DEF ShownInv
  <2>1. Awaited(x)' <=> Awaited(x)
    BY DEF Awaited
  <2>2. /\ Stored(x) => observers[x] > 0
        /\ Stored(x) /\ ~Awaited(x) => x \in objects \cup overtaken \cup FixedObject
        /\ x \in initialized \/ On(Op("filled", x)) =>
              \/ On(Op("query", x))
              \/ /\ observers[x] > 0
                 /\ x \in failed \/ Awaited(x) \/ (x \in objects => Stored(x))
    BY <1>1 DEF ShownInv
  <2>3. x \in Known
    BY ManagerAssumption
  <2>4. CASE x = e
    <3>1. Stored(e)' => Stored(e) \/ e \in objects \cup FixedObject
      BY <1>12, <2>4 DEF Stored
    <3>2. observers'[e] > 0
      BY <1>6, <2>4
    <3>3. e \in failed' \/ (e \in objects => Stored(e)')
      BY <1>3, <2>4 DEF Stored
    <3> QED BY <2>1, <2>2, <2>4, <3>1, <3>2, <3>3
  <2>5. CASE x # e
    <3>1. Stored(x)' <=> Stored(x)
      BY <1>12, <2>5 DEF Stored
    <3> QED BY <1>5, <1>6, <2>1, <2>2, <2>3, <2>5, <3>1
  <2> QED BY <2>4, <2>5
<1> QED BY <1>7, <1>8, <1>9, <1>10, <1>11 DEF ManagerInv

\* A set with one member at most, as a sequence.
LEMMA ReadsSeq ==
  ASSUME NEW e \in Known
  PROVE  SetToSeq(Declared(e).reads) \in Seq(Declared(e).reads)
<1> DEFINE set == Declared(e).reads
<1>1. PICK n \in Nat : Cardinality(set) = n
                       /\ \E f \in [1..n -> set] : IsInjective(f)
  <2>1. CASE set = {}
    <3>1. Cardinality(set) = 0
      BY <2>1, FS_EmptySet
    <3> DEFINE f == [i \in 1..0 |-> "Server"]
    <3>2. f \in [1..0 -> set] /\ IsInjective(f)
      BY DEF IsInjective
    <3> HIDE DEF f
    <3>3. 0 \in Nat
      BY <2>1
    <3>4. \E g \in [1..0 -> set] : IsInjective(g)
      BY <3>2
    <3> HIDE DEF set
    <3> QED BY <3>1, <3>3, <3>4
  <2>2. CASE set # {}
    <3>1. PICK k : set = {k}
      BY <2>2, Catalogue DEF LinksOK
    <3>2. Cardinality(set) = 1
      BY <3>1, FS_Singleton
    <3> DEFINE f == [i \in 1..1 |-> k]
    <3>3. f \in [1..1 -> set] /\ IsInjective(f)
      BY <3>1 DEF IsInjective
    <3> QED BY <3>1, <3>2, <3>3
  <2> QED BY <2>1, <2>2
<1>2. SetToSeq(set) \in [1..n -> set]
  BY <1>1 DEF SetToSeq
<1> QED BY <1>1, <1>2

\* The three outcomes of a query.
LEMMA QueryKeeps ==
  ASSUME ManagerInv, NEW e, QueryObjects(e) \/ QueryFails(e) \/ QueryReads(e)
  PROVE  ManagerInv'
<1>1. PartsOK
  BY DEF ManagerInv
<1>2. At("query", e) /\ e \in Known
  BY <1>1, HeadIs DEF QueryObjects, QueryFails, QueryReads
<1>3. <<>> \in Seq(OpType) /\ \A op : ~In(<<>>, op)
  BY DEF In
<1>4. /\ observers' = Registered(e)
      /\ UNCHANGED <<initialized, caching, fresh, dicts, building, built, guardFile, observing,
                     objects, changes, requests, signals, quiet, inst, overtaken>>
  BY DEF QueryObjects, QueryFails, QueryReads, staticVars, worldVars, seenVars
<1>5. failures \in 0..MaxFailures /\ MaxFailures \in Nat
  BY <1>1, ManagerAssumption DEF PartsOK, ManagerTypeOK
<1>6. CASE QueryObjects(e)
  <2>1. /\ Goes(IF e \in FixedObject \/ Exists(e) THEN <<Op("set", e)>> ELSE <<>>)
        /\ UNCHANGED <<failed, failures, failedNow>>
    BY <1>6 DEF QueryObjects, seenVars
  <2>2. e \in Movable => (Exists(e) <=> e \in objects)
    BY DEF Exists
  <2>3. CASE e \in FixedObject \/ Exists(e)
    <3> DEFINE ops == <<Op("set", e)>>
    <3>1. ops \in Seq(OpType) /\ Len(ops) = 1 /\ \A op : In(ops, op) <=> op = Op("set", e)
      <4>1. Op("set", e) \in OpType
        BY <1>2, OpTyped DEF Operations
      <4> QED BY <4>1 DEF In
    <3>2. Goes(ops)
      BY <2>1, <2>3
    <3> HIDE DEF ops
    <3>3. e \in Movable => e \in objects \cup FixedObject
      BY <2>2, <2>3
    <3> QED BY <1>2, <1>4, <1>5, <2>1, <3>1, <3>2, <3>3, QueryStep
  <2>4. CASE ~(e \in FixedObject \/ Exists(e))
    <3>1. Goes(<<>>) /\ (e \in Movable => e \notin objects)
      BY <2>1, <2>2, <2>4
    <3> QED BY <1>2, <1>3, <1>4, <1>5, <2>1, <3>1, QueryStep
  <2> QED BY <2>3, <2>4
<1>7. CASE QueryFails(e)
  <2>1. /\ Goes(<<>>)
        /\ failed' = failed \cup {e} /\ failedNow' = failedNow \cup {e}
        /\ failures < MaxFailures /\ failures' = failures + 1
    BY <1>7 DEF QueryFails
  <2>2. failures' \in 0..MaxFailures
    BY <1>5, <2>1
  <2> QED BY <1>2, <1>3, <1>4, <2>1, <2>2, QueryStep
<1>8. CASE QueryReads(e)
  <2>1. e \notin Movable
    BY <1>8, ManagerAssumption DEF QueryReads
  <2> DEFINE read == SetToSeq(Declared(e).reads)
             ask  == Each("populate", read) \o Reads(read)
             ops  == ask \o <<Op("store", e)>>
  <2>2. {"populate", "instances"} \subseteq Operations \ {"query", "set", "filled", "store", "answer"}
    BY DEF Operations
  <2>3. read \in Seq(Declared(e).reads)
    BY <1>2, ReadsSeq
  <2>8. Declared(e).reads \in SUBSET Known /\ Declared(e).reads \cap Supplements = {}
    <3>1. Declared(e).reads \subseteq Leaves \cup {"Processor"}
      BY <1>2, Catalogue DEF LinksOK
    <3>2. "Processor" \in Names
      BY KnownAre
    <3> QED BY <3>1, <3>2, NamedAre
  <2>9. e \notin Supplements
    BY <1>8, SupplementsBare DEF QueryReads
  <2>4. ask \in Seq(PlainType)
    <3>1. Each("populate", read) \in Seq(PlainType) /\ Reads(read) \in Seq(PlainType)
      BY <2>2, <2>3, <2>8, EachPlain DEF Reads
    <3> QED BY <3>1, Joined
  <2>5. Goes(ops) /\ UNCHANGED <<failed, failures, failedNow>>
    BY <1>8 DEF QueryReads, seenVars
  <2> HIDE DEF ask
  <2>6. /\ ops \in Seq(OpType) /\ Len(ops) = Len(ask) + 1
        /\ \A i \in 1..Len(ask) : ops[i] = ask[i]
        /\ ops[Len(ask) + 1] = Op("store", e)
    <3> DEFINE last == <<Op("store", e)>>
    <3>1. ask \in Seq(OpType)
      <4>1. PlainType \subseteq OpType
        BY DEF PlainType, OpType
      <4> QED BY <2>4, <4>1, Weaker
    <3>2. last \in Seq(OpType) /\ Len(last) = 1 /\ last[1] = Op("store", e)
      BY <1>2, <2>9, OpTyped DEF Operations
    <3> HIDE DEF last
    <3>3. \A s, t \in Seq(OpType) :
             /\ s \o t \in Seq(OpType) /\ Len(s \o t) = Len(s) + Len(t)
             /\ \A i \in 1..Len(s) : (s \o t)[i] = s[i]
             /\ \A i \in 1..Len(t) : (s \o t)[Len(s) + i] = t[i]
      BY Joined
    <3>4. ops = ask \o last
      BY DEF last
    <3> HIDE DEF ops
    <3>5. /\ ops \in Seq(OpType) /\ Len(ops) = Len(ask) + Len(last)
          /\ \A i \in 1..Len(ask) : ops[i] = ask[i]
          /\ \A i \in 1..Len(last) : ops[Len(ask) + i] = last[i]
      BY <3>1, <3>2, <3>3, <3>4, Zenon
    <3> QED BY <3>2, <3>5
  <2> HIDE DEF ops
  <2>7. ASSUME NEW op, In(ops, op) PROVE op \in PlainType \/ (op = Op("store", e) /\ e \notin Movable)
    <3>1. PICK i \in 1..Len(ops) : ops[i] = op
      BY <2>7 DEF In
    <3>2. i \in 1..Len(ask) \/ i = Len(ask) + 1
      BY <2>4, <2>6
    <3> QED BY <2>1, <2>4, <2>6, <3>1, <3>2
  <2> QED BY <1>2, <1>4, <1>5, <2>1, <2>5, <2>6, <2>7, QueryStep
<1> QED BY <1>6, <1>7, <1>8

-----------------------------------------------------------------------------
(* Steps between the operations *)

\* A request begins when the agenda is empty: nothing is being filled then.
LEMMA RequestKeeps ==
  ASSUME ManagerInv, NEW e \in Requested, Request(e)
  PROVE  ManagerInv'
<1>1. PartsOK /\ FillsEnd /\ HealInv /\ LastTells /\ ShownInv
  BY DEF ManagerInv
<1>2. /\ UNCHANGED <<initialized, caching, failed, fresh, inst, observers, dicts, building,
                     built, guardFile, observing, objects, changes, signals, failures,
                     overtaken>>
      /\ quiet' = TRUE /\ failedNow' = {}
      /\ agenda = <<>> /\ requests < MaxRequests /\ requests' = requests + 1
      /\ agenda' = <<Op("populate", e), Op("instances", e), Op("relations", e), Op("links", e),
                     Op("answer", e)>>
  BY DEF Request, cacheVars, staticVars
<1>3. e \in Known \ Supplements /\ MaxRequests \in Nat
  BY ManagerAssumption, NamedAre DEF Known
<1>4. \A op : ~On(op)
  BY <1>2 DEF On
<1>5. {"populate", "instances", "relations", "links", "answer"} \subseteq Operations
  BY DEF Operations
<1>6. agenda' \in Seq(OpType) /\ Len(agenda') = 5
  <2>1. \A do \in {"populate", "instances", "relations", "links", "answer"} :
           Op(do, e) \in OpType
    BY <1>3, <1>5, OpTyped
  <2> QED BY <1>2, <2>1
<1>7. /\ agenda'[1] = Op("populate", e) /\ agenda'[2] = Op("instances", e)
      /\ agenda'[3] = Op("relations", e) /\ agenda'[4] = Op("links", e)
      /\ agenda'[5] = Op("answer", e)
  BY <1>2
<1>8. /\ \A x : ~On(Op("query", x))' /\ ~On(Op("filled", x))' /\ ~On(Op("store", x))'
      /\ \A x : ~On(Op("set", x))'
      /\ \A x : On(Op("answer", x))' => x = e
  <2>1. ASSUME NEW do, NEW x, On(Op(do, x))'
        PROVE  do \in {"populate", "instances", "relations", "links", "answer"} /\ x = e
    <3> DEFINE op == Op(do, x)
    <3>1. \E i \in 1..Len(agenda') : agenda'[i] = Op(do, x)
      BY <2>1 DEF On
    <3>2. PICK i \in 1..5 : agenda'[i] = Op(do, x)
      BY <1>6, <3>1
    <3>3. i = 1 \/ i = 2 \/ i = 3 \/ i = 4 \/ i = 5
      OBVIOUS
    <3> QED BY <1>7, <3>2, <3>3, OpsDiffer
  <2> QED BY <2>1
<1>9. PartsOK'
  <2>1. \A i \in DOMAIN agenda' : agenda'[i].do \in Operations /\ agenda'[i].of \in Known
    BY <1>6, AgendaTyped
  <2>2. \A set \in {initialized, caching, failed, inst, dicts, building, built, failedNow,
                    overtaken}' :
           set \subseteq Known
    BY <1>1, <1>2 DEF PartsOK, ManagerTypeOK
  <2>3. requests' \in 0..MaxRequests
    BY <1>1, <1>2, <1>3 DEF PartsOK, ManagerTypeOK
  <2>4. ManagerTypeOK'
    BY <1>1, <1>2, <2>1, <2>2, <2>3 DEF PartsOK, ManagerTypeOK
  <2>5. SetFirst'
    <3>1. \A i \in 1..5 : i = 1 \/ i = 2 \/ i = 3 \/ i = 4 \/ i = 5
      OBVIOUS
    <3>2. \A i \in 1..5 : agenda'[i].do # "set"
      BY <1>7, <3>1 DEF Op
    <3> QED BY <1>6, <3>2 DEF SetFirst
  <2> QED BY <1>1, <1>2, <1>6, <1>8, <2>4, <2>5 DEF PartsOK
<1>10. caching = {}
  BY <1>1, <1>4 DEF FillsEnd
<1>11. FillsEnd'
  BY <1>2, <1>10 DEF FillsEnd
<1>12. HealInv'
  <2>1. agenda' # <<>> /\ Head(agenda') = Op("populate", e)
    BY <1>2
  <2> QED BY <1>2, <1>8, <1>10, <2>1 DEF HealInv, At
<1>13. LastTells'
  BY <1>1, <1>2 DEF LastTells
<1>14. ShownInv'
  <2>1. \A x : Awaited(x)' <=> Awaited(x)
    BY <1>2 DEF Awaited
  <2>2. \A x : Stored(x)' <=> Stored(x)
    BY <1>2, <1>4, <1>8 DEF Stored
  <2> QED BY <1>1, <1>2, <1>4, <1>8, <2>1, <2>2 DEF ShownInv
<1> QED BY <1>9, <1>11, <1>12, <1>13, <1>14 DEF ManagerInv

\* The lifetime of a short-time entity is over.
LEMMA ExpireKeeps ==
  ASSUME ManagerInv, NEW e \in ShortTime, Expire(e)
  PROVE  ManagerInv'
<1>1. PartsOK /\ FillsEnd /\ HealInv /\ LastTells /\ ShownInv
  BY DEF ManagerInv
<1>2. /\ UNCHANGED <<agenda, initialized, caching, failed, inst, observers, dicts, building,
                     built, guardFile, observing, objects, changes, requests, signals,
                     failures, quiet, failedNow, overtaken>>
      /\ fresh' \subseteq fresh
  BY DEF Expire, staticVars, worldVars, seenVars
<1>3. \A op : On(op)' <=> On(op)
  BY <1>2 DEF On
<1>4. PartsOK'
  <2>1. ManagerTypeOK'
    BY <1>1, <1>2 DEF PartsOK, ManagerTypeOK
  <2> QED BY <1>1, <1>2, <1>3, <2>1 DEF PartsOK, SetFirst
<1>5. FillsEnd' /\ HealInv' /\ LastTells'
  BY <1>1, <1>2, <1>3 DEF FillsEnd, HealInv, LastTells, At
<1>6. ShownInv'
  <2>1. \A x : Awaited(x)' <=> Awaited(x)
    BY <1>2 DEF Awaited
  <2> QED BY <1>1, <1>2, <1>3, <2>1 DEF ShownInv, Stored
<1> QED BY <1>4, <1>5, <1>6 DEF ManagerInv

\* An object comes or goes, and its signal is the last one.
LEMMA MoveKeeps ==
  ASSUME ManagerInv, NEW e \in Movable, Move(e)
  PROVE  ManagerInv'
<1>1. PartsOK /\ FillsEnd /\ HealInv /\ LastTells /\ ShownInv
  BY DEF ManagerInv
<1> DEFINE last == [added |-> e \notin objects, of |-> e]
<1>2. /\ UNCHANGED <<agenda, initialized, caching, failed, fresh, inst, observers, dicts,
                     building, built, guardFile, observing, requests, failures, quiet,
                     failedNow, overtaken>>
      /\ changes < MaxChanges /\ changes' = changes + 1
      /\ objects' = IF e \in objects THEN objects \ {e} ELSE objects \cup {e}
      /\ signals' = Append(signals, last)
  BY DEF Move, cacheVars, staticVars, seenVars
<1>3. last \in SignalType /\ last.of = e /\ (last.added <=> e \notin objects)
  BY DEF SignalType
<1> HIDE DEF last
<1>4. /\ signals' \in Seq(SignalType) /\ Len(signals') = Len(signals) + 1
      /\ \A n \in 1..Len(signals) : signals'[n] = signals[n]
      /\ signals'[Len(signals) + 1] = last /\ Len(signals) \in Nat
  BY <1>1, <1>2, <1>3 DEF PartsOK
<1>5. \A op : On(op)' <=> On(op)
  BY <1>2 DEF On
<1>6. PartsOK'
  <2>1. \A i \in DOMAIN signals' : signals'[i].added \in BOOLEAN /\ signals'[i].of \in Movable
    BY <1>4, SignalsTyped
  <2>2. changes' \in 0..MaxChanges
    BY <1>1, <1>2, ManagerAssumption DEF PartsOK, ManagerTypeOK
  <2>3. ManagerTypeOK'
    BY <1>1, <1>2, <2>1, <2>2 DEF PartsOK, ManagerTypeOK
  <2> QED BY <1>1, <1>2, <1>4, <1>5, <2>3 DEF PartsOK, SetFirst
<1>7. FillsEnd' /\ HealInv'
  BY <1>1, <1>2, <1>5 DEF FillsEnd, HealInv, At
<1>8. LastTells'
  <2> SUFFICES ASSUME NEW n \in 1..Len(signals'),
                      \A k \in 1..Len(signals') : k > n => signals'[k].of # signals'[n].of
               PROVE  signals'[n].added <=> signals'[n].of \in objects'
    BY DEF LastTells
  <2>1. CASE n = Len(signals) + 1
    BY <1>2, <1>3, <1>4, <2>1
  <2>2. CASE n # Len(signals) + 1
    <3>1. n \in 1..Len(signals) /\ Len(signals) + 1 \in 1..Len(signals')
          /\ Len(signals) + 1 > n
      BY <1>4, <2>2
    <3>2. signals[n].of # e
      BY <1>3, <1>4, <3>1
    <3>3. \A k \in 1..Len(signals) : k > n => signals[k].of # signals[n].of
      BY <1>4, <3>1
    <3>4. signals[n].added <=> signals[n].of \in objects
      BY <1>1, <3>1, <3>3 DEF LastTells
    <3> QED BY <1>2, <1>4, <3>1, <3>2, <3>4
  <2> QED BY <2>1, <2>2
<1>9. ShownInv'
  <2>1. ASSUME NEW x PROVE Awaited(x)' <=> Awaited(x) \/ x = e
    <3>1. Awaited(x)' <=> \E n \in 1..Len(signals') : signals'[n].of = x
      BY DEF Awaited
    <3>2. 1..Len(signals') = 1..Len(signals) \cup {Len(signals) + 1}
      BY <1>4
    <3> QED BY <1>3, <1>4, <3>1, <3>2 DEF Awaited
  <2>2. \A x : x # e => (x \in objects' <=> x \in objects)
    BY <1>2
  <2>3. \A x : Stored(x)' <=> Stored(x)
    BY <1>2, <1>5 DEF Stored
  <2> QED BY <1>1, <1>2, <1>5, <2>1, <2>2, <2>3 DEF ShownInv
<1> QED BY <1>6, <1>7, <1>8, <1>9 DEF ManagerInv

\* The handlers of an object, where they are registered, do what its signal says.
LEMMA DispatchKeeps ==
  ASSUME ManagerInv, Dispatch
  PROVE  ManagerInv'
<1>1. PartsOK /\ FillsEnd /\ HealInv /\ LastTells /\ ShownInv
  BY DEF ManagerInv
<1>0. PICK signal, e : signal = Head(signals) /\ e = signal.of
  OBVIOUS
<1>2. /\ UNCHANGED <<agenda, initialized, caching, failed, fresh, observers, dicts, building,
                     built, guardFile, observing, objects, changes, requests, failures,
                     failedNow>>
      /\ quiet' = FALSE /\ signals # <<>> /\ signals' = Tail(signals)
      /\ inst' = IF observers[e] = 0 THEN inst
                 ELSE IF signal.added THEN inst \cup {e} ELSE inst \ {e}
      /\ overtaken' = IF ~signal.added /\ At("set", e) THEN overtaken \cup {e}
                      ELSE overtaken \ {e}
  BY <1>0 DEF Dispatch, staticVars, worldVars
<1>3. /\ signals \in Seq(SignalType) /\ Len(signals) \in Nat
      /\ signal \in SignalType /\ signal = signals[1] /\ 1 \in 1..Len(signals)
  BY <1>0, <1>1, <1>2 DEF PartsOK
<1>4. /\ signals' \in Seq(SignalType) /\ Len(signals) = Len(signals') + 1
      /\ Len(signals') \in Nat
      /\ \A n \in 1..Len(signals') : signals'[n] = signals[n + 1]
  BY <1>2, <1>3
<1>5. e \in Movable /\ e \in Known /\ signal.added \in BOOLEAN
  BY <1>0, <1>3, ManagerAssumption DEF SignalType
<1>6. \A op : On(op)' <=> On(op)
  BY <1>2 DEF On
<1>7. PartsOK'
  <2>1. \A i \in DOMAIN signals' : signals'[i].added \in BOOLEAN /\ signals'[i].of \in Movable
    BY <1>4, SignalsTyped
  <2>2. \A set \in {initialized, caching, failed, inst, dicts, building, built, failedNow,
                    overtaken}' :
           set \subseteq Known
    BY <1>1, <1>2, <1>5 DEF PartsOK, ManagerTypeOK
  <2>3. ManagerTypeOK'
    BY <1>1, <1>2, <2>1, <2>2 DEF PartsOK, ManagerTypeOK
  <2> QED BY <1>1, <1>2, <1>4, <1>6, <2>3 DEF PartsOK, SetFirst
<1>8. FillsEnd' /\ HealInv'
  BY <1>1, <1>2, <1>6 DEF FillsEnd, HealInv, At
<1>9. LastTells'
  <2> SUFFICES ASSUME NEW n \in 1..Len(signals'),
                      \A k \in 1..Len(signals') : k > n => signals'[k].of # signals'[n].of
               PROVE  signals'[n].added <=> signals'[n].of \in objects'
    BY DEF LastTells
  <2>1. n + 1 \in 1..Len(signals) /\ signals'[n] = signals[n + 1]
    BY <1>4
  <2>2. ASSUME NEW k \in 1..Len(signals), k > n + 1 PROVE signals[k].of # signals[n + 1].of
    <3>1. k - 1 \in 1..Len(signals') /\ k - 1 > n /\ (k - 1) + 1 = k
      BY <1>4, <2>2
    <3>2. signals'[k - 1] = signals[k]
      BY <1>4, <3>1
    <3> QED BY <2>1, <3>1, <3>2
  <2>3. signals[n + 1].added <=> signals[n + 1].of \in objects
    BY <1>1, <2>1, <2>2 DEF LastTells
  <2> QED BY <1>2, <2>1, <2>3
<1>10. ASSUME NEW x PROVE Awaited(x) <=> Awaited(x)' \/ x = e
  <2>1. Awaited(x)' <=> \E n \in 1..Len(signals') : signals'[n].of = x
    BY DEF Awaited
  <2>2. \A n \in 1..Len(signals) : n = 1 \/ n - 1 \in 1..Len(signals')
    BY <1>4
  <2>3. \A n \in 1..Len(signals') : n + 1 \in 1..Len(signals)
    BY <1>4
  <2>4. ASSUME Awaited(x) PROVE Awaited(x)' \/ x = e
    <3>1. PICK n \in 1..Len(signals) : signals[n].of = x
      BY <2>4 DEF Awaited
    <3>2. CASE n = 1
      BY <1>0, <1>3, <3>1, <3>2
    <3>3. CASE n - 1 \in 1..Len(signals')
      <4>1. signals'[n - 1] = signals[n]
        BY <1>4, <3>3
      <4> QED BY <2>1, <3>1, <3>3, <4>1
    <3> QED BY <2>2, <3>2, <3>3
  <2>5. Awaited(x)' => Awaited(x)
    BY <1>4, <2>1, <2>3 DEF Awaited
  <2>6. Awaited(e)
    BY <1>0, <1>3 DEF Awaited
  <2> QED BY <2>4, <2>5, <2>6
<1>11. ~Awaited(e)' => (signal.added <=> e \in objects)
  <2>1. SUFFICES ASSUME ~Awaited(e)' PROVE signal.added <=> e \in objects
    OBVIOUS
  <2>2. ~ \E n \in 1..Len(signals') : signals'[n].of = e
    BY <2>1 DEF Awaited
  <2>3. ASSUME NEW k \in 1..Len(signals), k > 1 PROVE signals[k].of # e
    <3>1. k - 1 \in 1..Len(signals') /\ signals'[k - 1] = signals[(k - 1) + 1] /\ (k - 1) + 1 = k
      BY <1>4, <2>3
    <3> QED BY <2>2, <3>1
  <2> QED BY <1>0, <1>1, <1>3, <2>3 DEF LastTells
<1>12. observers \in [Known -> 0..2]
  BY <1>1 DEF PartsOK, ManagerTypeOK
<1>14. On(Op("set", e)) => At("set", e)
  <2> SUFFICES ASSUME On(Op("set", e)) PROVE At("set", e)
    OBVIOUS
  <2>1. PICK i \in 1..Len(agenda) : agenda[i] = Op("set", e)
    BY DEF On
  <2>2. agenda[i].do = "set"
    BY <2>1 DEF Op
  <2>3. i = 1 /\ agenda \in Seq(OpType)
    BY <1>1, <2>2 DEF PartsOK, SetFirst
  <2>4. agenda # <<>> /\ Head(agenda) = Op("set", e)
    BY <2>1, <2>3
  <2> QED BY <2>4 DEF At
<1>13. ShownInv'
  <2> SUFFICES ASSUME NEW x \in Movable, Declared(x).source # "lazy"
               PROVE  /\ Stored(x)' => observers[x] > 0
                      /\ Stored(x)' /\ ~Awaited(x)' => x \in objects \cup overtaken' \cup FixedObject
                      /\ x \in initialized \/ On(Op("filled", x)) =>
                            \/ On(Op("query", x))
                            \/ /\ observers[x] > 0
                               /\ x \in failed \/ Awaited(x)' \/ (x \in objects => Stored(x)')
    BY <1>2, <1>6 DEF ShownInv
  <2>1. /\ Stored(x) => observers[x] > 0
        /\ Stored(x) /\ ~Awaited(x) => x \in objects \cup overtaken \cup FixedObject
        /\ x \in initialized \/ On(Op("filled", x)) =>
              \/ On(Op("query", x))
              \/ /\ observers[x] > 0
                 /\ x \in failed \/ Awaited(x) \/ (x \in objects => Stored(x))
    BY <1>1 DEF ShownInv
  <2>2. CASE x # e
    <3>1. (Stored(x)' <=> Stored(x)) /\ (x \in overtaken' <=> x \in overtaken)
      BY <1>2, <1>6, <2>2 DEF Stored
    <3> QED BY <1>10, <2>1, <2>2, <3>1
  <2>3. CASE x = e /\ observers[e] = 0
    <3>1. ~Stored(x)
      BY <2>1, <2>3
    <3>2. ~Stored(x)'
      BY <1>2, <1>6, <2>3, <3>1 DEF Stored
    <3> QED BY <2>1, <2>3, <3>2
  <2>4. CASE x = e /\ observers[e] # 0
    <3>1. observers[e] > 0
      BY <1>5, <1>12, <2>4
    <3>2. x \in inst' <=> signal.added
      BY <1>2, <1>5, <2>4
    <3>3. signal.added => Stored(x)'
      BY <3>2 DEF Stored
    <3>4. Stored(x)' /\ ~signal.added => x \in overtaken'
      BY <1>2, <1>6, <1>14, <2>4, <3>2 DEF Stored
    <3> QED BY <1>11, <2>1, <2>4, <3>1, <3>3, <3>4
  <2> QED BY <2>2, <2>3, <2>4
<1> QED BY <1>7, <1>8, <1>9, <1>13 DEF ManagerInv

-----------------------------------------------------------------------------
(* The invariant holds *)

\* The agenda of configure: nothing is filled, asked or answered yet.
LEMMA InitPlain == ASSUME Init PROVE agenda \in Seq(PlainType)
<1>1. {"populate", "observe", "await"} \subseteq Operations \ {"query", "set", "filled", "store", "answer"}
  BY DEF Operations
<1>2. NameOrder \in Seq(Names)
  BY KnownAre DEF NameOrder
<1>3. Each("populate", NameOrder) \in Seq(PlainType)
  <2>1. Names \in SUBSET Known /\ Names \cap Supplements = {}
    BY NamedAre DEF Known
  <2> QED BY <1>1, <1>2, <2>1, EachPlain
<1>4. <<Op("observe", "Server"), Op("await", "Server")>> \in Seq(PlainType)
  <2>1. "Server" \in Known \ Supplements
    BY KnownAre DEF Known, Supplements
  <2>2. Op("observe", "Server") \in PlainType /\ Op("await", "Server") \in PlainType
    BY <1>1, <2>1, PlainOps
  <2> QED BY <2>2
<1> QED BY <1>3, <1>4, Joined DEF Init

\* The application starts with nothing filled and nothing registered.
LEMMA InvInit == Init => ManagerInv
<1> SUFFICES ASSUME Init PROVE ManagerInv
  OBVIOUS
<1>1. /\ initialized = {} /\ caching = {} /\ failed = {} /\ inst = {} /\ failedNow = {}
      /\ overtaken = {} /\ fresh \subseteq ShortTime /\ objects \subseteq Movable
      /\ observers = [e \in Known |-> 0]
      /\ dicts = {} /\ building = {} /\ built = {}
      /\ guardFile = TRUE /\ observing = FALSE /\ quiet = TRUE
      /\ signals = <<>> /\ changes = 0 /\ failures = 0 /\ requests = 0
  BY DEF Init
<1>2. agenda \in Seq(PlainType) /\ PlainType \subseteq OpType
  BY InitPlain DEF PlainType, OpType
<1>3. agenda \in Seq(OpType)
  BY <1>2, Weaker
<1>4. \A do \in {"query", "set", "filled", "store", "answer"} : \A x : ~On(Op(do, x))
  <2>1. \A i \in 1..Len(agenda) : agenda[i] \in PlainType
    BY <1>2
  <2> QED BY <2>1 DEF On, Op, PlainType
<1>5. MaxChanges \in Nat /\ MaxFailures \in Nat /\ MaxRequests \in Nat
  BY ManagerAssumption
<1>6. PartsOK
  <2>1. \A i \in DOMAIN agenda : agenda[i].do \in Operations /\ agenda[i].of \in Known
    BY <1>3, AgendaTyped
  <2>2. \A set \in {initialized, caching, failed, inst, dicts, building, built, failedNow,
                    overtaken} :
           set \subseteq Known
    BY <1>1
  <2>3. observers \in [Known -> 0..2]
    BY <1>1
  <2>4. signals \in Seq(SignalType) /\ DOMAIN signals = {}
    BY <1>1
  <2>5. {guardFile, observing, quiet} \subseteq BOOLEAN
    BY <1>1
  <2>6. changes \in 0..MaxChanges /\ failures \in 0..MaxFailures /\ requests \in 0..MaxRequests
    BY <1>1, <1>5
  <2>7. ManagerTypeOK
    BY <1>1, <2>1, <2>2, <2>3, <2>4, <2>5, <2>6 DEF ManagerTypeOK
  <2>8. SetFirst
    <3>1. \A i \in 1..Len(agenda) : agenda[i] \in PlainType
      BY <1>2
    <3> QED BY <3>1 DEF SetFirst, PlainType
  <2> QED BY <1>1, <1>3, <1>4, <2>4, <2>7, <2>8 DEF PartsOK
<1>7. FillsEnd /\ HealInv /\ LastTells
  BY <1>1, <1>4 DEF FillsEnd, HealInv, LastTells
<1>8. ShownInv
  BY <1>1, <1>4 DEF ShownInv, Stored
<1> QED BY <1>6, <1>7, <1>8 DEF ManagerInv

\* Nothing changes.
LEMMA StutterKeeps == ASSUME ManagerInv, UNCHANGED vars PROVE ManagerInv'
<1>1. UNCHANGED <<agenda, initialized, caching, failed, fresh, inst, observers, dicts, building,
                  built, guardFile, observing, objects, changes, requests, signals, failures,
                  quiet, failedNow, overtaken>>
  BY DEF vars, cacheVars, staticVars, worldVars, seenVars
<1>2. \A op : On(op)' <=> On(op)
  BY <1>1 DEF On
<1>3. \A x : Awaited(x)' <=> Awaited(x)
  BY <1>1 DEF Awaited
<1>4. PartsOK'
  <2>1. ManagerTypeOK'
    BY <1>1 DEF ManagerInv, PartsOK, ManagerTypeOK
  <2> QED BY <1>1, <1>2, <2>1 DEF ManagerInv, PartsOK, SetFirst
<1>5. FillsEnd' /\ HealInv' /\ LastTells'
  BY <1>1, <1>2 DEF ManagerInv, FillsEnd, HealInv, LastTells, At
<1>6. ShownInv'
  BY <1>1, <1>2, <1>3 DEF ManagerInv, ShownInv, Stored
<1> QED BY <1>4, <1>5, <1>6 DEF ManagerInv

\* The operations of the agenda, requests, the clock, the services and the dbus thread.
LEMMA InvNext == ManagerInv /\ [Next]_vars => ManagerInv'
<1> SUFFICES ASSUME ManagerInv, [Next]_vars PROVE ManagerInv'
  OBVIOUS
<1>1. CASE Configure
  <2>1. \/ \E e \in Current : PopulateFills(e)
        \/ \E e \in Current : Filled(e)
        \/ \E e \in Current : QueryObjects(e) \/ QueryFails(e) \/ QueryReads(e)
        \/ \E e \in Current : SetInstances(e)
        \/ \E e \in Current : Store(e)
        \/ (\E e \in Current : Reading(e)) \/ Finish
    BY <1>1 DEF Configure, Populate, Query, Read, Build, Reading
  <2> QED BY <2>1, PopulateKeeps, FilledKeeps, QueryKeeps, SetKeeps, StoreKeeps, ReadingKeeps
<1>2. CASE \E e \in Requested : Request(e)
  BY <1>2, RequestKeeps
<1>3. CASE \E e \in ShortTime : Expire(e)
  BY <1>3, ExpireKeeps
<1>4. CASE \E e \in Movable : Move(e)
  BY <1>4, MoveKeeps
<1>5. CASE Dispatch
  BY <1>5, DispatchKeeps
<1>6. CASE UNCHANGED vars
  BY <1>6, StutterKeeps
<1> QED BY <1>1, <1>2, <1>3, <1>4, <1>5, <1>6 DEF Next

\* What main thread, requests and dbus thread do to the caches keeps the invariant,
\* for any objects that come and go, failing queries, and numbers of either.
THEOREM InvHolds == Spec => []ManagerInv
<1> QED BY InvInit, InvNext, PTL DEF Spec

\* Types of the agenda, the caches, the statics and the signals.
THEOREM ManagerTypes == Spec => []ManagerTypeOK
<1>1. ManagerInv => ManagerTypeOK
  BY DEF ManagerInv, PartsOK
<1> QED BY <1>1, InvHolds, PTL

\* A request answers without a failed entity only when it asked again, and that query
\* failed as well.
THEOREM AnswersHeal == Spec => []AnswerHeals
<1>1. ManagerInv => AnswerHeals
  <2> SUFFICES ASSUME ManagerInv, NEW e \in Requested, At("answer", e), IsCached(e), e \in failed
               PROVE  e \in failedNow
    BY DEF AnswerHeals
  <2>1. PartsOK /\ HealInv
    BY DEF ManagerInv
  <2>2. On(Op("answer", e)) /\ Head(agenda) = Op("answer", e)
    BY <2>1, HeadIs
  <2>3. ~At("populate", e)
    BY <2>2, OpsDiffer DEF At
  <2> QED BY <2>1, <2>2, <2>3 DEF HealInv
<1> QED BY <1>1, InvHolds, PTL

\* When nothing runs and no signal is left, a cached entity whose query did not fail
\* shows every object the bus has, and one the bus has not only when its removal was
\* handled between the answer of the mapper and setInstances, or the query takes its
\* object as given: whatever came or went before, while or after it was filled, and
\* before or after the dbus thread started to observe.
THEOREM SettledShown == Spec => []SettledShowsObjects
<1>1. ManagerInv => SettledShowsObjects
  <2> SUFFICES ASSUME ManagerInv, signals = <<>>, agenda = <<>>,
                      NEW e \in (Movable \cap initialized) \ failed
               PROVE  /\ e \in objects => e \in inst
                      /\ e \in inst => e \in objects \cup overtaken \cup FixedObject
    BY DEF SettledShowsObjects
  <2>1. ShownInv
    BY DEF ManagerInv
  <2>2. ~Awaited(e) /\ ~On(Op("query", e)) /\ (Stored(e) <=> e \in inst)
    BY DEF Awaited, On, Stored
  <2>3. Declared(e).source # "lazy"
    BY DEF ManagerInv, PartsOK, IsCached
  <2> QED BY <2>1, <2>2, <2>3 DEF ShownInv
<1> QED BY <1>1, InvHolds, PTL

-----------------------------------------------------------------------------
(* Who calls whom *)

\* Queries that look for objects, and what stores them: all that is done while a cached
\* entity is filled.
Asking ==
    {o \in OpType :
        \/ o.do = "set"
        \/ o.do = "query" /\ Declared(o.of).reads = {} /\ o.of # "StorageControllers"}

\* What is done while relations are built: destinations are filled, and at most read what
\* depends on nothing.
Harmless ==
    {o \in OpType :
        /\ o.do \in {"populate", "query", "set", "store", "filled", "instances"}
        /\ o.do \in {"populate", "query"} => Declared(o.of).reads \subseteq Leaves
        /\ o.do = "instances" => o.of \in Leaves}

\* The last operation is on the agenda, and only such operations come before it.
Ahead(last, T) ==
    \E k \in 1..Len(agenda) :
        agenda[k] = last /\ \A i \in 1..Len(agenda) : i < k => agenda[i] \in T

\* The operation is to be done once at most.
Single(s, op) == \A i, j \in 1..Len(s) : s[i] = op /\ s[j] = op => i = j

\* What a cached entity needs to be filled is done before anything else.
FillRuns == \A e \in caching : IsCached(e) /\ Ahead(Op("filled", e), Asking)

\* The same for relations.
BuildRuns == \A e \in building : Ahead(Op("built", e), Harmless)

\* What is queried for one cached entity only.
Once == {x \in Known \ RegisteredOften : Declared(x).source # "lazy"}

\* Such a query has one fill to run in: its handlers are registered, or it is still to be
\* done, only after that fill has begun, and never both.
OnceInv ==
    /\ failures = 0 =>
        /\ failed = {}
        /\ \A x \in Once :
            /\ observers[x] < 2 /\ Single(agenda, Op("query", x))
            /\ On(Op("query", x)) => observers[x] = 0
            /\ \A p \in Known \ Supplements :
                   x \in Cleared(p) /\ (observers[x] > 0 \/ On(Op("query", x)))
                       => p \in initialized \cup caching
    /\ \A x \in Known : Declared(x).source = "lazy" => observers[x] = 0

CallInv == FillRuns /\ BuildRuns /\ OnceInv

\* The next operation is the last one or one of those before it.
LEMMA HeadAhead ==
  ASSUME PartsOK, NEW last, NEW T, Ahead(last, T)
  PROVE  agenda # <<>> /\ (Head(agenda) = last \/ Head(agenda) \in T)
<1>1. PICK k \in 1..Len(agenda) :
         agenda[k] = last /\ \A i \in 1..Len(agenda) : i < k => agenda[i] \in T
  BY DEF Ahead
<1>2. agenda \in Seq(OpType)
  BY DEF PartsOK
<1>3. Len(agenda) \in Nat /\ 1 \in 1..Len(agenda) /\ agenda # <<>> /\ Head(agenda) = agenda[1]
  BY <1>1, <1>2
<1>4. k = 1 \/ 1 < k
  BY <1>1
<1> QED BY <1>1, <1>3, <1>4

\* The next operation is replaced by others of the same kind: the last one stays ahead.
LEMMA AheadGoes ==
  ASSUME PartsOK, NEW last, NEW T, T \subseteq OpType, Ahead(last, T), Head(agenda) # last,
         NEW ops \in Seq(T), Goes(ops)
  PROVE  Ahead(last, T)'
<1>1. PICK k \in 1..Len(agenda) :
         agenda[k] = last /\ \A i \in 1..Len(agenda) : i < k => agenda[i] \in T
  BY DEF Ahead
<1> DEFINE rest == Tail(agenda)
<1>2. agenda \in Seq(OpType) /\ agenda' = ops \o rest
  BY DEF PartsOK, Goes
<1>3. /\ rest \in Seq(OpType) /\ Len(rest) = Len(agenda) - 1 /\ Len(agenda) \in Nat
      /\ \A i \in 1..Len(rest) : rest[i] = agenda[i + 1]
      /\ Head(agenda) = agenda[1] /\ Len(ops) \in Nat /\ ops \in Seq(OpType)
  BY <1>1, <1>2
<1> HIDE DEF rest
<1>4. /\ Len(agenda') = Len(ops) + Len(rest)
      /\ \A i \in 1..Len(ops) : agenda'[i] = ops[i]
      /\ \A i \in 1..Len(rest) : agenda'[Len(ops) + i] = rest[i]
  <2>1. \A q, t \in Seq(OpType) :
           /\ Len(q \o t) = Len(q) + Len(t)
           /\ \A i \in 1..Len(q) : (q \o t)[i] = q[i]
           /\ \A i \in 1..Len(t) : (q \o t)[Len(q) + i] = t[i]
    BY Joined
  <2> QED BY <1>2, <1>3, <2>1, Zenon
<1>5. k # 1 /\ k - 1 \in 1..Len(rest) /\ rest[k - 1] = last
  <2>1. k # 1
    BY <1>1, <1>3
  <2>2. k - 1 \in 1..Len(rest) /\ (k - 1) + 1 = k
    BY <1>1, <1>3, <2>1
  <2>3. rest[k - 1] = agenda[(k - 1) + 1]
    BY <1>3, <2>2
  <2> QED BY <1>1, <2>1, <2>2, <2>3
<1> DEFINE l == Len(ops) + (k - 1)
<1>6. l \in 1..Len(agenda') /\ agenda'[l] = last
  BY <1>3, <1>4, <1>5
<1>7. ASSUME NEW i \in 1..Len(agenda'), i < l PROVE agenda'[i] \in T
  <2>1. CASE i <= Len(ops)
    BY <1>3, <1>4, <2>1
  <2>2. CASE i > Len(ops)
    <3>1. /\ i - Len(ops) \in 1..Len(rest) /\ Len(ops) + (i - Len(ops)) = i
          /\ (i - Len(ops)) + 1 \in 1..Len(agenda) /\ (i - Len(ops)) + 1 < k
      BY <1>1, <1>3, <1>4, <1>5, <1>7, <2>2
    <3>2. PICK j \in 1..Len(rest) : Len(ops) + j = i /\ j + 1 \in 1..Len(agenda) /\ j + 1 < k
      BY <3>1
    <3>3. agenda'[Len(ops) + j] = rest[j] /\ rest[j] = agenda[j + 1]
      BY <1>3, <1>4
    <3> QED BY <1>1, <3>2, <3>3
  <2> QED BY <1>3, <2>1, <2>2
<1> HIDE DEF l
<1> QED BY <1>6, <1>7 DEF Ahead

\* What the replaced head leaves to be done once.
LEMMA SingleGoes ==
  ASSUME PartsOK, agenda # <<>>, NEW ops \in Seq(OpType), Goes(ops), NEW op
  PROVE  /\ Single(agenda, op) /\ ~In(ops, op) => Single(agenda', op)
         /\ Single(ops, op) /\ ~On(op) => Single(agenda', op)
         /\ Single(agenda, op) /\ ~In(ops, op) /\ Head(agenda) = op => ~On(op)'
<1> DEFINE rest == Tail(agenda)
<1>1. agenda \in Seq(OpType) /\ agenda' = ops \o rest
  BY DEF PartsOK, Goes
<1>2. /\ rest \in Seq(OpType) /\ Len(rest) = Len(agenda) - 1 /\ Len(agenda) \in Nat
      /\ Len(rest) \in Nat /\ \A i \in 1..Len(rest) : rest[i] = agenda[i + 1]
      /\ Head(agenda) = agenda[1] /\ Len(ops) \in Nat
  BY <1>1
<1> HIDE DEF rest
<1>3. /\ Len(agenda') = Len(ops) + Len(rest)
      /\ \A i \in 1..Len(ops) : agenda'[i] = ops[i]
      /\ \A i \in 1..Len(rest) : agenda'[Len(ops) + i] = rest[i]
  BY <1>1, <1>2
<1>4. ASSUME NEW i \in 1..Len(agenda'), agenda'[i] = op
      PROVE  \/ i \in 1..Len(ops) /\ ops[i] = op
             \/ \E j \in 1..Len(rest) : i = Len(ops) + j /\ j + 1 \in 1..Len(agenda)
                                         /\ agenda[j + 1] = op
  <2>1. CASE i <= Len(ops)
    BY <1>2, <1>3, <1>4, <2>1
  <2>2. CASE i > Len(ops)
    <3>1. i - Len(ops) \in 1..Len(rest) /\ Len(ops) + (i - Len(ops)) = i
      BY <1>2, <1>3, <2>2
    <3>2. PICK j \in 1..Len(rest) : Len(ops) + j = i
      BY <3>1
    <3>3. agenda'[Len(ops) + j] = rest[j] /\ rest[j] = agenda[j + 1] /\ j + 1 \in 1..Len(agenda)
      BY <1>2, <1>3
    <3> QED BY <1>4, <3>2, <3>3
  <2> QED BY <1>2, <2>1, <2>2
<1>5. ASSUME Single(agenda, op), ~In(ops, op) PROVE Single(agenda', op)
  <2> SUFFICES ASSUME NEW i \in 1..Len(agenda'), NEW k \in 1..Len(agenda'),
                      agenda'[i] = op, agenda'[k] = op
               PROVE  i = k
    BY DEF Single
  <2>1. PICK j \in 1..Len(rest) : i = Len(ops) + j /\ j + 1 \in 1..Len(agenda) /\ agenda[j + 1] = op
    BY <1>4, <1>5 DEF In
  <2>2. PICK m \in 1..Len(rest) : k = Len(ops) + m /\ m + 1 \in 1..Len(agenda) /\ agenda[m + 1] = op
    BY <1>4, <1>5 DEF In
  <2>3. j + 1 = m + 1
    BY <1>5, <2>1, <2>2 DEF Single
  <2> QED BY <1>2, <2>1, <2>2, <2>3
<1>6. ASSUME Single(ops, op), ~On(op) PROVE Single(agenda', op)
  <2> SUFFICES ASSUME NEW i \in 1..Len(agenda'), NEW k \in 1..Len(agenda'),
                      agenda'[i] = op, agenda'[k] = op
               PROVE  i = k
    BY DEF Single
  <2>1. i \in 1..Len(ops) /\ ops[i] = op
    BY <1>4, <1>6 DEF On
  <2>2. k \in 1..Len(ops) /\ ops[k] = op
    BY <1>4, <1>6 DEF On
  <2> QED BY <1>6, <2>1, <2>2 DEF Single
<1>7. ASSUME Single(agenda, op), ~In(ops, op), Head(agenda) = op, On(op)' PROVE FALSE
  <2>1. PICK i \in 1..Len(agenda') : agenda'[i] = op
    BY <1>7 DEF On
  <2>2. PICK j \in 1..Len(rest) : j + 1 \in 1..Len(agenda) /\ agenda[j + 1] = op
    BY <1>4, <1>7, <2>1 DEF In
  <2>3. 1 \in 1..Len(agenda) /\ agenda[1] = op
    BY <1>2, <1>7, <2>2
  <2>4. j + 1 = 1
    BY <1>7, <2>2, <2>3 DEF Single
  <2> QED BY <1>2, <2>4
<1> QED BY <1>5, <1>6, <1>7

\* Nothing cached is being filled when anything else is done, ...
LEMMA FillsRest ==
  ASSUME PartsOK, FillRuns, agenda = <<>> \/ Head(agenda).do \notin {"query", "set", "filled"}
  PROVE  caching = {}
<1> SUFFICES ASSUME NEW e \in caching PROVE FALSE
  OBVIOUS
<1>1. agenda # <<>> /\ (Head(agenda) = Op("filled", e) \/ Head(agenda) \in Asking)
  BY HeadAhead DEF FillRuns
<1> QED BY <1>1 DEF Asking, Op

\* ... and no relations are being built when anything is read for a reader.
LEMMA BuildsRest ==
  ASSUME PartsOK, BuildRuns,
         \/ agenda = <<>>
         \/ Head(agenda).do \notin {"populate", "query", "set", "store", "filled", "instances",
                                    "built"}
  PROVE  building = {}
<1> SUFFICES ASSUME NEW e \in building PROVE FALSE
  OBVIOUS
<1>1. agenda # <<>> /\ (Head(agenda) = Op("built", e) \/ Head(agenda) \in Harmless)
  BY HeadAhead DEF BuildRuns
<1> QED BY <1>1 DEF Harmless, Op

\* The providers that a fill asks.
LEMMA ProviderNames ==
  ASSUME NEW p \in Known
  PROVE  /\ \A i \in 1..Len(ProvidersOf(p)) :
               ProvidersOf(p)[i] \in Supplements \cup {"FirmwareProvider"}
         /\ \A x \in ToSet(ProvidersOf(p)) :
               \E i \in 1..Len(ProvidersOf(p)) : ProvidersOf(p)[i] = x
<1>1. ProvidersOf(p) \in Seq(Known) /\ DOMAIN ProvidersOf(p) = DOMAIN Declared(p).providers
  BY Dependencies DEF ProvidersOf
<1>2. DOMAIN ProvidersOf(p) = 1..Len(ProvidersOf(p))
  BY <1>1
<1>3. \A i \in DOMAIN Declared(p).providers :
         ProvidersOf(p)[i] \in Supplements \cup {"FirmwareProvider"}
  BY Catalogue DEF LinksOK, ProvidersOf
<1> QED BY <1>1, <1>2, <1>3 DEF ToSet

\* A query that is done once belongs to the fill of one cached entity.
LEMMA OneFill ==
  ASSUME NEW x \in Once, NEW p \in Known \ Supplements, x \in Cleared(p)
  PROVE  /\ IsCached(p)
         /\ \A q \in Known \ Supplements : x \in Cleared(q) => q = p
<1>7. "FirmwareProvider" \in RegisteredOften
  BY DEF RegisteredOften
<1>1. x # "FirmwareProvider" /\ x \in Known /\ Declared(x).source # "lazy" /\ x \notin RegisteredOften
  BY <1>7 DEF Once
<1>2. ASSUME NEW q \in Known \ Supplements, x \in Cleared(q)
      PROVE  (x = q /\ x \notin Supplements) \/ (x \in Supplements /\ Owner(x) = q)
  <2>1. CASE x = q
    BY <1>2, <2>1
  <2>2. CASE x \in ToSet(ProvidersOf(q))
    <3>1. PICK i \in 1..Len(ProvidersOf(q)) : ProvidersOf(q)[i] = x
      BY <2>2, ProviderNames
    <3>2. x \in Supplements
      BY <1>1, <3>1, ProviderNames
    <3>3. i \in DOMAIN ProvidersOf(q)
      BY <3>1, Dependencies
    <3> QED BY <1>1, <3>1, <3>2, <3>3, OneOwner
  <2> QED BY <1>2, <2>1, <2>2 DEF Cleared
<1>3. \A q \in Known \ Supplements : x \in Cleared(q) => q = p
  BY <1>2
<1>4. Declared(p).source \in Sources
  BY Catalogue DEF LinksOK
<1>5. CASE Declared(p).source = "lazy"
  <2>1. DOMAIN Declared(p).providers = {}
    BY <1>5, Catalogue DEF LinksOK
  <2>2. ToSet(ProvidersOf(p)) = {}
    BY <2>1 DEF ProvidersOf, ToSet
  <2> QED BY <1>1, <1>5, <2>2 DEF Cleared
<1>6. CASE Declared(p).source = "shortTime"
  <2>1. p \in ShortTime
    BY <1>6 DEF ShortTime
  <2>2. Cleared(p) \subseteq RegisteredOften
    BY <2>1 DEF Cleared, RegisteredOften
  <2> QED BY <1>1, <2>2
<1> QED BY <1>3, <1>4, <1>5, <1>6 DEF Sources, IsCached

\* The operations of a fill.
FillOf(e) == Each("query", ProvidersOf(e)) \o <<Op("query", e), Op("filled", e)>>

\* Each query of a fill is done once, if it is no query of others as well.
LEMMA FillOnce ==
  ASSUME NEW e \in Known \ Supplements, NEW x \in Once
  PROVE  /\ Single(FillOf(e), Op("query", x))
         /\ In(FillOf(e), Op("query", x)) => x \in Cleared(e)
<1> DEFINE es  == ProvidersOf(e)
           ops == FillOf(e)
           op  == Op("query", x)
<1>1. es \in Seq(Known) /\ Len(es) \in Nat /\ DOMAIN es = 1..Len(es)
  BY Dependencies
<1>2. /\ Len(ops) = Len(es) + 2
      /\ \A i \in 1..Len(es) : ops[i] = Op("query", es[i])
      /\ ops[Len(es) + 1] = Op("query", e) /\ ops[Len(es) + 2] = Op("filled", e)
  BY FillOps DEF FillOf
<1>10. "FirmwareProvider" \in RegisteredOften
  BY DEF RegisteredOften
<1>3. x # "FirmwareProvider"
  BY <1>10 DEF Once
<1>4. \A i \in 1..Len(es) : es[i] \in Supplements \cup {"FirmwareProvider"}
  BY ProviderNames
<1>5. \A i, j \in 1..Len(es) : es[i] = es[j] => i = j
  BY <1>1, OneOwner
<1>8. \A i \in 1..Len(es) : es[i] \in ToSet(es)
  BY <1>1 DEF ToSet
<1> HIDE DEF es, ops
<1>6. ASSUME NEW i \in 1..Len(ops), ops[i] = op
      PROVE  (i \in 1..Len(es) /\ es[i] = x) \/ (i = Len(es) + 1 /\ x = e)
  <2>1. i \in 1..Len(es) \/ i = Len(es) + 1 \/ i = Len(es) + 2
    BY <1>1, <1>2
  <2> QED BY <1>2, <1>6, <2>1, OpsDiffer
<1>7. Single(ops, op)
  <2> SUFFICES ASSUME NEW i \in 1..Len(ops), NEW j \in 1..Len(ops), ops[i] = op, ops[j] = op
               PROVE  i = j
    BY DEF Single
  <2>1. (i \in 1..Len(es) /\ es[i] = x) \/ (i = Len(es) + 1 /\ x = e)
    BY <1>6
  <2>2. (j \in 1..Len(es) /\ es[j] = x) \/ (j = Len(es) + 1 /\ x = e)
    BY <1>6
  <2>3. \A k \in 1..Len(es) : es[k] = x => x # e
    BY <1>3, <1>4
  <2> QED BY <1>5, <2>1, <2>2, <2>3
<1>9. ASSUME In(ops, op) PROVE x \in Cleared(e)
  <2>1. PICK i \in 1..Len(ops) : ops[i] = op
    BY <1>9 DEF In
  <2> QED BY <1>6, <1>8, <2>1 DEF Cleared, es
<1> QED BY <1>7, <1>9 DEF ops

\* While nothing is queried and no cache changes, what is done once stays so.
LEMMA OnceKept ==
  ASSUME OnceInv, observers' = observers, failures' = failures, failed' \subseteq failed,
         failures = 0 => initialized \cup caching \subseteq initialized' \cup caching',
         \A x : On(Op("query", x))' => On(Op("query", x)),
         \A x : Single(agenda, Op("query", x)) => Single(agenda', Op("query", x))
  PROVE  OnceInv'
BY DEF OnceInv

\* The same when the head is done with.
LEMMA DoneOnce ==
  ASSUME PartsOK, agenda # <<>>, Goes(<<>>)
  PROVE  /\ \A op : On(op)' => On(op)
         /\ \A op : Single(agenda, op) => Single(agenda', op)
         /\ \A op : Single(agenda, op) /\ Head(agenda) = op => ~On(op)'
<1>1. <<>> \in Seq(OpType) /\ \A op : ~In(<<>>, op)
  BY DEF In
<1> QED BY <1>1, AgendaGoes, SingleGoes

\* ... and what is ahead of a fill or of relations stays ahead.
LEMMA DoneAhead ==
  ASSUME PartsOK, agenda # <<>>, Goes(<<>>), NEW last, NEW T, T \subseteq OpType, Ahead(last, T),
         Head(agenda) # last
  PROVE  Ahead(last, T)'
<1>1. <<>> \in Seq(T)
  OBVIOUS
<1> QED BY <1>1, AheadGoes

\* Plain operations query nothing.
LEMMA PlainOnce ==
  ASSUME PartsOK, agenda # <<>>, NEW ops \in Seq(PlainType), Goes(ops)
  PROVE  /\ \A x : On(Op("query", x))' => On(Op("query", x))
         /\ \A x : Single(agenda, Op("query", x)) => Single(agenda', Op("query", x))
<1>1. PlainType \subseteq OpType
  BY DEF PlainType, OpType
<1>2. ops \in Seq(OpType) /\ \A i \in 1..Len(ops) : ops[i] \in PlainType
  BY <1>1
<1>3. \A x : ~In(ops, Op("query", x))
  BY <1>2 DEF In, PlainType, Op
<1> QED BY <1>2, <1>3, PlainGoes, SingleGoes

-----------------------------------------------------------------------------
(* Steps and calls *)

\* Reading what depends on nothing calls nothing.
LEMMA ReadLeaf ==
  ASSUME NEW e \in Leaves
  PROVE  ReadInstance(e) \in Seq(Harmless)
<1>1. e \in Known /\ Declared(e).providers = <<>> /\ Declared(e).defaults = {}
  BY LeavesBare, NamedAre
<1>2. ProvidersOf(e) \in Seq({})
  <2>1. ProvidersOf(e) \in [1..0 -> {}]
    BY <1>1 DEF ProvidersOf
  <2> QED BY <2>1
<1>3. Reads(ProvidersOf(e)) \in Seq([do : {"instances"}, of : {}])
  BY <1>2, EachOf DEF Reads, Operations
<1>4. [do : {"instances"}, of : {}] \subseteq Harmless
  OBVIOUS
<1>5. Reads(ProvidersOf(e)) \in Seq(Harmless)
  BY <1>3, <1>4, Weaker
<1>6. ReadInstance(e) = <<>> \o Reads(ProvidersOf(e))
  BY <1>1 DEF ReadInstance
<1>7. <<>> \in Seq(Harmless)
  OBVIOUS
<1> QED BY <1>5, <1>6, <1>7, Joined

\* What has relations, and their destinations, may be populated while they are built.
LEMMA BuildHarmless ==
  ASSUME NEW e \in Known \ Supplements, Destinations(e) # <<>>
  PROVE  /\ Op("populate", e) \in Harmless
         /\ \A d \in Targets : Op("populate", d) \in Harmless
<1>1. {"populate"} \subseteq Operations
  BY DEF Operations
<1>2. ASSUME NEW x \in Known \ Supplements, Declared(x).reads \subseteq Leaves
      PROVE  Op("populate", x) \in Harmless
  <2>1. Op("populate", x) \in OpType
    BY <1>1, <1>2, OpTyped
  <2> QED BY <1>2, <2>1 DEF Harmless, Op
<1>3. Declared(e).reads \subseteq Leaves
  <2>1. DOMAIN Declared(e).relations # {}
    <3>1. Destinations(e) \in Seq(Targets) /\ DOMAIN Destinations(e) = DOMAIN Declared(e).relations
      BY Dependencies DEF Destinations
    <3> DEFINE dests == Destinations(e)
    <3>2. dests \in Seq(Targets) /\ dests # <<>>
      BY <3>1
    <3> HIDE DEF dests
    <3>3. 1 \in DOMAIN dests
      BY <3>2
    <3> QED BY <3>1, <3>3 DEF dests
  <2> QED BY <2>1, Catalogue DEF LinksOK
<1>4. \A d \in Targets : d \in Known \ Supplements /\ Declared(d).reads \subseteq Leaves
  BY NamedAre, TargetsRead
<1> QED BY <1>2, <1>3, <1>4

\* The building of relations populates the entity and the destinations first.
LEMMA RelationsAhead ==
  ASSUME PartsOK, NEW e, BuildRelations(e)
  PROVE  Ahead(Op("built", e), Harmless)'
<1> DEFINE dests == Destinations(e)
           asked == [i \in 1..2 * Len(dests) |->
                       Op("populate", IF i % 2 = 1 THEN e ELSE dests[i \div 2])]
           last  == <<Op("built", e)>>
           rest  == Tail(agenda)
<1>1. At("relations", e) /\ Goes(asked \o last) /\ dests # <<>>
  BY DEF BuildRelations
<1>2. e \in Known \ Supplements /\ agenda # <<>>
  BY <1>1, HeadIs
<1>3. dests \in Seq(Targets) /\ Len(dests) \in Nat
  BY <1>2, Dependencies
<1>4. /\ Op("populate", e) \in Harmless
      /\ \A d \in Targets : Op("populate", d) \in Harmless
  BY <1>1, <1>2, BuildHarmless
<1>5. ASSUME NEW i \in 1..2 * Len(dests)
      PROVE  Op("populate", IF i % 2 = 1 THEN e ELSE dests[i \div 2]) \in Harmless
  <2>1. i % 2 # 1 => i \div 2 \in 1..Len(dests)
    BY <1>3, <1>5
  <2>2. i % 2 # 1 => dests[i \div 2] \in Targets
    BY <1>3, <2>1
  <2> QED BY <1>4, <2>2
<1>6. asked \in [1..2 * Len(dests) -> Harmless]
  BY <1>5
<1>7. asked \in Seq(Harmless) /\ Len(asked) \in Nat
  BY <1>3, <1>6
<1>8. Harmless \subseteq OpType
  BY DEF Harmless
<1>9. last \in Seq(OpType) /\ Len(last) = 1 /\ last[1] = Op("built", e)
  BY <1>2, OpTyped DEF Operations
<1>10. rest \in Seq(OpType)
  BY <1>2 DEF PartsOK
<1>11. agenda' = (asked \o last) \o rest
  BY <1>1 DEF Goes
<1> HIDE DEF asked, last, rest, dests
<1>12. asked \in Seq(OpType)
  BY <1>7, <1>8, Weaker
<1>13. \A q, t \in Seq(OpType) :
          /\ q \o t \in Seq(OpType) /\ Len(q \o t) = Len(q) + Len(t)
          /\ \A i \in 1..Len(q) : (q \o t)[i] = q[i]
          /\ \A i \in 1..Len(t) : (q \o t)[Len(q) + i] = t[i]
  BY Joined
<1> DEFINE ops == asked \o last
<1>14. /\ ops \in Seq(OpType) /\ Len(ops) = Len(asked) + Len(last)
       /\ \A i \in 1..Len(asked) : ops[i] = asked[i]
       /\ \A i \in 1..Len(last) : ops[Len(asked) + i] = last[i]
  BY <1>9, <1>12, <1>13, Zenon
<1>15. agenda' = ops \o rest
  BY <1>11
<1> HIDE DEF ops
<1>16. /\ agenda' \in Seq(OpType) /\ Len(agenda') = Len(ops) + Len(rest)
       /\ \A i \in 1..Len(ops) : agenda'[i] = ops[i]
  BY <1>10, <1>13, <1>14, <1>15, Zenon
<1> DEFINE k == Len(asked) + 1
<1>17. /\ Len(rest) \in Nat /\ k \in 1..Len(ops) /\ k \in 1..Len(agenda')
       /\ 1..Len(asked) \subseteq 1..Len(ops)
  BY <1>7, <1>9, <1>10, <1>14, <1>16
<1>18. agenda'[k] = Op("built", e)
  <2>1. 1 \in 1..Len(last) /\ ops[k] = last[1]
    BY <1>9, <1>14
  <2> QED BY <1>9, <1>16, <1>17, <2>1
<1>19. ASSUME NEW i \in 1..Len(agenda'), i < k PROVE agenda'[i] \in Harmless
  <2>1. i \in 1..Len(asked)
    BY <1>7, <1>16, <1>17, <1>19
  <2>2. agenda'[i] = asked[i]
    BY <1>14, <1>16, <1>17, <2>1
  <2>3. asked[i] \in Harmless
    BY <1>7, <2>1
  <2> QED BY <2>2, <2>3
<1> HIDE DEF k
<1> QED BY <1>17, <1>18, <1>19 DEF Ahead

\* What is read while relations are built depends on nothing.
LEMMA ReadingBuilds ==
  ASSUME PartsOK, BuildRuns, NEW e, Reading(e)
  PROVE  BuildRuns'
<1>1. agenda # <<>> /\ e \in Known
  BY ReadingGoes
<1>2. CASE BuildRelations(e)
  <2>1. At("relations", e) /\ building' = building \cup {e}
    BY <1>2 DEF BuildRelations
  <2>2. Head(agenda).do = "relations"
    BY <2>1, HeadDoes
  <2>3. building = {}
    BY <2>2, BuildsRest
  <2>4. Ahead(Op("built", e), Harmless)'
    BY <1>2, RelationsAhead
  <2>5. \A x \in building' : x = e
    BY <2>1, <2>3
  <2> QED BY <2>4, <2>5 DEF BuildRuns
<1>3. CASE RelationsBuilt(e)
  <2>1. At("built", e) /\ building' = building \ {e}
    BY <1>3 DEF RelationsBuilt
  <2>2. Head(agenda) = Op("built", e)
    BY <2>1, HeadIs
  <2>3. ASSUME NEW x \in building, x # e PROVE FALSE
    <3>1. Head(agenda) = Op("built", x) \/ Head(agenda) \in Harmless
      BY <2>3, HeadAhead DEF BuildRuns
    <3> QED BY <2>2, <2>3, <3>1, OpsDiffer DEF Harmless, Op
  <2> QED BY <2>1, <2>3 DEF BuildRuns
<1>4. ASSUME PopulateSkips(e) \/ GetInstances(e) PROVE BuildRuns'
  <2>1. building' = building
    BY <1>4 DEF PopulateSkips, GetInstances, staticVars
  <2> SUFFICES ASSUME NEW x \in building PROVE Ahead(Op("built", x), Harmless)'
    BY <2>1 DEF BuildRuns
  <2>2. Ahead(Op("built", x), Harmless)
    BY DEF BuildRuns
  <2>3. Head(agenda) = Op("populate", e) \/ Head(agenda) = Op("instances", e)
    BY <1>4, HeadIs DEF PopulateSkips, GetInstances
  <2>4. Head(agenda) # Op("built", x) /\ Harmless \subseteq OpType
    BY <2>3, OpsDiffer DEF Harmless
  <2>5. Head(agenda) \in Harmless
    BY <2>2, <2>4, HeadAhead
  <2>6. \E ops \in Seq(Harmless) : Goes(ops)
    <3>1. <<>> \in Seq(Harmless)
      OBVIOUS
    <3>2. CASE PopulateSkips(e)
      BY <3>1, <3>2 DEF PopulateSkips
    <3>3. CASE GetInstances(e)
      <4>1. Head(agenda) = Op("instances", e)
        BY <3>3, HeadIs DEF GetInstances
      <4>2. e \in Leaves
        BY <2>5, <4>1 DEF Harmless, Op
      <4>3. ReadInstance(e) \in Seq(Harmless)
        BY <4>2, ReadLeaf
      <4> QED BY <3>1, <3>3, <4>3 DEF GetInstances
    <3> QED BY <1>4, <3>2, <3>3
  <2> QED BY <2>2, <2>4, <2>6, AheadGoes
<1>5. ASSUME \/ InitDefaultFieldsValue(e) \/ RelationsKnown(e) \/ Rollup_(e) \/ RollupDestination(e)
             \/ FollowLinks(e) \/ GetRelatedInstances(e) \/ Answer(e)
      PROVE  BuildRuns'
  <2>1. building' = building
    BY <1>5 DEF InitDefaultFieldsValue, RelationsKnown, Rollup_, RollupDestination, FollowLinks,
       GetRelatedInstances, Answer, staticVars
  <2>2. PICK do \in {"defaults", "relations", "rollup", "status", "links", "related", "answer"} :
           At(do, e)
    BY <1>5 DEF InitDefaultFieldsValue, RelationsKnown, Rollup_, RollupDestination, FollowLinks,
       GetRelatedInstances, Answer
  <2>3. Head(agenda).do = do
    BY <2>2, HeadDoes
  <2>4. building = {}
    BY <2>2, <2>3, BuildsRest
  <2> QED BY <2>1, <2>4 DEF BuildRuns
<1> QED BY <1>2, <1>3, <1>4, <1>5 DEF Reading

\* Steps that read, and those of finishInitialization.
LEMMA ReadingCalls ==
  ASSUME ManagerInv, CallInv, (\E e \in Current : Reading(e)) \/ Finish
  PROVE  CallInv'
<1>1. PartsOK /\ FillRuns /\ BuildRuns /\ OnceInv
  BY DEF ManagerInv, CallInv
<1>2. /\ agenda # <<>>
      /\ \E ops \in Seq(PlainType) : Goes(ops)
      /\ Head(agenda).do \notin {"query", "set", "filled", "store"}
  BY <1>1, ReadingGoes, FinishGoes
<1>3. UNCHANGED <<initialized, caching, failed, observers, failures>>
  BY DEF Reading, PopulateSkips, GetInstances, InitDefaultFieldsValue, RelationsKnown,
     BuildRelations, RelationsBuilt, Rollup_, RollupDestination, FollowLinks,
     GetRelatedInstances, Answer, Finish, Observe, removeInitGuardFile, Await, Decide, cacheVars
<1>4. FillRuns'
  <2>1. caching = {}
    BY <1>1, <1>2, FillsRest
  <2> QED BY <1>3, <2>1 DEF FillRuns
<1>5. BuildRuns'
  <2>1. CASE Finish
    <3>1. building' = building
      BY <2>1 DEF Finish, Observe, removeInitGuardFile, Await, Decide, staticVars
    <3>2. PICK do \in {"observe", "await", "decide", "remove"} : \E e : At(do, e)
      BY <2>1 DEF Finish, Observe, removeInitGuardFile, Await, Decide
    <3>3. Head(agenda).do = do
      BY <1>1, <3>2, HeadDoes
    <3>4. building = {}
      BY <1>1, <3>2, <3>3, BuildsRest
    <3> QED BY <3>1, <3>4 DEF BuildRuns
  <2> QED BY <1>1, <2>1, ReadingBuilds
<1>6. OnceInv'
  BY <1>1, <1>2, <1>3, PlainOnce, OnceKept
<1> QED BY <1>4, <1>5, <1>6 DEF CallInv

\* What a fill asks its providers looks for objects, and so does what it asks for a
\* cached entity.
LEMMA FillAsks ==
  ASSUME NEW e \in Known \ Supplements
  PROVE  /\ \A i \in 1..Len(ProvidersOf(e)) : Op("query", ProvidersOf(e)[i]) \in Asking
         /\ IsCached(e) => Op("query", e) \in Asking
<1>1. \A x \in Known : Op("query", x) \in OpType
  BY OpTyped DEF Operations
<1>2. ASSUME NEW i \in 1..Len(ProvidersOf(e)) PROVE Op("query", ProvidersOf(e)[i]) \in Asking
  <2> DEFINE x == ProvidersOf(e)[i]
  <2>1. x \in Supplements \cup {"FirmwareProvider"}
    BY ProviderNames
  <2>2. "FirmwareProvider" \in Leaves /\ "FirmwareProvider" # "StorageControllers"
    BY DEF Leaves
  <2>3. x \in Known /\ Declared(x).reads = {} /\ x # "StorageControllers"
    BY <2>1, <2>2, NamedAre, SupplementsBare, LeavesBare
  <2> QED BY <1>1, <2>3 DEF Asking, Op
<1>3. ASSUME IsCached(e) PROVE Op("query", e) \in Asking
  <2>1. Declared(e).reads = {}
    BY <1>3, Catalogue DEF LinksOK, IsCached
  <2>2. e # "StorageControllers"
    <3>1. Declared("StorageControllers") = StorageControllers
      BY KnownAre, DeclaredBy DEF Class
    <3>2. StorageControllers.source # "cached"
      BY DEF StorageControllers, Entity
    <3> QED BY <1>3, <3>1, <3>2 DEF IsCached
  <2> QED BY <1>1, <2>1, <2>2 DEF Asking, Op
<1> QED BY <1>2, <1>3

\* The first operations of the agenda are those put there.
LEMMA GoesFirst ==
  ASSUME PartsOK, agenda # <<>>, NEW ops \in Seq(OpType), Goes(ops)
  PROVE  /\ Len(ops) <= Len(agenda') /\ Len(agenda') \in Nat
         /\ \A i \in 1..Len(ops) : agenda'[i] = ops[i]
<1> DEFINE rest == Tail(agenda)
<1>1. rest \in Seq(OpType) /\ agenda' = ops \o rest
  BY DEF PartsOK, Goes
<1> HIDE DEF rest
<1> QED BY <1>1

\* The start of a fill.
LEMMA PopulateCalls ==
  ASSUME ManagerInv, CallInv, NEW e, PopulateFills(e)
  PROVE  CallInv'
<1>1. PartsOK /\ FillRuns /\ BuildRuns /\ OnceInv
  BY DEF ManagerInv, CallInv
<1> DEFINE ops == FillOf(e)
           es  == ProvidersOf(e)
<1>2. /\ Fills(e) /\ At("populate", e) /\ Goes(ops)
      /\ caching' = IF IsCached(e) THEN caching \cup {e} ELSE caching
      /\ failed' = failed \ {e}
      /\ UNCHANGED <<initialized, observers, building, failures>>
  BY DEF PopulateFills, FillOf, staticVars
<1>3. e \in Known \ Supplements /\ agenda # <<>> /\ Head(agenda) = Op("populate", e)
  BY <1>1, <1>2, HeadIs
<1>4. caching = {}
  BY <1>1, <1>2, HeadDoes, FillsRest
<1>5. /\ ops \in Seq(OpType) /\ Len(ops) = Len(es) + 2 /\ Len(es) \in Nat
      /\ \A i \in 1..Len(es) : ops[i] = Op("query", es[i])
      /\ ops[Len(es) + 1] = Op("query", e) /\ ops[Len(es) + 2] = Op("filled", e)
      /\ \A x \in Cleared(e) : In(ops, Op("query", x))
  <2>1. es \in Seq(Known)
    BY <1>3, Dependencies
  <2>2. Len(es) \in Nat
    BY <2>1
  <2> QED BY <1>3, <2>2, FillOps DEF FillOf
<1>6. /\ \A i \in 1..Len(es) : Op("query", es[i]) \in Asking
      /\ IsCached(e) => Op("query", e) \in Asking
  BY <1>3, FillAsks
<1>7. \A x \in Once :
         Single(ops, Op("query", x)) /\ (In(ops, Op("query", x)) => x \in Cleared(e))
  BY <1>3, FillOnce
<1> HIDE DEF ops, es
<1>8. FillRuns'
  <2> SUFFICES ASSUME NEW x \in caching' PROVE IsCached(x) /\ Ahead(Op("filled", x), Asking)'
    BY DEF FillRuns
  <2>1. x = e /\ IsCached(e)
    BY <1>2, <1>4
  <2>2. Len(ops) <= Len(agenda') /\ Len(agenda') \in Nat /\ \A i \in 1..Len(ops) : agenda'[i] = ops[i]
    BY <1>1, <1>2, <1>3, <1>5, GoesFirst
  <2>3. Len(es) + 2 \in 1..Len(ops) /\ Len(es) + 2 \in 1..Len(agenda')
    BY <1>5, <2>2
  <2>4. agenda'[Len(es) + 2] = Op("filled", e)
    BY <1>5, <2>2, <2>3
  <2>5. ASSUME NEW i \in 1..Len(agenda'), i < Len(es) + 2 PROVE agenda'[i] \in Asking
    <3>1. i \in 1..Len(es) \/ i = Len(es) + 1
      BY <1>5, <2>2, <2>5
    <3>2. i \in 1..Len(ops) /\ agenda'[i] = ops[i]
      BY <1>5, <2>2, <3>1
    <3> QED BY <1>5, <1>6, <2>1, <3>1, <3>2
  <2> QED BY <2>1, <2>3, <2>4, <2>5 DEF Ahead
<1>9. BuildRuns'
  <2> SUFFICES ASSUME NEW x \in building PROVE Ahead(Op("built", x), Harmless)'
    BY <1>2 DEF BuildRuns
  <2>1. Ahead(Op("built", x), Harmless) /\ Head(agenda) # Op("built", x)
    BY <1>1, <1>3, OpsDiffer DEF BuildRuns
  <2>2. Op("populate", e) \in Harmless
    BY <1>1, <1>3, <2>1, HeadAhead
  <2>3. Declared(e).reads \subseteq Leaves
    BY <2>2 DEF Harmless, Op
  <2>4. Asking \subseteq Harmless /\ Harmless \subseteq OpType
    BY DEF Asking, Harmless
  <2>5. Op("query", e) \in Harmless /\ Op("filled", e) \in Harmless
    <3>1. Op("query", e) \in OpType /\ Op("filled", e) \in OpType
      BY <1>3, OpTyped DEF Operations
    <3> QED BY <2>3, <3>1 DEF Harmless, Op
  <2>6. ASSUME NEW i \in 1..Len(ops) PROVE ops[i] \in Harmless
    <3>1. i \in 1..Len(es) \/ i = Len(es) + 1 \/ i = Len(es) + 2
      BY <1>5, <2>6
    <3> QED BY <1>5, <1>6, <2>4, <2>5, <3>1
  <2>7. ops \in Seq(Harmless)
    <3>1. DOMAIN ops = 1..Len(ops) /\ Len(ops) \in Nat /\ ops = [i \in 1..Len(ops) |-> ops[i]]
      BY <1>5
    <3>2. ops \in [1..Len(ops) -> Harmless]
      BY <2>6, <3>1
    <3> QED BY <3>1, <3>2
  <2> QED BY <1>1, <1>2, <2>1, <2>4, <2>7, AheadGoes
<1>10. OnceInv'
  <2>1. /\ \A op : In(ops, op) => On(op)'
        /\ \A op : On(op)' => In(ops, op) \/ On(op)
    BY <1>1, <1>2, <1>3, <1>5, AgendaGoes
  <2>2. \A op : /\ Single(agenda, op) /\ ~In(ops, op) => Single(agenda', op)
                /\ Single(ops, op) /\ ~On(op) => Single(agenda', op)
    BY <1>1, <1>2, <1>3, <1>5, SingleGoes
  <2>3. \A x \in Known : Declared(x).source = "lazy" => observers'[x] = 0
    BY <1>1, <1>2 DEF OnceInv
  <2> SUFFICES ASSUME failures = 0
               PROVE  /\ failed' = {}
                      /\ \A x \in Once :
                          /\ observers[x] < 2 /\ Single(agenda', Op("query", x))
                          /\ On(Op("query", x))' => observers[x] = 0
                          /\ \A p \in Known \ Supplements :
                                 x \in Cleared(p) /\ (observers[x] > 0 \/ On(Op("query", x))')
                                     => p \in initialized \cup caching'
    BY <1>2, <2>3 DEF OnceInv
  <2>4. failed = {} /\ failed' = {}
    BY <1>1, <1>2 DEF OnceInv
  <2> SUFFICES ASSUME NEW x \in Once
               PROVE  /\ observers[x] < 2 /\ Single(agenda', Op("query", x))
                      /\ On(Op("query", x))' => observers[x] = 0
                      /\ \A p \in Known \ Supplements :
                             x \in Cleared(p) /\ (observers[x] > 0 \/ On(Op("query", x))')
                                 => p \in initialized \cup caching'
    BY <2>4
  <2> DEFINE op == Op("query", x)
  <2>5. /\ observers[x] < 2 /\ Single(agenda, op) /\ (On(op) => observers[x] = 0)
        /\ \A p \in Known \ Supplements :
               x \in Cleared(p) /\ (observers[x] > 0 \/ On(op)) => p \in initialized \cup caching
    BY <1>1 DEF OnceInv
  <2>6. In(ops, op) => x \in Cleared(e)
    BY <1>7
  <2>7. Single(ops, op)
    BY <1>7
  <2> HIDE DEF op
  <2>8. CASE x \notin Cleared(e)
    BY <1>2, <1>4, <2>1, <2>2, <2>5, <2>6, <2>8 DEF op
  <2>9. CASE x \in Cleared(e)
    <3>1. IsCached(e) /\ \A p \in Known \ Supplements : x \in Cleared(p) => p = e
      BY <1>3, <2>9, OneFill
    <3>8. e \notin ShortTime
      BY <3>1 DEF IsCached, ShortTime
    <3>2. Fills(e) = MustFill(e)
      BY <3>1, <3>8 DEF Fills
    <3>3. e \notin initialized \cup caching
      BY <1>2, <2>4, <3>2 DEF MustFill
    <3>4. observers[x] = 0 \/ observers[x] > 0
      <4>1. observers[x] \in 0..2
        BY <1>1 DEF PartsOK, ManagerTypeOK, Once
      <4> QED BY <4>1
    <3>5. observers[x] = 0 /\ ~On(op)
      BY <1>3, <2>5, <2>9, <3>3, <3>4
    <3>6. e \in caching'
      BY <1>2, <3>1
    <3>7. Single(agenda', op)
      BY <2>2, <2>7, <3>5
    <3> QED BY <2>5, <3>1, <3>5, <3>6, <3>7 DEF op
  <2> QED BY <2>8, <2>9
<1> QED BY <1>8, <1>9, <1>10 DEF CallInv

\* The end of a fill, and what a query over others stores.
LEMMA DoneCalls ==
  ASSUME ManagerInv, CallInv, NEW e, Filled(e) \/ Store(e)
  PROVE  CallInv'
<1>1. PartsOK /\ FillRuns /\ BuildRuns /\ OnceInv
  BY DEF ManagerInv, CallInv
<1>2. /\ At("filled", e) \/ At("store", e)
      /\ Goes(<<>>)
      /\ UNCHANGED <<failed, observers, building, failures>>
  BY DEF Filled, Store, staticVars
<1>3. agenda # <<>> /\ (Head(agenda) = Op("filled", e) \/ Head(agenda) = Op("store", e))
  BY <1>1, <1>2, HeadIs
<1>4. BuildRuns'
  <2> SUFFICES ASSUME NEW x \in building PROVE Ahead(Op("built", x), Harmless)'
    BY <1>2 DEF BuildRuns
  <2>1. Ahead(Op("built", x), Harmless) /\ Head(agenda) # Op("built", x)
    BY <1>1, <1>3, OpsDiffer DEF BuildRuns
  <2>2. Harmless \subseteq OpType
    BY DEF Harmless
  <2> QED BY <1>1, <1>2, <1>3, <2>1, <2>2, DoneAhead
<1>5. ASSUME NEW x \in caching PROVE Filled(e) /\ x = e /\ IsCached(e)
  <2>1. Ahead(Op("filled", x), Asking) /\ IsCached(x)
    BY <1>1, <1>5 DEF FillRuns
  <2>2. Head(agenda) = Op("filled", x) \/ Head(agenda) \in Asking
    BY <1>1, <2>1, HeadAhead
  <2>3. Head(agenda) = Op("filled", x)
    BY <1>3, <2>2 DEF Asking, Op
  <2>4. x = e /\ Head(agenda) # Op("store", e)
    BY <1>3, <2>3, OpsDiffer
  <2>5. ~Store(e)
    BY <1>1, <2>4, HeadIs DEF Store
  <2> QED BY <2>1, <2>4, <2>5
<1>6. FillRuns'
  <2>1. caching' = {}
    <3>1. CASE caching = {}
      BY <3>1 DEF Filled, Store
    <3>2. CASE caching # {}
      BY <1>5, <3>2 DEF Filled
    <3> QED BY <3>1, <3>2
  <2> QED BY <2>1 DEF FillRuns
<1>7. OnceInv'
  <2>1. failures = 0 => initialized \cup caching \subseteq initialized' \cup caching'
    <3>1. CASE Filled(e)
      <4>1. caching' = caching \ {e}
            /\ initialized' = IF IsCached(e) /\ e \notin failed THEN initialized \cup {e} ELSE initialized
        BY <3>1 DEF Filled
      <4>2. failures = 0 => failed = {}
        BY <1>1 DEF OnceInv
      <4>3. e \in caching => IsCached(e)
        BY <1>5
      <4> QED BY <4>1, <4>2, <4>3
    <3>2. CASE Store(e)
      BY <3>2 DEF Store
    <3> QED BY <3>1, <3>2
  <2>2. /\ \A op : On(op)' => On(op)
        /\ \A op : Single(agenda, op) => Single(agenda', op)
    BY <1>1, <1>2, <1>3, DoneOnce
  <2> QED BY <1>1, <1>2, <2>1, <2>2, OnceKept
<1> QED BY <1>4, <1>6, <1>7 DEF CallInv

\* What a query was answered is stored.
LEMMA SetCalls ==
  ASSUME ManagerInv, CallInv, NEW e, SetInstances(e)
  PROVE  CallInv'
<1>1. PartsOK /\ FillRuns /\ BuildRuns /\ OnceInv
  BY DEF ManagerInv, CallInv
<1>2. /\ At("set", e) /\ Goes(<<>>)
      /\ UNCHANGED <<initialized, caching, failed, observers, building, failures>>
  BY DEF SetInstances, staticVars
<1>3. agenda # <<>> /\ Head(agenda) = Op("set", e)
  BY <1>1, <1>2, HeadIs
<1>4. /\ \A x : Head(agenda) # Op("filled", x) /\ Head(agenda) # Op("built", x)
      /\ Asking \subseteq OpType /\ Harmless \subseteq OpType
  BY <1>3, OpsDiffer DEF Asking, Harmless
<1>5. FillRuns'
  BY <1>1, <1>2, <1>3, <1>4, DoneAhead DEF FillRuns
<1>6. BuildRuns'
  BY <1>1, <1>2, <1>3, <1>4, DoneAhead DEF BuildRuns
<1>7. OnceInv'
  <2>1. /\ \A op : On(op)' => On(op)
        /\ \A op : Single(agenda, op) => Single(agenda', op)
    BY <1>1, <1>2, <1>3, DoneOnce
  <2> QED BY <1>1, <1>2, <2>1, OnceKept
<1> QED BY <1>5, <1>6, <1>7 DEF CallInv

\* A query registers its handlers, and is done with.
LEMMA OnceQuery ==
  ASSUME PartsOK, OnceInv, NEW e, At("query", e), NEW ops \in Seq(OpType), Goes(ops),
         \A x : ~In(ops, Op("query", x)),
         observers' = Registered(e), UNCHANGED <<initialized, caching>>,
         failures' = 0 => failures = 0 /\ failed' = failed
  PROVE  OnceInv'
<1>1. e \in Known /\ agenda # <<>> /\ Head(agenda) = Op("query", e) /\ On(Op("query", e))
  BY HeadIs
<1>2. observers \in [Known -> 0..2]
  BY DEF PartsOK, ManagerTypeOK
<1>3. /\ Declared(e).source = "lazy" => observers' = observers
      /\ \A x \in Known : x # e => observers'[x] = observers[x]
      /\ Declared(e).source # "lazy" /\ observers[e] = 0 => observers'[e] = 1
  BY <1>1, <1>2 DEF Registered
<1>4. \A x \in Known : Declared(x).source = "lazy" => observers'[x] = 0
  BY <1>3 DEF OnceInv
<1>5. /\ \A x : On(Op("query", x))' => On(Op("query", x))
      /\ \A x : Single(agenda, Op("query", x)) => Single(agenda', Op("query", x))
      /\ Single(agenda, Op("query", e)) => ~On(Op("query", e))'
  BY <1>1, AgendaGoes, SingleGoes
<1> SUFFICES ASSUME failures' = 0
             PROVE  /\ failed' = {}
                    /\ \A x \in Once :
                        /\ observers'[x] < 2 /\ Single(agenda', Op("query", x))
                        /\ On(Op("query", x))' => observers'[x] = 0
                        /\ \A p \in Known \ Supplements :
                               x \in Cleared(p) /\ (observers'[x] > 0 \/ On(Op("query", x))')
                                   => p \in initialized \cup caching
  BY <1>4 DEF OnceInv
<1>6. failures = 0 /\ failed' = {}
  BY DEF OnceInv
<1> SUFFICES ASSUME NEW x \in Once
             PROVE  /\ observers'[x] < 2 /\ Single(agenda', Op("query", x))
                    /\ On(Op("query", x))' => observers'[x] = 0
                    /\ \A p \in Known \ Supplements :
                           x \in Cleared(p) /\ (observers'[x] > 0 \/ On(Op("query", x))')
                               => p \in initialized \cup caching
  BY <1>6
<1>7. /\ x \in Known /\ Declared(x).source # "lazy"
      /\ observers[x] < 2 /\ Single(agenda, Op("query", x))
      /\ On(Op("query", x)) => observers[x] = 0
      /\ \A p \in Known \ Supplements :
             x \in Cleared(p) /\ (observers[x] > 0 \/ On(Op("query", x)))
                 => p \in initialized \cup caching
  BY <1>6 DEF OnceInv, Once
<1>8. CASE x = e
  BY <1>1, <1>3, <1>5, <1>7, <1>8
<1>9. CASE x # e
  BY <1>3, <1>5, <1>7, <1>9
<1> QED BY <1>8, <1>9

\* A query over others populates them, reads them, and stores what it made of them.
LEMMA ReadsOps ==
  ASSUME NEW e \in Known
  PROVE  LET read == SetToSeq(Declared(e).reads)
         IN  (Each("populate", read) \o Reads(read)) \o <<Op("store", e)>>
                 \in Seq([do : {"populate", "instances"}, of : Declared(e).reads] \cup {Op("store", e)})
<1> DEFINE read == SetToSeq(Declared(e).reads)
           T    == [do : {"populate", "instances"}, of : Declared(e).reads] \cup {Op("store", e)}
<1>1. read \in Seq(Declared(e).reads) /\ {"populate", "instances"} \subseteq Operations
  BY ReadsSeq DEF Operations
<1>2. /\ Each("populate", read) \in Seq([do : {"populate"}, of : Declared(e).reads])
      /\ Reads(read) \in Seq([do : {"instances"}, of : Declared(e).reads])
  BY <1>1, EachOf DEF Reads
<1>3. /\ [do : {"populate"}, of : Declared(e).reads] \subseteq T
      /\ [do : {"instances"}, of : Declared(e).reads] \subseteq T
      /\ <<Op("store", e)>> \in Seq(T)
  OBVIOUS
<1> HIDE DEF T, read
<1>4. Each("populate", read) \in Seq(T) /\ Reads(read) \in Seq(T)
  BY <1>2, <1>3, Weaker
<1>5. Each("populate", read) \o Reads(read) \in Seq(T)
  BY <1>4, Joined
<1>6. (Each("populate", read) \o Reads(read)) \o <<Op("store", e)>> \in Seq(T)
  BY <1>3, <1>5, Joined
<1> QED BY <1>6 DEF T, read

\* The three outcomes of a query.
LEMMA QueryCalls ==
  ASSUME ManagerInv, CallInv, NEW e, QueryObjects(e) \/ QueryFails(e) \/ QueryReads(e)
  PROVE  CallInv'
<1>1. PartsOK /\ FillRuns /\ BuildRuns /\ OnceInv
  BY DEF ManagerInv, CallInv
<1>2. /\ At("query", e) /\ observers' = Registered(e)
      /\ UNCHANGED <<initialized, caching, building>>
  BY DEF QueryObjects, QueryFails, QueryReads, staticVars
<1>3. e \in Known /\ agenda # <<>> /\ Head(agenda) = Op("query", e)
  BY <1>1, <1>2, HeadIs
<1>4. /\ \A x : Head(agenda) # Op("filled", x) /\ Head(agenda) # Op("built", x)
      /\ Asking \subseteq OpType /\ Harmless \subseteq OpType
  BY <1>3, OpsDiffer DEF Asking, Harmless
<1>5. CASE QueryObjects(e) \/ QueryFails(e)
  <2> DEFINE T == {Op("set", e)}
  <2>1. PICK ops \in Seq(T) : Goes(ops)
    <3>1. <<>> \in Seq(T) /\ <<Op("set", e)>> \in Seq(T)
      OBVIOUS
    <3> QED BY <1>5, <3>1 DEF QueryObjects, QueryFails
  <2>7. Op("set", e) \in OpType
    BY <1>3, OpTyped DEF Operations
  <2>8. T \subseteq OpType /\ T \subseteq Asking /\ T \subseteq Harmless
    BY <2>7 DEF Asking, Harmless, Op
  <2>9. \A i \in 1..Len(ops) : ops[i] = Op("set", e)
    OBVIOUS
  <2> HIDE DEF T
  <2>10. ops \in Seq(Asking) /\ ops \in Seq(Harmless)
    BY <2>8, Weaker
  <2>2. FillRuns'
    BY <1>1, <1>2, <1>3, <1>4, <2>1, <2>10, AheadGoes DEF FillRuns
  <2>3. BuildRuns'
    BY <1>1, <1>2, <1>3, <1>4, <2>1, <2>10, AheadGoes DEF BuildRuns
  <2>4. failures' = 0 => failures = 0 /\ failed' = failed
    <3>1. failures \in Nat
      BY <1>1, ManagerAssumption DEF PartsOK, ManagerTypeOK
    <3> QED BY <1>5, <3>1 DEF QueryObjects, QueryFails
  <2>5. ops \in Seq(OpType) /\ \A x : ~In(ops, Op("query", x))
    BY <2>8, <2>9, Weaker, OpsDiffer DEF In
  <2>6. OnceInv'
    BY <1>1, <1>2, <2>1, <2>4, <2>5, OnceQuery
  <2> QED BY <2>2, <2>3, <2>6 DEF CallInv
<1>6. CASE QueryReads(e)
  <2> DEFINE read == SetToSeq(Declared(e).reads)
             ops  == (Each("populate", read) \o Reads(read)) \o <<Op("store", e)>>
             T    == [do : {"populate", "instances"}, of : Declared(e).reads] \cup {Op("store", e)}
  <2>1. /\ Goes(ops) /\ UNCHANGED <<failed, failures>>
        /\ Declared(e).reads # {} \/ e = "StorageControllers"
    BY <1>6 DEF QueryReads
  <2>2. ops \in Seq(T)
    BY <1>3, ReadsOps
  <2>3. e \notin Supplements
    BY <2>1, SupplementsBare
  <2>4. Declared(e).reads \subseteq Known \ Supplements
    <3>1. Declared(e).reads \subseteq Leaves \cup {"Processor"}
      BY <1>3, Catalogue DEF LinksOK
    <3>2. "Processor" \in Names
      BY KnownAre
    <3> QED BY <3>1, <3>2, NamedAre
  <2> HIDE DEF ops
  <2>5. T \subseteq OpType
    <3>1. Op("store", e) \in OpType
      BY <1>3, <2>3, OpTyped DEF Operations
    <3>2. [do : {"populate", "instances"}, of : Declared(e).reads] \subseteq OpType
      BY <2>4 DEF OpType, Operations
    <3> QED BY <3>1, <3>2
  <2>6. \A x : Op("query", x) \notin T
    BY DEF Op
  <2> HIDE DEF T
  <2>7. ops \in Seq(OpType)
    BY <2>2, <2>5, Weaker
  <2>8. \A x : ~In(ops, Op("query", x))
    <3>1. \A i \in 1..Len(ops) : ops[i] \in T
      BY <2>2
    <3> QED BY <2>6, <3>1 DEF In
  <2>9. OnceInv'
    BY <1>1, <1>2, <2>1, <2>7, <2>8, OnceQuery
  <2>10. FillRuns'
    <3> SUFFICES ASSUME NEW x \in caching PROVE FALSE
      BY <1>2 DEF FillRuns
    <3>1. Ahead(Op("filled", x), Asking)
      BY <1>1 DEF FillRuns
    <3>2. Op("query", e) \in Asking
      BY <1>1, <1>3, <1>4, <3>1, HeadAhead
    <3> QED BY <2>1, <3>2 DEF Asking, Op
  <2>11. BuildRuns'
    <3> SUFFICES ASSUME NEW x \in building PROVE Ahead(Op("built", x), Harmless)'
      BY <1>2 DEF BuildRuns
    <3>1. Ahead(Op("built", x), Harmless)
      BY <1>1 DEF BuildRuns
    <3>2. Op("query", e) \in Harmless
      BY <1>1, <1>3, <1>4, <3>1, HeadAhead
    <3>3. Declared(e).reads \subseteq Leaves
      BY <3>2 DEF Harmless, Op
    <3>4. T \subseteq Harmless
      <4>1. \A r \in Leaves : Declared(r).reads \subseteq Leaves
        BY LeavesBare
      <4> QED BY <2>5, <3>3, <4>1 DEF T, Harmless, Op
    <3>5. ops \in Seq(Harmless)
      BY <2>2, <3>4, Weaker
    <3> QED BY <1>1, <1>4, <2>1, <3>1, <3>5, AheadGoes
  <2> QED BY <2>9, <2>10, <2>11 DEF CallInv
<1> QED BY <1>5, <1>6

\* A request begins with nothing being filled or built, and puts no query on the agenda.
LEMMA RequestCalls ==
  ASSUME ManagerInv, CallInv, NEW e \in Requested, Request(e)
  PROVE  CallInv'
<1>1. PartsOK /\ FillRuns /\ BuildRuns /\ OnceInv
  BY DEF ManagerInv, CallInv
<1>2. /\ UNCHANGED <<initialized, caching, failed, observers, building, failures>>
      /\ agenda = <<>>
      /\ agenda' = <<Op("populate", e), Op("instances", e), Op("relations", e), Op("links", e),
                     Op("answer", e)>>
  BY DEF Request, cacheVars, staticVars
<1>3. caching = {} /\ building = {}
  BY <1>1, <1>2, FillsRest, BuildsRest
<1>4. \A i \in 1..Len(agenda') : agenda'[i].do # "query"
  <2>1. \A i \in 1..5 : agenda'[i].do # "query"
    <3>1. /\ agenda'[1] = Op("populate", e) /\ agenda'[2] = Op("instances", e)
          /\ agenda'[3] = Op("relations", e) /\ agenda'[4] = Op("links", e)
          /\ agenda'[5] = Op("answer", e)
      BY <1>2
    <3>2. \A i \in 1..5 : i = 1 \/ i = 2 \/ i = 3 \/ i = 4 \/ i = 5
      OBVIOUS
    <3> QED BY <3>1, <3>2 DEF Op
  <2>2. Len(agenda') = 5
    BY <1>2
  <2> QED BY <2>1, <2>2
<1>5. \A x : ~On(Op("query", x))' /\ Single(agenda', Op("query", x))
  BY <1>4 DEF On, Single, Op
<1> QED BY <1>1, <1>2, <1>3, <1>5, OnceKept DEF CallInv, FillRuns, BuildRuns

\* Steps that leave the agenda as it is.
LEMMA OthersCall ==
  ASSUME CallInv, UNCHANGED <<agenda, initialized, caching, failed, observers, building, failures>>
  PROVE  CallInv'
<1>1. \A last, T : Ahead(last, T)' <=> Ahead(last, T)
  BY DEF Ahead
<1>2. \A op : (On(op)' <=> On(op)) /\ (Single(agenda', op) <=> Single(agenda, op))
  BY DEF On
<1>3. FillRuns' /\ BuildRuns'
  BY <1>1 DEF CallInv, FillRuns, BuildRuns
<1>4. OnceInv'
  BY <1>2, OnceKept DEF CallInv
<1> QED BY <1>3, <1>4 DEF CallInv

\* Nothing is filled, built or queried at first.
LEMMA CallInit == Init => CallInv
<1> SUFFICES ASSUME Init PROVE CallInv
  OBVIOUS
<1>1. caching = {} /\ building = {} /\ failed = {} /\ observers = [e \in Known |-> 0]
  BY DEF Init
<1>2. agenda \in Seq(PlainType)
  BY InitPlain
<1>3. \A i \in 1..Len(agenda) : agenda[i] \in PlainType
  BY <1>2
<1>4. \A x : ~On(Op("query", x)) /\ Single(agenda, Op("query", x))
  BY <1>3 DEF On, Single, Op, PlainType
<1>5. Once \subseteq Known
  BY DEF Once
<1>6. OnceInv
  BY <1>1, <1>4, <1>5 DEF OnceInv
<1> QED BY <1>1, <1>6 DEF CallInv, FillRuns, BuildRuns

\* Every step keeps fills and relations undisturbed and queries single.
LEMMA CallNext == ManagerInv /\ CallInv /\ [Next]_vars => CallInv'
<1> SUFFICES ASSUME ManagerInv, CallInv, [Next]_vars PROVE CallInv'
  OBVIOUS
<1>1. CASE Configure
  <2>1. \/ \E e \in Current : PopulateFills(e)
        \/ \E e \in Current : Filled(e) \/ Store(e)
        \/ \E e \in Current : SetInstances(e)
        \/ \E e \in Current : QueryObjects(e) \/ QueryFails(e) \/ QueryReads(e)
        \/ (\E e \in Current : Reading(e)) \/ Finish
    BY <1>1 DEF Configure, Populate, Query, Read, Build, Reading
  <2> QED BY <2>1, PopulateCalls, DoneCalls, SetCalls, QueryCalls, ReadingCalls
<1>2. CASE \E e \in Requested : Request(e)
  BY <1>2, RequestCalls
<1>3. CASE (\E e \in ShortTime : Expire(e)) \/ (\E e \in Movable : Move(e)) \/ Dispatch \/ UNCHANGED vars
  <2>1. UNCHANGED <<agenda, initialized, caching, failed, observers, building, failures>>
    BY <1>3 DEF Expire, Move, Dispatch, vars, cacheVars, staticVars
  <2> QED BY <2>1, OthersCall
<1> QED BY <1>1, <1>2, <1>3 DEF Next

\* What populates, queries and builds what, for any objects, failures and requests.
THEOREM CallsHold == Spec => []CallInv
<1>1. ManagerInv /\ CallInv /\ [Next]_vars => (ManagerInv /\ CallInv)'
  BY InvNext, CallNext
<1>2. Init => ManagerInv /\ CallInv
  BY InvInit, CallInit
<1> QED BY <1>1, <1>2, PTL DEF Spec

\* No static of getRelations is entered again while it is built, and no cached entity is
\* populated or read while it is filled, whatever is requested, comes, goes or fails.
THEOREM NothingReenters == Spec => []NoReentry
<1>1. ManagerInv /\ CallInv => NoReentry
  <2> SUFFICES ASSUME PartsOK, FillRuns, BuildRuns, agenda # <<>>
               PROVE  /\ Head(agenda).do \in {"populate", "instances"} => caching = {}
                      /\ Head(agenda).do = "relations" => building = {}
    BY DEF ManagerInv, CallInv, NoReentry
  <2> QED BY FillsRest, BuildsRest
<1> QED BY <1>1, InvHolds, CallsHold, PTL

\* As long as no query fails, the handlers of an object are registered once however often
\* its entity is requested.
THEOREM HandlersOnce == Spec => []ObservedOnce
<1>1. ManagerInv /\ CallInv => ObservedOnce
  <2> SUFFICES ASSUME PartsOK, OnceInv, failures = 0, NEW e \in Known \ RegisteredOften
               PROVE  observers[e] < 2
    BY DEF ManagerInv, CallInv, ObservedOnce
  <2>1. CASE Declared(e).source = "lazy"
    <3>1. observers[e] = 0
      BY <2>1 DEF OnceInv
    <3> QED BY <3>1
  <2>2. CASE Declared(e).source # "lazy"
    BY <2>2 DEF OnceInv, Once
  <2> QED BY <2>1, <2>2
<1> QED BY <1>1, InvHolds, CallsHold, PTL
=============================================================================
