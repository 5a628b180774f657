----------------------------- MODULE EntityCatalogue -----------------------------
(***************************************************************************)
(* The entities of the application as their classes declare them: the      *)
(* members their D-Bus queries fill (dbus), the members code sets on each  *)
(* instance (own), the other members the constructor or the query creates  *)
(* (created), the default getters (defaults), the providers in the order   *)
(* they supplement an instance with the members a link may write, the      *)
(* relations with the members of their rules, and the entity whose         *)
(* instances the query reads.                                              *)
(* Conversions of single values are left to their modules.                 *)
(***************************************************************************)
EXTENDS Sequences, FiniteSets

(* IRelation::dummyField: the rule has no member on that side.             *)
dummyField == "_"

Entity == [source |-> "cached", dbus |-> {}, own |-> {}, created |-> {}, defaults |-> {},
           providers |-> <<>>, relations |-> <<>>, reads |-> {}]

(* ENTITY_PROVIDER_LINK_DEFAULT copies every field, and so does a link     *)
(* function that compares a field (on) of the provider's instance with the *)
(* target first; another one writes the fields given.                      *)
Everything == {"*"}
Default(provider)      == [by |-> provider, writes |-> Everything, on |-> dummyField]
Matching(provider, on) == [by |-> provider, writes |-> Everything, on |-> on]
Link(provider, writes) == [by |-> provider, writes |-> writes, on |-> dummyField]

Relation(dest, src, dst) == [dest |-> dest, rules |-> {<<src, dst>>}]
Direct(dest)             == Relation(dest, dummyField, dummyField)

Rollup       == {"StatusRollup"}
RollupStatus == {"StatusRollup", "Status"}

(* The object path of an instance, a field of every D-Bus instance.        *)
metaObjectPath == "__meta__object__path"

Assets4 == {"Manufacturer", "Model", "PartNumber", "SerialNumber"}

(* Sensors::inventoryRelation.                                             *)
inventoryRelation == Relation("Sensors", "Id", "AssociatedInventoryId")

----------------------------------------------------------------------------
(* status_provider.hpp: one per observed entity.                           *)
StatusByCallbackManager ==
    [Entity EXCEPT !.dbus = {"Status"}, !.created = {"StatusRollup"}]

(* sensors.hpp *)
Sensors ==
    [Entity EXCEPT
        !.dbus = {"Reading", "MinValue", "MaxValue", "Unit", "WarningAlarmLow", "WarningAlarmHigh",
                  "LowWarning", "HighWarning", "CriticalAlarmLow", "CriticalAlarmHigh", "LowCritical",
                  "HighCritical", "Available", "Functional", "AssociatedInventoryId"},
        !.own = {"Id", "Name", "Available", "Status", "State", "Group", "ReadingNatural"},
        !.created = {"Id", "Name", "Status", "State", "Group", "ReadingNatural"}]

(* fan.hpp *)
Fan ==
    [Entity EXCEPT
        !.dbus = Assets4 \cup {"Name", "Type", "Connector", "PrettyName"},
        !.own = {"Id", "State"}, !.created = {"Id", "State"}, !.defaults = RollupStatus,
        !.relations = <<inventoryRelation>>]

(* baseboard.hpp *)
Baseboard ==
    [Entity EXCEPT
        !.dbus = Assets4 \cup {"Name"}, !.own = {"Id", "Type"}, !.created = {"Id", "Type"},
        !.defaults = RollupStatus, !.relations = <<inventoryRelation>>]

(* cpu.hpp *)
CpuSMBiosProvider ==
    [Entity EXCEPT
        !.dbus = {"Characteristics", "CoreCount", "Family", "IdentityReg", "Manufacturer", "MaxSpeed",
                  "Socket", "ThreadCount", "Model", "ProcessorType"},
        !.own = {"Name", "InstructionSet", "Arch"}, !.created = {"Name", "InstructionSet", "Arch"}]

Processor ==
    [Entity EXCEPT
        !.dbus = {"PrettyName", "State"}, !.own = {"Id"}, !.created = {"Id"}, !.defaults = RollupStatus,
        !.providers = <<Matching("CpuSMBiosProvider", "Name")>>, !.relations = <<inventoryRelation>>]

ProcessorSummary ==
    [Entity EXCEPT
        !.source = "lazy", !.own = {"Count", "State", "Status", "StatusRollup"},
        !.created = {"Count", "State", "Status", "StatusRollup"}, !.reads = {"Processor"}]

(* chassis.hpp *)
ChassisStateProvider ==
    [Entity EXCEPT
        !.dbus = {"LastStateChangeTime", "PowerState"}, !.own = {"State"}, !.created = {"State"}]

IntrusionSensor == [Entity EXCEPT !.dbus = {"Status"}]

Chassis ==
    [Entity EXCEPT
        !.dbus = {"Type", "PartNumber", "Manufacturer"}, !.defaults = RollupStatus,
        !.providers = <<Default("ChassisStateProvider")>>, !.relations = <<Direct("Sensors")>>]

(* psu.hpp *)
PMBusProvider ==
    [Entity EXCEPT
        !.dbus = {"Id", "CrpsMfrFWRevision", "PmbusMfrDate", "PmbusMfrID", "PmbusMfrLocation",
                  "PmbusMfrModel", "PmbusMfrRevision", "PmbusMfrSerial", "PmbusRevision"}]

PSU ==
    [Entity EXCEPT
        !.dbus = Assets4 \cup {"Name", "Type", "Connector", "PrettyName"},
        !.own = {"Id", "State"}, !.created = {"Id", "State"}, !.defaults = RollupStatus,
        !.providers = <<Matching("PMBusProvider", "Id"), Default("StatusByCallbackManager<PSU>")>>,
        !.relations = <<inventoryRelation>>]

(* network_adapter.hpp *)
NetAdapter ==
    [Entity EXCEPT
        !.dbus = {"Manufacturer", "Model", "Name", "State", "MAC", "Status"},
        !.defaults = RollupStatus]

(* drive.hpp *)
Drive ==
    [Entity EXCEPT
        !.dbus = Assets4 \cup {"Capacity", "Protocol", "MediaType", "Updating", "PrettyName", "State"},
        !.own = {"Id", "Name"}, !.created = {"Id", "Name"}, !.defaults = RollupStatus]

StorageControllers ==
    [Entity EXCEPT
        !.source = "lazy", !.own = {"Id", "PrettyName", "State", "Status"},
        !.created = {"Id", "PrettyName", "State", "Status"}, !.relations = <<Direct("Drive")>>]

(* manager.hpp *)
BmcManager ==
    [Entity EXCEPT
        !.dbus = {"CurrentBMCState", "RequestedBMCTransition", "LastRebootTime"},
        !.own = {"Name", "LastRebootTimeFmt", "PowerState", "GCTypeSupported", "GCCount",
                 "SCTypeSupported", "SCCount", "ManagerType", "Model", "UUID"},
        !.created = {"Name", "Datetime", "Model", "ManagerType", "PowerState", "GCTypeSupported",
                     "SCTypeSupported", "GCCount", "SCCount", "LastRebootTimeFmt", "UUID"},
        !.defaults = {"StatusRollup", "Datetime"},
        !.providers = <<Default("StatusByCallbackManager<BmcManager>")>>,
        !.relations = <<Relation("Firmware", dummyField, "Purpose")>>]

(* firmware.hpp *)
FirmwareProvider ==
    [Entity EXCEPT
        !.dbus = {"Version", "Purpose", "Activation"},
        !.own = {"Id", "SoftwareId", "Updateable", "Status", "State"},
        !.created = {"Id", "SoftwareId", "Updateable", "Status", "State"}]

(* ProxyQuery: the members and the instances are those of the provider.    *)
Firmware ==
    [FirmwareProvider EXCEPT
        !.source = "lazy", !.reads = {"FirmwareProvider"},
        !.created = FirmwareProvider.dbus \cup FirmwareProvider.created,
        !.relations = <<Relation("BmcManager", "Purpose", dummyField),
                        Relation("Server", "Purpose", dummyField)>>]

FirmwareManagment ==
    [Entity EXCEPT
        !.dbus = {"ApplyTime"}, !.own = {"MaxImageSize"}, !.created = {"MaxImageSize"}]

(* server.hpp *)
AssetTagProvider           == [Entity EXCEPT !.dbus = {"AssetTag"}]
IndicatorLedProvider       == [Entity EXCEPT !.dbus = {"Led"}]
BootSettingsProvider       == [Entity EXCEPT !.dbus = {"RetryConfig"}]
HostWatchdogProvider       == [Entity EXCEPT !.dbus = {"Enabled", "ExpireAction"}]
RebootRemainingProvider    == [Entity EXCEPT !.own = {"AttemptsLeft"}, !.created = {"AttemptsLeft"}]
PowerRestorePolicyProvider == [Entity EXCEPT !.dbus = {"PowerRestorePolicy"}]
HostBootProvider           == [Entity EXCEPT !.dbus = {"Mode", "Source", "Type"}, !.own = {"Mode"}]
HostBootOnceProvider       == [Entity EXCEPT !.dbus = {"Mode", "Type", "Source", "ClearCmos", "OneTime"},
                                             !.own = {"Mode"}]

Server ==
    [Entity EXCEPT
        !.dbus = Assets4 \cup {"Name", "Type"}, !.own = {"ServiceName", "State"},
        !.created = {"ServiceName", "Datetime", "UUID", "State", "BootOverrideType", "BmcVersion",
                     "BiosVersion"},
        !.defaults = {"StatusRollup", "Led", "Datetime"},
        !.providers = <<Default("AssetTagProvider"), Default("BootSettingsProvider"),
                        Default("HostWatchdogProvider"), Default("PowerRestorePolicyProvider"),
                        Link("RebootRemainingProvider", {"AttemptsLeft"}),
                        Link("HostBootProvider", {"BootOverrideType", "Mode", "Type", "Source"}),
                        Link("HostBootOnceProvider", {"BootOverrideType", "Mode", "Type", "Source",
                                                      "ClearCmos", "OneTime"}),
                        Link("IndicatorLedProvider", {"Led"}),
                        Link("FirmwareProvider", {"BmcVersion", "BiosVersion"}),
                        Default("StatusByCallbackManager<Server>")>>,
        !.relations = <<Relation("Firmware", dummyField, "Purpose")>>]

(* memory.hpp: "Attributes" stands for the SMBIOS data only a response     *)
(* reads.                                                                  *)
DimmSMBiosProvider ==
    [Entity EXCEPT
        !.dbus = {"MemorySizeInMiB", "Manufacturer", "Slot", "MemoryDeviceLocator", "Attributes"},
        !.own = {"Name", "Id", "State", "MemoryType", "Status", "StatusRollup"},
        !.created = {"Name", "Id", "State", "MemoryType", "Status", "StatusRollup"}]

Memory ==
    [DimmSMBiosProvider EXCEPT !.source = "lazy", !.reads = {"DimmSMBiosProvider"}]

MemorySummary ==
    [Entity EXCEPT
        !.source = "lazy", !.own = {"TotalSize", "State", "Status", "StatusRollup"},
        !.created = {"TotalSize", "State", "Status", "StatusRollup"},
        !.reads = {"DimmSMBiosProvider"}]

(* network_interface.hpp *)
NetworkConfig ==
    [Entity EXCEPT !.dbus = {"HostName", "DefaultIPv4Gateway", "DefaultIPv6Gateway"}]

NetworkDHCPConfig ==
    [Entity EXCEPT !.dbus = {"DNSEnabled", "HostNameEnabled", "NTPEnabled", "SendHostNameEnabled"}]

IP ==
    [Entity EXCEPT
        !.dbus = {"Address", "Gateway", "PrefixLength", "Origin", "Type"},
        !.own = {"SubnetMask", "Gateway"}, !.created = {"SubnetMask"}]

Ethernet ==
    [Entity EXCEPT
        !.dbus = {"AutoNeg", "DHCPEnabled", "DomainName", "IPv6AcceptRA", "InterfaceName",
                  "LinkLocalAutoConf", "LinkUp", "NICEnabled", "NTPServers", "Nameservers", "Speed",
                  "StaticNameServers", "MACAddress", "VLANId", "VLANName"},
        !.own = {"Kind", "State", "LinkStatus", "DHCPv4Enabled", "OperatingMode"},
        !.created = {"Kind", "FQDN", "LinkStatus", "State", "DHCPv4Enabled", "OperatingMode"},
        !.defaults = {"FQDN"},
        !.relations = <<Relation("IP", metaObjectPath, metaObjectPath),
                        Relation("Ethernet", "InterfaceName", "VLANName")>>]

(* network_protocol.hpp *)
SnmpProtocol ==
    [Entity EXCEPT
        !.dbus = {"CommunityString"},
        !.own = {"AuthenticationProtocol", "CommunityAccessMode", "CommunityName", "Port",
                 "EncryptionProtocol", "EnableSNMPv1", "EnableSNMPv2c", "EnableSNMPv3",
                 "HideCommunityStrings"},
        !.created = {"AuthenticationProtocol", "CommunityAccessMode", "CommunityName", "Port",
                     "EncryptionProtocol", "EnableSNMPv1", "EnableSNMPv2c", "EnableSNMPv3",
                     "HideCommunityStrings", "EngineId"}]

(* Mutant: the two protocols ask each other.                               *)
NtpAsksBack == [Entity EXCEPT !.dbus = {"TimeSyncMethod"}, !.reads = {"NetworkProtocol"}]

NtpProtocol == [Entity EXCEPT !.dbus = {"TimeSyncMethod"}]

IpmiSolProtocolProvider == [Entity EXCEPT !.dbus = {"Enabled"}]

(* The query calls systemd, and asks NtpProtocol for the state of ntp.     *)
NetworkProtocol ==
    [Entity EXCEPT
        !.source = "shortTime", !.own = {"Purpose", "Enabled", "Port"},
        !.created = {"Purpose", "Enabled", "Port"}, !.reads = {"NtpProtocol"},
        !.providers = <<Link("IpmiSolProtocolProvider", Everything)>>,
        !.relations = <<Relation("SnmpProtocol", "Purpose", dummyField),
                        Relation("NtpProtocol", "Purpose", dummyField)>>]

(* pcie.hpp: "FunctionFields" stands for the fields of the eight functions *)
(* of a device, "Function" for those of one function.                      *)
PCIeProvider ==
    [Entity EXCEPT
        !.dbus = {"Device", "Manufacturer", "Subsystem", "DeviceType", "FunctionFields"},
        !.own = {"Id", "Socket", "Bus", "Address", "Status", "FunctionFields"},
        !.created = {"Id", "Socket", "Bus", "Address", "Status"}]

PCIeDevice ==
    [PCIeProvider EXCEPT
        !.source = "lazy", !.reads = {"PCIeProvider"},
        !.relations = <<Relation("PCIeFunction", "Id", "Id")>>]

PCIeFunction ==
    [Entity EXCEPT
        !.source = "lazy", !.own = {"Id", "FunctionId", "FunctionIdNumerical", "Function"},
        !.created = {"Id", "FunctionId", "FunctionIdNumerical", "Function"},
        !.reads = {"PCIeProvider"}, !.relations = <<Relation("PCIeDevice", "Id", "Id")>>]

----------------------------------------------------------------------------
(* accounts.hpp, roles.hpp, account_settings.hpp                           *)
Accounts ==
    [Entity EXCEPT
        !.dbus = {"RemoteUser", "UserEnabled", "UserLockedForFailedAttempt", "UserPasswordExpired",
                  "UserPrivilege", "UserGroups"},
        !.own = {"Id", "Name"}, !.created = {"Id", "Name"},
        !.relations = <<Relation("Roles", "UserPrivilege", "Id")>>]

DomainGroups ==
    [Entity EXCEPT
        !.dbus = {"GroupName", "PrivilegeId"}, !.own = {"Id", "Type"}, !.created = {"Id", "Type"},
        !.relations = <<Relation("Roles", "PrivilegeId", "Id")>>]

DomainAccounts ==
    [Entity EXCEPT
        !.source = "shortTime",
        !.dbus = {"LDAPBindDN", "LDAPSearchScope", "GroupNameAttribute", "UserNameAttribute",
                  "LDAPBaseDN", "LDAPServerURI", "Type", "State"},
        !.own = {"Id", "Name", "Enabled"}, !.created = {"Id", "Name", "Enabled"},
        !.relations = <<Relation("DomainGroups", "Type", "Type")>>]

AccountSettingsProvider ==
    [Entity EXCEPT
        !.dbus = {"AccountLockoutDuration", "AccountLockoutThreshold", "MinPasswordLength",
                  "RememberOldPasswordTimes", "AllGroups", "AllPrivileges"},
        !.own = {"MaxPasswordLength"},
        !.created = {"MaxPasswordLength", "BasicAuth", "Cookie", "SessionToken", "TLS", "XToken"}]

AccountSettings ==
    [AccountSettingsProvider EXCEPT !.source = "lazy", !.reads = {"AccountSettingsProvider"}]

Roles ==
    [Entity EXCEPT
        !.source = "lazy", !.own = {"Id", "Name", "Privileges"},
        !.created = {"Id", "Name", "Privileges"}, !.reads = {"AccountSettingsProvider"}]

(* certificates.hpp: "Components" stands for those of the subject,         *)
(* "IssuerComponents" for those of the issuer.                             *)
CertificateBase ==
    [Entity EXCEPT
        !.dbus = {"CertificateString", "Issuer", "Subject", "KeyUsage", "ValidNotAfter",
                  "ValidNotBefore"},
        !.own = {"Id", "Purpose", "Components", "IssuerComponents"},
        !.created = {"Components", "IssuerComponents"}]

(* virtual_media.hpp *)
VirtualMedia ==
    [Entity EXCEPT
        !.source = "shortTime",
        !.dbus = {"Device", "EndpointId", "ExportName", "ImageURL", "Socket", "WriteProtected",
                  "RemainingInactivityTimeout", "InterfaceType", "Status", "State"},
        !.own = {"Id", "DeviceType", "ConnectionType", "TransferProtocol", "OemTransferProtocol",
                 "Active", "ExportName", "ImageURL", "WebSocketAddress"},
        !.created = {"Id", "DeviceType", "ConnectionType", "TransferProtocol",
                     "OemTransferProtocol", "Active", "WebSocketAddress"},
        !.defaults = {"Status"}]

(* pid_control.hpp: "Coefficients" stands for the twelve of a controller.  *)
PIDProfile == [Entity EXCEPT !.dbus = {"Profile", "SupportedProfiles"}]

PID ==
    [Entity EXCEPT
        !.dbus = {"Name", "Class", "Type", "Zones", "Inputs", "Outputs", "Coefficients"},
        !.relations = <<Relation("PIDZone", "Name", "Zones")>>]

PIDZone ==
    [Entity EXCEPT
        !.dbus = {"Name", "FailSafePercent", "MinOutputPercent"},
        !.relations = <<Relation("PID", "Name", "Zones")>>]

(* session_manager.hpp, power.hpp, settings.hpp                            *)
SessionManager ==
    [Entity EXCEPT !.source = "lazy", !.dbus = {"Id", "RemoteIPAddr", "Username", "SessionType"}]

HostPower ==
    [Entity EXCEPT
        !.dbus = {"__meta__raw_dbus_status"}, !.own = {"PowerState", "Status"},
        !.created = {"PowerState", "Status"}]

Settings == [Entity EXCEPT !.dbus = {"TitleTemplate"}]
=============================================================================
