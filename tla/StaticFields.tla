------------------------------ MODULE StaticFields ------------------------------
(***************************************************************************)
(* supplementByStaticFields of the queries: the members that code derives  *)
(* from what D-Bus properties have filled.  Each operator takes all fields *)
(* of an instance and returns them with the derived ones set, one setter   *)
(* after another in the order of the code.  A member that nothing has set  *)
(* is null and reads as the default of its accessor.                       *)
(*                                                                         *)
(* A class names its members from D-Bus with the interface they belong to  *)
(* and what they can be, the members it derives, and the interfaces an     *)
(* object may get later.  Members that only depend on the object path are  *)
(* left out.                                                               *)
(***************************************************************************)
EXTENDS TLC

null == "null"

Get(f, member, default) == IF f[member] = null THEN default ELSE f[member]

Yes(condition) == IF condition THEN "yes" ELSE "no"

Property(interface, values) == [iface |-> interface, values |-> values]

----------------------------------------------------------------------------
(* Ethernet: setLinkStatus reads the State that setState has set.          *)
EthernetShape ==
    [late |-> {"vlan"}, derived |-> {"Kind", "State", "LinkStatus", "DHCPv4Enabled", "OperatingMode"},
     members |-> [NICEnabled  |-> Property("ethernet", {"yes", "no"}),
                  LinkUp      |-> Property("ethernet", {"yes", "no"}),
                  DHCPEnabled |-> Property("ethernet", {"both", "v4", "none"}),
                  VLANId      |-> Property("vlan", {"10"})]]

setKind(f) == [f EXCEPT !.Kind = IF f.VLANId = null THEN "physical" ELSE "vlan"]

setEthernetState(f) ==
    [f EXCEPT !.State = IF Get(f, "NICEnabled", "no") = "yes" THEN "enabled" ELSE "disabled"]

setLinkStatus(f) ==
    [f EXCEPT !.LinkStatus = CASE f.State = "disabled"            -> "noLink"
                               [] Get(f, "LinkUp", "no") = "yes"  -> "linkUp"
                               [] OTHER                           -> "linkDown"]

HasDhcpV4(f) == Get(f, "DHCPEnabled", "none") \in {"both", "v4"}

setDHCPv4Enabled(f) == [f EXCEPT !.DHCPv4Enabled = Yes(HasDhcpV4(f))]

setOperatingMode(f) ==
    [f EXCEPT !.OperatingMode = IF HasDhcpV4(f) THEN "stateful" ELSE "disabled"]

(* Mutant: the link status before the state it reads.                     *)
LinkBeforeState(f) ==
    setOperatingMode(setDHCPv4Enabled(setEthernetState(setLinkStatus(setKind(f)))))

EthernetFields(f) ==
    setOperatingMode(setDHCPv4Enabled(setLinkStatus(setEthernetState(setKind(f)))))

----------------------------------------------------------------------------
(* IP: the mask of an address stays when the address becomes an IPv6 one.  *)
IPShape ==
    [late |-> {}, derived |-> {"SubnetMask"},
     members |-> [Type         |-> Property("ip", {"ipv4", "ipv6"}),
                  PrefixLength |-> Property("ip", {"24", "64"}),
                  Gateway      |-> Property("ip", {"", "gateway"})]]

setSubnetMask(f) ==
    IF Get(f, "Type", "ipv4") = "ipv4"
    THEN [f EXCEPT !.SubnetMask = Get(f, "PrefixLength", "0")]
    ELSE f

setGateway(f) == IF f.Gateway \in {null, ""} THEN [f EXCEPT !.Gateway = "0.0.0.0"] ELSE f

IPFields(f) == setGateway(setSubnetMask(f))

----------------------------------------------------------------------------
(* BmcManager::setPowerState                                               *)
BmcManagerShape ==
    [late |-> {}, derived |-> {"PowerState"},
     members |-> [CurrentBMCState        |-> Property("bmc", {"ready", "notReady"}),
                  RequestedBMCTransition |-> Property("bmc", {"none", "reboot"})]]

powerStatesCalc ==
    {[state |-> "notReady", transition |-> "none",   power |-> "poweringOn"],
     [state |-> "ready",    transition |-> "none",   power |-> "on"],
     [state |-> "ready",    transition |-> "reboot", power |-> "poweringOff"]}

BmcManagerFields(f) ==
    LET matches == {c \in powerStatesCalc :
                        /\ c.state = Get(f, "CurrentBMCState", "notReady")
                        /\ c.transition = Get(f, "RequestedBMCTransition", "none")}
    IN  [f EXCEPT !.PowerState = IF matches = {} THEN "poweringOn"
                                 ELSE (CHOOSE c \in matches : TRUE).power]

(* HostPower::setStatusPower                                               *)
HostPowerShape ==
    [late |-> {}, derived |-> {"PowerState", "Status"},
     members |-> [raw_dbus_status |-> Property("host", {"Running", "Quiesced", "DiagnosticMode",
                                                        "Off", "Standby"})]]

hostStates == [Running        |-> <<"On", "Enabled">>,
               Quiesced       |-> <<"On", "Quiesced">>,
               DiagnosticMode |-> <<"On", "InTest">>,
               Off            |-> <<"Off", "Disabled">>]

HostPowerFields(f) ==
    LET state == IF f.raw_dbus_status \in DOMAIN hostStates THEN hostStates[f.raw_dbus_status]
                 ELSE hostStates.Off
    IN  [f EXCEPT !.PowerState = state[1], !.Status = state[2]]

(* ChassisStateProvider                                                    *)
ChassisStateShape ==
    [late |-> {}, derived |-> {"State"},
     members |-> [PowerState |-> Property("chassis", {"on", "off"})]]

ChassisStateFields(f) ==
    [f EXCEPT !.State = IF Get(f, "PowerState", "off") = "on" THEN "enabled" ELSE "standbyOffline"]

(* FirmwareProvider                                                        *)
FirmwareShape ==
    [late |-> {}, derived |-> {"Updateable", "Status", "State"},
     members |-> [Activation |-> Property("activation", {"ready", "active", "activating", "failed",
                                                         "standbySpare"})]]

setUpdateable(f) == [f EXCEPT !.Updateable = Yes(Get(f, "Activation", "notReady") = "active")]

setFirmwareStatus(f) ==
    [f EXCEPT !.Status = IF Get(f, "Activation", "notReady") \in {"active", "activating", "ready"}
                         THEN "ok" ELSE "warning"]

setFirmwareState(f) ==
    [f EXCEPT !.State = CASE Get(f, "Activation", "notReady") = "activating"   -> "updating"
                          [] Get(f, "Activation", "notReady") = "standbySpare" -> "standbySpare"
                          [] OTHER                                             -> "enabled"]

FirmwareFields(f) == setFirmwareState(setFirmwareStatus(setUpdateable(f)))

----------------------------------------------------------------------------
(* Sensors: without the availability interface a sensor is available, and  *)
(* setAvailable writes that into the member the interface would fill.      *)
SensorShape ==
    [late |-> {"availability"}, derived |-> {"Status", "State"},
     members |-> [Available         |-> Property("availability", {"yes", "no"}),
                  CriticalAlarmHigh |-> Property("critical", {"yes", "no"}),
                  WarningAlarmHigh  |-> Property("warning", {"yes", "no"})]]

setAvailable(f) == IF f.Available = null THEN [f EXCEPT !.Available = "yes"] ELSE f

(* The entry of Status::ok lists the critical alarms and comes first.      *)
setSensorStatus(f) ==
    [f EXCEPT !.Status = CASE f.CriticalAlarmHigh = "yes" -> "ok"
                           [] f.WarningAlarmHigh = "yes"  -> "warning"
                           [] OTHER                       -> "ok"]

setSensorState(f) == [f EXCEPT !.State = IF f.Available = "yes" THEN "enabled" ELSE "absent"]

SensorFields(f) == setSensorState(setSensorStatus(setAvailable(f)))

(* DimmSMBiosProvider                                                      *)
DimmShape ==
    [late |-> {}, derived |-> {"State", "MemoryType"},
     members |-> [Manufacturer     |-> Property("asset", {"Vendor", "NO DIMM"}),
                  MemoryDeviceType |-> Property("dimm", {"dram", "logical"})]]

setMemoryType(f) ==
    [f EXCEPT !.MemoryType = IF f.MemoryDeviceType = "logical" THEN "intelOptane" ELSE "DRAM"]

DimmFields(f) ==
    [setMemoryType(f) EXCEPT !.State = IF f.Manufacturer = "NO DIMM" THEN "absent" ELSE "enabled"]

(* DomainAccounts                                                          *)
DomainAccountShape ==
    [late |-> {}, derived |-> {"Enabled"},
     members |-> [State |-> Property("enable", {"enabled", "disabled"})]]

DomainAccountFields(f) == [f EXCEPT !.Enabled = Yes(Get(f, "State", "disabled") = "enabled")]

(* CpuSMBiosProvider::setISetAndArch                                       *)
CpuShape ==
    [late |-> {}, derived |-> {"InstructionSet", "Arch"},
     members |-> [Manufacturer |-> Property("asset", {"Intel", "IBM", "Other"})]]

CpuFields(f) ==
    [f EXCEPT !.InstructionSet = CASE f.Manufacturer = "Intel" -> "x86_64"
                                   [] f.Manufacturer = "IBM"   -> "powerISA"
                                   [] OTHER                    -> "unknown",
              !.Arch = CASE f.Manufacturer = "Intel" -> "x86"
                         [] f.Manufacturer = "IBM"   -> "power"
                         [] OTHER                    -> "unknown"]

(* Baseboard::setType                                                      *)
BaseboardShape ==
    [late |-> {}, derived |-> {"Type"},
     members |-> [Model |-> Property("asset", {"Motherboard", "Riser", "Backplane", "Other"})]]

BaseboardFields(f) ==
    [f EXCEPT !.Type = CASE f.Model = "Motherboard" -> "systemBoard"
                         [] f.Model = "Backplane"   -> "backplane"
                         [] OTHER                   -> "board"]

----------------------------------------------------------------------------
(* PCIeProvider, one function: the class is replaced by a number, and what *)
(* is copied from it a second time is no string any more.                  *)
PCIeShape ==
    [late |-> {}, derived |-> {"DeviceSubClass", "DeviceClassId"},
     members |-> [DeviceClass |-> Property("pcie", {"Bridge", "Network"}),
                  ClassCode   |-> Property("pcie", {"0x060400", "0x020000"})]]

setDeviceSubClass(f) ==
    [f EXCEPT !.DeviceSubClass = IF f.DeviceClass \in {"Bridge", "Network"} THEN f.DeviceClass
                                 ELSE "N/A"]

setDeviceClassId(f) ==
    [f EXCEPT !.DeviceClassId = CASE f.ClassCode = "0x060400" -> "6"
                                  [] f.ClassCode = "0x020000" -> "2"
                                  [] OTHER                    -> "255"]

setDeviceClass(f) == [f EXCEPT !.DeviceClass = f.DeviceClassId]

PCIeFields(f) == setDeviceClass(setDeviceClassId(setDeviceSubClass(f)))

(* VirtualMedia of a proxy: the image moves from ImageURL to ExportName,   *)
(* and a second time there is nothing to move but the default of ImageURL. *)
ProxyMediaShape ==
    [late |-> {}, derived |-> {"ExportName", "ConnectionType", "TransferProtocol",
                               "OemTransferProtocol", "Active"},
     members |-> [ImageURL |-> Property("mount", {"https image", "smb image"}),
                  State    |-> Property("process", {"enabled", "standbyOffline"})]]

IsConnected(f) == Get(f, "State", "standbyOffline") = "enabled"

setConnectionType(f) ==
    [f EXCEPT !.ConnectionType = IF IsConnected(f) THEN "applet" ELSE "notConnected"]

setTransferProtocol(f) ==
    [f EXCEPT !.TransferProtocol = CASE f.ImageURL = "https image" -> "https"
                                     [] f.ImageURL = "smb image"   -> "cifs"
                                     [] OTHER                      -> "oem"]

setOemTransferProtocol(f) ==
    [f EXCEPT !.OemTransferProtocol =
        IF f.TransferProtocol = "oem" /\ f.ConnectionType # "notConnected" THEN "nbd" ELSE "absent"]

setActive(f) == [f EXCEPT !.Active = Yes(IsConnected(f))]

setImageName(f) == [f EXCEPT !.ExportName = Get(f, "ImageURL", "N/A"), !.ImageURL = null]

ProxyMediaFields(f) ==
    setImageName(setActive(setOemTransferProtocol(setTransferProtocol(setConnectionType(f)))))
=============================================================================
