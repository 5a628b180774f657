-------------------------- MODULE InstanceStateProofs --------------------------
(***************************************************************************)
(* What is proved of one instance of any class with derived members, which *)
(* a request thread initializes while the dbus thread handles signals, for *)
(* any classes of the catalogue and any numbers of changes and failures.   *)
(* The setters of each class are looked at first: they keep the            *)
(* properties, up to a default, run twice they change nothing, and what    *)
(* they derive is a function of the properties (SettersOK, proved per      *)
(* class and combined in ClassSetters). InstanceInv is the inductive       *)
(* invariant: types (PartsOK); the last signal of a property carries what  *)
(* the service has (LastIsCurrent); and, for the classes whose setters do  *)
(* not consume their input, at every place of both threads, what is        *)
(* derived already (DerivedInv) and what is current or about to be written *)
(* (CurrentInv).                                                           *)
(***************************************************************************)
EXTENDS InstanceState, TLAPS

\* What the setters leave of a property's value; they change no other.
Normal(p, v) ==
    CASE p = "Gateway" /\ v \in {null, ""} -> "0.0.0.0"
      [] p = "Available" /\ v = null       -> "yes"
      [] OTHER                             -> v

IsFunctionOn(f, S) == f = [m \in S |-> f[m]]

SameProperties(c, f, g) ==
    \A p \in Properties(c) : Normal(p, f[p]) = Normal(p, g[p])

\* They keep the members and, up to a default, the properties; run again they change
\* nothing; and what they derive depends on the properties only - but for the mask
\* of an address that is no IPv4 one, which is left as it was.
SettersOK(c) ==
    \A f, g : IsFunctionOn(f, AllMembers(c)) /\ IsFunctionOn(g, AllMembers(c)) =>
        LET d == supplementByStaticFields(c, f)
            e == supplementByStaticFields(c, g)
        IN  /\ IsFunctionOn(d, AllMembers(c))
            /\ supplementByStaticFields(c, d) = d
            /\ \A p \in Properties(c) : d[p] = Normal(p, f[p])
            /\ SameProperties(c, f, g) =>
                  \A m \in Shape[c].derived :
                      d[m] = e[m] \/ (m = "SubnetMask" /\ Get(g, "Type", "ipv4") # "ipv4")

\* One setter sets one member.
LEMMA SetOne ==
  ASSUME NEW S, NEW f, IsFunctionOn(f, S), NEW k \in S, NEW v
  PROVE  /\ IsFunctionOn([f EXCEPT ![k] = v], S)
         /\ [f EXCEPT ![k] = v][k] = v
         /\ \A m \in S : m # k => [f EXCEPT ![k] = v][m] = f[m]
<1>1. DOMAIN f = S
  BY DEF IsFunctionOn
<1> QED BY <1>1 DEF IsFunctionOn

\* Two functions on the same members are equal when their values are.
LEMMA SameFunction ==
  ASSUME NEW S, NEW f, NEW g, IsFunctionOn(f, S), IsFunctionOn(g, S),
         \A m \in S : f[m] = g[m]
  PROVE  f = g
BY DEF IsFunctionOn

\* The setters of a class are functions of its properties, as they are left.
PropertiesDecide(c) ==
    \A f, g : IsFunctionOn(f, AllMembers(c)) /\ IsFunctionOn(g, AllMembers(c)) =>
        LET d == supplementByStaticFields(c, f)
            e == supplementByStaticFields(c, g)
        IN  /\ IsFunctionOn(d, AllMembers(c))
            /\ \A p \in Properties(c) : d[p] = Normal(p, f[p])
            /\ SameProperties(c, f, g) => \A m \in Shape[c].derived : d[m] = e[m]

\* Defaults are set once.
LEMMA NormalTwice == \A p, v : Normal(p, Normal(p, v)) = Normal(p, v)
BY DEF Normal, null

\* A class whose derived members are a function of the properties is as SettersOK says.
LEMMA DecidedAreOK ==
  ASSUME NEW c, PropertiesDecide(c)
  PROVE  SettersOK(c)
<1> DEFINE D(f) == supplementByStaticFields(c, f)
           S == AllMembers(c)
<1> HIDE DEF D
<1>1. ASSUME NEW f, NEW g, IsFunctionOn(f, S), IsFunctionOn(g, S)
      PROVE  /\ IsFunctionOn(D(f), S)
             /\ \A p \in Properties(c) : D(f)[p] = Normal(p, f[p])
             /\ SameProperties(c, f, g) => \A m \in Shape[c].derived : D(f)[m] = D(g)[m]
  BY <1>1 DEF PropertiesDecide, D
<1>2. ASSUME NEW f, IsFunctionOn(f, S)
      PROVE  D(D(f)) = D(f)
  <2>1. IsFunctionOn(D(f), S) /\ IsFunctionOn(D(D(f)), S)
    BY <1>1, <1>2
  <2>2. /\ \A p \in Properties(c) : D(f)[p] = Normal(p, f[p])
        /\ \A p \in Properties(c) : D(D(f))[p] = Normal(p, D(f)[p])
    BY <1>1, <1>2, <2>1
  <2>3. SameProperties(c, D(f), f)
    BY <2>2, NormalTwice DEF SameProperties
  <2>4. \A m \in Shape[c].derived : D(D(f))[m] = D(f)[m]
    BY <1>1, <1>2, <2>1, <2>3
  <2>5. \A m \in S : D(D(f))[m] = D(f)[m]
    BY <2>2, <2>4, NormalTwice DEF AllMembers
  <2> QED BY <2>1, <2>5, SameFunction
<1> QED BY <1>1, <1>2 DEF SettersOK, D

\* The setters of an Ethernet interface.
LEMMA EthernetSetters == SettersOK("Ethernet")
<1> DEFINE D(f) == supplementByStaticFields("Ethernet", f)
           P == {"NICEnabled", "LinkUp", "DHCPEnabled", "VLANId"}
           Q == {"Kind", "State", "LinkStatus", "DHCPv4Enabled", "OperatingMode"}
           S == P \cup Q
<1>1. /\ Properties("Ethernet") = P /\ Shape["Ethernet"].derived = Q
      /\ AllMembers("Ethernet") = S
  <2>1. Shape["Ethernet"] = EthernetShape
    BY DEF Shape
  <2> QED BY <2>1 DEF Properties, Members, AllMembers, EthernetShape
<1>2. ASSUME NEW f, IsFunctionOn(f, S)
      PROVE  /\ IsFunctionOn(D(f), S)
             /\ \A p \in P : D(f)[p] = f[p]
             /\ D(f).Kind = IF f.VLANId = null THEN "physical" ELSE "vlan"
             /\ D(f).State = IF Get(f, "NICEnabled", "no") = "yes"
                             THEN "enabled" ELSE "disabled"
             /\ D(f).LinkStatus = CASE D(f).State = "disabled"           -> "noLink"
                                    [] Get(f, "LinkUp", "no") = "yes" -> "linkUp"
                                    [] OTHER                          -> "linkDown"
             /\ D(f).DHCPv4Enabled = Yes(HasDhcpV4(f))
             /\ D(f).OperatingMode = IF HasDhcpV4(f) THEN "stateful" ELSE "disabled"
  <2> DEFINE f1 == setKind(f)
             f2 == setEthernetState(f1)
             f3 == setLinkStatus(f2)
             f4 == setDHCPv4Enabled(f3)
             f5 == setOperatingMode(f4)
  <2>0. D(f) = f5
    BY DEF supplementByStaticFields, EthernetFields
  <2>1. /\ IsFunctionOn(f1, S) /\ \A m \in S : m # "Kind" => f1[m] = f[m]
        /\ f1.Kind = IF f.VLANId = null THEN "physical" ELSE "vlan"
    BY <1>2, SetOne DEF setKind
  <2> HIDE DEF f1
  <2>2. /\ IsFunctionOn(f2, S) /\ \A m \in S : m # "State" => f2[m] = f1[m]
        /\ f2.State = IF Get(f1, "NICEnabled", "no") = "yes"
                             THEN "enabled" ELSE "disabled"
    BY <2>1, SetOne DEF setEthernetState
  <2> HIDE DEF f2
  <2>3. /\ IsFunctionOn(f3, S) /\ \A m \in S : m # "LinkStatus" => f3[m] = f2[m]
        /\ f3.LinkStatus = CASE f2.State = "disabled"           -> "noLink"
                                    [] Get(f2, "LinkUp", "no") = "yes" -> "linkUp"
                                    [] OTHER                          -> "linkDown"
    BY <2>2, SetOne DEF setLinkStatus
  <2> HIDE DEF f3
  <2>4. /\ IsFunctionOn(f4, S) /\ \A m \in S : m # "DHCPv4Enabled" => f4[m] = f3[m]
        /\ f4.DHCPv4Enabled = Yes(HasDhcpV4(f3))
    BY <2>3, SetOne DEF setDHCPv4Enabled
  <2> HIDE DEF f4
  <2>5. /\ IsFunctionOn(f5, S) /\ \A m \in S : m # "OperatingMode" => f5[m] = f4[m]
        /\ f5.OperatingMode = IF HasDhcpV4(f4) THEN "stateful" ELSE "disabled"
    BY <2>4, SetOne DEF setOperatingMode
  <2> HIDE DEF f5
  <2> QED BY <2>0, <2>1, <2>2, <2>3, <2>4, <2>5 DEF Get, HasDhcpV4
<1>3. \A p \in P : \A v : Normal(p, v) = v
  BY DEF Normal
<1> HIDE DEF D
<1>4. ASSUME NEW f, NEW g, IsFunctionOn(f, S), IsFunctionOn(g, S),
             \A p \in P : f[p] = g[p]
      PROVE  \A m \in Q : D(f)[m] = D(g)[m]
  BY <1>2, <1>4 DEF Get, HasDhcpV4
<1>5. PropertiesDecide("Ethernet")
  BY <1>1, <1>2, <1>3, <1>4 DEF PropertiesDecide, SameProperties, D
<1> QED BY <1>5, DecidedAreOK

\* The setters of a firmware image.
LEMMA FirmwareSetters == SettersOK("Firmware")
<1> DEFINE D(f) == supplementByStaticFields("Firmware", f)
           P == {"Activation"}
           Q == {"Updateable", "Status", "State"}
           S == P \cup Q
<1>1. /\ Properties("Firmware") = P /\ Shape["Firmware"].derived = Q
      /\ AllMembers("Firmware") = S
  <2>1. Shape["Firmware"] = FirmwareShape
    BY DEF Shape
  <2> QED BY <2>1 DEF Properties, Members, AllMembers, FirmwareShape
<1>2. ASSUME NEW f, IsFunctionOn(f, S)
      PROVE  /\ IsFunctionOn(D(f), S) /\ D(f).Activation = f.Activation
             /\ D(f).Updateable = Yes(Get(f, "Activation", "notReady") = "active")
             /\ D(f).Status = IF Get(f, "Activation", "notReady")
                                    \in {"active", "activating", "ready"}
                              THEN "ok" ELSE "warning"
             /\ D(f).State =
                    CASE Get(f, "Activation", "notReady") = "activating"   -> "updating"
                      [] Get(f, "Activation", "notReady") = "standbySpare" -> "standbySpare"
                      [] OTHER                                             -> "enabled"
  <2> DEFINE f1 == setUpdateable(f)
             f2 == setFirmwareStatus(f1)
             f3 == setFirmwareState(f2)
  <2>1. /\ IsFunctionOn(f1, S) /\ \A m \in S : m # "Updateable" => f1[m] = f[m]
        /\ f1.Updateable = Yes(Get(f, "Activation", "notReady") = "active")
    BY <1>2, SetOne DEF setUpdateable
  <2> HIDE DEF f1
  <2>2. /\ IsFunctionOn(f2, S) /\ \A m \in S : m # "Status" => f2[m] = f1[m]
        /\ f2.Status = IF Get(f1, "Activation", "notReady")
                                    \in {"active", "activating", "ready"}
                       THEN "ok" ELSE "warning"
    BY <2>1, SetOne DEF setFirmwareStatus
  <2> HIDE DEF f2
  <2>3. /\ IsFunctionOn(f3, S) /\ \A m \in S : m # "State" => f3[m] = f2[m]
        /\ f3.State =
                CASE Get(f2, "Activation", "notReady") = "activating"   -> "updating"
                  [] Get(f2, "Activation", "notReady") = "standbySpare" -> "standbySpare"
                  [] OTHER                                              -> "enabled"
    BY <2>2, SetOne DEF setFirmwareState
  <2>4. D(f) = f3
    BY DEF supplementByStaticFields, FirmwareFields, f1, f2
  <2> HIDE DEF f3, D
  <2>5. /\ f1.Activation = f.Activation /\ f2.Activation = f.Activation
        /\ f3.Activation = f.Activation /\ f3.Status = f2.Status
        /\ f3.Updateable = f1.Updateable
    BY <2>1, <2>2, <2>3
  <2> QED BY <2>1, <2>2, <2>3, <2>4, <2>5 DEF Get
<1>3. \A v : Normal("Activation", v) = v
  BY DEF Normal
<1> HIDE DEF D
<1>4. ASSUME NEW f, NEW g, IsFunctionOn(f, S), IsFunctionOn(g, S),
             f.Activation = g.Activation
      PROVE  \A m \in Q : D(f)[m] = D(g)[m]
  BY <1>2, <1>4 DEF Get
<1>5. PropertiesDecide("Firmware")
  BY <1>1, <1>2, <1>3, <1>4 DEF PropertiesDecide, SameProperties, D
<1> QED BY <1>5, DecidedAreOK

\* The setters of a sensor.
LEMMA SensorSetters == SettersOK("Sensors")
<1> DEFINE D(f) == supplementByStaticFields("Sensors", f)
           P == {"Available", "CriticalAlarmHigh", "WarningAlarmHigh"}
           Q == {"Status", "State"}
           S == P \cup Q
<1>1. /\ Properties("Sensors") = P /\ Shape["Sensors"].derived = Q
      /\ AllMembers("Sensors") = S
  <2>1. Shape["Sensors"] = SensorShape
    BY DEF Shape
  <2> QED BY <2>1 DEF Properties, Members, AllMembers, SensorShape
<1>2. ASSUME NEW f, IsFunctionOn(f, S)
      PROVE  /\ IsFunctionOn(D(f), S)
             /\ \A p \in P : D(f)[p] = Normal(p, f[p])
             /\ D(f).Status = CASE f.CriticalAlarmHigh = "yes" -> "ok"
                                [] f.WarningAlarmHigh = "yes"  -> "warning"
                                [] OTHER                       -> "ok"
             /\ D(f).State = IF Normal("Available", f.Available) = "yes"
                             THEN "enabled" ELSE "absent"
  <2> DEFINE f1 == setAvailable(f)
             f2 == setSensorStatus(f1)
             f3 == setSensorState(f2)
  <2>1. /\ IsFunctionOn(f1, S) /\ \A m \in S : m # "Available" => f1[m] = f[m]
        /\ f1.Available = Normal("Available", f.Available)
    BY <1>2, SetOne DEF setAvailable, Normal, null
  <2> HIDE DEF f1
  <2>2. /\ IsFunctionOn(f2, S) /\ \A m \in S : m # "Status" => f2[m] = f1[m]
        /\ f2.Status = CASE f1.CriticalAlarmHigh = "yes" -> "ok"
                         [] f1.WarningAlarmHigh = "yes"  -> "warning"
                         [] OTHER                       -> "ok"
    BY <2>1, SetOne DEF setSensorStatus
  <2> HIDE DEF f2
  <2>3. /\ IsFunctionOn(f3, S) /\ \A m \in S : m # "State" => f3[m] = f2[m]
        /\ f3.State = IF f2.Available = "yes" THEN "enabled" ELSE "absent"
    BY <2>2, SetOne DEF setSensorState
  <2>4. D(f) = f3
    BY DEF supplementByStaticFields, SensorFields, f1, f2
  <2> HIDE DEF f3, D
  <2>5. \A p \in P : p # "Available" => Normal(p, f[p]) = f[p]
    BY DEF Normal
  <2> QED BY <2>1, <2>2, <2>3, <2>4, <2>5
<1>3. \A v : /\ Normal("CriticalAlarmHigh", v) = v
             /\ Normal("WarningAlarmHigh", v) = v
  BY DEF Normal
<1> HIDE DEF D
<1>4. ASSUME NEW f, NEW g, IsFunctionOn(f, S), IsFunctionOn(g, S),
             \A p \in P : Normal(p, f[p]) = Normal(p, g[p])
      PROVE  \A m \in Q : D(f)[m] = D(g)[m]
  BY <1>2, <1>3, <1>4
<1>5. PropertiesDecide("Sensors")
  BY <1>1, <1>2, <1>4 DEF PropertiesDecide, SameProperties, D
<1> QED BY <1>5, DecidedAreOK

\* The setters of the BMC manager.
LEMMA BmcManagerSetters == SettersOK("BmcManager")
<1> DEFINE D(f) == supplementByStaticFields("BmcManager", f)
           P == {"CurrentBMCState", "RequestedBMCTransition"}
           S == P \cup {"PowerState"}
           Calc(now, next) ==
                LET matches == {x \in powerStatesCalc :
                                    x.state = now /\ x.transition = next}
                IN  IF matches = {} THEN "poweringOn"
                    ELSE (CHOOSE x \in matches : TRUE).power
           V(f) == Calc(Get(f, "CurrentBMCState", "notReady"),
                        Get(f, "RequestedBMCTransition", "none"))
<1>1. /\ Properties("BmcManager") = P /\ Shape["BmcManager"].derived = {"PowerState"}
      /\ AllMembers("BmcManager") = S
  <2>1. Shape["BmcManager"] = BmcManagerShape
    BY DEF Shape
  <2>2. Shape["BmcManager"].derived = {"PowerState"}
    BY <2>1 DEF BmcManagerShape
  <2>3. Properties("BmcManager") = P
    BY <2>1 DEF Properties, Members, BmcManagerShape, Property
  <2> QED BY <2>2, <2>3 DEF AllMembers
<1>2. \A f : D(f) = [f EXCEPT !.PowerState = V(f)]
  BY DEF supplementByStaticFields, BmcManagerFields
<1> HIDE DEF Calc
<1>3. \A p \in P : \A v : Normal(p, v) = v
  BY DEF Normal
<1>4. ASSUME NEW f, NEW g, \A p \in P : f[p] = g[p]
      PROVE  V(f) = V(g)
  BY <1>4 DEF Get
<1> HIDE DEF D, V
<1>5. ASSUME NEW f, IsFunctionOn(f, S)
      PROVE  /\ IsFunctionOn(D(f), S) /\ D(f).PowerState = V(f)
             /\ \A p \in P : D(f)[p] = f[p]
  <2> DEFINE f1 == [f EXCEPT !.PowerState = V(f)]
  <2>1. /\ IsFunctionOn(f1, S) /\ f1.PowerState = V(f)
        /\ \A p \in P : f1[p] = f[p]
    BY <1>5, SetOne
  <2>2. D(f) = f1
    BY <1>2
  <2> HIDE DEF f1
  <2> QED BY <2>1, <2>2
<1>6. ASSUME NEW f, NEW g, SameProperties("BmcManager", f, g)
      PROVE  V(f) = V(g)
  BY <1>1, <1>3, <1>4, <1>6 DEF SameProperties
<1>7. PropertiesDecide("BmcManager")
  BY <1>1, <1>3, <1>5, <1>6 DEF PropertiesDecide, D
<1> QED BY <1>7, DecidedAreOK

\* The setters of the state of the chassis.
LEMMA ChassisStateSetters == SettersOK("ChassisState")
<1> DEFINE D(f) == supplementByStaticFields("ChassisState", f)
           P == {"PowerState"}
           S == P \cup {"State"}
           V(f) == IF Get(f, "PowerState", "off") = "on" THEN "enabled"
                   ELSE "standbyOffline"
<1>1. /\ Properties("ChassisState") = P /\ Shape["ChassisState"].derived = {"State"}
      /\ AllMembers("ChassisState") = S
  <2>1. Shape["ChassisState"] = ChassisStateShape
    BY DEF Shape
  <2>2. Shape["ChassisState"].derived = {"State"}
    BY <2>1 DEF ChassisStateShape
  <2>3. Properties("ChassisState") = P
    BY <2>1 DEF Properties, Members, ChassisStateShape, Property
  <2> QED BY <2>2, <2>3 DEF AllMembers
<1>2. \A f : D(f) = [f EXCEPT !.State = V(f)]
  BY DEF supplementByStaticFields, ChassisStateFields
<1>3. \A p \in P : \A v : Normal(p, v) = v
  BY DEF Normal
<1>4. ASSUME NEW f, NEW g, \A p \in P : f[p] = g[p]
      PROVE  V(f) = V(g)
  BY <1>4 DEF Get
<1> HIDE DEF D, V
<1>5. ASSUME NEW f, IsFunctionOn(f, S)
      PROVE  /\ IsFunctionOn(D(f), S) /\ D(f).State = V(f)
             /\ \A p \in P : D(f)[p] = f[p]
  <2> DEFINE f1 == [f EXCEPT !.State = V(f)]
  <2>1. /\ IsFunctionOn(f1, S) /\ f1.State = V(f)
        /\ \A p \in P : f1[p] = f[p]
    BY <1>5, SetOne
  <2>2. D(f) = f1
    BY <1>2
  <2> HIDE DEF f1
  <2> QED BY <2>1, <2>2
<1>6. PropertiesDecide("ChassisState")
  BY <1>1, <1>3, <1>4, <1>5 DEF PropertiesDecide, SameProperties, D
<1> QED BY <1>6, DecidedAreOK

\* The setters of a domain account.
LEMMA DomainAccountSetters == SettersOK("DomainAccounts")
<1> DEFINE D(f) == supplementByStaticFields("DomainAccounts", f)
           P == {"State"}
           S == P \cup {"Enabled"}
           V(f) == Yes(Get(f, "State", "disabled") = "enabled")
<1>1. /\ Properties("DomainAccounts") = P /\ Shape["DomainAccounts"].derived = {"Enabled"}
      /\ AllMembers("DomainAccounts") = S
  <2>1. Shape["DomainAccounts"] = DomainAccountShape
    BY DEF Shape
  <2>2. Shape["DomainAccounts"].derived = {"Enabled"}
    BY <2>1 DEF DomainAccountShape
  <2>3. Properties("DomainAccounts") = P
    BY <2>1 DEF Properties, Members, DomainAccountShape, Property
  <2> QED BY <2>2, <2>3 DEF AllMembers
<1>2. \A f : D(f) = [f EXCEPT !.Enabled = V(f)]
  BY DEF supplementByStaticFields, DomainAccountFields
<1>3. \A p \in P : \A v : Normal(p, v) = v
  BY DEF Normal
<1>4. ASSUME NEW f, NEW g, \A p \in P : f[p] = g[p]
      PROVE  V(f) = V(g)
  BY <1>4 DEF Get
<1> HIDE DEF D, V
<1>5. ASSUME NEW f, IsFunctionOn(f, S)
      PROVE  /\ IsFunctionOn(D(f), S) /\ D(f).Enabled = V(f)
             /\ \A p \in P : D(f)[p] = f[p]
  <2> DEFINE f1 == [f EXCEPT !.Enabled = V(f)]
  <2>1. /\ IsFunctionOn(f1, S) /\ f1.Enabled = V(f)
        /\ \A p \in P : f1[p] = f[p]
    BY <1>5, SetOne
  <2>2. D(f) = f1
    BY <1>2
  <2> HIDE DEF f1
  <2> QED BY <2>1, <2>2
<1>6. PropertiesDecide("DomainAccounts")
  BY <1>1, <1>3, <1>4, <1>5 DEF PropertiesDecide, SameProperties, D
<1> QED BY <1>6, DecidedAreOK

\* The setters of the baseboard.
LEMMA BaseboardSetters == SettersOK("Baseboard")
<1> DEFINE D(f) == supplementByStaticFields("Baseboard", f)
           P == {"Model"}
           S == P \cup {"Type"}
           V(f) == CASE f.Model = "Motherboard" -> "systemBoard"
                     [] f.Model = "Backplane"   -> "backplane"
                     [] OTHER                   -> "board"
<1>1. /\ Properties("Baseboard") = P /\ Shape["Baseboard"].derived = {"Type"}
      /\ AllMembers("Baseboard") = S
  <2>1. Shape["Baseboard"] = BaseboardShape
    BY DEF Shape
  <2>2. Shape["Baseboard"].derived = {"Type"}
    BY <2>1 DEF BaseboardShape
  <2>3. Properties("Baseboard") = P
    BY <2>1 DEF Properties, Members, BaseboardShape, Property
  <2> QED BY <2>2, <2>3 DEF AllMembers
<1>2. \A f : D(f) = [f EXCEPT !.Type = V(f)]
  BY DEF supplementByStaticFields, BaseboardFields
<1>3. \A p \in P : \A v : Normal(p, v) = v
  BY DEF Normal
<1>4. ASSUME NEW f, NEW g, \A p \in P : f[p] = g[p]
      PROVE  V(f) = V(g)
  BY <1>4 DEF Get
<1> HIDE DEF D, V
<1>5. ASSUME NEW f, IsFunctionOn(f, S)
      PROVE  /\ IsFunctionOn(D(f), S) /\ D(f).Type = V(f)
             /\ \A p \in P : D(f)[p] = f[p]
  <2> DEFINE f1 == [f EXCEPT !.Type = V(f)]
  <2>1. /\ IsFunctionOn(f1, S) /\ f1.Type = V(f)
        /\ \A p \in P : f1[p] = f[p]
    BY <1>5, SetOne
  <2>2. D(f) = f1
    BY <1>2
  <2> HIDE DEF f1
  <2> QED BY <2>1, <2>2
<1>6. PropertiesDecide("Baseboard")
  BY <1>1, <1>3, <1>4, <1>5 DEF PropertiesDecide, SameProperties, D
<1> QED BY <1>6, DecidedAreOK

\* The setters of the power of the host.
LEMMA HostPowerSetters == SettersOK("HostPower")
<1> DEFINE D(f) == supplementByStaticFields("HostPower", f)
           P == {"raw_dbus_status"}
           S == P \cup {"PowerState", "Status"}
           V(f) == (IF f.raw_dbus_status \in DOMAIN hostStates
                    THEN hostStates[f.raw_dbus_status] ELSE hostStates.Off)[1]
           W(f) == (IF f.raw_dbus_status \in DOMAIN hostStates
                    THEN hostStates[f.raw_dbus_status] ELSE hostStates.Off)[2]
<1>1. /\ Properties("HostPower") = P /\ Shape["HostPower"].derived = {"PowerState", "Status"}
      /\ AllMembers("HostPower") = S
  <2>1. Shape["HostPower"] = HostPowerShape
    BY DEF Shape
  <2>2. Shape["HostPower"].derived = {"PowerState", "Status"}
    BY <2>1 DEF HostPowerShape
  <2>3. Properties("HostPower") = P
    BY <2>1 DEF Properties, Members, HostPowerShape, Property
  <2> QED BY <2>2, <2>3 DEF AllMembers
<1>2. \A f : D(f) = [[f EXCEPT !.PowerState = V(f)] EXCEPT !.Status = W(f)]
  BY DEF supplementByStaticFields, HostPowerFields
<1>3. \A p \in P : \A v : Normal(p, v) = v
  BY DEF Normal
<1>4. ASSUME NEW f, NEW g, \A p \in P : f[p] = g[p]
      PROVE  V(f) = V(g) /\ W(f) = W(g)
  BY <1>4
<1> HIDE DEF D, V, W
<1>5. ASSUME NEW f, IsFunctionOn(f, S)
      PROVE  /\ IsFunctionOn(D(f), S) /\ D(f).PowerState = V(f) /\ D(f).Status = W(f)
             /\ \A p \in P : D(f)[p] = f[p]
  <2> DEFINE f1 == [f EXCEPT !.PowerState = V(f)]
  <2>1. /\ IsFunctionOn(f1, S) /\ f1.PowerState = V(f)
        /\ \A p \in P : f1[p] = f[p]
    BY <1>5, SetOne
  <2>2. D(f) = [f1 EXCEPT !.Status = W(f)]
    BY <1>2
  <2> HIDE DEF f1
  <2> QED BY <2>1, <2>2, SetOne
<1>6. PropertiesDecide("HostPower")
  BY <1>1, <1>3, <1>4, <1>5 DEF PropertiesDecide, SameProperties, D
<1> QED BY <1>6, DecidedAreOK

\* The setters of a processor.
LEMMA CpuSetters == SettersOK("Cpu")
<1> DEFINE D(f) == supplementByStaticFields("Cpu", f)
           P == {"Manufacturer"}
           S == P \cup {"InstructionSet", "Arch"}
           V(f) == CASE f.Manufacturer = "Intel" -> "x86_64"
                     [] f.Manufacturer = "IBM"   -> "powerISA"
                     [] OTHER                    -> "unknown"
           W(f) == CASE f.Manufacturer = "Intel" -> "x86"
                     [] f.Manufacturer = "IBM"   -> "power"
                     [] OTHER                    -> "unknown"
<1>1. /\ Properties("Cpu") = P /\ Shape["Cpu"].derived = {"InstructionSet", "Arch"}
      /\ AllMembers("Cpu") = S
  <2>1. Shape["Cpu"] = CpuShape
    BY DEF Shape
  <2>2. Shape["Cpu"].derived = {"InstructionSet", "Arch"}
    BY <2>1 DEF CpuShape
  <2>3. Properties("Cpu") = P
    BY <2>1 DEF Properties, Members, CpuShape, Property
  <2> QED BY <2>2, <2>3 DEF AllMembers
<1>2. \A f : D(f) = [[f EXCEPT !.InstructionSet = V(f)] EXCEPT !.Arch = W(f)]
  BY DEF supplementByStaticFields, CpuFields
<1>3. \A p \in P : \A v : Normal(p, v) = v
  BY DEF Normal
<1>4. ASSUME NEW f, NEW g, \A p \in P : f[p] = g[p]
      PROVE  V(f) = V(g) /\ W(f) = W(g)
  BY <1>4
<1> HIDE DEF D, V, W
<1>5. ASSUME NEW f, IsFunctionOn(f, S)
      PROVE  /\ IsFunctionOn(D(f), S) /\ D(f).InstructionSet = V(f) /\ D(f).Arch = W(f)
             /\ \A p \in P : D(f)[p] = f[p]
  <2> DEFINE f1 == [f EXCEPT !.InstructionSet = V(f)]
  <2>1. /\ IsFunctionOn(f1, S) /\ f1.InstructionSet = V(f)
        /\ \A p \in P : f1[p] = f[p]
    BY <1>5, SetOne
  <2>2. D(f) = [f1 EXCEPT !.Arch = W(f)]
    BY <1>2
  <2> HIDE DEF f1
  <2> QED BY <2>1, <2>2, SetOne
<1>6. PropertiesDecide("Cpu")
  BY <1>1, <1>3, <1>4, <1>5 DEF PropertiesDecide, SameProperties, D
<1> QED BY <1>6, DecidedAreOK

\* The setters of a memory module.
LEMMA DimmSetters == SettersOK("Dimm")
<1> DEFINE D(f) == supplementByStaticFields("Dimm", f)
           P == {"Manufacturer", "MemoryDeviceType"}
           S == P \cup {"MemoryType", "State"}
           V(f) == IF f.MemoryDeviceType = "logical" THEN "intelOptane"
                   ELSE "DRAM"
           W(f) == IF f.Manufacturer = "NO DIMM" THEN "absent" ELSE "enabled"
<1>1. /\ Properties("Dimm") = P /\ Shape["Dimm"].derived = {"MemoryType", "State"}
      /\ AllMembers("Dimm") = S
  <2> DEFINE shape == Shape["Dimm"]
  <2>1. shape = DimmShape
    BY DEF Shape
  <2> HIDE DEF shape
  <2>2. shape.derived = {"MemoryType", "State"} /\ DOMAIN shape.members = P
    BY <2>1 DEF DimmShape
  <2>3. Shape["Dimm"].derived = {"MemoryType", "State"} /\ Properties("Dimm") = P
    BY <2>2 DEF shape, Properties, Members
  <2> QED BY <2>3 DEF AllMembers
<1>2. \A f : D(f) = [[f EXCEPT !.MemoryType = V(f)] EXCEPT !.State = W(f)]
  BY DEF supplementByStaticFields, DimmFields, setMemoryType
<1>3. \A p \in P : \A v : Normal(p, v) = v
  BY DEF Normal
<1>4. ASSUME NEW f, NEW g, \A p \in P : f[p] = g[p]
      PROVE  V(f) = V(g) /\ W(f) = W(g)
  BY <1>4
<1> HIDE DEF D, V, W
<1>5. ASSUME NEW f, IsFunctionOn(f, S)
      PROVE  /\ IsFunctionOn(D(f), S) /\ D(f).MemoryType = V(f) /\ D(f).State = W(f)
             /\ \A p \in P : D(f)[p] = f[p]
  <2> DEFINE f1 == [f EXCEPT !.MemoryType = V(f)]
  <2>1. /\ IsFunctionOn(f1, S) /\ f1.MemoryType = V(f)
        /\ \A p \in P : f1[p] = f[p]
    BY <1>5, SetOne
  <2>2. D(f) = [f1 EXCEPT !.State = W(f)]
    BY <1>2
  <2> HIDE DEF f1
  <2> QED BY <2>1, <2>2, SetOne
<1>6. PropertiesDecide("Dimm")
  BY <1>1, <1>3, <1>4, <1>5 DEF PropertiesDecide, SameProperties, D
<1> QED BY <1>6, DecidedAreOK

\* The mask of an address is left alone when the address is an IPv6 one.
LEMMA IPSetters == SettersOK("IP")
<1> DEFINE D(f) == supplementByStaticFields("IP", f)
           P == {"Type", "PrefixLength", "Gateway"}
           S == P \cup {"SubnetMask"}
           V4(f) == Get(f, "Type", "ipv4") = "ipv4"
<1>1. /\ Properties("IP") = P /\ Shape["IP"].derived = {"SubnetMask"}
      /\ AllMembers("IP") = S
  <2> DEFINE shape == Shape["IP"]
  <2>1. shape = IPShape
    BY DEF Shape
  <2> HIDE DEF shape
  <2>2. shape.derived = {"SubnetMask"} /\ DOMAIN shape.members = P
    BY <2>1 DEF IPShape
  <2>3. Shape["IP"].derived = {"SubnetMask"} /\ Properties("IP") = P
    BY <2>2 DEF shape, Properties, Members
  <2> QED BY <2>3 DEF AllMembers
<1>2. ASSUME NEW f, IsFunctionOn(f, S)
      PROVE  /\ IsFunctionOn(D(f), S)
             /\ \A p \in P : D(f)[p] = Normal(p, f[p])
             /\ D(f).SubnetMask = IF V4(f) THEN Get(f, "PrefixLength", "0")
                                  ELSE f.SubnetMask
  <2> DEFINE f1 == setSubnetMask(f)
             f2 == setGateway(f1)
  <2>1. /\ IsFunctionOn(f1, S) /\ \A p \in P : f1[p] = f[p]
        /\ f1.SubnetMask = IF V4(f) THEN Get(f, "PrefixLength", "0")
                           ELSE f.SubnetMask
    BY <1>2, SetOne DEF setSubnetMask
  <2> HIDE DEF f1
  <2>2. /\ IsFunctionOn(f2, S) /\ \A m \in S : m # "Gateway" => f2[m] = f1[m]
        /\ f2.Gateway = Normal("Gateway", f1.Gateway)
    <3>1. CASE f1.Gateway \in {null, ""}
      <4>1. f2 = [f1 EXCEPT !.Gateway = "0.0.0.0"]
        BY <3>1 DEF setGateway
      <4>2. Normal("Gateway", f1.Gateway) = "0.0.0.0"
        BY <3>1 DEF Normal
      <4> QED BY <2>1, <4>1, <4>2, SetOne
    <3>2. CASE f1.Gateway \notin {null, ""}
      BY <2>1, <3>2 DEF setGateway, Normal
    <3> QED BY <3>1, <3>2
  <2>3. D(f) = f2
    BY DEF supplementByStaticFields, IPFields, f1
  <2>4. \A p \in P : p # "Gateway" => Normal(p, f[p]) = f[p]
    BY DEF Normal
  <2> HIDE DEF f2, D
  <2> QED BY <2>1, <2>2, <2>3, <2>4
<1>3. \A v : Normal("Type", v) = v /\ Normal("PrefixLength", v) = v
  BY DEF Normal
<1> HIDE DEF D
<1>4. ASSUME NEW f, NEW g, IsFunctionOn(f, S), IsFunctionOn(g, S),
             \A p \in P : Normal(p, f[p]) = Normal(p, g[p])
      PROVE  V4(g) => D(f).SubnetMask = D(g).SubnetMask
  BY <1>2, <1>3, <1>4 DEF Get
<1>5. ASSUME NEW f, IsFunctionOn(f, S)
      PROVE  D(D(f)) = D(f)
  <2>1. \A m \in S : D(D(f))[m] = D(f)[m]
    BY <1>2, <1>3, <1>5, NormalTwice DEF Get
  <2> QED BY <1>2, <1>5, <2>1, SameFunction
<1> QED BY <1>1, <1>2, <1>4, <1>5 DEF SettersOK, SameProperties, D

\* The setters of every class but those that consume what they derive from.
LEMMA ClassSetters ==
  ASSUME NEW c \in DOMAIN Shape, c \notin Consuming
  PROVE  SettersOK(c)
<1>1. c \in {"Ethernet", "IP", "BmcManager", "HostPower", "ChassisState", "Firmware",
             "Sensors", "Dimm", "DomainAccounts", "Cpu", "Baseboard", "PCIe",
             "ProxyMedia"}
  BY DEF Shape
<1> QED
  BY <1>1, EthernetSetters, IPSetters, BmcManagerSetters, HostPowerSetters,
     ChassisStateSetters, FirmwareSetters, SensorSetters, DimmSetters,
     DomainAccountSetters, CpuSetters, BaseboardSetters DEF Consuming

-----------------------------------------------------------------------------
(* The invariant *)

\* Work of either thread: a record of these four.
IsWork(w) == w = [pc |-> w.pc, todo |-> w.todo, values |-> w.values, errors |-> w.errors]

Values == UNION {Members(class)[p].values : p \in Properties(class)}
SignalType == [is : {"changed"}, values : UNION {[{p} -> Values] : p \in Properties(class)}]
                \cup {[is |-> "added", values |-> <<>>]}

Iface(p) == Members(class)[p].iface

\* The types of InstanceTypeOK, with what their proof needs of the parts.
PartsOK ==
    /\ InstanceTypeOK
    /\ IsWork(filler) /\ IsWork(handler)
    /\ IsFunctionOn(fields, AllMembers(class))
    /\ service \in [Properties(class) -> Values]
    /\ \A p \in Properties(class) : service[p] \in Members(class)[p].values
    /\ signals \in Seq(SignalType)

\* As long as the two threads did not meet, what is about to be written has
\* been derived from the members as they are.
DerivedInv ==
    ~mixed =>
        /\ handler = Idle \/ filler = Idle
        /\ \A w \in {filler, handler} :
              w.pc = "write" =>
                  w.values = <<fields, supplementByStaticFields(class, fields)>>
        /\ AtRest => fields = supplementByStaticFields(class, fields)

\* A signal that is not delivered yet brings p.
Carries(n, p) == signals[n].is = "changed" /\ p \in DOMAIN signals[n].values
Awaited(p) == \E n \in 1..Len(signals) : Carries(n, p)

\* Only watched properties are signalled, and the last signal has the value
\* the service has.
LastIsCurrent ==
    \A p \in Properties(class) : \A n \in 1..Len(signals) : Carries(n, p) =>
        /\ Iface(p) \in watched
        /\ (\A k \in 1..Len(signals) : k > n => ~Carries(k, p)) =>
                signals[n].values[p] = service[p]

\* The member has what the service has, as the setters leave it.
Shows(p) == Normal(p, fields[p]) = Normal(p, FromService[p])

\* A request goes on that has had no error and is done with p.
Fetched(p) ==
    /\ filler.pc \in {"fetch", "fill", "write"} /\ ~filler.errors
    /\ Iface(p) \notin filler.todo
    /\ ~(filler.pc = "fill" /\ p \in DOMAIN filler.values)

\* Nothing is asked for, or all that was asked for has been filled in.
Known(p) ==
    \/ Iface(p) \notin target
    \/ /\ Iface(p) \notin unseen /\ ~Awaited(p)
       /\ state \/ Fetched(p)

\* As long as the two threads did not meet, what is known of a property is what
\* the service has, and what a call has brought is, unless a signal follows.
CurrentInv ==
    ~mixed =>
        /\ state => filler.pc \in {"idle", "bind"}
        /\ filler.pc = "write" => filler.todo = {}
        /\ filler.pc = "fill" =>
              /\ DOMAIN filler.values \subseteq
                    {p \in Properties(class) : Iface(p) \in target}
              /\ \A p \in DOMAIN filler.values :
                    Iface(p) \notin unseen /\ ~Awaited(p) =>
                        filler.values[p] = service[p]
        /\ \A p \in Properties(class) : Known(p) => Shows(p)

InstanceInv ==
    /\ PartsOK
    /\ LastIsCurrent
    /\ class \notin Consuming => DerivedInv /\ CurrentInv

-----------------------------------------------------------------------------
(* Types *)

\* An interface that is added later is one of the class.
LEMMA LateAreInterfaces ==
  ASSUME NEW c \in DOMAIN Shape
  PROVE  Shape[c].late \subseteq Interfaces(c)
<1>1. CASE c = "Ethernet"
  <2>1. Shape[c] = EthernetShape
    BY <1>1 DEF Shape
  <2>2. /\ Shape[c].late = {"vlan"} /\ "VLANId" \in Properties(c)
        /\ Members(c)["VLANId"].iface = "vlan"
    BY <2>1 DEF EthernetShape, Properties, Members, Property
  <2> QED BY <2>2 DEF Interfaces
<1>2. CASE c = "Sensors"
  <2>1. Shape[c] = SensorShape
    BY <1>2 DEF Shape
  <2>2. /\ Shape[c].late = {"availability"} /\ "Available" \in Properties(c)
        /\ Members(c)["Available"].iface = "availability"
    BY <2>1 DEF SensorShape, Properties, Members, Property
  <2> QED BY <2>2 DEF Interfaces
<1>3. CASE c \notin {"Ethernet", "Sensors"}
  <2> DEFINE shape == Shape[c]
  <2>1. shape \in {IPShape, BmcManagerShape, HostPowerShape, ChassisStateShape,
                   FirmwareShape, DimmShape, DomainAccountShape, CpuShape,
                   BaseboardShape, PCIeShape, ProxyMediaShape}
    BY <1>3 DEF Shape
  <2> HIDE DEF shape
  <2>2. /\ IPShape.late = {} /\ BmcManagerShape.late = {} /\ HostPowerShape.late = {}
        /\ ChassisStateShape.late = {} /\ FirmwareShape.late = {}
    BY DEF IPShape, BmcManagerShape, HostPowerShape, ChassisStateShape, FirmwareShape
  <2>3. /\ DimmShape.late = {} /\ DomainAccountShape.late = {} /\ CpuShape.late = {}
        /\ BaseboardShape.late = {} /\ PCIeShape.late = {} /\ ProxyMediaShape.late = {}
    BY DEF DimmShape, DomainAccountShape, CpuShape, BaseboardShape, PCIeShape,
           ProxyMediaShape
  <2>4. shape.late = {}
    BY <2>1, <2>2, <2>3
  <2> QED BY <2>4 DEF shape
<1> QED BY <1>1, <1>2, <1>3

\* What a signal is.
LEMMA SignalsAre ==
  ASSUME NEW s \in SignalType
  PROVE  /\ s.is \in {"changed", "added"}
         /\ s.is = "changed" => DOMAIN s.values \subseteq Properties(class)
<1>1. CASE s = [is |-> "added", values |-> <<>>]
  BY <1>1
<1>2. CASE s \in [is : {"changed"},
                  values : UNION {[{p} -> Values] : p \in Properties(class)}]
  <2>1. s.is = "changed"
    BY <1>2
  <2>2. PICK p \in Properties(class) : s.values \in [{p} -> Values]
    BY <1>2
  <2> QED BY <2>1, <2>2
<1> QED BY <1>1, <1>2 DEF SignalType

\* What the type of the queue says of each signal.
LEMMA SignalsTyped ==
  ASSUME NEW q \in Seq(SignalType)
  PROVE  \A n \in DOMAIN q : q[n].is \in {"changed", "added"}
<1>1. \A n \in DOMAIN q : q[n] \in SignalType
  OBVIOUS
<1> QED BY <1>1, SignalsAre

\* The types hold at first,
LEMMA PartsInit == Init => PartsOK
<1> SUFFICES ASSUME Init PROVE PartsOK
  OBVIOUS
<1>1. /\ IsWork(Idle) /\ IsWork(filler) /\ filler.pc = "fetch"
      /\ filler.todo = target /\ filler.errors = FALSE
      /\ handler = Idle /\ Idle.pc = "idle"
  BY DEF Init, Idle, IsWork
<1>2. /\ IsFunctionOn(fields, AllMembers(class)) /\ DOMAIN fields = AllMembers(class)
  BY DEF Init, IsFunctionOn
<1>3. /\ service \in [Properties(class) -> Values]
      /\ \A p \in Properties(class) : service[p] \in Members(class)[p].values
      /\ signals = <<>> /\ signals \in Seq(SignalType)
  BY DEF Init, Values
<1>4. 0 \in 0..MaxChanges /\ 0 \in 0..MaxFailures
  BY ClassesAssumption
<1>5. /\ class \in Classes /\ state = FALSE /\ mixed = FALSE /\ unseen = {}
      /\ watched = {} /\ changes = 0 /\ failures = 0
      /\ exported \subseteq Interfaces(class) /\ target = exported
      /\ DOMAIN service = Properties(class)
  BY DEF Init
<1>6. InstanceTypeOK
  <2>1. \A n \in DOMAIN signals : signals[n].is \in {"changed", "added"}
    BY <1>3, SignalsTyped
  <2>2. {state, mixed, filler.errors} \subseteq BOOLEAN
    BY <1>1, <1>5
  <2> QED BY <1>1, <1>2, <1>4, <1>5, <2>1, <2>2 DEF InstanceTypeOK
<1> QED BY <1>1, <1>2, <1>3, <1>6 DEF PartsOK

\* The steps of a request.
LEMMA RequestParts ==
  ASSUME PartsOK,
         \/ VerifyState \/ FillMembers \/ Derive \/ EndInitialize \/ BindListeners
         \/ \E i \in target : QueryProperties(i) \/ QueryFails(i)
  PROVE  PartsOK'
<1>1. /\ UNCHANGED <<class, exported, service, target, signals, handler, changes>>
      /\ IsWork(filler) /\ InstanceTypeOK
  BY DEF VerifyState, FillMembers, Derive, EndInitialize, BindListeners,
         QueryProperties, QueryFails, PartsOK
<1>2. /\ IsWork(filler') /\ filler'.pc \in {"idle", "fetch", "fill", "write", "bind"}
      /\ filler'.todo \subseteq target /\ filler'.errors \in BOOLEAN
  <2>1. CASE VerifyState \/ EndInitialize \/ BindListeners
    <3>1. \/ \E step \in {"bind", "idle"} : filler' = [Idle EXCEPT !.pc = step]
          \/ filler' = Idle
          \/ filler' = [Idle EXCEPT !.pc = "fetch", !.todo = target]
      BY <2>1 DEF VerifyState, EndInitialize, BindListeners
    <3>2. IsWork(Idle) /\ Idle.pc = "idle" /\ Idle.todo = {} /\ Idle.errors = FALSE
      BY DEF Idle, IsWork
    <3> QED BY <3>1, <3>2 DEF IsWork
  <2>2. CASE FillMembers \/ Derive
    BY <1>1, <2>2 DEF FillMembers, Derive, IsWork, InstanceTypeOK
  <2>3. ASSUME NEW i \in target, QueryProperties(i) \/ QueryFails(i)
        PROVE  /\ IsWork(filler') /\ filler'.pc \in {"fetch", "fill"}
               /\ filler'.todo \subseteq target /\ filler'.errors \in BOOLEAN
    BY <1>1, <2>3 DEF QueryProperties, QueryFails, IsWork, InstanceTypeOK
  <2> QED BY <2>1, <2>2, <2>3
<1>3. IsFunctionOn(fields', AllMembers(class)) /\ DOMAIN fields' = AllMembers(class)
  <2>1. IsFunctionOn(fields, AllMembers(class)) /\ DOMAIN fields = AllMembers(class)
    BY DEF PartsOK, IsFunctionOn, InstanceTypeOK
  <2>2. \/ UNCHANGED fields \/ fields' = Filled(filler.values)
        \/ fields' = Written(filler.values[1], filler.values[2])
    BY DEF VerifyState, FillMembers, Derive, EndInitialize, BindListeners,
           QueryProperties, QueryFails
  <2> QED BY <2>1, <2>2 DEF Filled, Written, IsFunctionOn
<1>4. watched' \subseteq target /\ unseen' \subseteq Interfaces(class)
  BY <1>1 DEF VerifyState, FillMembers, Derive, EndInitialize, BindListeners,
              QueryProperties, QueryFails, InstanceTypeOK
<1>5. state' \in BOOLEAN /\ mixed' \in BOOLEAN /\ failures' \in 0..MaxFailures
  <2>1. failures \in Nat /\ MaxFailures \in Nat /\ failures <= MaxFailures
    BY <1>1, ClassesAssumption DEF InstanceTypeOK
  <2>2. CASE VerifyState \/ FillMembers \/ Derive \/ EndInitialize \/ BindListeners
    BY <1>1, <2>1, <2>2 DEF VerifyState, FillMembers, Derive, EndInitialize,
              BindListeners, Initialized, InstanceTypeOK
  <2>3. ASSUME NEW i \in target, QueryProperties(i) \/ QueryFails(i)
        PROVE  /\ state' \in BOOLEAN /\ mixed' \in BOOLEAN
               /\ failures' \in 0..MaxFailures
    <3>1. UNCHANGED <<state, mixed>> /\ state \in BOOLEAN /\ mixed \in BOOLEAN
      BY <1>1, <2>3 DEF QueryProperties, QueryFails, InstanceTypeOK
    <3>2. failures' = failures \/ (failures < MaxFailures /\ failures' = failures + 1)
      BY <2>3 DEF QueryProperties, QueryFails
    <3>3. failures' \in 0..MaxFailures
      BY <2>1, <3>2
    <3> QED BY <3>1, <3>3
  <2> QED BY <2>2, <2>3
<1>6. InstanceTypeOK'
  BY <1>1, <1>2, <1>3, <1>4, <1>5 DEF InstanceTypeOK, AllMembers, Properties, Members,
     Interfaces
<1> QED BY <1>1, <1>2, <1>3, <1>6 DEF PartsOK, Values, SignalType, AllMembers, Properties,
        Members

\* The steps of the dbus thread.
LEMMA HandlerParts ==
  ASSUME PartsOK, HandleChanged \/ HandlerDerives \/ HandlerWrites \/ HandleAdded
  PROVE  PartsOK'
<1>1. /\ UNCHANGED <<class, exported, service, watched, unseen, changes, failures>>
      /\ IsWork(filler) /\ IsWork(handler) /\ InstanceTypeOK
      /\ signals \in Seq(SignalType)
  BY DEF HandleChanged, HandlerDerives, HandlerWrites, HandleAdded, PartsOK
<1>2. /\ signals' \in Seq(SignalType)
      /\ \A n \in DOMAIN signals' : signals'[n].is \in {"changed", "added"}
  <2>1. signals' = signals \/ (signals # <<>> /\ signals' = Tail(signals))
    BY DEF HandleChanged, HandlerDerives, HandlerWrites, HandleAdded
  <2>2. signals' \in Seq(SignalType)
    BY <1>1, <2>1
  <2> QED BY <2>2, SignalsTyped
<1>3. IsWork(handler') /\ handler'.pc \in {"idle", "derive", "write"}
  <2>1. \/ handler' = handler \/ handler' = Idle
        \/ handler' = [Idle EXCEPT !.pc = "derive"]
        \/ \E v : handler' = [handler EXCEPT !.pc = "write", !.values = v]
    BY DEF HandleChanged, HandlerDerives, HandlerWrites, HandleAdded
  <2>2. IsWork(Idle) /\ Idle.pc = "idle"
    BY DEF Idle, IsWork
  <2> QED BY <1>1, <2>1, <2>2 DEF IsWork, InstanceTypeOK
<1>4. IsFunctionOn(fields', AllMembers(class)) /\ DOMAIN fields' = AllMembers(class)
  <2>1. IsFunctionOn(fields, AllMembers(class)) /\ DOMAIN fields = AllMembers(class)
    BY DEF PartsOK, IsFunctionOn, InstanceTypeOK
  <2>2. \/ UNCHANGED fields \/ fields' = Filled(Head(signals).values)
        \/ fields' = Written(handler.values[1], handler.values[2])
    BY DEF HandleChanged, HandlerDerives, HandlerWrites, HandleAdded
  <2> QED BY <2>1, <2>2 DEF Filled, Written, IsFunctionOn
<1>5. /\ target' \subseteq exported /\ target \subseteq target'
      /\ IsWork(filler') /\ filler'.pc = filler.pc /\ filler'.errors = filler.errors
      /\ filler'.todo \subseteq target'
  <2>1. CASE HandleAdded
    <3>1. PICK met \in SUBSET (exported \ target) :
            filler' = [filler EXCEPT !.todo = @ \cup met]
      BY <2>1 DEF HandleAdded
    <3>2. target' = target \cup exported /\ target \subseteq exported
      BY <1>1, <2>1 DEF HandleAdded, InstanceTypeOK
    <3> QED BY <1>1, <3>1, <3>2 DEF IsWork, InstanceTypeOK
  <2>2. CASE UNCHANGED <<target, filler>>
    BY <1>1, <2>2 DEF InstanceTypeOK
  <2> QED BY <2>1, <2>2 DEF HandleChanged, HandlerDerives, HandlerWrites
<1>6. state' \in BOOLEAN
  BY <1>1 DEF HandleChanged, HandlerDerives, HandlerWrites, HandleAdded, InstanceTypeOK
<1>7. mixed' \in BOOLEAN
  BY <1>1 DEF HandleChanged, HandlerDerives, HandlerWrites, HandleAdded, InstanceTypeOK
<1>8. InstanceTypeOK'
  BY <1>1, <1>2, <1>3, <1>4, <1>5, <1>6, <1>7 DEF InstanceTypeOK, AllMembers,
     Properties, Members, Interfaces
<1> QED BY <1>1, <1>2, <1>3, <1>4, <1>5, <1>8 DEF PartsOK, Values, SignalType,
        AllMembers, Properties, Members

\* The service's steps.
LEMMA ServiceParts ==
  ASSUME PartsOK,
         \/ \E p \in Properties(class) : Change(p)
         \/ \E i \in Shape[class].late : AddInterface(i)
  PROVE  PartsOK'
<1>1. /\ UNCHANGED <<class, target, watched, state, fields, filler, handler, mixed,
                     failures>>
      /\ InstanceTypeOK /\ signals \in Seq(SignalType)
  BY DEF Change, AddInterface, PartsOK
<1>2. class \in DOMAIN Shape /\ changes \in Nat /\ MaxChanges \in Nat
  BY <1>1, ClassesAssumption DEF InstanceTypeOK
<1>3. /\ signals' \in Seq(SignalType)
      /\ service' \in [Properties(class) -> Values]
      /\ \A q \in Properties(class) : service'[q] \in Members(class)[q].values
      /\ target \subseteq exported' /\ exported' \subseteq Interfaces(class)
      /\ unseen' \subseteq Interfaces(class) /\ changes' \in 0..MaxChanges
  <2>1. ASSUME NEW p \in Properties(class), Change(p)
        PROVE  /\ signals' \in Seq(SignalType)
               /\ service' \in [Properties(class) -> Values]
               /\ \A q \in Properties(class) : service'[q] \in Members(class)[q].values
               /\ target \subseteq exported' /\ exported' \subseteq Interfaces(class)
               /\ unseen' \subseteq Interfaces(class) /\ changes' \in 0..MaxChanges
    <3>1. PICK v \in Members(class)[p].values :
            /\ service' = [service EXCEPT ![p] = v]
            /\ signals' = IF Members(class)[p].iface \notin watched THEN signals
                          ELSE Append(signals, [is |-> "changed", values |-> [q \in {p} |-> v]])
      BY <2>1 DEF Change
    <3>2. v \in Values /\ [q \in {p} |-> v] \in [{p} -> Values]
      BY DEF Values
    <3>3. [is |-> "changed", values |-> [q \in {p} |-> v]] \in SignalType
      BY <3>2 DEF SignalType
    <3>4. signals' \in Seq(SignalType)
      BY <1>1, <3>1, <3>3
    <3>5. /\ service' \in [Properties(class) -> Values]
          /\ \A q \in Properties(class) : service'[q] \in Members(class)[q].values
      BY <3>1, <3>2 DEF PartsOK
    <3>6. /\ unseen' \subseteq unseen \cup {Members(class)[p].iface}
          /\ Members(class)[p].iface \in Interfaces(class)
          /\ exported' = exported /\ changes' = changes + 1 /\ changes < MaxChanges
      BY <2>1 DEF Change, Interfaces
    <3>7. changes' \in 0..MaxChanges
      BY <1>2, <3>6
    <3> QED BY <1>1, <3>4, <3>5, <3>6, <3>7 DEF InstanceTypeOK
  <2>2. ASSUME NEW i \in Shape[class].late, AddInterface(i)
        PROVE  /\ signals' \in Seq(SignalType)
               /\ service' \in [Properties(class) -> Values]
               /\ \A q \in Properties(class) : service'[q] \in Members(class)[q].values
               /\ target \subseteq exported' /\ exported' \subseteq Interfaces(class)
               /\ unseen' \subseteq Interfaces(class) /\ changes' \in 0..MaxChanges
    <3>1. i \in Interfaces(class)
      BY <1>2, LateAreInterfaces
    <3>2. [is |-> "added", values |-> <<>>] \in SignalType
      BY DEF SignalType
    <3>3. signals' = Append(signals, [is |-> "added", values |-> <<>>])
      BY <2>2 DEF AddInterface
    <3>4. signals' \in Seq(SignalType)
      BY <1>1, <3>2, <3>3
    <3> QED BY <1>1, <2>2, <3>1, <3>4 DEF AddInterface, InstanceTypeOK, PartsOK
  <2> QED BY <2>1, <2>2
<1>4. \A n \in DOMAIN signals' : signals'[n].is \in {"changed", "added"}
  BY <1>3, SignalsTyped
<1>5. InstanceTypeOK'
  BY <1>1, <1>3, <1>4 DEF InstanceTypeOK, AllMembers, Properties, Members, Interfaces
<1>6. /\ IsWork(filler') /\ IsWork(handler')
      /\ IsFunctionOn(fields', AllMembers(class))
  BY <1>1 DEF PartsOK
<1>7. /\ Values' = Values /\ SignalType' = SignalType
      /\ Properties(class)' = Properties(class) /\ AllMembers(class)' = AllMembers(class)
      /\ Members(class)' = Members(class)
  BY <1>1 DEF Values, SignalType, AllMembers, Properties, Members
<1> QED BY <1>1, <1>3, <1>5, <1>6, <1>7 DEF PartsOK

\* and every step keeps them.
LEMMA PartsNext == ASSUME PartsOK, [Next]_vars PROVE PartsOK'
<1>1. CASE UNCHANGED vars
  BY <1>1 DEF vars, PartsOK, InstanceTypeOK, Values, SignalType, AllMembers, Properties,
              Members, Interfaces
<1>2. CASE Next
  BY <1>2, RequestParts, HandlerParts, ServiceParts DEF Next
<1> QED BY <1>1, <1>2

\* The types of an instance, of its signals and of what both threads do with it,
\* for every class, and any number of changes and of calls that fail.
THEOREM InstanceTypes == Spec => []InstanceTypeOK
<1>1. PartsOK /\ [Next]_vars => PartsOK'
  BY PartsNext
<1>2. PartsOK => InstanceTypeOK
  BY DEF PartsOK
<1> QED BY <1>1, <1>2, PartsInit, PTL DEF Spec

-----------------------------------------------------------------------------
(* The queue of signals *)

\* A signal is appended.
LEMMA QueueAppended ==
  ASSUME NEW T, signals \in Seq(T), NEW s, signals' = Append(signals, s)
  PROVE  \E m \in Nat :
            /\ m = Len(signals) + 1 /\ Len(signals') = m /\ Len(signals) \in Nat
            /\ signals'[m] = s
            /\ \A n \in 1..Len(signals) : signals'[n] = signals[n]
<1>1. /\ Len(signals) + 1 \in Nat /\ Len(signals) \in Nat
      /\ Len(signals') = Len(signals) + 1
      /\ \A n \in 1..Len(signals) : signals'[n] = signals[n]
  OBVIOUS
<1>2. PICK m \in Nat : m = Len(signals) + 1
  BY <1>1
<1>3. signals'[m] = s
  BY <1>2
<1> QED BY <1>1, <1>2, <1>3

\* The first signal is taken.
LEMMA QueueTaken ==
  ASSUME NEW T, signals \in Seq(T), signals # <<>>, signals' = Tail(signals)
  PROVE  /\ Len(signals) = Len(signals') + 1 /\ Len(signals') \in Nat
         /\ \A n \in 1..Len(signals') : signals'[n] = signals[n + 1]
         /\ Head(signals) = signals[1] /\ Head(signals) \in T
OBVIOUS

\* A change is signalled when somebody watches, and is then the last one.
LEMMA ChangeSent ==
  ASSUME PartsOK, LastIsCurrent, NEW p \in Properties(class), Change(p)
  PROVE  /\ LastIsCurrent'
         /\ \A q \in Properties(class) :
                Awaited(q)' <=> Awaited(q) \/ (q = p /\ Iface(p) \in watched)
         /\ \A q \in Properties(class) : q # p => service'[q] = service[q]
<1>1. PICK v \in Members(class)[p].values :
        /\ service' = [service EXCEPT ![p] = v]
        /\ signals' = IF Iface(p) \notin watched THEN signals
                      ELSE Append(signals, [is |-> "changed", values |-> [q \in {p} |-> v]])
  BY DEF Change, Iface
<1>2. UNCHANGED <<class, watched>> /\ signals \in Seq(SignalType)
  BY DEF Change, PartsOK
<1>3. /\ \A q \in Properties(class) : q # p => service'[q] = service[q]
      /\ service'[p] = v
  BY <1>1 DEF PartsOK
<1>4. Properties(class)' = Properties(class) /\ \A q : Iface(q)' = Iface(q)
  BY <1>2 DEF Properties, Members, Iface
<1>5. CASE Iface(p) \notin watched
  <2>1. signals' = signals
    BY <1>1, <1>5
  <2>2. \A q, n : Carries(n, q)' <=> Carries(n, q)
    BY <2>1 DEF Carries
  <2>3. \A n \in 1..Len(signals) : ~Carries(n, p)
    BY <1>5 DEF LastIsCurrent
  <2>4. \A q \in Properties(class) : Awaited(q)' <=> Awaited(q)
    BY <2>1, <2>2 DEF Awaited
  <2>5. LastIsCurrent'
    BY <1>2, <1>3, <1>4, <2>1, <2>2, <2>3 DEF LastIsCurrent
  <2> QED BY <1>3, <1>5, <2>4, <2>5
<1>6. CASE Iface(p) \in watched
  <2> DEFINE s == [is |-> "changed", values |-> [q \in {p} |-> v]]
  <2>1. signals' = Append(signals, s)
    BY <1>1, <1>6
  <2>2. s.is = "changed" /\ DOMAIN s.values = {p} /\ s.values[p] = v
    OBVIOUS
  <2> HIDE DEF s
  <2>3. PICK m \in Nat :
            /\ m = Len(signals) + 1 /\ Len(signals') = m /\ Len(signals) \in Nat
            /\ signals'[m] = s
            /\ \A n \in 1..Len(signals) : signals'[n] = signals[n]
    BY <1>2, <2>1, QueueAppended
  <2>4. /\ 1..Len(signals) \subseteq 1..Len(signals') /\ m \in 1..Len(signals')
        /\ \A n \in 1..Len(signals') : n = m \/ (n \in 1..Len(signals) /\ m > n)
    BY <2>3
  <2>5. \A q : \A n \in 1..Len(signals) : Carries(n, q)' <=> Carries(n, q)
    BY <2>3 DEF Carries
  <2>6. \A q : Carries(m, q)' <=> q = p
    BY <2>2, <2>3 DEF Carries
  <2>7. \A q \in Properties(class) : Awaited(q)' <=> Awaited(q) \/ q = p
    BY <2>4, <2>5, <2>6 DEF Awaited
  <2>8. ASSUME NEW q \in Properties(class), NEW n \in 1..Len(signals'), Carries(n, q)'
        PROVE  /\ Iface(q) \in watched
               /\ (\A k \in 1..Len(signals') : k > n => ~Carries(k, q)') =>
                        signals'[n].values[q] = service'[q]
    <3>1. CASE q = p
      <4>1. n # m => Carries(m, q)' /\ m > n
        BY <2>4, <2>6, <3>1
      <4>2. signals'[m].values[q] = service'[q]
        BY <1>3, <2>2, <2>3, <3>1
      <4> QED BY <1>6, <2>4, <3>1, <4>1, <4>2
    <3>2. CASE q # p
      <4>1. n \in 1..Len(signals) /\ Carries(n, q)
        BY <2>4, <2>5, <2>6, <2>8, <3>2
      <4>2. /\ Iface(q) \in watched
            /\ (\A k \in 1..Len(signals) : k > n => ~Carries(k, q)) =>
                    signals[n].values[q] = service[q]
        BY <4>1 DEF LastIsCurrent
      <4> QED BY <1>3, <2>3, <2>4, <2>5, <3>2, <4>1, <4>2
    <3> QED BY <3>1, <3>2
  <2>9. LastIsCurrent'
    BY <1>2, <1>4, <2>8 DEF LastIsCurrent
  <2> QED BY <1>3, <1>6, <2>7, <2>9
<1> QED BY <1>5, <1>6

\* A signal that tells of interfaces brings no property.
LEMMA AddedSent ==
  ASSUME PartsOK, LastIsCurrent,
         signals' = Append(signals, [is |-> "added", values |-> <<>>]),
         UNCHANGED <<class, watched, service>>
  PROVE  /\ LastIsCurrent'
         /\ \A q \in Properties(class) : Awaited(q)' <=> Awaited(q)
<1> DEFINE s == [is |-> "added", values |-> <<>>]
<1>1. signals' = Append(signals, s) /\ s.is # "changed" /\ signals \in Seq(SignalType)
  BY DEF PartsOK
<1> HIDE DEF s
<1>2. PICK m \in Nat :
        /\ m = Len(signals) + 1 /\ Len(signals') = m /\ Len(signals) \in Nat
        /\ signals'[m] = s
        /\ \A n \in 1..Len(signals) : signals'[n] = signals[n]
  BY <1>1, QueueAppended
<1>3. /\ 1..Len(signals) \subseteq 1..Len(signals')
      /\ \A n \in 1..Len(signals') : n = m \/ n \in 1..Len(signals)
  BY <1>2
<1>4. \A q : \A n \in 1..Len(signals) : Carries(n, q)' <=> Carries(n, q)
  BY <1>2 DEF Carries
<1>5. \A q : ~Carries(m, q)'
  BY <1>1, <1>2 DEF Carries
<1>6. Properties(class)' = Properties(class) /\ \A q : Iface(q)' = Iface(q)
  BY DEF Properties, Members, Iface
<1>7. \A q \in Properties(class) : Awaited(q)' <=> Awaited(q)
  BY <1>3, <1>4, <1>5 DEF Awaited
<1>8. ASSUME NEW q \in Properties(class), NEW n \in 1..Len(signals'), Carries(n, q)'
      PROVE  /\ Iface(q) \in watched
             /\ (\A k \in 1..Len(signals') : k > n => ~Carries(k, q)') =>
                    signals'[n].values[q] = service[q]
  <2>1. n \in 1..Len(signals) /\ Carries(n, q)
    BY <1>3, <1>4, <1>5, <1>8
  <2> QED BY <1>2, <1>3, <1>4, <2>1 DEF LastIsCurrent
<1> QED BY <1>6, <1>7, <1>8 DEF LastIsCurrent

\* A signal is delivered: a property that is not awaited any more has been
\* brought by it, with the value the service has.
LEMMA Delivered ==
  ASSUME PartsOK, LastIsCurrent, signals # <<>>, signals' = Tail(signals),
         UNCHANGED <<class, watched, service>>
  PROVE  /\ LastIsCurrent'
         /\ \A q \in Properties(class) :
                /\ Awaited(q)' => Awaited(q)
                /\ Awaited(q) => Awaited(q)' \/ Carries(1, q)
                /\ Carries(1, q) => Iface(q) \in watched
                /\ Carries(1, q) /\ ~Awaited(q)' => signals[1].values[q] = service[q]
         /\ Head(signals) = signals[1] /\ Head(signals) \in SignalType
<1>1. /\ Len(signals) = Len(signals') + 1 /\ Len(signals') \in Nat
      /\ \A n \in 1..Len(signals') : signals'[n] = signals[n + 1]
      /\ Head(signals) = signals[1] /\ Head(signals) \in SignalType
  BY QueueTaken DEF PartsOK
<1>2. ASSUME NEW n \in 1..Len(signals')
      PROVE  /\ n + 1 \in 1..Len(signals) /\ n \in Nat
             /\ \A q : Carries(n, q)' <=> Carries(n + 1, q)
  BY <1>1 DEF Carries
<1>3. ASSUME NEW n \in 1..Len(signals), n # 1
      PROVE  /\ n - 1 \in 1..Len(signals') /\ (n - 1) + 1 = n /\ n \in Nat
  BY <1>1, <1>3
<1>4. ASSUME NEW q, NEW n \in 1..Len(signals), n # 1, Carries(n, q)
      PROVE  \E k \in 1..Len(signals') : k = n - 1 /\ Carries(k, q)'
  <2>1. PICK k \in 1..Len(signals') : k = n - 1 /\ k + 1 = n
    BY <1>3, <1>4
  <2> QED BY <1>2, <1>4, <2>1
<1>5. 1 \in 1..Len(signals)
  BY <1>1
<1>6. Properties(class)' = Properties(class) /\ \A q : Iface(q)' = Iface(q)
  BY DEF Properties, Members, Iface
<1>7. ASSUME NEW q \in Properties(class), NEW n \in 1..Len(signals'), Carries(n, q)'
      PROVE  /\ Iface(q) \in watched
             /\ (\A k \in 1..Len(signals') : k > n => ~Carries(k, q)') =>
                    signals'[n].values[q] = service[q]
  <2>1. n + 1 \in 1..Len(signals) /\ Carries(n + 1, q) /\ n \in Nat
    BY <1>2, <1>7
  <2>2. ASSUME \A k \in 1..Len(signals') : k > n => ~Carries(k, q)',
               NEW j \in 1..Len(signals), j > n + 1
        PROVE  ~Carries(j, q)
    <3>1. j # 1 /\ j - 1 > n
      BY <2>1, <2>2
    <3> QED BY <1>4, <2>2, <3>1
  <2>3. /\ Iface(q) \in watched
        /\ (\A j \in 1..Len(signals) : j > n + 1 => ~Carries(j, q)) =>
                signals[n + 1].values[q] = service[q]
    BY <2>1 DEF LastIsCurrent
  <2> QED BY <1>1, <2>2, <2>3
<1>8. LastIsCurrent'
  BY <1>6, <1>7 DEF LastIsCurrent
<1>9. ASSUME NEW q \in Properties(class)
      PROVE  /\ Awaited(q)' => Awaited(q)
             /\ Awaited(q) => Awaited(q)' \/ Carries(1, q)
             /\ Carries(1, q) => Iface(q) \in watched
             /\ Carries(1, q) /\ ~Awaited(q)' => signals[1].values[q] = service[q]
  <2>1. Awaited(q)' => Awaited(q)
    BY <1>2 DEF Awaited
  <2>2. Awaited(q) => Awaited(q)' \/ Carries(1, q)
    BY <1>4 DEF Awaited
  <2>3. Carries(1, q) => Iface(q) \in watched
    BY <1>5 DEF LastIsCurrent
  <2>4. ASSUME Carries(1, q), ~Awaited(q)'
        PROVE  signals[1].values[q] = service[q]
    <3>1. \A k \in 1..Len(signals) : k > 1 => ~Carries(k, q)
      BY <1>4, <2>4 DEF Awaited
    <3> QED BY <1>5, <2>4, <3>1 DEF LastIsCurrent
  <2> QED BY <2>1, <2>2, <2>3, <2>4
<1> QED BY <1>1, <1>8, <1>9

-----------------------------------------------------------------------------
(* What is derived *)

\* Nothing of what a signal brings is lost as long as the queue and the service
\* stay as they are, and nobody stops to watch.
LEMMA LastKept ==
  ASSUME LastIsCurrent, UNCHANGED <<class, service, signals>>, watched \subseteq watched'
  PROVE  /\ LastIsCurrent'
         /\ \A q : Awaited(q)' <=> Awaited(q)
<1>1. Properties(class)' = Properties(class) /\ \A q : Iface(q)' = Iface(q)
  BY DEF Properties, Members, Iface
<1>2. \A n, q : Carries(n, q)' <=> Carries(n, q)
  BY DEF Carries
<1>3. \A q : Awaited(q)' <=> Awaited(q)
  BY <1>2 DEF Awaited
<1> QED BY <1>1, <1>2, <1>3 DEF LastIsCurrent

\* Every step keeps the last signals current.
LEMMA LastNext ==
  ASSUME PartsOK, LastIsCurrent, [Next]_vars
  PROVE  LastIsCurrent'
<1>1. CASE UNCHANGED vars
  BY <1>1, LastKept DEF vars
<1>2. CASE \/ VerifyState \/ FillMembers \/ Derive \/ EndInitialize \/ BindListeners
           \/ \E i \in target : QueryProperties(i) \/ QueryFails(i)
           \/ HandlerDerives \/ HandlerWrites
  <2>1. UNCHANGED <<class, service, signals>> /\ watched \subseteq watched'
    BY <1>2 DEF VerifyState, FillMembers, Derive, EndInitialize, BindListeners,
          QueryProperties, QueryFails, HandlerDerives, HandlerWrites, PartsOK,
          InstanceTypeOK
  <2> QED BY <2>1, LastKept
<1>3. CASE HandleChanged \/ HandleAdded
  BY <1>3, Delivered DEF HandleChanged, HandleAdded
<1>4. CASE \E p \in Properties(class) : Change(p)
  BY <1>4, ChangeSent
<1>5. CASE \E i \in Shape[class].late : AddInterface(i)
  BY <1>5, AddedSent DEF AddInterface
<1> QED BY <1>1, <1>2, <1>3, <1>4, <1>5 DEF Next

\* What a thread writes after it has derived from the members as they are: the
\* properties as the setters leave them, and nothing is left to derive.
LEMMA WritesDerived ==
  ASSUME PartsOK, class \notin Consuming, NEW d,
         d = supplementByStaticFields(class, fields)
  PROVE  /\ Written(fields, d) = d
         /\ supplementByStaticFields(class, d) = d
         /\ \A p \in Properties(class) : d[p] = Normal(p, fields[p])
<1>1. class \in DOMAIN Shape /\ IsFunctionOn(fields, AllMembers(class))
  BY ClassesAssumption DEF PartsOK, InstanceTypeOK
<1>2. SettersOK(class)
  BY <1>1, ClassSetters
<1>3. /\ IsFunctionOn(d, AllMembers(class))
      /\ supplementByStaticFields(class, d) = d
      /\ \A p \in Properties(class) : d[p] = Normal(p, fields[p])
  BY <1>1, <1>2 DEF SettersOK
<1>4. DOMAIN fields = AllMembers(class)
  BY DEF PartsOK, InstanceTypeOK
<1>5. Written(fields, d) = [m \in AllMembers(class) |-> d[m]]
  BY <1>4 DEF Written
<1> QED BY <1>3, <1>5 DEF IsFunctionOn

\* Work that is idle, or in a certain place, is not in another.
LEMMA IdleIs == IsWork(Idle) /\ Idle.pc = "idle" /\ Idle.todo = {} /\ Idle.errors = FALSE
BY DEF Idle, IsWork

\* Every step keeps what is derived.
LEMMA DerivedNext ==
  ASSUME PartsOK, class \notin Consuming, DerivedInv, [Next]_vars
  PROVE  DerivedInv'
<1> SUFFICES ASSUME ~mixed' PROVE DerivedInv'
  BY DEF DerivedInv
<1> DEFINE D(f) == supplementByStaticFields(class, f)
<1>0. class' = class
  BY DEF Next, vars, VerifyState, FillMembers, Derive, EndInitialize, BindListeners,
         QueryProperties, QueryFails, HandleChanged, HandlerDerives, HandlerWrites,
         HandleAdded, Change, AddInterface
<1>1. ~mixed
  BY DEF Next, vars, VerifyState, FillMembers, Derive, EndInitialize, BindListeners,
         QueryProperties, QueryFails, HandleChanged, HandlerDerives, HandlerWrites,
         HandleAdded, Change, AddInterface
<1>2. /\ handler = Idle \/ filler = Idle
      /\ filler.pc = "write" => filler.values = <<fields, D(fields)>>
      /\ handler.pc = "write" => handler.values = <<fields, D(fields)>>
      /\ AtRest => fields = D(fields)
  BY <1>1 DEF DerivedInv
<1>3. IsWork(filler) /\ IsWork(handler)
  BY DEF PartsOK
<1>4. SUFFICES /\ handler' = Idle \/ filler' = Idle
               /\ filler'.pc = "write" => filler'.values = <<fields', D(fields')>>
               /\ handler'.pc = "write" => handler'.values = <<fields', D(fields')>>
               /\ AtRest' => fields' = D(fields')
  BY <1>0 DEF DerivedInv
<1> HIDE DEF D
<1>5. ASSUME fields' = Written(fields, D(fields))
      PROVE  fields' = D(fields')
  BY <1>5, WritesDerived DEF D
<1>6. CASE \/ UNCHANGED vars \/ \E p \in Properties(class) : Change(p)
           \/ \E i \in Shape[class].late : AddInterface(i)
  <2>1. UNCHANGED <<fields, filler, handler>>
    BY <1>6 DEF vars, Change, AddInterface
  <2> QED BY <1>2, <2>1 DEF AtRest
<1>7. CASE VerifyState \/ FillMembers \/ \E i \in target : QueryProperties(i) \/ QueryFails(i)
  <2>1. /\ handler = Idle /\ handler' = handler /\ filler'.pc \in {"fetch", "fill"}
    <3>1. CASE VerifyState
      BY <1>1, <1>7, <3>1, IdleIs DEF VerifyState, IsWork
    <3>2. CASE FillMembers
      BY <1>2, <1>3, <3>2, IdleIs DEF FillMembers, IsWork
    <3>3. CASE \E i \in target : QueryProperties(i) \/ QueryFails(i)
      BY <1>3, <3>3 DEF QueryProperties, QueryFails, IsWork
    <3> QED BY <1>7, <3>1, <3>2, <3>3
  <2> QED BY <2>1, IdleIs DEF AtRest
<1>8. CASE Derive
  <2>1. /\ handler = Idle /\ handler' = handler /\ filler'.pc = "write"
        /\ filler'.values = <<fields, D(fields)>> /\ fields' = fields
    BY <1>2, <1>3, <1>8, IdleIs DEF Derive, IsWork, D
  <2> QED BY <2>1, IdleIs DEF AtRest
<1>9. CASE EndInitialize
  <2>1. /\ handler = Idle /\ handler' = handler /\ filler.pc = "write"
        /\ filler'.pc \in {"idle", "bind"}
        /\ fields' = Written(filler.values[1], filler.values[2])
    BY <1>2, <1>3, <1>9, IdleIs DEF EndInitialize, IsWork
  <2>2. fields' = Written(fields, D(fields))
    BY <1>2, <2>1
  <2> QED BY <1>5, <2>1, <2>2, IdleIs
<1>10. CASE BindListeners
  <2>1. /\ handler = Idle /\ AtRest /\ handler' = handler /\ filler' = Idle
        /\ fields' = fields
    BY <1>2, <1>10, IdleIs DEF BindListeners, AtRest
  <2> QED BY <1>2, <2>1, IdleIs
<1>11. CASE HandleChanged
  <2>1. filler = Idle /\ filler' = filler /\ handler'.pc = "derive"
    BY <1>1, <1>11, IdleIs DEF HandleChanged, Busy, IsWork
  <2> QED BY <2>1, IdleIs DEF AtRest
<1>12. CASE HandlerDerives
  <2>1. /\ filler = Idle /\ filler' = filler /\ handler'.pc = "write"
        /\ handler'.values = <<fields, D(fields)>> /\ fields' = fields
    BY <1>2, <1>3, <1>12, IdleIs DEF HandlerDerives, IsWork, D
  <2> QED BY <2>1, IdleIs DEF AtRest
<1>13. CASE HandlerWrites
  <2>1. /\ filler = Idle /\ filler' = filler /\ handler' = Idle
        /\ fields' = Written(fields, D(fields))
    BY <1>2, <1>13, IdleIs DEF HandlerWrites
  <2> QED BY <1>5, <2>1, IdleIs
<1>14. CASE HandleAdded
  <2>1. filler = Idle /\ handler = Idle /\ handler' = handler /\ fields' = fields
    BY <1>1, <1>14 DEF HandleAdded, Busy
  <2>2. filler' = Idle
    BY <1>14, <2>1, IdleIs DEF HandleAdded, IsWork
  <2>3. AtRest
    BY <2>1, IdleIs DEF AtRest
  <2> QED BY <1>2, <2>1, <2>2, <2>3, IdleIs
<1> QED BY <1>6, <1>7, <1>8, <1>9, <1>10, <1>11, <1>12, <1>13, <1>14 DEF Next

-----------------------------------------------------------------------------
(* What is known of the service *)

\* What is asked of the members, of the service and of the signals stays the same.
LEMMA SameSight ==
  ASSUME UNCHANGED <<class, service, target, signals>>
  PROVE  /\ Properties(class)' = Properties(class)
         /\ \A q : Iface(q)' = Iface(q)
         /\ \A q : Awaited(q)' <=> Awaited(q)
         /\ FromService' = FromService
<1>1. Properties(class)' = Properties(class) /\ \A q : Iface(q)' = Iface(q)
  BY DEF Properties, Members, Iface
<1>2. \A n, q : Carries(n, q)' <=> Carries(n, q)
  BY DEF Carries
<1>3. \A q : Awaited(q)' <=> Awaited(q)
  BY <1>2 DEF Awaited
<1>4. FromService' = FromService
  BY DEF FromService, AllMembers, Properties, Members
<1> QED BY <1>1, <1>3, <1>4

\* What the service has for a property that is asked for.
LEMMA ServiceHas ==
  ASSUME NEW p \in Properties(class)
  PROVE  /\ p \in AllMembers(class)
         /\ Iface(p) \in target => FromService[p] = service[p]
         /\ Iface(p) \notin target => FromService[p] = null
BY DEF FromService, AllMembers, Iface

\* The steps of a request, but for the writing of what has been derived.
LEMMA CurrentFetching ==
  ASSUME PartsOK, CurrentInv, ~mixed,
         \/ VerifyState \/ FillMembers \/ Derive \/ BindListeners
         \/ \E i \in target : QueryProperties(i) \/ QueryFails(i)
  PROVE  CurrentInv'
<1>1. /\ UNCHANGED <<class, service, target, signals, state>>
      /\ IsWork(filler) /\ DOMAIN fields = AllMembers(class)
  BY DEF VerifyState, FillMembers, Derive, BindListeners, QueryProperties, QueryFails,
         PartsOK, InstanceTypeOK
<1>2. /\ Properties(class)' = Properties(class) /\ \A q : Iface(q)' = Iface(q)
      /\ \A q : Awaited(q)' <=> Awaited(q)
      /\ FromService' = FromService
  BY <1>1, SameSight
<1>3. /\ state => filler.pc \in {"idle", "bind"}
      /\ filler.pc = "write" => filler.todo = {}
      /\ filler.pc = "fill" =>
            /\ \A p \in DOMAIN filler.values : p \in Properties(class) /\ Iface(p) \in target
            /\ \A p \in DOMAIN filler.values :
                  Iface(p) \notin unseen /\ ~Awaited(p) => filler.values[p] = service[p]
      /\ \A p \in Properties(class) : Known(p) => Shows(p)
  BY DEF CurrentInv
<1>4. SUFFICES /\ state' => filler'.pc \in {"idle", "bind"}
               /\ filler'.pc = "write" => filler'.todo = {}
               /\ filler'.pc = "fill" =>
                     /\ \A p \in DOMAIN filler'.values :
                           p \in Properties(class) /\ Iface(p) \in target
                     /\ \A p \in DOMAIN filler'.values :
                           Iface(p) \notin unseen' /\ ~Awaited(p) =>
                                filler'.values[p] = service[p]
               /\ \A p \in Properties(class) :
                     Known(p)' => Normal(p, fields'[p]) = Normal(p, FromService[p])
  BY <1>1, <1>2 DEF CurrentInv, Shows
<1>5. ASSUME NEW p \in Properties(class), fields'[p] = fields[p], Known(p)
      PROVE  Normal(p, fields'[p]) = Normal(p, FromService[p])
  BY <1>3, <1>5 DEF Shows
<1>6. ASSUME NEW p \in Properties(class)
      PROVE  Known(p)' <=> \/ Iface(p) \notin target
                           \/ /\ Iface(p) \notin unseen' /\ ~Awaited(p)
                              /\ state \/ Fetched(p)'
  BY <1>1, <1>2 DEF Known
<1>7. ASSUME NEW p \in Properties(class)
      PROVE  Fetched(p)' <=>
                /\ filler'.pc \in {"fetch", "fill", "write"} /\ ~filler'.errors
                /\ Iface(p) \notin filler'.todo
                /\ ~(filler'.pc = "fill" /\ p \in DOMAIN filler'.values)
  BY <1>2 DEF Fetched
<1>8. CASE VerifyState
  <2>1. /\ filler'.pc = "fetch" /\ filler'.todo = target /\ ~state /\ fields' = fields
    BY <1>8, IdleIs DEF VerifyState, IsWork
  <2>2. ASSUME NEW p \in Properties(class), Known(p)' PROVE Known(p)
    BY <1>6, <1>7, <2>1, <2>2 DEF Known
  <2> QED BY <1>1, <1>5, <2>1, <2>2
<1>9. CASE \E i \in target : QueryProperties(i) \/ QueryFails(i)
  <2> PICK i \in target : QueryProperties(i) \/ QueryFails(i)
    BY <1>9
  <2>1. CASE QueryProperties(i)
    <3>1. /\ filler.pc = "fetch" /\ fields' = fields /\ unseen' = unseen \ {i}
          /\ filler'.pc = "fill" /\ filler'.todo = filler.todo \ {i}
          /\ filler'.values = Reply(i) /\ filler'.errors = filler.errors
      BY <1>1, <2>1 DEF QueryProperties, IsWork
    <3>2. /\ \A p : p \in DOMAIN Reply(i) <=> p \in Properties(class) /\ Iface(p) = i
          /\ \A p \in DOMAIN Reply(i) : Reply(i)[p] = service[p]
      BY DEF Reply, Iface
    <3>3. ASSUME NEW p \in Properties(class), Known(p)' PROVE Known(p)
      BY <1>3, <1>6, <1>7, <3>1, <3>2, <3>3 DEF Known, Fetched
    <3> QED BY <1>1, <1>3, <1>5, <3>1, <3>2, <3>3
  <2>2. CASE QueryFails(i)
    <3>1. /\ filler.pc = "fetch" /\ fields' = fields
          /\ filler'.pc = "fetch" /\ filler'.errors = TRUE
      BY <1>1, <2>2 DEF QueryFails, IsWork
    <3>2. ASSUME NEW p \in Properties(class), Known(p)' PROVE Known(p)
      BY <1>3, <1>6, <1>7, <3>1, <3>2 DEF Known
    <3> QED BY <1>1, <1>3, <1>5, <3>1, <3>2
  <2> QED BY <2>1, <2>2
<1>10. CASE FillMembers
  <2>1. /\ filler.pc = "fill" /\ fields' = Filled(filler.values) /\ unseen' = unseen
        /\ filler'.pc = "fetch" /\ filler'.todo = filler.todo
        /\ filler'.errors = filler.errors
    BY <1>1, <1>10 DEF FillMembers, IsWork
  <2>2. ~state
    BY <1>3, <2>1
  <2>3. ASSUME NEW p \in Properties(class), Known(p)'
        PROVE  Normal(p, fields'[p]) = Normal(p, FromService[p])
    <3>1. p \in DOMAIN fields
      BY <1>1, ServiceHas
    <3>2. CASE p \in DOMAIN filler.values
      <4>1. Iface(p) \in target /\ Iface(p) \notin unseen /\ ~Awaited(p)
        BY <1>3, <1>6, <2>1, <2>3, <3>2
      <4>2. fields'[p] = filler.values[p] /\ filler.values[p] = service[p]
        BY <1>3, <2>1, <3>1, <3>2, <4>1 DEF Filled
      <4> QED BY <4>1, <4>2, ServiceHas
    <3>3. CASE p \notin DOMAIN filler.values
      <4>1. fields'[p] = fields[p]
        BY <2>1, <3>1, <3>3 DEF Filled
      <4>2. Known(p)
        BY <1>6, <1>7, <2>1, <2>2, <2>3, <3>3 DEF Known, Fetched
      <4> QED BY <1>5, <4>1, <4>2
    <3> QED BY <3>2, <3>3
  <2> QED BY <1>1, <2>1, <2>2, <2>3
<1>11. CASE Derive
  <2>1. /\ filler.pc = "fetch" /\ fields' = fields /\ unseen' = unseen
        /\ filler'.pc = "write" /\ filler'.todo = filler.todo /\ filler.todo = {}
        /\ filler'.errors = filler.errors
    BY <1>1, <1>11 DEF Derive, IsWork
  <2>2. ASSUME NEW p \in Properties(class), Known(p)' PROVE Known(p)
    BY <1>3, <1>6, <1>7, <2>1, <2>2 DEF Known, Fetched
  <2> QED BY <1>1, <1>3, <1>5, <2>1, <2>2
<1>12. CASE BindListeners
  <2>1. /\ filler.pc = "bind" /\ fields' = fields /\ unseen' = unseen
        /\ filler'.pc = "idle"
    BY <1>12, IdleIs DEF BindListeners
  <2>2. ASSUME NEW p \in Properties(class), Known(p)' PROVE Known(p)
    BY <1>6, <1>7, <2>1, <2>2 DEF Known
  <2> QED BY <1>1, <1>5, <2>1, <2>2
<1> QED BY <1>8, <1>9, <1>10, <1>11, <1>12

\* What either thread writes shows what the members have shown, and all that a
\* request has fetched is known when it initializes the instance.
LEMMA CurrentWriting ==
  ASSUME PartsOK, class \notin Consuming, DerivedInv, CurrentInv, ~mixed,
         EndInitialize \/ HandlerWrites
  PROVE  CurrentInv'
<1>1. /\ UNCHANGED <<class, service, target, signals, unseen>>
      /\ IsWork(filler) /\ DOMAIN fields = AllMembers(class)
  BY DEF EndInitialize, HandlerWrites, PartsOK, InstanceTypeOK
<1>2. /\ Properties(class)' = Properties(class) /\ \A q : Iface(q)' = Iface(q)
      /\ \A q : Awaited(q)' <=> Awaited(q)
      /\ FromService' = FromService
  BY <1>1, SameSight
<1>3. /\ state => filler.pc \in {"idle", "bind"}
      /\ filler.pc = "write" => filler.todo = {}
      /\ \A p \in Properties(class) : Known(p) => Shows(p)
  BY DEF CurrentInv
<1> DEFINE D(f) == supplementByStaticFields(class, f)
<1>4. fields' = D(fields)
  <2>1. /\ filler.pc = "write" => filler.values = <<fields, D(fields)>>
        /\ handler.pc = "write" => handler.values = <<fields, D(fields)>>
    BY DEF DerivedInv
  <2> HIDE DEF D
  <2>2. fields' = Written(fields, D(fields))
    BY <2>1 DEF EndInitialize, HandlerWrites
  <2> QED BY <2>2, WritesDerived DEF D
<1>5. \A p \in Properties(class) : fields'[p] = Normal(p, fields[p])
  BY <1>4, WritesDerived
<1> HIDE DEF D
<1>6. ASSUME NEW p \in Properties(class), Shows(p)
      PROVE  Shows(p)'
  <2>1. Normal(p, fields'[p]) = Normal(p, fields[p])
    BY <1>5, NormalTwice
  <2> QED BY <1>2, <1>6, <2>1 DEF Shows
<1>7. /\ filler'.pc \in {"idle", "bind"} \/ filler' = filler
      /\ state' => filler'.pc \in {"idle", "bind"}
      /\ \A p \in Properties(class) : Known(p)' => Known(p)
  <2>1. CASE EndInitialize
    <3>1. /\ filler.pc = "write" /\ filler.todo = {} /\ filler'.pc \in {"idle", "bind"}
          /\ state' = (state \/ ~filler.errors)
      BY <1>3, <2>1, IdleIs DEF EndInitialize, Initialized, IsWork
    <3>2. ASSUME NEW p \in Properties(class), Known(p)' PROVE Known(p)
      <4>1. CASE Iface(p) \notin target
        BY <4>1 DEF Known
      <4>2. CASE Iface(p) \in target
        <5>1. ~Fetched(p)'
          BY <3>1 DEF Fetched
        <5>2. Iface(p) \notin unseen /\ ~Awaited(p) /\ state'
          BY <1>1, <1>2, <3>2, <4>2, <5>1 DEF Known
        <5>3. state \/ Fetched(p)
          BY <3>1, <5>2 DEF Fetched
        <5> QED BY <5>2, <5>3 DEF Known
      <4> QED BY <4>1, <4>2
    <3> QED BY <3>1, <3>2
  <2>2. CASE HandlerWrites
    <3>1. UNCHANGED <<filler, state>>
      BY <2>2 DEF HandlerWrites
    <3>2. \A p \in Properties(class) : Fetched(p)' <=> Fetched(p)
      BY <1>2, <3>1 DEF Fetched
    <3> QED BY <1>1, <1>2, <1>3, <3>1, <3>2 DEF Known
  <2> QED BY <2>1, <2>2
<1>8. /\ filler'.pc = "write" => filler'.todo = {}
      /\ filler'.pc = "fill" => filler' = filler
  BY <1>3, <1>7
<1>9. \A p \in Properties(class) : Known(p)' => Shows(p)'
  BY <1>3, <1>6, <1>7
<1> QED BY <1>1, <1>2, <1>7, <1>8, <1>9 DEF CurrentInv

\* The other steps of the dbus thread.
LEMMA CurrentHandling ==
  ASSUME PartsOK, LastIsCurrent, CurrentInv, ~mixed', ~mixed,
         HandleChanged \/ HandlerDerives \/ HandleAdded
  PROVE  CurrentInv'
<1>1. /\ UNCHANGED <<class, service, unseen>> /\ DOMAIN fields = AllMembers(class)
  BY DEF HandleChanged, HandlerDerives, HandleAdded, PartsOK, InstanceTypeOK
<1>2. Properties(class)' = Properties(class) /\ \A q : Iface(q)' = Iface(q)
  BY <1>1 DEF Properties, Members, Iface
<1>3. \A p \in Properties(class) : Known(p) => Shows(p)
  BY DEF CurrentInv
<1>4. CASE HandleChanged
  <2>1. /\ filler = Idle /\ UNCHANGED <<filler, state, target>>
        /\ fields' = Filled(Head(signals).values) /\ Head(signals).is = "changed"
        /\ signals # <<>> /\ signals' = Tail(signals) /\ UNCHANGED <<watched>>
    BY <1>4 DEF HandleChanged, Busy
  <2>2. /\ \A q \in Properties(class) :
              /\ Awaited(q) => Awaited(q)' \/ Carries(1, q)
              /\ Carries(1, q) => Iface(q) \in watched
              /\ Carries(1, q) /\ ~Awaited(q)' => signals[1].values[q] = service[q]
        /\ Head(signals) = signals[1]
    BY <1>1, <2>1, Delivered
  <2>3. FromService' = FromService
    BY <1>1, <2>1 DEF FromService, AllMembers, Properties, Members
  <2>4. \A p \in Properties(class) : Carries(1, p) <=> p \in DOMAIN Head(signals).values
    BY <2>1, <2>2 DEF Carries
  <2>5. ASSUME NEW p \in Properties(class), Known(p)'
        PROVE  Normal(p, fields'[p]) = Normal(p, FromService[p])
    <3>1. p \in DOMAIN fields
      BY <1>1, ServiceHas
    <3>2. \/ Iface(p) \notin target
          \/ Iface(p) \notin unseen /\ ~Awaited(p)' /\ state
      BY <1>1, <1>2, <2>1, <2>5, IdleIs DEF Known, Fetched
    <3>3. CASE Carries(1, p)
      <4>1. Iface(p) \in target
        BY <2>2, <3>3 DEF PartsOK, InstanceTypeOK
      <4>2. fields'[p] = signals[1].values[p]
        BY <2>1, <2>2, <2>4, <3>1, <3>3 DEF Filled
      <4> QED BY <2>2, <3>2, <3>3, <4>1, <4>2, ServiceHas
    <3>4. CASE ~Carries(1, p)
      <4>1. fields'[p] = fields[p]
        BY <2>1, <2>4, <3>1, <3>4 DEF Filled
      <4>2. Known(p)
        BY <2>2, <3>2, <3>4 DEF Known
      <4> QED BY <1>3, <4>1, <4>2 DEF Shows
    <3> QED BY <3>3, <3>4
  <2>6. filler'.pc = "idle"
    BY <2>1, IdleIs
  <2> QED BY <1>2, <2>3, <2>5, <2>6 DEF CurrentInv, Shows
<1>5. CASE HandlerDerives
  <2>1. UNCHANGED <<class, service, target, signals, unseen, filler, state, fields>>
    BY <1>5 DEF HandlerDerives
  <2>2. /\ \A q : Awaited(q)' <=> Awaited(q)
        /\ FromService' = FromService
    BY <2>1, SameSight
  <2>3. \A p \in Properties(class) : (Known(p)' <=> Known(p)) /\ (Shows(p)' <=> Shows(p))
    BY <1>2, <2>1, <2>2 DEF Known, Fetched, Shows
  <2> QED BY <1>2, <2>1, <2>2, <2>3 DEF CurrentInv
<1>6. CASE HandleAdded
  <2>1. /\ filler = Idle /\ state' = FALSE /\ fields' = fields
        /\ target' = target \cup exported
    BY <1>6 DEF HandleAdded, Busy
  <2>2. filler' = Idle
    BY <1>6, <2>1, IdleIs DEF HandleAdded, IsWork
  <2>3. ASSUME NEW p \in Properties(class), Known(p)' PROVE Shows(p)'
    <3>1. Iface(p) \notin target'
      BY <1>2, <2>1, <2>2, <2>3, IdleIs DEF Known, Fetched
    <3>2. FromService'[p] = null /\ FromService[p] = null
      BY <1>1, <1>2, <2>1, <3>1 DEF FromService, AllMembers, Properties, Members, Iface
    <3>3. Shows(p)
      BY <1>3, <2>1, <3>1 DEF Known
    <3> QED BY <2>1, <3>2, <3>3 DEF Shows
  <2> QED BY <1>2, <2>1, <2>2, <2>3, IdleIs DEF CurrentInv
<1> QED BY <1>4, <1>5, <1>6

\* The service's steps: a change is unseen, or awaited.
LEMMA CurrentChanging ==
  ASSUME PartsOK, LastIsCurrent, CurrentInv, ~mixed,
         \/ \E p \in Properties(class) : Change(p)
         \/ \E i \in Shape[class].late : AddInterface(i)
  PROVE  CurrentInv'
<1>1. UNCHANGED <<class, target, state, fields, filler>>
  BY DEF Change, AddInterface
<1>2. Properties(class)' = Properties(class) /\ \A q : Iface(q)' = Iface(q)
  BY <1>1 DEF Properties, Members, Iface
<1>3. ASSUME NEW q \in Properties(class), Iface(q) \notin unseen', ~Awaited(q)'
      PROVE  /\ Iface(q) \notin unseen /\ ~Awaited(q)
             /\ Iface(q) \in target => service'[q] = service[q]
  <2>1. CASE \E p \in Properties(class) : Change(p)
    <3>1. PICK p \in Properties(class) : Change(p)
      BY <2>1
    <3>2. /\ Awaited(q)' <=> Awaited(q) \/ (q = p /\ Iface(p) \in watched)
          /\ q # p => service'[q] = service[q]
      BY <3>1, ChangeSent
    <3>3. unseen' = IF Iface(p) \in watched THEN unseen ELSE unseen \cup {Iface(p)}
      BY <3>1 DEF Change, Iface
    <3> QED BY <1>3, <3>2, <3>3
  <2>2. CASE \E i \in Shape[class].late : AddInterface(i)
    <3>1. UNCHANGED <<unseen, service>> /\ (Awaited(q)' <=> Awaited(q))
      BY <2>2, AddedSent DEF AddInterface
    <3> QED BY <1>3, <3>1
  <2> QED BY <2>1, <2>2
<1>4. ASSUME NEW p \in Properties(class)
      PROVE  Fetched(p)' <=> Fetched(p)
  BY <1>1, <1>2 DEF Fetched
<1>5. ASSUME NEW p \in Properties(class), Known(p)' PROVE Shows(p)'
  <2>1. Known(p)
    BY <1>1, <1>2, <1>3, <1>4, <1>5 DEF Known
  <2>2. FromService'[p] = FromService[p]
    <3>1. Iface(p) \notin target \/ service'[p] = service[p]
      BY <1>1, <1>2, <1>3, <1>5 DEF Known
    <3> QED BY <1>1, <1>2, <3>1 DEF FromService, AllMembers, Properties, Members, Iface
  <2> QED BY <1>1, <2>1, <2>2 DEF CurrentInv, Shows
<1>6. filler.pc = "fill" =>
        /\ DOMAIN filler.values \subseteq {p \in Properties(class) : Iface(p) \in target}
        /\ \A p \in DOMAIN filler.values :
              Iface(p) \notin unseen' /\ ~Awaited(p)' => filler.values[p] = service'[p]
  BY <1>3 DEF CurrentInv
<1> QED BY <1>1, <1>2, <1>5, <1>6 DEF CurrentInv

\* Every step keeps what is current.
LEMMA CurrentNext ==
  ASSUME PartsOK, LastIsCurrent, class \notin Consuming, DerivedInv, CurrentInv,
         [Next]_vars
  PROVE  CurrentInv'
<1> SUFFICES ASSUME ~mixed' PROVE CurrentInv'
  BY DEF CurrentInv
<1>1. ~mixed
  BY DEF Next, vars, VerifyState, FillMembers, Derive, EndInitialize, BindListeners,
         QueryProperties, QueryFails, HandleChanged, HandlerDerives, HandlerWrites,
         HandleAdded, Change, AddInterface
<1>2. CASE UNCHANGED vars
  <2>1. UNCHANGED <<class, service, target, signals, unseen, filler, state, fields>>
    BY <1>2 DEF vars
  <2>2. /\ Properties(class)' = Properties(class)
        /\ \A q : Iface(q)' = Iface(q)
        /\ \A q : Awaited(q)' <=> Awaited(q)
        /\ FromService' = FromService
    BY <2>1, SameSight
  <2>3. \A p \in Properties(class) : (Known(p)' <=> Known(p)) /\ (Shows(p)' <=> Shows(p))
    BY <2>1, <2>2 DEF Known, Fetched, Shows
  <2> QED BY <1>1, <2>1, <2>2, <2>3 DEF CurrentInv
<1> QED BY <1>1, <1>2, CurrentFetching, CurrentWriting, CurrentHandling, CurrentChanging
        DEF Next

-----------------------------------------------------------------------------
(* The theorems *)

\* Only the addresses have a mask.
LEMMA OnlyAddressesHaveMask ==
  ASSUME NEW c \in DOMAIN Shape, "SubnetMask" \in Shape[c].derived
  PROVE  /\ "Type" \in Properties(c)
         /\ Members(c)["Type"].values = {"ipv4", "ipv6"}
<1> DEFINE shape == Shape[c]
<1>1. shape \in {EthernetShape, IPShape, BmcManagerShape, HostPowerShape, ChassisStateShape,
                 FirmwareShape, SensorShape, DimmShape, DomainAccountShape, CpuShape,
                 BaseboardShape, PCIeShape, ProxyMediaShape}
  BY DEF Shape
<1>2. "SubnetMask" \in shape.derived
  OBVIOUS
<1> HIDE DEF shape
<1>3. /\ "SubnetMask" \notin EthernetShape.derived
      /\ "SubnetMask" \notin BmcManagerShape.derived
      /\ "SubnetMask" \notin HostPowerShape.derived
      /\ "SubnetMask" \notin ChassisStateShape.derived
  BY DEF EthernetShape, BmcManagerShape, HostPowerShape, ChassisStateShape
<1>4. /\ "SubnetMask" \notin FirmwareShape.derived
      /\ "SubnetMask" \notin SensorShape.derived
      /\ "SubnetMask" \notin DimmShape.derived
      /\ "SubnetMask" \notin DomainAccountShape.derived
  BY DEF FirmwareShape, SensorShape, DimmShape, DomainAccountShape
<1>5. /\ "SubnetMask" \notin CpuShape.derived
      /\ "SubnetMask" \notin BaseboardShape.derived
      /\ "SubnetMask" \notin PCIeShape.derived
      /\ "SubnetMask" \notin ProxyMediaShape.derived
  BY DEF CpuShape, BaseboardShape, PCIeShape, ProxyMediaShape
<1>6. shape = IPShape
  BY <1>1, <1>2, <1>3, <1>4, <1>5
<1>7. "Type" \in DOMAIN shape.members /\ shape.members["Type"].values = {"ipv4", "ipv6"}
  BY <1>6 DEF IPShape, Property
<1> QED BY <1>7 DEF Properties, Members, shape

\* Nothing is fetched, nothing signalled and nothing derived at first.
LEMMA InvInit == Init => InstanceInv
<1> SUFFICES ASSUME Init PROVE InstanceInv
  OBVIOUS
<1>1. PartsOK
  BY PartsInit
<1>2. /\ filler.pc = "fetch" /\ filler.todo = target
      /\ handler = Idle /\ state = FALSE /\ signals = <<>>
      /\ fields = [m \in AllMembers(class) |-> null]
  BY IdleIs DEF Init, IsWork
<1>3. LastIsCurrent
  BY <1>2 DEF LastIsCurrent
<1>4. DerivedInv
  BY <1>2, IdleIs DEF DerivedInv, AtRest
<1>5. ASSUME NEW p \in Properties(class), Known(p) PROVE Shows(p)
  <2>1. Iface(p) \notin target
    BY <1>2, <1>5 DEF Known, Fetched
  <2>2. fields[p] = FromService[p]
    BY <1>2, <2>1, ServiceHas
  <2> QED BY <2>2 DEF Shows
<1>6. CurrentInv
  BY <1>2, <1>5 DEF CurrentInv
<1> QED BY <1>1, <1>3, <1>4, <1>6 DEF InstanceInv

\* The invariant is inductive.
THEOREM InvHolds == Spec => []InstanceInv
<1>1. InstanceInv /\ [Next]_vars => InstanceInv'
  <2> SUFFICES ASSUME InstanceInv, [Next]_vars PROVE InstanceInv'
    OBVIOUS
  <2>1. PartsOK /\ LastIsCurrent
    BY DEF InstanceInv
  <2>2. class' = class
    BY DEF Next, vars, VerifyState, FillMembers, Derive, EndInitialize, BindListeners,
           QueryProperties, QueryFails, HandleChanged, HandlerDerives, HandlerWrites,
           HandleAdded, Change, AddInterface
  <2>3. PartsOK' /\ LastIsCurrent'
    BY <2>1, PartsNext, LastNext
  <2>4. class \notin Consuming => DerivedInv' /\ CurrentInv'
    BY <2>1, DerivedNext, CurrentNext DEF InstanceInv
  <2> QED BY <2>2, <2>3, <2>4 DEF InstanceInv, Consuming
<1> QED BY <1>1, InvInit, PTL DEF Spec

\* Whatever signals and fetches have filled in, in whatever order, and whichever of
\* the calls have failed: when nobody is at work the derived members are those of
\* the others, unless a request has been at work while the dbus thread was.
THEOREM DerivedCurrent == Spec => []DerivedIsCurrent
<1>1. InstanceInv => DerivedIsCurrent
  BY DEF InstanceInv, DerivedInv, DerivedIsCurrent
<1> QED BY <1>1, InvHolds, PTL

\* An initialized instance of any class whose signals are all handled shows, and
\* derives from, what the service has - with the three exceptions the property names.
THEOREM CacheCurrent == Spec => []CacheIsCurrent
<1>1. ASSUME InstanceInv, AtRest, signals = <<>>, state, ~mixed, class \notin Consuming
      PROVE  /\ \A p \in Properties(class) :
                    Iface(p) \in target \ unseen => fields[p] = Fresh[p]
             /\ target \cap unseen = {} =>
                    \A d \in Shape[class].derived :
                        fields[d] = Fresh[d] \/ (d = "SubnetMask" /\ service.Type = "ipv6")
  <2> DEFINE D(f) == supplementByStaticFields(class, f)
             S == AllMembers(class)
  <2>1. PartsOK /\ DerivedInv /\ CurrentInv
    BY <1>1 DEF InstanceInv
  <2>2. IsFunctionOn(fields, S) /\ IsFunctionOn(FromService, S)
    BY <2>1 DEF PartsOK, FromService, IsFunctionOn
  <2>3. class \in DOMAIN Shape
    BY <2>1, ClassesAssumption DEF PartsOK, InstanceTypeOK
  <2>4. SettersOK(class)
    BY <1>1, <2>3, ClassSetters
  <2>5. fields = D(fields) /\ Fresh = D(FromService)
    BY <1>1, <2>1 DEF DerivedInv, Fresh
  <2>6. /\ \A p \in Properties(class) : D(fields)[p] = Normal(p, fields[p])
        /\ \A p \in Properties(class) : D(FromService)[p] = Normal(p, FromService[p])
        /\ SameProperties(class, fields, FromService) =>
              \A m \in Shape[class].derived :
                  \/ D(fields)[m] = D(FromService)[m]
                  \/ m = "SubnetMask" /\ Get(FromService, "Type", "ipv4") # "ipv4"
    BY <2>2, <2>4 DEF SettersOK
  <2> HIDE DEF D
  <2>7. \A p : ~Awaited(p)
    BY <1>1 DEF Awaited
  <2>8. ASSUME NEW p \in Properties(class), Iface(p) \notin target \/ Iface(p) \notin unseen
        PROVE  Normal(p, fields[p]) = Normal(p, FromService[p])
    BY <1>1, <2>1, <2>7, <2>8 DEF Known, Shows, CurrentInv
  <2>9. ASSUME NEW p \in Properties(class), Iface(p) \in target \ unseen
        PROVE  fields[p] = Fresh[p]
    BY <2>5, <2>6, <2>8, <2>9
  <2>10. ASSUME target \cap unseen = {}, NEW d \in Shape[class].derived,
                fields[d] # Fresh[d]
         PROVE  d = "SubnetMask" /\ service.Type = "ipv6"
    <3>1. SameProperties(class, fields, FromService)
      BY <2>8, <2>10 DEF SameProperties
    <3>2. d = "SubnetMask" /\ Get(FromService, "Type", "ipv4") # "ipv4"
      BY <2>5, <2>6, <2>10, <3>1
    <3>3. d \in Shape[class].derived
      BY <2>10
    <3>4. /\ "Type" \in Properties(class)
          /\ Members(class)["Type"].values = {"ipv4", "ipv6"}
      BY <2>3, <3>2, <3>3, OnlyAddressesHaveMask
    <3>5. service["Type"] \in {"ipv4", "ipv6"}
      BY <2>1, <3>4 DEF PartsOK
    <3>6. /\ FromService["Type"] \notin {null, "ipv4"}
      BY <3>2 DEF Get
    <3>7. FromService["Type"] = service["Type"]
      BY <3>4, <3>6, ServiceHas
    <3> QED BY <3>2, <3>5, <3>6, <3>7
  <2> QED BY <2>9, <2>10
<1>2. InstanceInv => CacheIsCurrent
  BY <1>1 DEF CacheIsCurrent, Iface
<1> QED BY <1>2, InvHolds, PTL
=============================================================================
