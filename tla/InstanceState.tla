------------------------------ MODULE InstanceState ------------------------------
(***************************************************************************)
(* The life of one DBusInstance: it is created and initialized, its        *)
(* watchers are bound, PropertiesChanged signals fill single members, the  *)
(* interfaces an InterfacesAdded signal brings are merged and the instance *)
(* marked as uninitialized, and the next request that verifies its state   *)
(* fetches everything anew, interface by interface, on its own thread.     *)
(* After each filling the derived members are set: a thread reads what it  *)
(* derives from, and then writes.                                          *)
(***************************************************************************)
EXTENDS StaticFields, Naturals, Sequences, FiniteSets

CONSTANTS Classes,      \* the classes of entities to look at
          MaxChanges,   \* bound: changes of properties
          MaxFailures   \* bound: fetches that fail

Shape ==
    [Ethernet |-> EthernetShape, IP |-> IPShape, BmcManager |-> BmcManagerShape,
     HostPower |-> HostPowerShape, ChassisState |-> ChassisStateShape,
     Firmware |-> FirmwareShape, Sensors |-> SensorShape, Dimm |-> DimmShape,
     DomainAccounts |-> DomainAccountShape, Cpu |-> CpuShape, Baseboard |-> BaseboardShape,
     PCIe |-> PCIeShape, ProxyMedia |-> ProxyMediaShape]

ASSUME ClassesAssumption ==
    Classes \subseteq DOMAIN Shape /\ MaxChanges \in Nat /\ MaxFailures \in Nat

VARIABLES class,     \* the class of the instance
          exported,  \* interfaces the object has
          service,   \* what the service has in its properties
          target,    \* targetProperties: interfaces the instance asks for
          watched,   \* interfaces a watcher is bound to
          state,     \* DBusInstance::state: TRUE when initialized
          fields,    \* the members of the instance
          signals,   \* signals the bus has not delivered yet
          filler,    \* what a request, or the creator, does with the instance
          handler,   \* what the dbus thread does with it
          mixed,     \* both have been at work at the same time
          unseen,    \* interfaces that changed when nobody watched them
          changes, failures

vars == <<class, exported, service, target, watched, state, fields, signals, filler, handler,
          mixed, unseen, changes, failures>>

Members(c)    == Shape[c].members
Properties(c) == DOMAIN Members(c)
Interfaces(c) == {Members(c)[p].iface : p \in Properties(c)}
AllMembers(c) == Properties(c) \cup Shape[c].derived

(* DBusQuery::supplementByStaticFields of the class.                       *)
supplementByStaticFields(c, f) ==
    CASE c = "Ethernet"       -> EthernetFields(f)
      [] c = "IP"             -> IPFields(f)
      [] c = "BmcManager"     -> BmcManagerFields(f)
      [] c = "HostPower"      -> HostPowerFields(f)
      [] c = "ChassisState"   -> ChassisStateFields(f)
      [] c = "Firmware"       -> FirmwareFields(f)
      [] c = "Sensors"        -> SensorFields(f)
      [] c = "Dimm"           -> DimmFields(f)
      [] c = "DomainAccounts" -> DomainAccountFields(f)
      [] c = "Cpu"            -> CpuFields(f)
      [] c = "Baseboard"      -> BaseboardFields(f)
      [] c = "PCIe"           -> PCIeFields(f)
      [] c = "ProxyMedia"     -> ProxyMediaFields(f)

(* The members an interface has, with the values the service has for them. *)
Reply(i) == [p \in {q \in Properties(class) : Members(class)[q].iface = i} |-> service[p]]

Filled(values) == [m \in DOMAIN fields |-> IF m \in DOMAIN values THEN values[m] ELSE fields[m]]

(* What the setters set, written over what is there by now.                *)
Written(before, after) ==
    [m \in DOMAIN fields |-> IF m \in Shape[class].derived \/ after[m] # before[m] THEN after[m]
                             ELSE fields[m]]

Idle == [pc |-> "idle", todo |-> {}, values |-> <<>>, errors |-> FALSE]

(* An object with the interfaces it has from the beginning; FindObject has *)
(* found it and is about to create the instance.                           *)
Init ==
    /\ class \in Classes
    /\ exported = Interfaces(class) \ Shape[class].late
    /\ service \in [Properties(class) -> UNION {Members(class)[p].values : p \in Properties(class)}]
    /\ \A p \in Properties(class) : service[p] \in Members(class)[p].values
    /\ target = exported /\ watched = {}
    /\ state = FALSE
    /\ fields = [m \in AllMembers(class) |-> null]
    /\ signals = <<>>
    /\ filler = [Idle EXCEPT !.pc = "fetch", !.todo = target]
    /\ handler = Idle
    /\ mixed = FALSE /\ unseen = {} /\ changes = 0 /\ failures = 0

----------------------------------------------------------------------------
(* DBusInstance::verifyState, called for each read of the instance.        *)
VerifyState ==
    /\ filler.pc = "idle" /\ ~ state
    /\ filler' = [Idle EXCEPT !.pc = "fetch", !.todo = target]
    /\ mixed' = (mixed \/ handler # Idle)
    /\ UNCHANGED <<class, exported, service, target, watched, state, fields, signals, handler,
                   unseen, changes, failures>>

(* initialize: a call for each interface, which waits until the dbus       *)
(* thread leaves its handler and the guard, and then fillMembers.          *)
QueryProperties(i) ==
    /\ filler.pc = "fetch" /\ i \in filler.todo /\ handler = Idle
    /\ filler' = [filler EXCEPT !.pc = "fill", !.todo = @ \ {i}, !.values = Reply(i)]
    /\ unseen' = unseen \ {i}
    /\ UNCHANGED <<class, exported, service, target, watched, state, fields, signals, handler,
                   mixed, changes, failures>>

QueryFails(i) ==
    /\ filler.pc = "fetch" /\ i \in filler.todo /\ handler = Idle /\ failures < MaxFailures
    /\ filler' = [filler EXCEPT !.todo = @ \ {i}, !.errors = TRUE]
    /\ failures' = failures + 1
    /\ UNCHANGED <<class, exported, service, target, watched, state, fields, signals, handler,
                   mixed, unseen, changes>>

FillMembers ==
    /\ filler.pc = "fill"
    /\ fields' = Filled(filler.values)
    /\ filler' = [filler EXCEPT !.pc = "fetch", !.values = <<>>]
    /\ UNCHANGED <<class, exported, service, target, watched, state, signals, handler, mixed,
                   unseen, changes, failures>>

Derive ==
    /\ filler.pc = "fetch" /\ filler.todo = {}
    /\ filler' = [filler EXCEPT !.pc = "write",
                                !.values = <<fields, supplementByStaticFields(class, fields)>>]
    /\ UNCHANGED <<class, exported, service, target, watched, state, fields, signals, handler,
                   mixed, unseen, changes, failures>>

(* Mutant: a failed call initializes, too.                                 *)
SetAnyway(errors) == TRUE

(* setInitialized, unless a call failed.  Until its watchers are bound     *)
(* nobody else has the instance.                                           *)
Initialized(errors) == state \/ ~ errors

EndInitialize ==
    /\ filler.pc = "write"
    /\ fields' = Written(filler.values[1], filler.values[2])
    /\ state' = Initialized(filler.errors)
    /\ filler' = [Idle EXCEPT !.pc = IF watched = {} THEN "bind" ELSE "idle"]
    /\ UNCHANGED <<class, exported, service, target, watched, signals, handler, mixed, unseen,
                   changes, failures>>

(* Mutant: watchers for interfaces the object does not have.               *)
BindAll ==
    /\ filler.pc = "bind"
    /\ watched' = Interfaces(class) /\ filler' = Idle
    /\ UNCHANGED <<class, exported, service, target, state, fields, signals, handler, mixed,
                   unseen, changes, failures>>

BindListeners ==
    /\ filler.pc = "bind"
    /\ watched' = target /\ filler' = Idle
    /\ UNCHANGED <<class, exported, service, target, state, fields, signals, handler, mixed,
                   unseen, changes, failures>>

----------------------------------------------------------------------------
(* The handler of PropertiesChanged, on the dbus thread.                   *)
Busy == filler # Idle

HandleChanged ==
    /\ handler = Idle /\ signals # <<>> /\ Head(signals).is = "changed"
    /\ fields' = Filled(Head(signals).values)
    /\ handler' = [Idle EXCEPT !.pc = "derive"]
    /\ signals' = Tail(signals)
    /\ mixed' = (mixed \/ Busy)
    /\ UNCHANGED <<class, exported, service, target, watched, state, filler, unseen, changes,
                   failures>>

HandlerDerives ==
    /\ handler.pc = "derive"
    /\ handler' = [handler EXCEPT !.pc = "write",
                                  !.values = <<fields, supplementByStaticFields(class, fields)>>]
    /\ UNCHANGED <<class, exported, service, target, watched, state, fields, signals, filler,
                   mixed, unseen, changes, failures>>

HandlerWrites ==
    /\ handler.pc = "write"
    /\ fields' = Written(handler.values[1], handler.values[2])
    /\ handler' = Idle
    /\ UNCHANGED <<class, exported, service, target, watched, state, signals, filler, mixed,
                   unseen, changes, failures>>

(* Mutant: the interfaces that were added are not merged.                  *)
AddedWithoutMerge ==
    /\ handler = Idle /\ signals # <<>> /\ Head(signals).is = "added" /\ watched # {}
    /\ state' = FALSE
    /\ signals' = Tail(signals)
    /\ mixed' = (mixed \/ Busy)
    /\ UNCHANGED <<class, exported, service, target, watched, fields, filler, handler, unseen,
                   changes, failures>>

(* The handler of InterfacesAdded for an object that has an instance: a    *)
(* second instance brings the interfaces, no watcher is bound to them.  A  *)
(* request that goes through the map meanwhile may meet them or not.       *)
HandleAdded ==
    /\ handler = Idle /\ signals # <<>> /\ Head(signals).is = "added" /\ watched # {}
    /\ target' = target \cup exported
    /\ \E met \in SUBSET (exported \ target) :
          /\ filler.pc \notin {"fetch", "fill"} => met = {}
          /\ filler' = [filler EXCEPT !.todo = @ \cup met]
    /\ state' = FALSE
    /\ signals' = Tail(signals)
    /\ mixed' = (mixed \/ Busy)
    /\ UNCHANGED <<class, exported, service, watched, fields, handler, unseen, changes, failures>>

----------------------------------------------------------------------------
(* The service: a property changes, or the object gets its late interface. *)
Change(p) ==
    LET i == Members(class)[p].iface
    IN  /\ i \in exported /\ changes < MaxChanges
        /\ \E v \in Members(class)[p].values \ {service[p]} :
              /\ service' = [service EXCEPT ![p] = v]
              /\ signals' = IF i \notin watched THEN signals
                            ELSE Append(signals, [is |-> "changed", values |-> [q \in {p} |-> v]])
        /\ unseen' = IF i \in watched THEN unseen ELSE unseen \cup {i}
        /\ changes' = changes + 1
        /\ UNCHANGED <<class, exported, target, watched, state, fields, filler, handler, mixed,
                       failures>>

AddInterface(i) ==
    /\ i \notin exported
    /\ exported' = exported \cup {i}
    /\ signals' = Append(signals, [is |-> "added", values |-> <<>>])
    /\ UNCHANGED <<class, service, target, watched, state, fields, filler, handler, mixed, unseen,
                   changes, failures>>

Next ==
    \/ VerifyState \/ FillMembers \/ Derive \/ EndInitialize \/ BindListeners
    \/ \E i \in target : QueryProperties(i) \/ QueryFails(i)
    \/ HandleChanged \/ HandlerDerives \/ HandlerWrites \/ HandleAdded
    \/ \E p \in Properties(class) : Change(p)
    \/ \E i \in Shape[class].late : AddInterface(i)

(* A handler runs to its end; requests keep coming; calls do not.          *)
Fairness == WF_vars(HandleChanged \/ HandlerDerives \/ HandlerWrites \/ HandleAdded)
            /\ WF_vars(VerifyState \/ FillMembers \/ Derive \/ EndInitialize \/ BindListeners
                         \/ \E i \in target : QueryProperties(i) \/ QueryFails(i))

Spec == Init /\ [][Next]_vars /\ Fairness
----------------------------------------------------------------------------
(* Types of all variables.                                                 *)
InstanceTypeOK ==
    /\ class \in Classes
    /\ target \subseteq exported /\ exported \subseteq Interfaces(class)
    /\ watched \subseteq target /\ unseen \subseteq Interfaces(class)
    /\ {state, mixed, filler.errors} \subseteq BOOLEAN
    /\ DOMAIN service = Properties(class) /\ DOMAIN fields = AllMembers(class)
    /\ \A n \in DOMAIN signals : signals[n].is \in {"changed", "added"}
    /\ filler.pc \in {"idle", "fetch", "fill", "write", "bind"} /\ filler.todo \subseteq target
    /\ handler.pc \in {"idle", "derive", "write"}
    /\ changes \in 0..MaxChanges /\ failures \in 0..MaxFailures

(* The setters of these classes move a member they derive from, so a       *)
(* second run derives from what the first has left.                        *)
Consuming == {"PCIe", "ProxyMedia"}

AtRest == handler = Idle /\ filler.pc \in {"idle", "bind"}

(* Whatever members signals and fetches have filled in whatever order, the *)
(* derived members are those of the others when nobody is at work -        *)
(* provided that no request initialized the instance while the dbus thread *)
(* handled a signal for it.                                                *)
DerivedIsCurrent ==
    AtRest /\ ~ mixed /\ class \notin Consuming =>
        fields = supplementByStaticFields(class, fields)

FromService ==
    [m \in AllMembers(class) |->
        IF m \in Properties(class) THEN (IF Members(class)[m].iface \in target THEN service[m] ELSE null)
        ELSE null]

Fresh == supplementByStaticFields(class, FromService)

(* When all signals are handled, an initialized instance shows what the    *)
(* service has, and derives from that.  What is excepted is all there is   *)
(* to go wrong: the two threads have been at work at the same time, or an  *)
(* interface changed that nobody watches - between its fetch and           *)
(* bindListeners, or ever after when the interface was added later - and   *)
(* the mask an address keeps when it becomes an IPv6 one.                  *)
CacheIsCurrent ==
    AtRest /\ signals = <<>> /\ state /\ ~ mixed /\ class \notin Consuming =>
        /\ \A p \in Properties(class) :
               Members(class)[p].iface \in target \ unseen => fields[p] = Fresh[p]
        /\ target \cap unseen = {} =>
               \A d \in Shape[class].derived :
                   fields[d] = Fresh[d] \/ (d = "SubnetMask" /\ service.Type = "ipv6")

(* An interface that is added is asked for by a later request: as long as  *)
(* requests come, the instance is initialized again and again, for good    *)
(* when calls stop failing, and then with all interfaces the object has.   *)
InitializedInTheEnd == <>[](state /\ target = exported)
=============================================================================
