----------------------------- MODULE LiveInstances -----------------------------
(***************************************************************************)
(* What a request sees of the entities while it is answered: the instances *)
(* that are in the caches, which the dbus thread adds and removes at any   *)
(* moment, and the relations between them.  A handler holds shared         *)
(* pointers, so an instance that was removed stays readable.               *)
(*                                                                         *)
(* The instances are those of the Managers and Chassis branches of the     *)
(* Redfish tree.  A name is a sequence of words and separators.            *)
(***************************************************************************)
EXTENDS Integers, Sequences, SequencesExt, FiniteSets

CONSTANTS Instances,      \* all the instances that may ever be
          EntityOf,       \* instance -> its entity
          InitialName,    \* instance -> the value of its name field
          Owner,          \* IP address -> the interface of its object path
          Renamed,        \* instance -> the name it may be given later
          MaxChanges      \* bound: additions, removals and renamings

ASSUME InstancesAssumption ==
    /\ EntityOf \in [Instances -> STRING]
    /\ InitialName \in [Instances -> Seq(STRING)]
    /\ DOMAIN Renamed \subseteq Instances /\ Renamed \in [DOMAIN Renamed -> Seq(STRING)]
    /\ MaxChanges \in Nat

VARIABLES live,       \* the instances in the caches
          name,       \* instance -> the value of its name field
          arrived,    \* those that were added since the request came
          departed,   \* those that were removed since
          changes     \* how often the dbus thread changed anything

instanceVars == <<live, name, arrived, departed, changes>>

(* f, with this value at the key.                                          *)
Extended(f, key, value) ==
    [x \in DOMAIN f \cup {key} |-> IF x = key THEN value ELSE f[x]]

NotAvailable == <<"N", "/", "A">>

(* An interface with a VLAN id: its object is named after the physical one.*)
IsVlan(i) == EntityOf[i] = "Ethernet" /\ Len(InitialName[i]) > 1

(* fieldVLANName is a property of the VLAN interface, which a physical     *)
(* Ethernet object has not; getStringValue answers N/A for a null field.   *)
VlanName(i) == IF IsVlan(i) THEN name[i] ELSE NotAvailable

----------------------------------------------------------------------------
(* Relations.  A rule compares a field of the source with one of the       *)
(* destination: relationToVLAN compares names, relationToIp object paths.  *)
(* Server and BmcManager are related to Firmware only.                     *)
relationToVLAN(source, destination) ==
    IsVlan(destination) /\ IsPrefix(name[source] \o <<".">>, name[destination])

relationToIp(source, destination) == Owner[destination] = source

Related(source, entity) == EntityOf[source] = "Ethernet" /\ entity \in {"Ethernet", "IP"}

Linked(source, destination) ==
    IF EntityOf[destination] = "IP" THEN relationToIp(source, destination)
                                    ELSE relationToVLAN(source, destination)

(* Relation::getConditions finds the source by its hash, and a source that *)
(* is no longer in its cache contributes no condition.                     *)
GetConditions(source, i) == source \in live => Linked(source, i)

InstancesOf(entity) == {i \in live : EntityOf[i] = entity}

getRelatedInstances(source, entity) == {i \in InstancesOf(entity) : GetConditions(source, i)}

----------------------------------------------------------------------------
(* The dbus thread: InterfacesAdded, InterfacesRemoved, PropertiesChanged. *)
Arrive(i) ==
    /\ i \notin live /\ changes < MaxChanges
    /\ live' = live \cup {i}
    /\ arrived' = arrived \cup {i}
    /\ changes' = changes + 1
    /\ UNCHANGED <<name, departed>>

Depart(i) ==
    /\ i \in live /\ changes < MaxChanges
    /\ live' = live \ {i}
    /\ departed' = departed \cup {i}
    /\ changes' = changes + 1
    /\ UNCHANGED <<name, arrived>>

Rename(i) ==
    /\ i \in live /\ changes < MaxChanges
    /\ name[i] # Renamed[i]
    /\ name' = [name EXCEPT ![i] = Renamed[i]]
    /\ changes' = changes + 1
    /\ UNCHANGED <<live, arrived, departed>>

InstancesInit ==
    /\ live \in {Instances} \cup {Instances \ {i} : i \in Instances}
    /\ name = InitialName
    /\ arrived = {} /\ departed = {}
    /\ changes = 0

InstancesChange ==
    \/ \E i \in Instances : Arrive(i) \/ Depart(i)
    \/ \E i \in DOMAIN Renamed : Rename(i)
=============================================================================
