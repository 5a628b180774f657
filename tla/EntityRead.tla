------------------------------- MODULE EntityRead -------------------------------
(***************************************************************************)
(* How BaseEntity::getInstances makes the fields of an instance: first the *)
(* default getters of the query (initDefaultFieldsValue), among them the   *)
(* roll-up of the health of related instances, then the providers of the   *)
(* entity one after another, each copying or linking fields of its own     *)
(* instances.  The instance is shared: all request threads write into the  *)
(* same fields, while the dbus thread handles PropertiesChanged signals    *)
(* and changes the instances that are read.                                *)
(*                                                                         *)
(* One instance of one entity is read: a Chassis (every sensor is related  *)
(* to it), a Fan (the sensors of its inventory; Processor, Baseboard and   *)
(* Drive are alike), a PSU (a Fan with a callback-manager provider) or the *)
(* Server (LED, boot override, reboot attempts, versions).                 *)
(***************************************************************************)
EXTENDS StatusRollup, Sequences, FiniteSets

CONSTANTS Readers,        \* request threads
          Sensors,        \* sensor instances
          Associated,     \* those whose AssociatedInventoryId is the instance's Id
          Firmwares,      \* instances of FirmwareProvider
          Kinds,          \* the entities to look at
          MaxChanges      \* bound: signals and removals

ASSUME ReadAssumption ==
    /\ Associated \subseteq Sensors
    /\ Kinds \subseteq {"chassis", "fan", "psu", "server"}
    /\ MaxChanges \in Nat

VARIABLES entity,    \* the entity that is read
          fromFirst, \* the unordered map visits StatusFromRollup before StatusRollup
          present,   \* the instance is in the cache of its entity
          service,   \* properties the D-Bus services export
          cached,    \* the fields of related instances and of providers
          handling,  \* the instance whose PropertiesChanged is half handled
          fields,    \* the fields of the instance that is read
          reader,    \* where each request thread is
          span,      \* lowest and highest health of a sensor while anybody reads
          changes    \* how many signals and removals there were

vars == <<entity, fromFirst, present, service, cached, handling, fields, reader,
          span, changes>>

NoVersion == "N/A"
Leds      == {"identify", "identifyBlink"}
Causers   == {"observed", "foreign"}
Causes    == {[level |-> "Critical", causer |-> "observed"],
              [level |-> "Warning",  causer |-> "foreign"]}
Override  == {"none", "continuous", "once"}

(* PSU::observedCauserList names its causers, Server's list is empty.      *)
observedCauserList == IF entity = "psu" THEN {"observed"} ELSE {}

----------------------------------------------------------------------------
(* The related instances.  Chassis relates to Sensors by directLinkingRule *)
(* whose one rule is always true; the others by inventoryRelation, a rule  *)
(* on a field of the source: getConditions skips it when the source is no  *)
(* longer in its cache, and StatusRollup asks with skipEmpty.              *)
RelatedSensors ==
    CASE entity = "chassis"                     -> Sensors
      [] entity \in {"fan", "psu"} /\ present   -> Associated
      [] OTHER                                  -> {}

BiosFirmware == {w \in Firmwares : service.fw[w].purpose = "bios"}

ServerRollup == Highest({FirmwareStatus(service.fw[w].activation) : w \in BiosFirmware})

ActiveBmc == {w \in Firmwares : service.fw[w] = [purpose |-> "bmc", activation |-> "active"]}

(* Mutant: the order of the map is not looked at.                         *)
AlwaysRollupFirst == <<"StatusRollup", "StatusFromRollup">>

(* What a pass over the fields does, in order: default getters, providers. *)
Defaults == IF fromFirst THEN <<"StatusFromRollup", "StatusRollup">>
                         ELSE <<"StatusRollup", "StatusFromRollup">>

Pipeline ==
    CASE entity \in {"chassis", "fan"} -> Defaults
      [] entity = "psu"    -> Defaults \o <<"StatusByCallbackManager">>
      [] entity = "server" -> <<"ServerDefaults", "BootSettings", "linkRebootAttempts",
                                "linkHostBootReset", "linkHostBoot", "linkHostBootOnce",
                                "linkIndicatorLed", "linkActiveVersions",
                                "StatusByCallbackManager">>

----------------------------------------------------------------------------
(* Links that make one step each.  supplementOrUpdate copies every field.  *)
linkRebootAttempts(f) == [f EXCEPT !.attempts = f.retry]

linkHostBoot(f) ==
    IF cached.boot # "none"
    THEN [f EXCEPT !.mode = cached.boot, !.override = "continuous"]
    ELSE f

(* Mutant: the one-time override applies without being enabled.            *)
OnceIgnoresEnable == cached.once # "none"

OnceApplies == cached.once # "none" /\ service.oneTime

linkHostBootOnce(f) ==
    IF OnceApplies
    THEN [f EXCEPT !.mode = cached.once, !.override = "once"]
    ELSE f

(* The default getter has set the field to false.                          *)
linkIndicatorLed(f) ==
    [f EXCEPT !.led = f.led \/ \E l \in Leds : service.led[l]]

(* The active image that is visited last gives its version, and without    *)
(* one the field keeps what it had.                                        *)
linkActiveVersions(f) ==
    IF ActiveBmc = {} THEN {f} ELSE {[f EXCEPT !.bmc = w] : w \in ActiveBmc}

Apply(step, f) ==
    CASE step = "StatusFromRollup"        -> {[f EXCEPT !.status = f.rollup]}
      [] step = "StatusByCallbackManager" -> {[f EXCEPT !.status = cached.callback]}
      [] step = "ServerDefaults"          -> {[f EXCEPT !.led = FALSE, !.rollup = ServerRollup]}
      [] step = "BootSettings"            -> {[f EXCEPT !.retry = service.retry]}
      [] step = "linkRebootAttempts"      -> {linkRebootAttempts(f)}
      [] step = "linkHostBootReset"       -> {[f EXCEPT !.mode = "none", !.override = "none"]}
      [] step = "linkHostBoot"            -> {linkHostBoot(f)}
      [] step = "linkHostBootOnce"        -> {linkHostBootOnce(f)}
      [] step = "linkIndicatorLed"        -> {linkIndicatorLed(f)}
      [] step = "linkActiveVersions"      -> linkActiveVersions(f)

----------------------------------------------------------------------------
Boots == [mode : BootModes, source : BootSources]

Service == [alarms : [Sensors -> SUBSET Alarms], causes : SUBSET Causes,
            led : [Leds -> BOOLEAN], retry : BOOLEAN,
            boot : Boots, once : Boots, oneTime : BOOLEAN,
            fw : [Firmwares -> [purpose : {"bmc", "bios"}, activation : Activations]]]

Cached == [sensor : [Sensors -> Status], callback : Status, boot : Modes, once : Modes]

Fields == [status : Status, rollup : Status, led : BOOLEAN, retry : BOOLEAN,
           attempts : BOOLEAN, override : Override, mode : Modes,
           bmc : Firmwares \cup {NoVersion}]

Reader == [pc : Nat, todo : SUBSET Sensors, acc : Status, prev : Status, quiet : BOOLEAN]

IdleReader == [pc |-> 0, todo |-> {}, acc |-> ok, prev |-> ok, quiet |-> FALSE]

Regular == [mode |-> "Regular", source |-> "Default"]

FreshMode(boot) == FormatSource(FormatMode(boot.mode), boot.source)

(* A source that is not in the dictionary decides nothing.                 *)
Decided(boot) == FormatMode(boot.mode) \in SpecialModes \/ boot.source \in KnownSources

(* The cache has been filled and nobody has read yet.                      *)
Init ==
    /\ entity \in Kinds /\ fromFirst \in BOOLEAN /\ present = TRUE
    /\ service = [alarms |-> [s \in Sensors |-> {}], causes |-> {},
                  led |-> [l \in Leds |-> FALSE], retry |-> FALSE,
                  boot |-> Regular, once |-> Regular, oneTime |-> FALSE,
                  fw |-> [w \in Firmwares |-> [purpose |-> "bmc", activation |-> "ready"]]]
    /\ cached = [sensor |-> [s \in Sensors |-> ok], callback |-> ok,
                 boot |-> "none", once |-> "none"]
    /\ handling = "nothing" /\ changes = 0
    /\ fields = [status |-> ok, rollup |-> ok, led |-> FALSE, retry |-> FALSE,
                 attempts |-> FALSE, override |-> "none", mode |-> "none", bmc |-> NoVersion]
    /\ reader = [r \in Readers |-> IdleReader]
    /\ span = [low |-> [s \in Sensors |-> ok], high |-> [s \in Sensors |-> ok]]

----------------------------------------------------------------------------
Idle(r)      == reader[r].pc = 0
AtEnd(r)     == reader[r].pc = Len(Pipeline) + 1
Running(r)   == ~ Idle(r) /\ ~ AtEnd(r)
StepOf(r)    == Pipeline[reader[r].pc]
NobodyReads  == \A r \in Readers : Idle(r)

Disturbed == [r \in Readers |-> [reader[r] EXCEPT !.quiet = FALSE]]

(* A thread copies the map of instances and starts with this one.          *)
Begin(r) ==
    /\ Idle(r) /\ present
    /\ reader' = [Disturbed EXCEPT ![r] =
                    [pc |-> 1, todo |-> {}, acc |-> ok, prev |-> fields.rollup,
                     quiet |-> NobodyReads /\ handling = "nothing"]]
    /\ span' = IF NobodyReads THEN [low |-> cached.sensor, high |-> cached.sensor] ELSE span
    /\ UNCHANGED <<entity, fromFirst, present, service, cached, handling, fields, changes>>

(* A default getter or a link of one provider.                             *)
Supplement(r) ==
    /\ Running(r) /\ StepOf(r) # "StatusRollup"
    /\ fields' \in Apply(StepOf(r), fields)
    /\ reader' = [reader EXCEPT ![r].pc = @ + 1]
    /\ UNCHANGED <<entity, fromFirst, present, service, cached, handling, span, changes>>

(* StatusRollup::operator(): getRelatedInstances, then one by one.         *)
RollupStart(r) ==
    /\ Running(r) /\ StepOf(r) = "StatusRollup" /\ reader[r].todo = {} /\ RelatedSensors # {}
    /\ reader' = [reader EXCEPT ![r].todo = RelatedSensors, ![r].acc = ok]
    /\ UNCHANGED <<entity, fromFirst, present, service, cached, handling, fields, span, changes>>

RollupSensor(r, s) ==
    LET result == getHigherStatus(cached.sensor[s], reader[r].acc)
        last   == reader[r].todo = {s}
    IN  /\ s \in reader[r].todo
        /\ reader' = [reader EXCEPT ![r].todo = @ \ {s}, ![r].acc = result,
                                    ![r].pc = IF last THEN @ + 1 ELSE @]
        /\ fields' = IF last THEN [fields EXCEPT !.rollup = result] ELSE fields
        /\ UNCHANGED <<entity, fromFirst, present, service, cached, handling, span, changes>>

RollupNothing(r) ==
    /\ Running(r) /\ StepOf(r) = "StatusRollup" /\ reader[r].todo = {} /\ RelatedSensors = {}
    /\ fields' = [fields EXCEPT !.rollup = ok]
    /\ reader' = [reader EXCEPT ![r].pc = @ + 1]
    /\ UNCHANGED <<entity, fromFirst, present, service, cached, handling, span, changes>>

(* The response is made of the fields and the thread is free again.        *)
Answer(r) ==
    /\ AtEnd(r)
    /\ reader' = [reader EXCEPT ![r] = IdleReader]
    /\ UNCHANGED <<entity, fromFirst, present, service, cached, handling, fields, span, changes>>

----------------------------------------------------------------------------
(* The dbus thread: a PropertiesChanged handler first fills the members    *)
(* (fillMembers with the formatters), then supplementByStaticFields.       *)
Fill(object, s, c) ==
    /\ handling = "nothing" /\ changes < MaxChanges
    /\ service' = s /\ cached' = c /\ handling' = object
    /\ changes' = changes + 1 /\ reader' = Disturbed
    /\ UNCHANGED <<entity, fromFirst, present, fields, span>>

SensorChanged(s) == \E alarms \in SUBSET Alarms :
    /\ alarms # service.alarms[s]
    /\ Fill(s, [service EXCEPT !.alarms[s] = alarms], cached)

CausesChanged == \E causes \in SUBSET Causes :
    /\ causes # service.causes
    /\ Fill("callback", [service EXCEPT !.causes = causes],
            [cached EXCEPT !.callback = FormatStatus(causes, observedCauserList)])

(* BootMode and BootSource belong to two interfaces and come one at a time.*)
BootModeChanged == \E mode \in BootModes \ {service.boot.mode} :
    Fill("boot", [service EXCEPT !.boot.mode = mode],
         [cached EXCEPT !.boot = FormatMode(mode)])

BootSourceChanged == \E source \in BootSources \ {service.boot.source} :
    Fill("boot", [service EXCEPT !.boot.source = source], cached)

OnceChanged ==
    \/ \E mode \in BootModes \ {service.once.mode} :
         Fill("once", [service EXCEPT !.once.mode = mode],
              [cached EXCEPT !.once = FormatMode(mode)])
    \/ \E source \in BootSources \ {service.once.source} :
         Fill("once", [service EXCEPT !.once.source = source], cached)
    \/ Fill("once", [service EXCEPT !.oneTime = ~ @], cached)

SettingChanged ==
    \/ Fill("settings", [service EXCEPT !.retry = ~ @], cached)
    \/ \E l \in Leds : Fill("settings", [service EXCEPT !.led[l] = ~ @], cached)
    \/ \E w \in Firmwares, p \in {"bmc", "bios"}, a \in {"ready", "active", "failed"} :
         Fill("settings", [service EXCEPT !.fw[w] = [purpose |-> p, activation |-> a]], cached)

supplementByStaticFields ==
    [cached EXCEPT
        !.sensor = [s \in Sensors |-> IF handling = s THEN setStatus(service.alarms[s]) ELSE @[s]],
        !.boot   = IF handling = "boot" THEN FormatSource(@, service.boot.source) ELSE @,
        !.once   = IF handling = "once" THEN FormatSource(@, service.once.source) ELSE @]

HigherOf(f, g) == [s \in Sensors |-> getHigherStatus(f[s], g[s])]
LowerOf(f, g)  == [s \in Sensors |-> IF f[s] <= g[s] THEN f[s] ELSE g[s]]

Handled ==
    /\ handling # "nothing"
    /\ cached' = supplementByStaticFields /\ handling' = "nothing"
    /\ span' = [low |-> LowerOf(span.low, cached'.sensor), high |-> HigherOf(span.high, cached'.sensor)]
    /\ reader' = Disturbed
    /\ UNCHANGED <<entity, fromFirst, present, service, fields, changes>>

(* InterfacesRemoved: the cache drops the instance, readers may hold it.   *)
Remove ==
    /\ present /\ handling = "nothing" /\ changes < MaxChanges
    /\ present' = FALSE /\ changes' = changes + 1 /\ reader' = Disturbed
    /\ UNCHANGED <<entity, fromFirst, service, cached, handling, fields, span>>

(* Signals about what the entity that is read does not use are left out.   *)
Signals ==
    \/ entity # "server" /\ ((\E s \in Sensors : SensorChanged(s)) \/ Remove)
    \/ entity \in {"psu", "server"} /\ CausesChanged
    \/ entity = "server" /\ (BootModeChanged \/ BootSourceChanged \/ OnceChanged \/ SettingChanged)

Next ==
    \/ \E r \in Readers : Begin(r) \/ Supplement(r) \/ Answer(r)
    \/ \E r \in Readers : RollupStart(r) \/ RollupNothing(r)
    \/ \E r \in Readers, s \in Sensors : RollupSensor(r, s)
    \/ Signals
    \/ Handled

Spec == Init /\ [][Next]_vars

----------------------------------------------------------------------------
(* Types of all variables; a pass never runs past its last provider.       *)
ReadTypeOK ==
    /\ entity \in Kinds /\ fromFirst \in BOOLEAN /\ present \in BOOLEAN
    /\ service \in Service /\ cached \in Cached /\ fields \in Fields
    /\ reader \in [Readers -> Reader]
    /\ \A r \in Readers : reader[r].pc <= Len(Pipeline) + 1
    /\ handling \in Sensors \cup {"nothing", "callback", "boot", "once", "settings"}
    /\ span \in [low : [Sensors -> Status], high : [Sensors -> Status]]
    /\ changes \in 0..MaxChanges

(* The mode the two interfaces of a provider decide, and when the source   *)
(* decides nothing the one its cache has kept.                             *)
ModeOf(boot, kept) == IF Decided(boot) THEN FreshMode(boot) ELSE kept
BootNow == ModeOf(service.boot, cached.boot)
OnceNow == ModeOf(service.once, cached.once)

(* What a read of the Server shows is what the services say, whatever      *)
(* earlier reads and signals left in the shared fields - for a read that   *)
(* nobody disturbed: the boot override and its mode, the LED, the reboot   *)
(* attempts, the version of an active image and the causes of the callback *)
(* manager.                                                                *)
QuietReadIsCurrent ==
    \A r \in Readers : entity = "server" /\ AtEnd(r) /\ reader[r].quiet =>
        /\ fields.override = IF OnceNow # "none" /\ service.oneTime THEN "once"
                             ELSE IF BootNow # "none" THEN "continuous" ELSE "none"
        /\ fields.mode = CASE fields.override = "once"       -> OnceNow
                           [] fields.override = "continuous" -> BootNow
                           [] fields.override = "none"       -> "none"
        /\ fields.led = \E l \in Leds : service.led[l]
        /\ fields.attempts = service.retry
        /\ ActiveBmc # {} => fields.bmc \in ActiveBmc
        /\ fields.rollup = ServerRollup
        /\ fields.status = FormatStatus(service.causes, {})

(* The boot mode of a provider does not depend on the order in which the   *)
(* signals of its two interfaces came: between signals it is what a fresh  *)
(* reading of both would give.  A source that is not in the dictionary     *)
(* leaves the mode of an earlier one standing; but a special mode is never *)
(* missed, and never outlives the mode property that asked for it.         *)
Shows(mode, boot) == IF Decided(boot) THEN mode = FreshMode(boot) ELSE mode \in SourceModes

BootModeIsFresh ==
    handling \notin {"boot", "once"} =>
        Shows(cached.boot, service.boot) /\ Shows(cached.once, service.once)

(* The roll-up a reader shows lies between what the related sensors were   *)
(* since the reads that overlap began, whoever of them stored it: no       *)
(* sensor that was bad all the time is missed, none is invented.           *)
RollupWithinSpan ==
    \A r \in Readers : AtEnd(r) /\ entity # "server" /\ present =>
        /\ \A s \in RelatedSensors : fields.rollup >= span.low[s]
        /\ fields.rollup = ok \/ \E s \in RelatedSensors : fields.rollup <= span.high[s]

(* StatusFromRollup reads the roll-up of the pass before when the map      *)
(* visits it first: the health shown is at most one pass behind.           *)
StatusOnePassBehind ==
    \A r \in Readers : entity \in {"chassis", "fan"} /\ AtEnd(r) /\ reader[r].quiet =>
        fields.status = IF fromFirst THEN reader[r].prev ELSE fields.rollup
=============================================================================
