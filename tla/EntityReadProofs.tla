---------------------------- MODULE EntityReadProofs ----------------------------
(***************************************************************************)
(* What is proved of the fields a read shows, for any number of request    *)
(* threads, sensors, images and signals: the types; that the boot mode of  *)
(* a provider does not depend on the order of signals; that the roll-up of *)
(* the health lies between what the related sensors were. And, of a read   *)
(* no signal and no other read fell into (QuietAlone: it is the only one   *)
(* that runs): at every stage of its pipeline, what it has passed is what  *)
(* the services have, so its answer is current; and the status, which      *)
(* getters derive from the roll-up in either order, lags by one pass at    *)
(* most.                                                                   *)
(***************************************************************************)
EXTENDS EntityRead, TLAPS

----------------------------------------------------------------------------
(* The operators of StatusRollup return what their names say.              *)
LEMMA StatusIs == Status = {0, 1, 2} /\ ok = 0 /\ warning = 1 /\ critical = 2
  BY DEF Status, ok, warning, critical

LEMMA HigherIsStatus ==
  ASSUME NEW a \in Status, NEW b \in Status
  PROVE  /\ getHigherStatus(a, b) \in Status
         /\ getHigherStatus(a, b) \in {a, b}
         /\ getHigherStatus(a, b) >= a /\ getHigherStatus(a, b) >= b
  BY StatusIs DEF getHigherStatus

(* The highest of some statuses is one of them, or ok.                     *)
LEMMA HighestIsStatus ==
  ASSUME NEW S \in SUBSET Status
  PROVE  Highest(S) \in Status
<1> DEFINE T == S \cup {ok}
<1>1. T \subseteq {0, 1, 2} /\ 0 \in T
  BY StatusIs
<1>2. \E s \in T : \A t \in T : s >= t
  <2>1. CASE 2 \in T
    BY <1>1, <2>1
  <2>2. CASE 2 \notin T /\ 1 \in T
    BY <1>1, <2>2
  <2>3. CASE 2 \notin T /\ 1 \notin T
    BY <1>1, <2>3
  <2> QED BY <2>1, <2>2, <2>3
<1>3. Highest(S) = CHOOSE s \in T : \A t \in T : s >= t
  BY DEF Highest
<1> HIDE DEF T
<1>4. Highest(S) \in T
  BY <1>2, <1>3
<1> QED BY <1>1, <1>4, StatusIs

LEMMA SetStatusIsStatus ==
  ASSUME NEW alarms
  PROVE  setStatus(alarms) \in Status
<1>1. {alarmFieldsDict[i].status : i \in FirstAlarm(alarms)} \in SUBSET Status
  BY StatusIs DEF FirstAlarm, alarmFieldsDict
<1> QED BY <1>1, HighestIsStatus DEF setStatus

LEMMA FirmwareStatusIsStatus ==
  ASSUME NEW activation
  PROVE  FirmwareStatus(activation) \in Status
  BY StatusIs DEF FirmwareStatus

LEMMA FormatStatusIsStatus ==
  ASSUME NEW C, NEW O
  PROVE  FormatStatus(C, O) \in Status
<1>1. {statusDict(c.level) : c \in {d \in C : isCauserObserved(d.causer, O)}}
        \in SUBSET Status
  BY StatusIs DEF statusDict
<1> QED BY <1>1, HighestIsStatus DEF FormatStatus

(* A special mode stays, any other gives way to a source of the dictionary.*)
LEMMA BootFormats ==
  /\ \A m : FormatMode(m) \in SpecialModes \cup {"none"}
  /\ \A o \in KnownSources : SourceDict(o) \in SourceModes
  /\ \A x \in Modes, o \in BootSources : FormatSource(x, o) \in Modes
  /\ "none" \in SourceModes /\ \A x \in SourceModes : x \notin SpecialModes
  /\ \A m : FormatMode(m) \in Modes
<1>1. \A m : FormatMode(m) \in SpecialModes \cup {"none"}
  BY DEF FormatMode, SpecialModes
<1>2. \A o \in KnownSources : SourceDict(o) \in SourceModes
  BY DEF SourceDict, KnownSources, SourceModes
<1>3. "none" \in SourceModes /\ \A x \in SourceModes : x \notin SpecialModes
  BY DEF SourceModes, SpecialModes
<1> QED BY <1>1, <1>2, <1>3 DEF FormatSource, Modes

(* A mode that shows what one property pair says shows, once FormatSource  *)
(* has looked at the source again, what the pair says with a new source;   *)
(* and so does the mode a Mode signal sets.                                *)
LEMMA ModeFollows ==
  ASSUME NEW p \in Boots, NEW q \in Boots, p.mode = q.mode, NEW x \in Modes
  PROVE  /\ Shows(FormatSource(FormatMode(q.mode), q.source), q)
         /\ Shows(x, p) => Shows(FormatSource(x, q.source), q)
         /\ FormatSource(FormatSource(x, q.source), q.source) = FormatSource(x, q.source)
<1> DEFINE f == FormatMode(q.mode)
           d == SourceDict(q.source)
<1>1. f \in SpecialModes \/ (f = "none" /\ f \notin SpecialModes)
  BY DEF FormatMode, SpecialModes
<1>2. q.source \in KnownSources => d \in SourceModes /\ d \notin SpecialModes
  BY BootFormats
<1>3. p.source \in KnownSources => SourceDict(p.source) \in SourceModes
                                   /\ SourceDict(p.source) \notin SpecialModes
  BY BootFormats
<1>4. x \in SpecialModes \/ (x \in SourceModes /\ x \notin SpecialModes)
  BY DEF Modes, SpecialModes, SourceModes
<1>5. FreshMode(q) = IF f \in SpecialModes \/ q.source \notin KnownSources THEN f ELSE d
  BY DEF FreshMode, FormatSource
<1>6. FreshMode(p) = IF f \in SpecialModes \/ p.source \notin KnownSources THEN f
                     ELSE SourceDict(p.source)
  BY DEF FreshMode, FormatSource
<1>7. FormatSource(x, q.source) = IF x \in SpecialModes \/ q.source \notin KnownSources THEN x ELSE d
  BY DEF FormatSource
<1>8. FormatSource(f, q.source) = IF f \in SpecialModes \/ q.source \notin KnownSources THEN f ELSE d
  BY DEF FormatSource
<1>9. (Decided(q) <=> f \in SpecialModes \/ q.source \in KnownSources)
      /\ (Decided(p) <=> f \in SpecialModes \/ p.source \in KnownSources)
  BY DEF Decided
<1>10. Shows(FormatSource(FormatMode(q.mode), q.source), q)
  BY <1>1, <1>5, <1>8, <1>9, BootFormats DEF Shows
<1>11. ASSUME Shows(x, p) PROVE Shows(FormatSource(x, q.source), q)
  <2>1. CASE f \in SpecialModes
    <3>1. x = f
      BY <1>6, <1>9, <1>11, <2>1 DEF Shows
    <3> QED BY <1>5, <1>7, <1>9, <2>1, <3>1 DEF Shows
  <2>2. CASE f \notin SpecialModes
    <3>1. x \in SourceModes
      BY <1>3, <1>6, <1>9, <1>11, <2>2 DEF Shows
    <3>2. x \notin SpecialModes
      BY <3>1, BootFormats
    <3> QED BY <1>5, <1>7, <1>9, <2>2, <3>1, <3>2 DEF Shows
  <2> QED BY <2>1, <2>2
<1>12. FormatSource(FormatSource(x, q.source), q.source) = FormatSource(x, q.source)
  BY <1>2, <1>4, <1>7 DEF FormatSource
<1> QED BY <1>10, <1>11, <1>12

----------------------------------------------------------------------------
(* One field at a time of the records steps change.                        *)
LEMMA FieldsField ==
  ASSUME NEW f \in Fields
  PROVE  /\ \A x \in Status : /\ [f EXCEPT !.status = x] \in Fields
                              /\ [f EXCEPT !.status = x].rollup = f.rollup
         /\ \A x \in Status : /\ [f EXCEPT !.rollup = x] \in Fields
                              /\ [f EXCEPT !.rollup = x].rollup = x
         /\ \A x \in BOOLEAN : /\ [f EXCEPT !.led = x] \in Fields
                               /\ [f EXCEPT !.retry = x] \in Fields
                               /\ [f EXCEPT !.attempts = x] \in Fields
         /\ \A x \in Override : [f EXCEPT !.override = x] \in Fields
         /\ \A x \in Modes : [f EXCEPT !.mode = x] \in Fields
         /\ \A x \in Firmwares : [f EXCEPT !.bmc = x] \in Fields
  BY DEF Fields

LEMMA ReaderField ==
  ASSUME NEW v \in Reader
  PROVE  /\ \A x \in Nat : /\ [v EXCEPT !.pc = x] \in Reader
                           /\ [v EXCEPT !.pc = x].pc = x
                           /\ [v EXCEPT !.pc = x].todo = v.todo
                           /\ [v EXCEPT !.pc = x].acc = v.acc
         /\ \A x \in SUBSET Sensors : /\ [v EXCEPT !.todo = x] \in Reader
                                      /\ [v EXCEPT !.todo = x].pc = v.pc
                                      /\ [v EXCEPT !.todo = x].todo = x
                                      /\ [v EXCEPT !.todo = x].acc = v.acc
         /\ \A x \in Status : /\ [v EXCEPT !.acc = x] \in Reader
                              /\ [v EXCEPT !.acc = x].pc = v.pc
                              /\ [v EXCEPT !.acc = x].todo = v.todo
                              /\ [v EXCEPT !.acc = x].acc = x
         /\ \A x \in BOOLEAN : /\ [v EXCEPT !.quiet = x] \in Reader
                               /\ [v EXCEPT !.quiet = x].pc = v.pc
                               /\ [v EXCEPT !.quiet = x].todo = v.todo
                               /\ [v EXCEPT !.quiet = x].acc = v.acc
  BY DEF Reader

LEMMA IdleReaderIs ==
    IdleReader \in Reader /\ IdleReader.pc = 0 /\ IdleReader.todo = {}
  BY StatusIs DEF IdleReader, Reader

(* Where a pass rolls up, unless the entity is the Server.                 *)
RollupAt == IF fromFirst THEN 2 ELSE 1

LEMMA PipelineOfSensors ==
  ASSUME entity \in {"chassis", "fan", "psu"}, fromFirst \in BOOLEAN
  PROVE  /\ Len(Pipeline) \in {2, 3} /\ RollupAt \in 1..2
         /\ \A i \in 1..Len(Pipeline) : Pipeline[i] = "StatusRollup" <=> i = RollupAt
         /\ \A i \in 1..Len(Pipeline) : i # RollupAt =>
                Pipeline[i] \in {"StatusFromRollup", "StatusByCallbackManager"}
<1>1. CASE entity \in {"chassis", "fan"} /\ fromFirst
  <2>1. Pipeline = <<"StatusFromRollup", "StatusRollup">>
    BY <1>1 DEF Pipeline, Defaults
  <2> QED BY <1>1, <2>1 DEF RollupAt
<1>2. CASE entity \in {"chassis", "fan"} /\ ~fromFirst
  <2>1. Pipeline = <<"StatusRollup", "StatusFromRollup">>
    BY <1>2 DEF Pipeline, Defaults
  <2> QED BY <1>2, <2>1 DEF RollupAt
<1>3. CASE entity = "psu" /\ fromFirst
  <2>1. Pipeline = <<"StatusFromRollup", "StatusRollup">> \o <<"StatusByCallbackManager">>
    BY <1>3 DEF Pipeline, Defaults
  <2>2. Len(Pipeline) = 3 /\ Pipeline[1] = "StatusFromRollup" /\ Pipeline[2] = "StatusRollup"
        /\ Pipeline[3] = "StatusByCallbackManager"
    BY <2>1
  <2> QED BY <1>3, <2>2 DEF RollupAt
<1>4. CASE entity = "psu" /\ ~fromFirst
  <2>1. Pipeline = <<"StatusRollup", "StatusFromRollup">> \o <<"StatusByCallbackManager">>
    BY <1>4 DEF Pipeline, Defaults
  <2>2. Len(Pipeline) = 3 /\ Pipeline[1] = "StatusRollup" /\ Pipeline[2] = "StatusFromRollup"
        /\ Pipeline[3] = "StatusByCallbackManager"
    BY <2>1
  <2> QED BY <1>4, <2>2 DEF RollupAt
<1> QED BY <1>1, <1>2, <1>3, <1>4

LEMMA PipelineOfServer ==
  ASSUME entity = "server"
  PROVE  /\ Len(Pipeline) = 9
         /\ \A i \in 1..9 : Pipeline[i] \in
              {"ServerDefaults", "BootSettings", "linkRebootAttempts", "linkHostBootReset",
               "linkHostBoot", "linkHostBootOnce", "linkIndicatorLed", "linkActiveVersions",
               "StatusByCallbackManager"}
  BY DEF Pipeline

----------------------------------------------------------------------------
(* A pass keeps the types of the fields, and only StatusRollup changes the *)
(* roll-up of an entity that has sensors.                                  *)
LEMMA ApplyKeepsFields ==
  ASSUME ReadTypeOK, NEW i \in 1..Len(Pipeline), Pipeline[i] # "StatusRollup",
         NEW g \in Apply(Pipeline[i], fields)
  PROVE  /\ g \in Fields
         /\ entity # "server" => g.rollup = fields.rollup
<1> DEFINE step == Pipeline[i]
<1>1. /\ fields \in Fields /\ entity \in {"chassis", "fan", "psu", "server"}
      /\ fromFirst \in BOOLEAN /\ service \in Service /\ cached \in Cached
  BY ReadAssumption DEF ReadTypeOK
<1>2. /\ fields.rollup \in Status /\ cached.callback \in Status
      /\ cached.boot \in Modes /\ cached.once \in Modes
      /\ fields.retry \in BOOLEAN /\ service.retry \in BOOLEAN /\ fields.led \in BOOLEAN
  BY <1>1 DEF Fields, Cached, Service
<1>3. ServerRollup \in Status
  <2>1. {FirmwareStatus(service.fw[w].activation) : w \in BiosFirmware} \in SUBSET Status
    BY FirmwareStatusIsStatus
  <2> QED BY <2>1, HighestIsStatus DEF ServerRollup
<1>0. g \in Apply(step, fields)
  OBVIOUS
<1> HIDE DEF step
<1>4. CASE step = "StatusFromRollup"
  <2>1. g = [fields EXCEPT !.status = fields.rollup]
    BY <1>0, <1>4 DEF Apply
  <2> QED BY <1>1, <1>2, <2>1, FieldsField
<1>5. CASE step = "StatusByCallbackManager"
  <2>1. g = [fields EXCEPT !.status = cached.callback]
    BY <1>0, <1>5 DEF Apply
  <2> QED BY <1>1, <1>2, <2>1, FieldsField
<1>6. CASE entity = "server" /\ step # "StatusByCallbackManager"
  <2>1. CASE step = "ServerDefaults"
    <3>1. g = [[fields EXCEPT !.led = FALSE] EXCEPT !.rollup = ServerRollup]
      BY <1>0, <2>1 DEF Apply
    <3> QED BY <1>1, <1>3, <1>6, <3>1, FieldsField
  <2>2. CASE step \in {"BootSettings", "linkRebootAttempts"}
    <3>1. g \in {[fields EXCEPT !.retry = service.retry], [fields EXCEPT !.attempts = fields.retry]}
      BY <1>0, <2>2 DEF Apply, linkRebootAttempts
    <3> QED BY <1>1, <1>2, <1>6, <3>1, FieldsField
  <2>3. CASE step \in {"linkHostBootReset", "linkHostBoot", "linkHostBootOnce"}
    <3>1. \/ g = fields
          \/ \E m \in Modes, o \in Override :
                g = [[fields EXCEPT !.mode = m] EXCEPT !.override = o]
      <4>1. "none" \in Modes /\ Override = {"none", "continuous", "once"}
        BY DEF Modes, SourceModes, Override
      <4>2. CASE step = "linkHostBootReset"
        BY <1>0, <4>1, <4>2 DEF Apply
      <4>3. CASE step = "linkHostBoot"
        <5>1. g = linkHostBoot(fields)
          BY <1>0, <4>3 DEF Apply
        <5> QED BY <1>2, <4>1, <5>1 DEF linkHostBoot
      <4>4. CASE step = "linkHostBootOnce"
        <5>1. g = linkHostBootOnce(fields)
          BY <1>0, <4>4 DEF Apply
        <5> QED BY <1>2, <4>1, <5>1 DEF linkHostBootOnce
      <4> QED BY <2>3, <4>2, <4>3, <4>4
    <3>2. ASSUME NEW m \in Modes, NEW o \in Override
          PROVE  [[fields EXCEPT !.mode = m] EXCEPT !.override = o] \in Fields
      <4>1. [fields EXCEPT !.mode = m] \in Fields
        BY <1>1, FieldsField
      <4> QED BY <4>1, FieldsField
    <3> QED BY <1>1, <1>6, <3>1, <3>2
  <2>4. CASE step = "linkIndicatorLed"
    <3>1. g = [fields EXCEPT !.led = fields.led \/ \E l \in Leds : service.led[l]]
      BY <1>0, <2>4 DEF Apply, linkIndicatorLed
    <3>2. (fields.led \/ \E l \in Leds : service.led[l]) \in BOOLEAN
      OBVIOUS
    <3> QED BY <1>1, <1>6, <3>1, <3>2, FieldsField
  <2>5. CASE step = "linkActiveVersions"
    <3>1. g = fields \/ \E w \in Firmwares : g = [fields EXCEPT !.bmc = w]
      BY <1>0, <2>5 DEF Apply, linkActiveVersions, ActiveBmc
    <3> QED BY <1>1, <1>6, <3>1, FieldsField
  <2> QED BY <1>6, <2>1, <2>2, <2>3, <2>4, <2>5, PipelineOfServer DEF step
<1>7. CASE entity # "server"
  <2>1. step \in {"StatusFromRollup", "StatusByCallbackManager"}
    BY <1>1, <1>7, PipelineOfSensors DEF step
  <2> QED BY <1>4, <1>5, <2>1
<1> QED BY <1>5, <1>6, <1>7

(* What signals make of the services' properties and of the caches.        *)
LEMMA ServiceField ==
  ASSUME service \in Service
  PROVE  /\ \A s \in Sensors, a \in SUBSET Alarms : [service EXCEPT !.alarms[s] = a] \in Service
         /\ \A c \in SUBSET Causes : [service EXCEPT !.causes = c] \in Service
         /\ [service EXCEPT !.retry = ~ @] \in Service
         /\ [service EXCEPT !.oneTime = ~ @] \in Service
         /\ \A l \in Leds : [service EXCEPT !.led[l] = ~ @] \in Service
         /\ \A w \in Firmwares, p \in {"bmc", "bios"}, a \in {"ready", "active", "failed"} :
                [service EXCEPT !.fw[w] = [purpose |-> p, activation |-> a]] \in Service
         /\ \A m \in BootModes : [service EXCEPT !.boot.mode = m] \in Service
         /\ \A o \in BootSources : [service EXCEPT !.boot.source = o] \in Service
         /\ \A o \in BootSources : [service EXCEPT !.once.source = o] \in Service
         /\ \A m \in BootModes : [service EXCEPT !.once.mode = m] \in Service
<1>1. ASSUME NEW s \in Sensors, NEW a \in SUBSET Alarms
      PROVE  [service EXCEPT !.alarms[s] = a] \in Service
  BY DEF Service
<1>2. ASSUME NEW c \in SUBSET Causes PROVE [service EXCEPT !.causes = c] \in Service
  BY DEF Service
<1>3. [service EXCEPT !.retry = ~ @] \in Service /\ [service EXCEPT !.oneTime = ~ @] \in Service
  BY DEF Service
<1>4. ASSUME NEW l \in Leds PROVE [service EXCEPT !.led[l] = ~ @] \in Service
  BY DEF Service
<1>5. ASSUME NEW w \in Firmwares, NEW p \in {"bmc", "bios"}, NEW a \in {"ready", "active", "failed"}
      PROVE  [service EXCEPT !.fw[w] = [purpose |-> p, activation |-> a]] \in Service
  BY DEF Service, Activations
<1>6. ASSUME NEW m \in BootModes
      PROVE  [service EXCEPT !.boot.mode = m] \in Service
             /\ [service EXCEPT !.once.mode = m] \in Service
  BY DEF Service, Boots
<1>7. ASSUME NEW o \in BootSources
      PROVE  [service EXCEPT !.boot.source = o] \in Service
             /\ [service EXCEPT !.once.source = o] \in Service
  BY DEF Service, Boots
<1> QED BY <1>1, <1>2, <1>3, <1>4, <1>5, <1>6, <1>7

----------------------------------------------------------------------------
(* Types.  A thread that still has sensors to visit stands at StatusRollup:*)
(* the step that visits the last one stores the result and moves on.       *)
Rolling(r) == reader[r].todo # {}

TypeInv ==
    /\ ReadTypeOK
    /\ \A r \in Readers : Rolling(r) => Running(r) /\ StepOf(r) = "StatusRollup"

LEMMA PipelineLength ==
  ASSUME entity \in Kinds, fromFirst \in BOOLEAN
  PROVE  Len(Pipeline) \in Nat
<1>1. entity \in {"chassis", "fan", "psu", "server"}
  BY ReadAssumption
<1> QED BY <1>1, PipelineOfSensors, PipelineOfServer

LEMMA SamePipeline ==
  ASSUME UNCHANGED <<entity, fromFirst>>
  PROVE  Pipeline' = Pipeline /\ RollupAt' = RollupAt
  BY DEF Pipeline, Defaults, RollupAt

LEMMA DisturbedIs ==
  ASSUME reader \in [Readers -> Reader]
  PROVE  /\ Disturbed \in [Readers -> Reader]
         /\ \A r \in Readers : /\ Disturbed[r].pc = reader[r].pc
                               /\ Disturbed[r].todo = reader[r].todo
                               /\ Disturbed[r].acc = reader[r].acc
<1>1. ASSUME NEW r \in Readers
      PROVE  /\ Disturbed[r] \in Reader
             /\ Disturbed[r].pc = reader[r].pc
             /\ Disturbed[r].todo = reader[r].todo
             /\ Disturbed[r].acc = reader[r].acc
  BY ReaderField DEF Disturbed
<1>2. Disturbed = [r \in Readers |-> Disturbed[r]]
  BY DEF Disturbed
<1> QED BY <1>1, <1>2

(* One thread moves, and the others are as far as they were.               *)
LEMMA OneReaderMoves ==
  ASSUME TypeInv, UNCHANGED <<entity, fromFirst>>, NEW r \in Readers, NEW v \in Reader,
         NEW before \in {reader, Disturbed}, reader' = [before EXCEPT ![r] = v],
         v.pc <= Len(Pipeline) + 1,
         v.todo # {} => v.pc \in 1..Len(Pipeline) /\ Pipeline[v.pc] = "StatusRollup"
  PROVE  /\ reader' \in [Readers -> Reader]
         /\ \A q \in Readers : reader'[q].pc <= Len(Pipeline') + 1
         /\ \A q \in Readers : Rolling(q)' => Running(q)' /\ StepOf(q)' = "StatusRollup"
         /\ reader'[r] = v
         /\ \A q \in Readers \ {r} : /\ reader'[q].pc = reader[q].pc
                                     /\ reader'[q].todo = reader[q].todo
                                     /\ reader'[q].acc = reader[q].acc
<1>0. /\ reader \in [Readers -> Reader] /\ before \in [Readers -> Reader]
      /\ Len(Pipeline) \in Nat /\ Pipeline' = Pipeline
  BY DisturbedIs, SamePipeline, PipelineLength DEF TypeInv, ReadTypeOK
<1>1. \A q \in Readers : /\ before[q].pc = reader[q].pc
                         /\ before[q].todo = reader[q].todo
                         /\ before[q].acc = reader[q].acc
  BY <1>0, DisturbedIs
<1>2. \A q \in Readers : reader'[q] = IF q = r THEN v ELSE before[q]
  BY <1>0
<1>3. reader' \in [Readers -> Reader]
  BY <1>0
<1>4. \A q \in Readers \ {r} : /\ reader'[q].pc = reader[q].pc
                               /\ reader'[q].todo = reader[q].todo
                               /\ reader'[q].acc = reader[q].acc
  BY <1>1, <1>2
<1>5. ASSUME NEW q \in Readers
      PROVE  /\ reader'[q].pc <= Len(Pipeline') + 1
             /\ Rolling(q)' => Running(q)' /\ StepOf(q)' = "StatusRollup"
  <2>1. CASE q = r
    BY <1>0, <1>2, <2>1 DEF Rolling, Running, StepOf, Idle, AtEnd
  <2>2. CASE q # r
    BY <1>0, <1>4, <2>2 DEF TypeInv, ReadTypeOK, Rolling, Running, StepOf, Idle, AtEnd
  <2> QED BY <2>1, <2>2
<1> QED BY <1>2, <1>3, <1>4, <1>5

(* A signal disturbs the threads and moves none.                           *)
LEMMA NoReaderMoves ==
  ASSUME TypeInv, UNCHANGED <<entity, fromFirst>>, reader' \in {reader, Disturbed}
  PROVE  /\ reader' \in [Readers -> Reader]
         /\ \A q \in Readers : reader'[q].pc <= Len(Pipeline') + 1
         /\ \A q \in Readers : Rolling(q)' => Running(q)' /\ StepOf(q)' = "StatusRollup"
         /\ \A q \in Readers : /\ reader'[q].pc = reader[q].pc
                               /\ reader'[q].todo = reader[q].todo
                               /\ reader'[q].acc = reader[q].acc
<1>0. reader \in [Readers -> Reader] /\ Pipeline' = Pipeline
  BY SamePipeline DEF TypeInv, ReadTypeOK
<1>1. \A q \in Readers : /\ reader'[q].pc = reader[q].pc
                         /\ reader'[q].todo = reader[q].todo
                         /\ reader'[q].acc = reader[q].acc
  BY <1>0, DisturbedIs
<1>2. reader' \in [Readers -> Reader]
  BY <1>0, DisturbedIs
<1> QED
  BY <1>0, <1>1, <1>2 DEF TypeInv, ReadTypeOK, Rolling, Running, StepOf, Idle, AtEnd

(* The thread that visits a sensor: one fewer is left, and after the last  *)
(* the result is stored and the thread moves on.                           *)
LEMMA RollupSensorMoves ==
  ASSUME TypeInv, NEW r \in Readers, NEW s \in Sensors, RollupSensor(r, s),
         NEW result \in Status, result = getHigherStatus(cached.sensor[s], reader[r].acc)
  PROVE  \E v \in Reader :
            /\ reader' = [reader EXCEPT ![r] = v]
            /\ v.todo = reader[r].todo \ {s} /\ v.acc = result
            /\ v.pc = IF v.todo = {} THEN reader[r].pc + 1 ELSE reader[r].pc
<1> DEFINE v0 == reader[r]
           v1 == [v0 EXCEPT !.todo = v0.todo \ {s}]
           v2 == [v1 EXCEPT !.acc = result]
           k  == IF v0.todo = {s} THEN v0.pc + 1 ELSE v0.pc
           v3 == [v2 EXCEPT !.pc = k]
<1>1. v0 \in Reader /\ v0.todo \in SUBSET Sensors /\ v0.pc \in Nat /\ k \in Nat
  BY DEF TypeInv, ReadTypeOK, Reader
<1>2. reader' = [reader EXCEPT ![r] = v3]
  BY DEF RollupSensor
<1>3. s \in v0.todo
  BY DEF RollupSensor
<1>4. k = IF v0.todo \ {s} = {} THEN v0.pc + 1 ELSE v0.pc
  BY <1>3
<1> HIDE DEF k, v0
<1>5. v1 \in Reader /\ v1.todo = v0.todo \ {s}
  BY <1>1, ReaderField
<1> HIDE DEF v1
<1>6. v2 \in Reader /\ v2.todo = v0.todo \ {s} /\ v2.acc = result
  BY <1>5, ReaderField
<1> HIDE DEF v2
<1>7. v3 \in Reader /\ v3.todo = v0.todo \ {s} /\ v3.acc = result /\ v3.pc = k
  BY <1>1, <1>6, ReaderField
<1> HIDE DEF v3
<1> QED BY <1>2, <1>4, <1>7 DEF v0

LEMMA RollupStartMoves ==
  ASSUME TypeInv, NEW r \in Readers, RollupStart(r)
  PROVE  \E v \in Reader :
            /\ reader' = [reader EXCEPT ![r] = v]
            /\ v.todo = RelatedSensors /\ v.acc = ok /\ v.pc = reader[r].pc
<1> DEFINE v0 == reader[r]
           v1 == [v0 EXCEPT !.todo = RelatedSensors]
           v2 == [v1 EXCEPT !.acc = ok]
<1>1. v0 \in Reader /\ RelatedSensors \in SUBSET Sensors /\ ok \in Status
  BY ReadAssumption, StatusIs DEF TypeInv, ReadTypeOK, RelatedSensors
<1>2. reader' = [reader EXCEPT ![r] = v2]
  BY DEF RollupStart
<1>3. v1 \in Reader /\ v1.todo = RelatedSensors /\ v1.pc = v0.pc
  BY <1>1, ReaderField
<1> HIDE DEF v1
<1>4. v2 \in Reader /\ v2.todo = RelatedSensors /\ v2.acc = ok /\ v2.pc = v0.pc
  BY <1>1, <1>3, ReaderField
<1> HIDE DEF v2
<1> QED BY <1>2, <1>4

(* Threads keep the types: one step each.                                  *)
LEMMA BeginTypes == ASSUME TypeInv, NEW r \in Readers, Begin(r) PROVE TypeInv'
<1> DEFINE q == NobodyReads /\ handling = "nothing"
           v == [pc |-> 1, todo |-> {}, acc |-> ok, prev |-> fields.rollup, quiet |-> q]
<1>1. q \in BOOLEAN
  BY DEF NobodyReads
<1>2. ok \in Status /\ fields.rollup \in Status /\ cached.sensor \in [Sensors -> Status]
      /\ Len(Pipeline) \in Nat
  BY StatusIs, PipelineLength DEF TypeInv, ReadTypeOK, Fields, Cached
<1>3. reader' = [Disturbed EXCEPT ![r] = v]
  BY DEF Begin
<1> HIDE DEF q
<1>4. v \in Reader /\ v.pc = 1 /\ v.todo = {}
  BY <1>1, <1>2 DEF Reader
<1> HIDE DEF v
<1>5. UNCHANGED <<entity, fromFirst>> /\ v.pc <= Len(Pipeline) + 1
  BY <1>2, <1>4 DEF Begin
<1>6. span' \in [low : [Sensors -> Status], high : [Sensors -> Status]]
  BY <1>2 DEF Begin, TypeInv, ReadTypeOK
<1> QED
  BY <1>3, <1>4, <1>5, <1>6, OneReaderMoves DEF TypeInv, ReadTypeOK, Begin

LEMMA SupplementTypes == ASSUME TypeInv, NEW r \in Readers, Supplement(r) PROVE TypeInv'
<1> DEFINE v == [reader[r] EXCEPT !.pc = reader[r].pc + 1]
<1>1. /\ reader[r] \in Reader /\ reader[r].pc \in Nat /\ reader[r].pc + 1 \in Nat
      /\ Len(Pipeline) \in Nat
  BY PipelineLength DEF TypeInv, ReadTypeOK, Reader
<1>2. reader[r].pc \in 1..Len(Pipeline) /\ reader[r].todo = {}
  BY <1>1 DEF TypeInv, ReadTypeOK, Rolling, Supplement, Running, Idle, AtEnd
<1>3. v \in Reader /\ v.pc = reader[r].pc + 1 /\ v.todo = {}
  BY <1>1, <1>2, ReaderField
<1>4. UNCHANGED <<entity, fromFirst>> /\ reader' = [reader EXCEPT ![r] = v]
      /\ v.pc <= Len(Pipeline) + 1
  BY <1>1, <1>2, <1>3 DEF Supplement
<1> HIDE DEF v
<1>5. fields' \in Fields
  BY <1>2, ApplyKeepsFields DEF TypeInv, Supplement, StepOf
<1>6. /\ reader' \in [Readers -> Reader]
      /\ \A q \in Readers : reader'[q].pc <= Len(Pipeline') + 1
      /\ \A q \in Readers : Rolling(q)' => Running(q)' /\ StepOf(q)' = "StatusRollup"
  BY <1>3, <1>4, OneReaderMoves
<1> QED
  BY <1>4, <1>5, <1>6 DEF TypeInv, ReadTypeOK, Supplement

LEMMA RollupStartTypes == ASSUME TypeInv, NEW r \in Readers, RollupStart(r) PROVE TypeInv'
<1>1. reader[r].pc \in Nat /\ Len(Pipeline) \in Nat
  BY PipelineLength DEF TypeInv, ReadTypeOK, Reader
<1>2. reader[r].pc \in 1..Len(Pipeline) /\ Pipeline[reader[r].pc] = "StatusRollup"
  BY <1>1 DEF TypeInv, ReadTypeOK, RollupStart, Running, StepOf, Idle, AtEnd
<1>3. UNCHANGED <<entity, fromFirst>>
  BY DEF RollupStart
<1>4. ASSUME NEW v \in Reader, reader' = [reader EXCEPT ![r] = v], v.pc = reader[r].pc
      PROVE  TypeInv'
  <2>1. v.pc <= Len(Pipeline) + 1
    BY <1>1, <1>2, <1>4
  <2>2. /\ reader' \in [Readers -> Reader]
        /\ \A q \in Readers : reader'[q].pc <= Len(Pipeline') + 1
        /\ \A q \in Readers : Rolling(q)' => Running(q)' /\ StepOf(q)' = "StatusRollup"
    BY <1>2, <1>3, <1>4, <2>1, OneReaderMoves
  <2> QED BY <1>3, <2>2 DEF TypeInv, ReadTypeOK, RollupStart
<1> QED BY <1>4, RollupStartMoves

LEMMA RollupSensorTypes ==
  ASSUME TypeInv, NEW r \in Readers, NEW s \in Sensors, RollupSensor(r, s) PROVE TypeInv'
<1> DEFINE result == getHigherStatus(cached.sensor[s], reader[r].acc)
<1>1. /\ reader[r].pc \in Nat /\ Len(Pipeline) \in Nat
      /\ cached.sensor[s] \in Status /\ reader[r].acc \in Status
  BY PipelineLength DEF TypeInv, ReadTypeOK, Reader, Cached
<1>2. result \in Status
  BY <1>1, HigherIsStatus
<1>3. reader[r].pc \in 1..Len(Pipeline) /\ Pipeline[reader[r].pc] = "StatusRollup"
  <2>1. Rolling(r)
    BY DEF RollupSensor, Rolling
  <2> QED BY <1>1, <2>1 DEF TypeInv, ReadTypeOK, Running, StepOf, Idle, AtEnd
<1>4. UNCHANGED <<entity, fromFirst>> /\ fields' \in Fields
  BY <1>2, FieldsField DEF RollupSensor, TypeInv, ReadTypeOK
<1> HIDE DEF result
<1>5. ASSUME NEW v \in Reader, reader' = [reader EXCEPT ![r] = v],
             v.pc = IF v.todo = {} THEN reader[r].pc + 1 ELSE reader[r].pc
      PROVE  TypeInv'
  <2>1. v.pc <= Len(Pipeline) + 1
    BY <1>1, <1>3, <1>5
  <2>2. v.todo # {} => v.pc \in 1..Len(Pipeline) /\ Pipeline[v.pc] = "StatusRollup"
    BY <1>3, <1>5
  <2>3. /\ reader' \in [Readers -> Reader]
        /\ \A q \in Readers : reader'[q].pc <= Len(Pipeline') + 1
        /\ \A q \in Readers : Rolling(q)' => Running(q)' /\ StepOf(q)' = "StatusRollup"
    BY <1>4, <1>5, <2>1, <2>2, OneReaderMoves
  <2> QED BY <1>4, <2>3 DEF TypeInv, ReadTypeOK, RollupSensor
<1> QED BY <1>2, <1>5, RollupSensorMoves DEF result

LEMMA RollupNothingTypes == ASSUME TypeInv, NEW r \in Readers, RollupNothing(r) PROVE TypeInv'
<1> DEFINE v == [reader[r] EXCEPT !.pc = reader[r].pc + 1]
<1>1. /\ reader[r] \in Reader /\ reader[r].pc \in Nat /\ reader[r].pc + 1 \in Nat
      /\ Len(Pipeline) \in Nat
  BY PipelineLength DEF TypeInv, ReadTypeOK, Reader
<1>2. reader[r].pc \in 1..Len(Pipeline) /\ reader[r].todo = {}
  BY <1>1 DEF TypeInv, ReadTypeOK, RollupNothing, Running, Idle, AtEnd
<1>3. v \in Reader /\ v.pc = reader[r].pc + 1 /\ v.todo = {}
  BY <1>1, <1>2, ReaderField
<1>4. UNCHANGED <<entity, fromFirst>> /\ reader' = [reader EXCEPT ![r] = v]
      /\ v.pc <= Len(Pipeline) + 1
  BY <1>1, <1>2, <1>3 DEF RollupNothing
<1> HIDE DEF v
<1>5. fields' \in Fields
  BY StatusIs, FieldsField DEF TypeInv, ReadTypeOK, RollupNothing
<1>6. /\ reader' \in [Readers -> Reader]
      /\ \A q \in Readers : reader'[q].pc <= Len(Pipeline') + 1
      /\ \A q \in Readers : Rolling(q)' => Running(q)' /\ StepOf(q)' = "StatusRollup"
  BY <1>3, <1>4, OneReaderMoves
<1> QED
  BY <1>4, <1>5, <1>6 DEF TypeInv, ReadTypeOK, RollupNothing

LEMMA AnswerTypes == ASSUME TypeInv, NEW r \in Readers, Answer(r) PROVE TypeInv'
<1>1. UNCHANGED <<entity, fromFirst>> /\ reader' = [reader EXCEPT ![r] = IdleReader]
      /\ IdleReader.pc <= Len(Pipeline) + 1
  BY IdleReaderIs, PipelineLength DEF TypeInv, ReadTypeOK, Answer
<1>2. /\ reader' \in [Readers -> Reader]
      /\ \A q \in Readers : reader'[q].pc <= Len(Pipeline') + 1
      /\ \A q \in Readers : Rolling(q)' => Running(q)' /\ StepOf(q)' = "StatusRollup"
  BY <1>1, IdleReaderIs, OneReaderMoves
<1> QED
  BY <1>1, <1>2 DEF TypeInv, ReadTypeOK, Answer

(* The dbus thread keeps them.                                             *)
LEMMA FillTypes ==
  ASSUME TypeInv, NEW object \in Sensors \cup {"callback", "boot", "once", "settings"},
         NEW s \in Service, NEW c \in Cached, Fill(object, s, c)
  PROVE  TypeInv'
<1>1. UNCHANGED <<entity, fromFirst>> /\ reader' = Disturbed /\ changes' \in 0..MaxChanges
  BY ReadAssumption DEF Fill, TypeInv, ReadTypeOK
<1>2. /\ reader' \in [Readers -> Reader]
      /\ \A q \in Readers : reader'[q].pc <= Len(Pipeline') + 1
      /\ \A q \in Readers : Rolling(q)' => Running(q)' /\ StepOf(q)' = "StatusRollup"
  BY <1>1, NoReaderMoves
<1> QED BY <1>1, <1>2 DEF Fill, TypeInv, ReadTypeOK

LEMMA CachedField ==
  ASSUME cached \in Cached
  PROVE  /\ \A x \in Status : [cached EXCEPT !.callback = x] \in Cached
         /\ \A x \in Modes : [cached EXCEPT !.boot = x] \in Cached
         /\ \A x \in Modes : [cached EXCEPT !.once = x] \in Cached
  BY DEF Cached

LEMMA SignalsTypes == ASSUME TypeInv, Signals PROVE TypeInv'
<1>0. /\ service \in Service /\ cached \in Cached
      /\ \A m \in BootModes : FormatMode(m) \in Modes
      /\ \A C : FormatStatus(C, observedCauserList) \in Status
  BY BootFormats, FormatStatusIsStatus DEF TypeInv, ReadTypeOK
<1>1. CASE \E s \in Sensors : SensorChanged(s)
  BY <1>0, <1>1, ServiceField, FillTypes DEF SensorChanged
<1>2. CASE CausesChanged
  BY <1>0, <1>2, ServiceField, CachedField, FillTypes DEF CausesChanged
<1>3. CASE BootModeChanged \/ BootSourceChanged \/ OnceChanged
  BY <1>0, <1>3, ServiceField, CachedField, FillTypes
  DEF BootModeChanged, BootSourceChanged, OnceChanged
<1>4. CASE SettingChanged
  BY <1>0, <1>4, ServiceField, FillTypes DEF SettingChanged
<1>5. CASE Remove
  <2>1. UNCHANGED <<entity, fromFirst>> /\ reader' = Disturbed /\ changes' \in 0..MaxChanges
    BY <1>5, ReadAssumption DEF Remove, TypeInv, ReadTypeOK
  <2>2. /\ reader' \in [Readers -> Reader]
        /\ \A q \in Readers : reader'[q].pc <= Len(Pipeline') + 1
        /\ \A q \in Readers : Rolling(q)' => Running(q)' /\ StepOf(q)' = "StatusRollup"
    BY <2>1, NoReaderMoves
  <2> QED BY <1>5, <2>1, <2>2 DEF Remove, TypeInv, ReadTypeOK
<1> QED BY <1>1, <1>2, <1>3, <1>4, <1>5 DEF Signals

LEMMA StaticFieldsAre ==
  ASSUME cached \in Cached, service \in Service
  PROVE  LET c == supplementByStaticFields
         IN  /\ c \in Cached
             /\ c.boot = IF handling = "boot" THEN FormatSource(cached.boot, service.boot.source)
                         ELSE cached.boot
             /\ c.once = IF handling = "once" THEN FormatSource(cached.once, service.once.source)
                         ELSE cached.once
<1>1. /\ cached.sensor \in [Sensors -> Status] /\ cached.boot \in Modes /\ cached.once \in Modes
      /\ service.boot.source \in BootSources /\ service.once.source \in BootSources
  BY DEF Cached, Service, Boots
<1>2. \A m \in Modes, o \in BootSources : FormatSource(m, o) \in Modes
  BY BootFormats
<1> DEFINE x == [s \in Sensors |-> IF handling = s THEN setStatus(service.alarms[s])
                                   ELSE cached.sensor[s]]
           b == IF handling = "boot" THEN FormatSource(cached.boot, service.boot.source)
                ELSE cached.boot
           o == IF handling = "once" THEN FormatSource(cached.once, service.once.source)
                ELSE cached.once
<1>3. supplementByStaticFields = [cached EXCEPT !.sensor = x, !.boot = b, !.once = o]
  BY DEF supplementByStaticFields
<1>4. x \in [Sensors -> Status]
  BY <1>1, SetStatusIsStatus
<1>5. b \in Modes /\ o \in Modes
  BY <1>1, <1>2
<1> HIDE DEF x, b, o
<1>6. /\ [cached EXCEPT !.sensor = x, !.boot = b, !.once = o] \in Cached
      /\ [cached EXCEPT !.sensor = x, !.boot = b, !.once = o].boot = b
      /\ [cached EXCEPT !.sensor = x, !.boot = b, !.once = o].once = o
  BY <1>4, <1>5 DEF Cached
<1> QED BY <1>3, <1>6 DEF b, o

LEMMA HandledTypes == ASSUME TypeInv, Handled PROVE TypeInv'
<1>1. cached' \in Cached /\ cached'.sensor \in [Sensors -> Status]
  BY StaticFieldsAre DEF TypeInv, ReadTypeOK, Handled, Cached
<1>2. span' \in [low : [Sensors -> Status], high : [Sensors -> Status]]
  <2>1. span.low \in [Sensors -> Status] /\ span.high \in [Sensors -> Status]
    BY DEF TypeInv, ReadTypeOK
  <2>2. LowerOf(span.low, cached'.sensor) \in [Sensors -> Status]
    BY <1>1, <2>1 DEF LowerOf
  <2>3. HigherOf(span.high, cached'.sensor) \in [Sensors -> Status]
    BY <1>1, <2>1, HigherIsStatus DEF HigherOf
  <2> QED BY <2>2, <2>3 DEF Handled
<1>3. UNCHANGED <<entity, fromFirst>> /\ reader' = Disturbed
  BY DEF Handled
<1>4. /\ reader' \in [Readers -> Reader]
      /\ \A q \in Readers : reader'[q].pc <= Len(Pipeline') + 1
      /\ \A q \in Readers : Rolling(q)' => Running(q)' /\ StepOf(q)' = "StatusRollup"
  BY <1>3, NoReaderMoves
<1> QED BY <1>1, <1>2, <1>3, <1>4 DEF Handled, TypeInv, ReadTypeOK

LEMMA TypeInvNext == ASSUME TypeInv, [Next]_vars PROVE TypeInv'
<1>1. CASE UNCHANGED vars
  <2>1. UNCHANGED <<entity, fromFirst, reader>>
    BY <1>1 DEF vars
  <2>2. /\ reader' \in [Readers -> Reader]
        /\ \A q \in Readers : reader'[q].pc <= Len(Pipeline') + 1
        /\ \A q \in Readers : Rolling(q)' => Running(q)' /\ StepOf(q)' = "StatusRollup"
    BY <2>1, NoReaderMoves
  <2> QED BY <1>1, <2>2 DEF vars, TypeInv, ReadTypeOK
<1>2. CASE Next
  BY <1>2, BeginTypes, SupplementTypes, AnswerTypes, RollupStartTypes, RollupNothingTypes,
     RollupSensorTypes, SignalsTypes, HandledTypes
  DEF Next
<1> QED BY <1>1, <1>2

LEMMA RegularIs == Regular \in Boots /\ FreshMode(Regular) = "none"
  BY DEF Regular, Boots, BootModes, BootSources, KnownSources, FreshMode, FormatMode,
         FormatSource, SourceDict, SpecialModes

LEMMA TypeInvInit == Init => TypeInv
<1> SUFFICES ASSUME Init PROVE TypeInv
  OBVIOUS
<1>1. ok \in Status /\ "none" \in Modes /\ "none" \in Override
  BY StatusIs DEF Modes, SourceModes, Override
<1>2. service \in Service
  BY RegularIs DEF Init, Service, Activations
<1>3. cached \in Cached
  BY <1>1 DEF Init, Cached
<1>4. fields \in Fields
  BY <1>1 DEF Init, Fields
<1>5. /\ reader \in [Readers -> Reader]
      /\ \A r \in Readers : reader[r].pc <= Len(Pipeline) + 1 /\ ~Rolling(r)
  <2>1. reader = [r \in Readers |-> IdleReader] /\ Len(Pipeline) \in Nat
    BY PipelineLength DEF Init
  <2>2. \A r \in Readers : reader[r] = IdleReader
    BY <2>1
  <2> QED BY <2>1, <2>2, IdleReaderIs DEF Rolling
<1>6. span \in [low : [Sensors -> Status], high : [Sensors -> Status]]
  BY <1>1 DEF Init
<1>7. /\ entity \in Kinds /\ fromFirst \in BOOLEAN /\ present \in BOOLEAN
      /\ handling = "nothing" /\ changes \in 0..MaxChanges
  BY ReadAssumption DEF Init
<1> QED BY <1>2, <1>3, <1>4, <1>5, <1>6, <1>7 DEF TypeInv, ReadTypeOK

(* The variables have their types, and a pass never runs past its last     *)
(* provider, however many threads write into the shared fields.            *)
THEOREM ReadTypes == Spec => []ReadTypeOK
<1>1. TypeInv /\ [Next]_vars => TypeInv'
  BY TypeInvNext
<1>2. TypeInv => ReadTypeOK
  BY DEF TypeInv
<1> QED BY <1>1, <1>2, TypeInvInit, PTL DEF Spec

----------------------------------------------------------------------------
(* The boot mode.  BootModeIsFresh says nothing of the time a signal is    *)
(* half handled; then the rest of the handler makes the mode right.        *)
BootInv ==
    /\ Shows(FormatSource(cached.boot, service.boot.source), service.boot)
    /\ Shows(FormatSource(cached.once, service.once.source), service.once)
    /\ handling # "boot" => Shows(cached.boot, service.boot)
    /\ handling # "once" => Shows(cached.once, service.once)

LEMMA BootStays ==
  ASSUME BootInv, handling = "nothing" \/ UNCHANGED handling,
         service'.boot = service.boot, service'.once = service.once,
         cached'.boot = cached.boot, cached'.once = cached.once
  PROVE  BootInv'
  BY DEF BootInv, Shows, Decided, FreshMode

(* Half of a signal about one of the two providers.                        *)
LEMMA BootHalf ==
  ASSUME BootInv, handling = "nothing", handling' = "boot",
         service'.once = service.once, cached'.once = cached.once,
         Shows(FormatSource(cached'.boot, service'.boot.source), service'.boot)
  PROVE  BootInv'
  BY DEF BootInv, Shows, Decided, FreshMode

LEMMA OnceHalf ==
  ASSUME BootInv, handling = "nothing", handling' = "once",
         service'.boot = service.boot, cached'.boot = cached.boot,
         Shows(FormatSource(cached'.once, service'.once.source), service'.once)
  PROVE  BootInv'
  BY DEF BootInv, Shows, Decided, FreshMode

(* A signal of the Mode interface sets the mode, one of the Source         *)
(* interface leaves it to the rest of the handler.                         *)
LEMMA BootSignals == ASSUME TypeInv, BootInv, Signals PROVE BootInv'
<1>0. /\ service \in Service /\ cached \in Cached
      /\ service.boot \in Boots /\ service.once \in Boots
  BY DEF TypeInv, ReadTypeOK, Service
<1>1. /\ service.boot.mode \in BootModes /\ service.boot.source \in BootSources
      /\ service.once.mode \in BootModes /\ service.once.source \in BootSources
  BY <1>0 DEF Boots
<1>2. ASSUME NEW object, NEW s, NEW c, Fill(object, s, c)
      PROVE  /\ handling = "nothing" /\ handling' = object /\ service' = s /\ cached' = c
             /\ Shows(cached.boot, service.boot) /\ Shows(cached.once, service.once)
  BY <1>2 DEF Fill, BootInv
<1>3. CASE \/ \E s \in Sensors : SensorChanged(s)
           \/ CausesChanged \/ SettingChanged
  <2>1. /\ handling = "nothing"
        /\ service'.boot = service.boot /\ service'.once = service.once
        /\ cached'.boot = cached.boot /\ cached'.once = cached.once
    <3>1. CASE \E s \in Sensors : SensorChanged(s)
      BY <1>0, <1>2, <3>1 DEF SensorChanged, Service
    <3>2. CASE CausesChanged
      BY <1>0, <1>2, <3>2 DEF CausesChanged, Service, Cached
    <3>3. CASE SettingChanged
      <4>1. CASE Fill("settings", [service EXCEPT !.retry = ~ @], cached)
        BY <1>0, <1>2, <4>1 DEF Service
      <4>2. ASSUME NEW l \in Leds, Fill("settings", [service EXCEPT !.led[l] = ~ @], cached)
            PROVE  /\ handling = "nothing" /\ service'.boot = service.boot
                   /\ service'.once = service.once /\ cached' = cached
        BY <1>0, <1>2, <4>2 DEF Service
      <4>3. ASSUME NEW w \in Firmwares, NEW p \in {"bmc", "bios"},
                   NEW a \in {"ready", "active", "failed"},
                   Fill("settings", [service EXCEPT !.fw[w] = [purpose |-> p, activation |-> a]],
                        cached)
            PROVE  /\ handling = "nothing" /\ service'.boot = service.boot
                   /\ service'.once = service.once /\ cached' = cached
        BY <1>0, <1>2, <4>3 DEF Service
      <4> QED BY <3>3, <4>1, <4>2, <4>3 DEF SettingChanged
    <3> QED BY <1>3, <3>1, <3>2, <3>3
  <2> QED BY <2>1, BootStays
<1>4. CASE Remove
  BY <1>4, BootStays DEF Remove
<1>5. CASE BootModeChanged
  <2>1. PICK m \in BootModes :
            Fill("boot", [service EXCEPT !.boot.mode = m], [cached EXCEPT !.boot = FormatMode(m)])
    BY <1>5 DEF BootModeChanged
  <2>2. /\ handling = "nothing" /\ handling' = "boot"
        /\ service'.boot \in Boots /\ service'.boot.mode = m /\ service'.once = service.once
        /\ cached'.boot = FormatMode(m) /\ cached'.once = cached.once
    BY <1>0, <1>2, <2>1 DEF Service, Boots, Cached
  <2> QED BY <2>2, ModeFollows, BootFormats, BootHalf
<1>6. CASE BootSourceChanged
  <2>1. PICK o \in BootSources : Fill("boot", [service EXCEPT !.boot.source = o], cached)
    BY <1>6 DEF BootSourceChanged
  <2>2. /\ handling = "nothing" /\ handling' = "boot" /\ service'.boot \in Boots
        /\ service'.boot.mode = service.boot.mode /\ service'.once = service.once
        /\ cached' = cached /\ Shows(cached.boot, service.boot) /\ cached.boot \in Modes
    BY <1>0, <1>2, <2>1 DEF Service, Boots, Cached
  <2>3. Shows(FormatSource(cached.boot, service'.boot.source), service'.boot)
    BY <1>0, <2>2, ModeFollows
  <2> QED BY <2>2, <2>3, BootHalf
<1>7. CASE OnceChanged
  <2>1. CASE \E o \in BootSources : Fill("once", [service EXCEPT !.once.source = o], cached)
    <3>1. PICK o \in BootSources : Fill("once", [service EXCEPT !.once.source = o], cached)
      BY <2>1
    <3>2. /\ handling = "nothing" /\ handling' = "once" /\ service'.once \in Boots
          /\ service'.once.mode = service.once.mode /\ service'.boot = service.boot
          /\ cached' = cached /\ Shows(cached.once, service.once) /\ cached.once \in Modes
      BY <1>0, <1>2, <3>1 DEF Service, Boots, Cached
    <3>3. Shows(FormatSource(cached.once, service'.once.source), service'.once)
      BY <1>0, <3>2, ModeFollows
    <3> QED BY <3>2, <3>3, OnceHalf
  <2>2. CASE Fill("once", [service EXCEPT !.oneTime = ~ @], cached)
    <3>1. /\ handling = "nothing"
          /\ service'.boot = service.boot /\ service'.once = service.once /\ cached' = cached
      BY <1>0, <1>2, <2>2 DEF Service
    <3> QED BY <3>1, BootStays
  <2>3. CASE \E m \in BootModes :
                Fill("once", [service EXCEPT !.once.mode = m], [cached EXCEPT !.once = FormatMode(m)])
    <3>1. PICK m \in BootModes :
            Fill("once", [service EXCEPT !.once.mode = m], [cached EXCEPT !.once = FormatMode(m)])
      BY <2>3
    <3>2. /\ handling = "nothing" /\ handling' = "once"
          /\ service'.once \in Boots /\ service'.once.mode = m /\ service'.boot = service.boot
          /\ cached'.once = FormatMode(m) /\ cached'.boot = cached.boot
      BY <1>0, <1>2, <3>1 DEF Service, Boots, Cached
    <3> QED BY <3>2, ModeFollows, BootFormats, OnceHalf
  <2> QED BY <1>7, <2>1, <2>2, <2>3 DEF OnceChanged
<1> QED BY <1>3, <1>4, <1>5, <1>6, <1>7 DEF Signals

LEMMA BootHandled == ASSUME TypeInv, BootInv, Handled PROVE BootInv'
<1>1. /\ service.boot \in Boots /\ service.once \in Boots
      /\ cached.boot \in Modes /\ cached.once \in Modes
      /\ cached \in Cached /\ service \in Service
  BY DEF TypeInv, ReadTypeOK, Service, Cached
<1> DEFINE Again(x, boot) == FormatSource(x, boot.source)
<1>2. /\ service' = service
      /\ cached'.boot = IF handling = "boot" THEN Again(cached.boot, service.boot)
                        ELSE cached.boot
      /\ cached'.once = IF handling = "once" THEN Again(cached.once, service.once)
                        ELSE cached.once
  BY <1>1, StaticFieldsAre DEF Handled
<1>3. /\ Again(Again(cached.boot, service.boot), service.boot) = Again(cached.boot, service.boot)
      /\ Again(Again(cached.once, service.once), service.once) = Again(cached.once, service.once)
  BY <1>1, ModeFollows
<1>4. /\ Shows(Again(cached.boot, service.boot), service.boot)
      /\ Shows(Again(cached.once, service.once), service.once)
      /\ Shows(cached'.boot, service.boot) /\ Shows(cached'.once, service.once)
  BY <1>2 DEF BootInv
<1>5. /\ Again(cached'.boot, service.boot) = Again(cached.boot, service.boot)
      /\ Again(cached'.once, service.once) = Again(cached.once, service.once)
  BY <1>2, <1>3
<1> HIDE DEF Again
<1>6. /\ Shows(Again(cached'.boot, service.boot), service.boot)
      /\ Shows(Again(cached'.once, service.once), service.once)
  BY <1>4, <1>5
<1> QED BY <1>2, <1>4, <1>6 DEF BootInv, Again, Shows, Decided, FreshMode

LEMMA BootInvNext == ASSUME TypeInv, BootInv, [Next]_vars PROVE BootInv'
<1>1. CASE UNCHANGED <<service, cached, handling>>
  BY <1>1, BootStays
<1> QED
  BY <1>1, BootSignals, BootHandled
  DEF Next, vars, Begin, Supplement, Answer, RollupStart, RollupNothing, RollupSensor

LEMMA BootInvInit == Init => BootInv
<1> SUFFICES ASSUME Init PROVE BootInv
  OBVIOUS
<1>1. service.boot = Regular /\ service.once = Regular /\ cached.boot = "none" /\ cached.once = "none"
  BY DEF Init
<1>2. FormatSource("none", Regular.source) = "none" /\ Shows("none", Regular)
  BY RegularIs DEF Shows, FormatSource, SourceDict, Regular, SpecialModes, KnownSources, Decided
<1> QED BY <1>1, <1>2 DEF BootInv

(* Whatever signals of the Mode and the Source interfaces come, in         *)
(* whatever order: between signals the mode in a cache is what reading     *)
(* both anew would give, unless the source is one the dictionary lacks;    *)
(* then still no special mode is missed or left over.                      *)
THEOREM BootModeFresh == Spec => []BootModeIsFresh
<1>1. TypeInv /\ BootInv /\ [Next]_vars => TypeInv' /\ BootInv'
  BY TypeInvNext, BootInvNext
<1>2. BootInv => BootModeIsFresh
  BY DEF BootInv, BootModeIsFresh
<1> QED BY <1>1, <1>2, TypeInvInit, BootInvInit, PTL DEF Spec

----------------------------------------------------------------------------
(* The roll-up.  Several threads may roll up at once and the last one      *)
(* stores the result; what a thread has gathered so far and what is stored *)
(* once any thread is past the roll-up lie within the span.                *)
Between(h) ==
    /\ \A s \in RelatedSensors : h >= span.low[s]
    /\ h = ok \/ \E s \in RelatedSensors : h <= span.high[s]

Gathered(r) ==
    /\ reader[r].todo \subseteq RelatedSensors
    /\ \A s \in RelatedSensors \ reader[r].todo : reader[r].acc >= span.low[s]
    /\ reader[r].acc = ok \/ \E s \in RelatedSensors : reader[r].acc <= span.high[s]

SpanInv ==
    entity # "server" =>
        /\ \A s \in Sensors : span.low[s] <= cached.sensor[s] /\ cached.sensor[s] <= span.high[s]
        /\ present => \A r \in Readers : /\ Rolling(r) => Gathered(r)
                                         /\ reader[r].pc > RollupAt => Between(fields.rollup)

LEMMA RelatedIsSensors == RelatedSensors \subseteq Sensors
  BY ReadAssumption DEF RelatedSensors

(* The types the arithmetic below needs.                                   *)
LEMMA SpanTypes ==
  ASSUME TypeInv
  PROVE  /\ \A s \in Sensors : /\ span.low[s] \in Status /\ span.high[s] \in Status
                               /\ cached.sensor[s] \in Status
         /\ \A r \in Readers : /\ reader[r].acc \in Status /\ reader[r].pc \in Nat
                               /\ reader[r].todo \in SUBSET Sensors
         /\ fields.rollup \in Status
         /\ Status = {0, 1, 2}
         /\ RelatedSensors \subseteq Sensors
  BY StatusIs, RelatedIsSensors DEF TypeInv, ReadTypeOK, Reader, Cached, Fields

(* The span grows around a sensor that changes, and nothing else moves.    *)
LEMMA SpanStays ==
  ASSUME TypeInv, TypeInv', SpanInv, UNCHANGED <<entity, fromFirst, fields>>,
         present' \in {present, FALSE},
         \A r \in Readers : /\ reader'[r].pc = reader[r].pc
                            /\ reader'[r].todo = reader[r].todo
                            /\ reader'[r].acc = reader[r].acc,
         \A s \in Sensors : /\ span'.low[s] <= span.low[s] /\ span'.high[s] >= span.high[s]
                            /\ span'.low[s] <= cached'.sensor[s]
                            /\ cached'.sensor[s] <= span'.high[s]
  PROVE  SpanInv'
<1> SUFFICES ASSUME entity # "server" PROVE SpanInv'
  BY DEF SpanInv
<1>1. ASSUME present', NEW r \in Readers
      PROVE  /\ Rolling(r)' => Gathered(r)'
             /\ (reader[r].pc > RollupAt => Between(fields.rollup))'
  <2>1. present /\ RelatedSensors' = RelatedSensors /\ RollupAt' = RollupAt
    BY <1>1 DEF RelatedSensors, RollupAt
  <2>2. /\ Rolling(r) => Gathered(r)
        /\ reader[r].pc > RollupAt => Between(fields.rollup)
    BY <2>1 DEF SpanInv
  <2>3. ASSUME NEW h \in Status, NEW s \in RelatedSensors
        PROVE  /\ h >= span.low[s] => h >= span'.low[s]
               /\ h <= span.high[s] => h <= span'.high[s]
    <3>1. /\ s \in Sensors /\ h \in {0, 1, 2}
          /\ span.low[s] \in {0, 1, 2} /\ span.high[s] \in {0, 1, 2}
      BY SpanTypes
    <3>2. span'.low[s] \in {0, 1, 2} /\ span'.high[s] \in {0, 1, 2}
      BY <3>1, StatusIs DEF TypeInv, ReadTypeOK
    <3> QED BY <3>1, <3>2
  <2>4. Rolling(r)' => Gathered(r)'
    BY <2>1, <2>2, <2>3, SpanTypes DEF Rolling, Gathered
  <2>5. (reader[r].pc > RollupAt => Between(fields.rollup))'
    BY <2>1, <2>2, <2>3, SpanTypes DEF Between
  <2> QED BY <2>4, <2>5
<1> QED BY <1>1 DEF SpanInv

(* A step of one thread that stores no roll-up and gathers nothing.        *)
LEMMA SpanOfOne ==
  ASSUME TypeInv, SpanInv, UNCHANGED <<entity, fromFirst, present, cached, span>>,
         fields'.rollup = fields.rollup, NEW r \in Readers,
         \A q \in Readers \ {r} : /\ reader'[q].pc = reader[q].pc
                                  /\ reader'[q].todo = reader[q].todo
                                  /\ reader'[q].acc = reader[q].acc,
         reader'[r].todo = {},
         entity # "server" => (reader'[r].pc > RollupAt => reader[r].pc > RollupAt)
  PROVE  SpanInv'
<1> SUFFICES ASSUME entity # "server" PROVE SpanInv'
  BY DEF SpanInv
<1>0. RelatedSensors' = RelatedSensors /\ RollupAt' = RollupAt
  BY DEF RelatedSensors, RollupAt
<1>1. ASSUME present, NEW q \in Readers
      PROVE  /\ Rolling(q)' => Gathered(q)'
             /\ (reader[q].pc > RollupAt => Between(fields.rollup))'
  <2>1. /\ Rolling(q) => Gathered(q)
        /\ reader[q].pc > RollupAt => Between(fields.rollup)
    BY <1>1 DEF SpanInv
  <2>2. CASE q = r
    BY <1>0, <2>1, <2>2 DEF Rolling, Between
  <2>3. CASE q # r
    BY <1>0, <2>1, <2>3 DEF Rolling, Gathered, Between
  <2> QED BY <2>2, <2>3
<1> QED BY <1>1 DEF SpanInv

(* Where threads move to: what the steps of one thread do to the others.   *)
LEMMA BeginMoves ==
  ASSUME TypeInv, NEW r \in Readers, Begin(r)
  PROVE  /\ reader'[r].pc = 1 /\ reader'[r].todo = {}
         /\ \A q \in Readers \ {r} : /\ reader'[q].pc = reader[q].pc
                                     /\ reader'[q].todo = reader[q].todo
                                     /\ reader'[q].acc = reader[q].acc
<1> DEFINE quiet == NobodyReads /\ handling = "nothing"
           v == [pc |-> 1, todo |-> {}, acc |-> ok, prev |-> fields.rollup, quiet |-> quiet]
<1>1. reader' = [Disturbed EXCEPT ![r] = v] /\ v.pc = 1 /\ v.todo = {}
  BY DEF Begin
<1> HIDE DEF v
<1>2. Disturbed \in [Readers -> Reader] /\ reader \in [Readers -> Reader]
  BY DisturbedIs DEF TypeInv, ReadTypeOK
<1>3. \A q \in Readers : reader'[q] = IF q = r THEN v ELSE Disturbed[q]
  BY <1>1, <1>2
<1> QED BY <1>1, <1>2, <1>3, DisturbedIs

LEMMA SpanBegin == ASSUME TypeInv, SpanInv, NEW r \in Readers, Begin(r) PROVE SpanInv'
<1> SUFFICES ASSUME entity # "server" PROVE SpanInv'
  BY DEF SpanInv, Begin
<1>0. /\ UNCHANGED <<entity, fromFirst, present, cached>> /\ fields' = fields
      /\ RollupAt \in 1..2 /\ RollupAt' = RollupAt /\ RelatedSensors' = RelatedSensors
  BY DEF Begin, RollupAt, RelatedSensors
<1>1. CASE span' = span
  <2>1. entity # "server" => (reader'[r].pc > RollupAt => reader[r].pc > RollupAt)
    BY <1>0, BeginMoves
  <2> QED BY <1>0, <1>1, <2>1, BeginMoves, SpanOfOne
<1>2. CASE NobodyReads /\ span' = [low |-> cached.sensor, high |-> cached.sensor]
  <2>1. \A s \in Sensors : span'.low[s] <= cached'.sensor[s] /\ cached'.sensor[s] <= span'.high[s]
    <3>1. \A s \in Sensors : cached.sensor[s] \in {0, 1, 2}
      BY SpanTypes
    <3> QED BY <1>0, <1>2, <3>1
  <2>2. ASSUME NEW q \in Readers
        PROVE  ~Rolling(q)' /\ ~(reader[q].pc > RollupAt)'
    <3>1. CASE q = r
      BY <1>0, <3>1, BeginMoves DEF Rolling
    <3>2. CASE q # r
      <4>1. reader[q].pc = 0 /\ reader[q].todo = {}
        BY <1>2 DEF NobodyReads, Idle, TypeInv, Rolling, Running
      <4> QED BY <1>0, <3>2, <4>1, BeginMoves DEF Rolling
    <3> QED BY <3>1, <3>2
  <2> QED BY <2>1, <2>2 DEF SpanInv
<1> QED BY <1>1, <1>2 DEF Begin

LEMMA SpanSupplement == ASSUME TypeInv, SpanInv, NEW r \in Readers, Supplement(r) PROVE SpanInv'
<1> SUFFICES ASSUME entity # "server" PROVE SpanInv'
  BY DEF SpanInv, Supplement
<1>0. /\ UNCHANGED <<entity, fromFirst, present, cached, span>>
      /\ entity \in {"chassis", "fan", "psu"} /\ fromFirst \in BOOLEAN
      /\ reader \in [Readers -> Reader] /\ reader[r] \in Reader /\ reader[r].pc \in Nat
  BY ReadAssumption, SpanTypes DEF Supplement, TypeInv, ReadTypeOK
<1>1. reader[r].pc \in 1..Len(Pipeline) /\ reader[r].todo = {}
  BY <1>0, PipelineLength DEF TypeInv, ReadTypeOK, Rolling, Supplement, Running, Idle, AtEnd
<1>2. fields'.rollup = fields.rollup
  BY <1>1, ApplyKeepsFields DEF TypeInv, Supplement, StepOf
<1>3. reader[r].pc # RollupAt /\ RollupAt \in 1..2
  BY <1>0, <1>1, PipelineOfSensors DEF Supplement, StepOf
<1> DEFINE v == [reader[r] EXCEPT !.pc = reader[r].pc + 1]
<1>4. reader[r].pc + 1 \in Nat /\ reader' = [reader EXCEPT ![r] = v]
  BY <1>0 DEF Supplement
<1>5. v.pc = reader[r].pc + 1 /\ v.todo = {}
  BY <1>0, <1>1, <1>4, ReaderField
<1> HIDE DEF v
<1>6. reader'[r] = v /\ \A q \in Readers \ {r} : reader'[q] = reader[q]
  BY <1>0, <1>4
<1>7. reader'[r].pc > RollupAt => reader[r].pc > RollupAt
  BY <1>0, <1>3, <1>5, <1>6
<1> QED BY <1>0, <1>2, <1>5, <1>6, <1>7, SpanOfOne

LEMMA SpanAnswer == ASSUME TypeInv, SpanInv, NEW r \in Readers, Answer(r) PROVE SpanInv'
<1>0. UNCHANGED <<entity, fromFirst, present, cached, span, fields>>
      /\ reader \in [Readers -> Reader] /\ RollupAt \in 1..2
      /\ reader' = [reader EXCEPT ![r] = IdleReader]
  BY DEF Answer, TypeInv, ReadTypeOK, RollupAt
<1>1. reader'[r] = IdleReader /\ \A q \in Readers \ {r} : reader'[q] = reader[q]
  BY <1>0
<1>2. reader'[r].todo = {} /\ ~(reader'[r].pc > RollupAt)
  BY <1>0, <1>1, IdleReaderIs
<1> QED BY <1>0, <1>1, <1>2, SpanOfOne

(* A thread that starts to roll up has gathered ok and visited nothing.    *)
LEMMA SpanRollupStart ==
  ASSUME TypeInv, SpanInv, NEW r \in Readers, RollupStart(r) PROVE SpanInv'
<1> SUFFICES ASSUME entity # "server" PROVE SpanInv'
  BY DEF SpanInv, RollupStart
<1>0. /\ UNCHANGED <<entity, fromFirst, present, cached, span, fields>>
      /\ reader \in [Readers -> Reader]
      /\ RollupAt' = RollupAt /\ RelatedSensors' = RelatedSensors
  BY DEF RollupStart, TypeInv, ReadTypeOK, RollupAt, RelatedSensors
<1>1. ASSUME NEW v \in Reader, reader' = [reader EXCEPT ![r] = v],
             v.todo = RelatedSensors, v.acc = ok, v.pc = reader[r].pc
      PROVE  SpanInv'
  <2>1. reader'[r] = v /\ \A q \in Readers \ {r} : reader'[q] = reader[q]
    BY <1>0, <1>1
  <2>2. ASSUME present, NEW q \in Readers
        PROVE  /\ Rolling(q)' => Gathered(q)'
               /\ (reader[q].pc > RollupAt => Between(fields.rollup))'
    <3>1. CASE q = r
      BY <1>0, <1>1, <2>1, <2>2, <3>1 DEF SpanInv, Gathered, Between
    <3>2. CASE q # r
      BY <1>0, <2>1, <2>2, <3>2 DEF SpanInv, Rolling, Gathered, Between
    <3> QED BY <3>1, <3>2
  <2> QED BY <1>0, <2>2 DEF SpanInv
<1> QED BY <1>1, RollupStartMoves

(* One sensor more: the result is no lower than any sensor visited has     *)
(* been, and no higher than some related sensor has been.                  *)
LEMMA ResultWithin ==
  ASSUME TypeInv, SpanInv, entity # "server", present, NEW r \in Readers, Gathered(r),
         NEW s \in reader[r].todo,
         NEW result, result = getHigherStatus(cached.sensor[s], reader[r].acc)
  PROVE  /\ \A x \in RelatedSensors \ (reader[r].todo \ {s}) : result >= span.low[x]
         /\ result = ok \/ \E x \in RelatedSensors : result <= span.high[x]
<1>1. /\ s \in RelatedSensors /\ s \in Sensors
      /\ cached.sensor[s] \in {0, 1, 2} /\ reader[r].acc \in {0, 1, 2}
      /\ \A x \in Sensors : span.low[x] \in {0, 1, 2} /\ span.high[x] \in {0, 1, 2}
      /\ RelatedSensors \subseteq Sensors
  BY SpanTypes DEF Gathered
<1>2. /\ result \in {cached.sensor[s], reader[r].acc}
      /\ result >= cached.sensor[s] /\ result >= reader[r].acc /\ result \in {0, 1, 2}
  BY <1>1, HigherIsStatus, StatusIs
<1>3. span.low[s] <= cached.sensor[s] /\ cached.sensor[s] <= span.high[s]
  BY <1>1 DEF SpanInv
<1>4. ASSUME NEW x \in RelatedSensors \ (reader[r].todo \ {s})
      PROVE  result >= span.low[x]
  <2>1. CASE x = s
    BY <1>1, <1>2, <1>3, <2>1
  <2>2. CASE x # s
    <3>1. reader[r].acc >= span.low[x]
      BY <2>2 DEF Gathered
    <3> QED BY <1>1, <1>2, <3>1
  <2> QED BY <2>1, <2>2
<1>5. result = ok \/ \E x \in RelatedSensors : result <= span.high[x]
  BY <1>1, <1>2, <1>3 DEF Gathered
<1> QED BY <1>4, <1>5

LEMMA SpanRollupSensor ==
  ASSUME TypeInv, SpanInv, NEW r \in Readers, NEW s \in Sensors, RollupSensor(r, s)
  PROVE  SpanInv'
<1> SUFFICES ASSUME entity # "server" PROVE SpanInv'
  BY DEF SpanInv, RollupSensor
<1> DEFINE result == getHigherStatus(cached.sensor[s], reader[r].acc)
<1>0. /\ UNCHANGED <<entity, fromFirst, present, cached, span>>
      /\ reader \in [Readers -> Reader] /\ fields \in Fields
      /\ RollupAt' = RollupAt /\ RelatedSensors' = RelatedSensors
      /\ s \in reader[r].todo /\ Rolling(r)
      /\ entity \in {"chassis", "fan", "psu"} /\ fromFirst \in BOOLEAN
  BY ReadAssumption
  DEF RollupSensor, TypeInv, ReadTypeOK, RollupAt, RelatedSensors, Rolling
<1>1. result \in Status
  BY SpanTypes, HigherIsStatus
<1>2. reader[r].pc = RollupAt /\ RollupAt \in 1..2 /\ reader[r].pc \in Nat
  <2>1. reader[r].pc \in 1..Len(Pipeline) /\ Pipeline[reader[r].pc] = "StatusRollup"
    BY <1>0, SpanTypes, PipelineLength
    DEF TypeInv, ReadTypeOK, Running, StepOf, Idle, AtEnd
  <2> QED BY <1>0, <2>1, PipelineOfSensors
<1>3. fields' = IF reader[r].todo = {s} THEN [fields EXCEPT !.rollup = result] ELSE fields
  BY DEF RollupSensor
<1>4. fields'.rollup = IF reader[r].todo = {s} THEN result ELSE fields.rollup
  BY <1>0, <1>1, <1>3, FieldsField
<1>5. present => /\ \A x \in RelatedSensors \ (reader[r].todo \ {s}) : result >= span.low[x]
                 /\ result = ok \/ \E x \in RelatedSensors : result <= span.high[x]
                 /\ reader[r].todo \subseteq RelatedSensors
  BY <1>0, ResultWithin DEF SpanInv, Gathered
<1> HIDE DEF result
<1>6. ASSUME NEW v \in Reader, reader' = [reader EXCEPT ![r] = v],
             v.todo = reader[r].todo \ {s}, v.acc = result,
             v.pc = IF v.todo = {} THEN reader[r].pc + 1 ELSE reader[r].pc
      PROVE  SpanInv'
  <2>1. reader'[r] = v /\ \A q \in Readers \ {r} : reader'[q] = reader[q]
    BY <1>0, <1>6
  <2>2. ASSUME present, NEW q \in Readers
        PROVE  Rolling(q)' => Gathered(q)'
    <3>1. CASE q = r
      BY <1>0, <1>5, <1>6, <2>1, <2>2, <3>1 DEF Gathered
    <3>2. CASE q # r
      BY <1>0, <2>1, <2>2, <3>2 DEF SpanInv, Rolling, Gathered
    <3> QED BY <3>1, <3>2
  <2>3. ASSUME present, NEW q \in Readers
        PROVE  (reader[q].pc > RollupAt => Between(fields.rollup))'
    <3>1. CASE reader[r].todo = {s}
      BY <1>0, <1>4, <1>5, <2>3, <3>1 DEF Between
    <3>2. CASE reader[r].todo # {s}
      <4>1. v.pc = RollupAt /\ fields'.rollup = fields.rollup
        BY <1>0, <1>2, <1>4, <1>6, <3>2
      <4> QED BY <1>0, <1>2, <2>1, <2>3, <4>1 DEF SpanInv, Between
    <3> QED BY <3>1, <3>2
  <2> QED BY <1>0, <2>2, <2>3 DEF SpanInv
<1> QED BY <1>1, <1>6, RollupSensorMoves DEF result

LEMMA SpanRollupNothing ==
  ASSUME TypeInv, SpanInv, NEW r \in Readers, RollupNothing(r) PROVE SpanInv'
<1> SUFFICES ASSUME entity # "server" PROVE SpanInv'
  BY DEF SpanInv, RollupNothing
<1> DEFINE v == [reader[r] EXCEPT !.pc = reader[r].pc + 1]
<1>0. /\ UNCHANGED <<entity, fromFirst, present, cached, span>>
      /\ reader \in [Readers -> Reader] /\ fields \in Fields
      /\ reader[r].pc + 1 \in Nat /\ reader[r].todo = {}
      /\ RelatedSensors = {} /\ RelatedSensors' = RelatedSensors
      /\ reader' = [reader EXCEPT ![r] = v] /\ fields' = [fields EXCEPT !.rollup = ok]
  BY SpanTypes DEF RollupNothing, TypeInv, ReadTypeOK, RelatedSensors
<1>1. v.todo = {}
  BY <1>0, ReaderField
<1> HIDE DEF v
<1>2. fields'.rollup = ok
  BY <1>0, StatusIs, FieldsField
<1>3. reader'[r] = v /\ \A q \in Readers \ {r} : reader'[q] = reader[q]
  BY <1>0
<1>4. ASSUME present, NEW q \in Readers
      PROVE  /\ Rolling(q)' => Gathered(q)'
             /\ (reader[q].pc > RollupAt => Between(fields.rollup))'
  <2>1. Between(fields.rollup)'
    BY <1>0, <1>2 DEF Between, ok
  <2>2. Rolling(q)' => Gathered(q)'
    BY <1>0, <1>1, <1>3, <1>4 DEF SpanInv, Rolling, Gathered
  <2> QED BY <2>1, <2>2
<1> QED BY <1>0, <1>4 DEF SpanInv

(* A handler widens the span by what it makes of the sensor, and the other *)
(* signals leave the sensors alone.                                        *)
LEMMA SpanHandled == ASSUME TypeInv, TypeInv', SpanInv, Handled PROVE SpanInv'
<1> SUFFICES ASSUME entity # "server" PROVE SpanInv'
  BY DEF SpanInv, Handled
<1>1. /\ UNCHANGED <<entity, fromFirst, fields, present>> /\ reader' = Disturbed
      /\ reader \in [Readers -> Reader]
      /\ span' = [low |-> LowerOf(span.low, cached'.sensor),
                  high |-> HigherOf(span.high, cached'.sensor)]
  BY DEF Handled, TypeInv, ReadTypeOK
<1>2. \A s \in Sensors : cached'.sensor[s] \in {0, 1, 2}
  BY StatusIs DEF TypeInv, ReadTypeOK, Cached
<1>3. ASSUME NEW s \in Sensors
      PROVE  /\ span'.low[s] <= span.low[s] /\ span'.high[s] >= span.high[s]
             /\ span'.low[s] <= cached'.sensor[s] /\ cached'.sensor[s] <= span'.high[s]
  <2>1. span.low[s] \in {0, 1, 2} /\ span.high[s] \in {0, 1, 2} /\ cached'.sensor[s] \in {0, 1, 2}
    BY <1>2, SpanTypes
  <2>2. span'.low[s] = IF span.low[s] <= cached'.sensor[s] THEN span.low[s] ELSE cached'.sensor[s]
    BY <1>1 DEF LowerOf
  <2>3. span'.high[s] = getHigherStatus(span.high[s], cached'.sensor[s])
    BY <1>1 DEF HigherOf
  <2> QED BY <2>1, <2>2, <2>3 DEF getHigherStatus
<1> QED BY <1>1, <1>3, DisturbedIs, SpanStays

LEMMA SignalsKeep ==
  ASSUME TypeInv, Signals
  PROVE  /\ UNCHANGED <<entity, fromFirst, fields, span>>
         /\ present' \in {present, FALSE} /\ reader' = Disturbed
         /\ cached'.sensor = cached.sensor
<1>0. cached \in Cached
  BY DEF TypeInv, ReadTypeOK
<1>1. ASSUME NEW object, NEW s, NEW c, Fill(object, s, c), c.sensor = cached.sensor
      PROVE  /\ UNCHANGED <<entity, fromFirst, fields, span>>
             /\ present' \in {present, FALSE} /\ reader' = Disturbed
             /\ cached'.sensor = cached.sensor
  BY <1>1 DEF Fill
<1>2. /\ \A x : [cached EXCEPT !.callback = x].sensor = cached.sensor
      /\ \A x : [cached EXCEPT !.boot = x].sensor = cached.sensor
      /\ \A x : [cached EXCEPT !.once = x].sensor = cached.sensor
  BY <1>0 DEF Cached
<1> QED
  BY <1>1, <1>2 DEF Signals, SensorChanged, CausesChanged, BootModeChanged, BootSourceChanged,
     OnceChanged, SettingChanged, Remove

LEMMA SpanSignals == ASSUME TypeInv, TypeInv', SpanInv, Signals PROVE SpanInv'
<1> SUFFICES ASSUME entity # "server" PROVE SpanInv'
  BY SignalsKeep DEF SpanInv
<1>1. /\ UNCHANGED <<entity, fromFirst, fields, span>> /\ present' \in {present, FALSE}
      /\ reader' = Disturbed /\ cached'.sensor = cached.sensor
      /\ reader \in [Readers -> Reader]
  BY SignalsKeep DEF TypeInv, ReadTypeOK
<1>2. ASSUME NEW s \in Sensors
      PROVE  /\ span'.low[s] <= span.low[s] /\ span'.high[s] >= span.high[s]
             /\ span'.low[s] <= cached'.sensor[s] /\ cached'.sensor[s] <= span'.high[s]
  <2>1. span.low[s] \in {0, 1, 2} /\ span.high[s] \in {0, 1, 2}
    BY SpanTypes
  <2>2. span.low[s] <= cached.sensor[s] /\ cached.sensor[s] <= span.high[s]
    BY DEF SpanInv
  <2> QED BY <1>1, <2>1, <2>2
<1> QED BY <1>1, <1>2, DisturbedIs, SpanStays

LEMMA SpanInvNext == ASSUME TypeInv, TypeInv', SpanInv, [Next]_vars PROVE SpanInv'
<1>1. CASE UNCHANGED vars
  BY <1>1 DEF vars, SpanInv, Rolling, Gathered, Between, RollupAt, RelatedSensors
<1>2. CASE Next
  BY <1>2, SpanBegin, SpanSupplement, SpanAnswer, SpanRollupStart, SpanRollupNothing,
     SpanRollupSensor, SpanSignals, SpanHandled
  DEF Next
<1> QED BY <1>1, <1>2

LEMMA SpanInvInit == Init => SpanInv
<1> SUFFICES ASSUME Init PROVE SpanInv
  OBVIOUS
<1>1. \A r \in Readers : ~Rolling(r) /\ ~(reader[r].pc > RollupAt)
  BY IdleReaderIs DEF Init, Rolling, RollupAt
<1>2. \A s \in Sensors : span.low[s] <= cached.sensor[s] /\ cached.sensor[s] <= span.high[s]
  BY DEF Init, ok
<1> QED BY <1>1, <1>2 DEF SpanInv

(* However many threads roll up the health of the shared instance at once, *)
(* and whatever signals come in between: the roll-up a thread shows lies   *)
(* between what the related sensors were since the reads that overlap      *)
(* began.                                                                  *)
THEOREM RollupWithin == Spec => []RollupWithinSpan
<1>1. TypeInv /\ SpanInv /\ [Next]_vars => TypeInv' /\ SpanInv'
  BY TypeInvNext, SpanInvNext
<1>2. TypeInv /\ SpanInv => RollupWithinSpan
  <2> SUFFICES ASSUME TypeInv, SpanInv, NEW r \in Readers, AtEnd(r), entity # "server", present
               PROVE  Between(fields.rollup)
    BY DEF RollupWithinSpan, Between
  <2>1. entity \in {"chassis", "fan", "psu"} /\ fromFirst \in BOOLEAN
    BY ReadAssumption DEF TypeInv, ReadTypeOK
  <2>2. reader[r].pc > RollupAt
    <3>1. Len(Pipeline) \in {2, 3} /\ RollupAt \in 1..2
      BY <2>1, PipelineOfSensors
    <3>2. reader[r].pc = Len(Pipeline) + 1
      BY DEF AtEnd
    <3> QED BY <3>1, <3>2
  <2> QED BY <2>2 DEF SpanInv
<1> QED BY <1>1, <1>2, TypeInvInit, SpanInvInit, PTL DEF Spec

----------------------------------------------------------------------------
(* A read that nobody disturbs.  A thread is quiet when it began alone,    *)
(* with no signal half handled; whatever another thread begins or a signal *)
(* changes ends that.  So a quiet thread is the only one that runs, and    *)
(* what it has passed in its pipeline is what the fields show.             *)
QuietAlone ==
    \A r \in Readers : reader[r].quiet =>
        /\ handling = "nothing" /\ ~Idle(r)
        /\ \A q \in Readers \ {r} : Idle(q)

(* The steps a thread makes between its beginning and its answer.          *)
Own(r) ==
    \/ Supplement(r) \/ RollupStart(r) \/ RollupNothing(r)
    \/ \E s \in Sensors : RollupSensor(r, s)

LEMMA ReaderKeeps ==
  ASSUME NEW v \in Reader
  PROVE  /\ \A x : /\ [v EXCEPT !.pc = x].quiet = v.quiet
                   /\ [v EXCEPT !.pc = x].prev = v.prev
         /\ \A x : /\ [v EXCEPT !.todo = x].quiet = v.quiet
                   /\ [v EXCEPT !.todo = x].prev = v.prev
         /\ \A x : /\ [v EXCEPT !.acc = x].quiet = v.quiet
                   /\ [v EXCEPT !.acc = x].prev = v.prev
         /\ \A x : [v EXCEPT !.quiet = x].quiet = x
  BY DEF Reader

LEMMA DisturbedIsLoud ==
  ASSUME TypeInv, NEW r \in Readers
  PROVE  ~Disturbed[r].quiet
<1>1. reader[r] \in Reader /\ Disturbed[r] = [reader[r] EXCEPT !.quiet = FALSE]
  BY DEF TypeInv, ReadTypeOK, Disturbed
<1> QED BY <1>1, ReaderKeeps

(* A thread's own step leaves the other threads and the caches alone, and  *)
(* takes it one provider further at most.                                  *)
LEMMA OwnMoves ==
  ASSUME TypeInv, NEW r \in Readers, Own(r)
  PROVE  /\ \A q \in Readers \ {r} : reader'[q] = reader[q]
         /\ reader'[r].quiet = reader[r].quiet /\ reader'[r].prev = reader[r].prev
         /\ reader'[r].pc \in {reader[r].pc, reader[r].pc + 1}
         /\ reader[r].pc \in 1..Len(Pipeline)
         /\ UNCHANGED <<entity, fromFirst, present, service, cached, handling>>
<1> DEFINE v == reader[r]
<1>0. /\ reader \in [Readers -> Reader] /\ v \in Reader /\ v.pc \in Nat /\ v.pc + 1 \in Nat
      /\ Len(Pipeline) \in Nat
  BY SpanTypes, PipelineLength DEF TypeInv, ReadTypeOK
<1>1. UNCHANGED <<entity, fromFirst, present, service, cached, handling>>
  BY DEF Own, Supplement, RollupStart, RollupNothing, RollupSensor
<1>2. Running(r)
  <2>1. ASSUME NEW s \in Sensors, RollupSensor(r, s) PROVE Running(r)
    BY <2>1 DEF TypeInv, Rolling, RollupSensor
  <2> QED BY <2>1 DEF Own, Supplement, RollupStart, RollupNothing
<1>3. v.pc \in 1..Len(Pipeline)
  BY <1>0, <1>2 DEF Running, Idle, AtEnd, TypeInv, ReadTypeOK
<1>4. \E u : /\ reader' = [reader EXCEPT ![r] = u]
             /\ u.quiet = v.quiet /\ u.prev = v.prev /\ u.pc \in {v.pc, v.pc + 1}
  <2>1. CASE Supplement(r) \/ RollupNothing(r)
    <3>1. reader' = [reader EXCEPT ![r] = [v EXCEPT !.pc = v.pc + 1]]
      BY <2>1 DEF Supplement, RollupNothing
    <3>2. [v EXCEPT !.pc = v.pc + 1].pc = v.pc + 1
      BY <1>0, ReaderField
    <3> QED BY <1>0, <3>1, <3>2, ReaderKeeps
  <2>2. CASE RollupStart(r)
    <3> DEFINE a == [v EXCEPT !.todo = RelatedSensors]
               b == [a EXCEPT !.acc = ok]
    <3>1. reader' = [reader EXCEPT ![r] = b]
      BY <2>2 DEF RollupStart
    <3>2. a \in Reader /\ a.pc = v.pc /\ a.quiet = v.quiet /\ a.prev = v.prev
      BY <1>0, RelatedIsSensors, ReaderField, ReaderKeeps
    <3> HIDE DEF a
    <3>3. b.pc = v.pc /\ b.quiet = v.quiet /\ b.prev = v.prev
      BY <3>2, StatusIs, ReaderField, ReaderKeeps
    <3> HIDE DEF b
    <3> QED BY <3>1, <3>3
  <2>3. ASSUME NEW s \in Sensors, RollupSensor(r, s)
        PROVE  \E u : /\ reader' = [reader EXCEPT ![r] = u]
                      /\ u.quiet = v.quiet /\ u.prev = v.prev /\ u.pc \in {v.pc, v.pc + 1}
    <3> DEFINE result == getHigherStatus(cached.sensor[s], v.acc)
               k == IF v.todo = {s} THEN v.pc + 1 ELSE v.pc
               a == [v EXCEPT !.todo = v.todo \ {s}]
               b == [a EXCEPT !.acc = result]
               c == [b EXCEPT !.pc = k]
    <3>0. result \in Status /\ v.todo \ {s} \in SUBSET Sensors /\ k \in {v.pc, v.pc + 1}
          /\ k \in Nat
      BY <1>0, SpanTypes, HigherIsStatus
    <3>1. reader' = [reader EXCEPT ![r] = c]
      BY <2>3 DEF RollupSensor
    <3> HIDE DEF result, k
    <3>2. a \in Reader /\ a.quiet = v.quiet /\ a.prev = v.prev
      BY <1>0, <3>0, ReaderField, ReaderKeeps
    <3> HIDE DEF a
    <3>3. b \in Reader /\ b.quiet = v.quiet /\ b.prev = v.prev
      BY <3>0, <3>2, ReaderField, ReaderKeeps
    <3> HIDE DEF b
    <3>4. c.pc = k /\ c.quiet = v.quiet /\ c.prev = v.prev
      BY <3>0, <3>3, ReaderField, ReaderKeeps
    <3> HIDE DEF c
    <3> QED BY <3>0, <3>1, <3>4
  <2> QED BY <2>1, <2>2, <2>3 DEF Own
<1> QED BY <1>0, <1>1, <1>3, <1>4

(* How a thread comes to be quiet, and stays so.                           *)
LEMMA QuietStep ==
  ASSUME TypeInv, QuietAlone, Next, NEW r \in Readers, reader'[r].quiet
  PROVE  \/ Begin(r) /\ NobodyReads /\ handling = "nothing"
         \/ Own(r) /\ reader[r].quiet
<1>0. reader \in [Readers -> Reader] /\ Disturbed \in [Readers -> Reader]
  BY DisturbedIs DEF TypeInv, ReadTypeOK
<1>1. ASSUME NEW q \in Readers, Begin(q)
      PROVE  q = r /\ NobodyReads /\ handling = "nothing"
  <2> DEFINE b == NobodyReads /\ handling = "nothing"
             v == [pc |-> 1, todo |-> {}, acc |-> ok, prev |-> fields.rollup, quiet |-> b]
  <2>1. reader' = [Disturbed EXCEPT ![q] = v]
    BY <1>1 DEF Begin
  <2>2. v.quiet = b
    OBVIOUS
  <2> HIDE DEF v
  <2>3. reader'[r] = IF r = q THEN v ELSE Disturbed[r]
    BY <1>0, <2>1
  <2>4. r = q
    BY <2>3, DisturbedIsLoud
  <2>5. b
    <3>1. reader'[r] = v
      BY <2>3, <2>4
    <3>2. v.quiet
      BY <3>1
    <3> HIDE DEF b
    <3> QED BY <2>2, <3>2
  <2> QED BY <2>4, <2>5
<1>2. ASSUME NEW q \in Readers, Own(q)
      PROVE  q = r /\ reader[r].quiet
  <2>1. CASE q = r
    BY <1>2, <2>1, OwnMoves
  <2>2. CASE q # r
    <3>1. reader[r].quiet /\ reader[q].pc # 0
      BY <1>2, <2>2, OwnMoves
    <3> QED BY <2>2, <3>1 DEF QuietAlone, Idle
  <2> QED BY <2>1, <2>2
<1>3. ASSUME NEW q \in Readers, Answer(q) PROVE FALSE
  <2>1. reader'[r] = IF r = q THEN IdleReader ELSE reader[r]
    BY <1>0, <1>3 DEF Answer
  <2>2. r # q /\ reader[r].quiet
    BY <2>1 DEF IdleReader
  <2>3. reader[q].pc # 0
    <3>1. Len(Pipeline) \in Nat
      BY PipelineLength DEF TypeInv, ReadTypeOK
    <3>2. reader[q].pc = Len(Pipeline) + 1
      BY <1>3 DEF Answer, AtEnd
    <3> QED BY <3>1, <3>2
  <2> QED BY <2>2, <2>3 DEF QuietAlone, Idle
<1>4. ASSUME Signals \/ Handled PROVE FALSE
  <2>1. reader' = Disturbed
    BY <1>4, SignalsKeep DEF Handled
  <2> QED BY <2>1, DisturbedIsLoud
<1> QED BY <1>1, <1>2, <1>3, <1>4 DEF Next, Own

LEMMA QuietAloneNext == ASSUME TypeInv, QuietAlone, [Next]_vars PROVE QuietAlone'
<1>1. CASE UNCHANGED vars
  BY <1>1 DEF vars, QuietAlone, Idle
<1>2. CASE Next
  <2> SUFFICES ASSUME NEW r \in Readers, reader'[r].quiet
               PROVE  /\ handling' = "nothing" /\ ~Idle(r)'
                      /\ \A q \in Readers \ {r} : Idle(q)'
    BY DEF QuietAlone
  <2>1. CASE Begin(r) /\ NobodyReads /\ handling = "nothing"
    <3>1. handling' = handling
      BY <2>1 DEF Begin
    <3> QED BY <2>1, <3>1, BeginMoves DEF NobodyReads, Idle
  <2>2. CASE Own(r) /\ reader[r].quiet
    <3>1. reader[r].pc \in Nat
      BY SpanTypes
    <3>2. ~Idle(r)' /\ handling' = handling
      BY <2>2, <3>1, OwnMoves DEF Idle
    <3> QED BY <2>2, <3>2, OwnMoves DEF QuietAlone, Idle
  <2> QED BY <1>2, <2>1, <2>2, QuietStep
<1> QED BY <1>1, <1>2

LEMMA QuietAloneInit == Init => QuietAlone
<1> SUFFICES ASSUME Init, NEW r \in Readers PROVE ~reader[r].quiet
  BY DEF QuietAlone
<1> QED BY DEF Init, IdleReader

(* A step of a thread applies one provider, or rolls up.                   *)
LEMMA OwnApplies ==
  ASSUME TypeInv, NEW r \in Readers, Own(r)
  PROVE  \/ /\ Pipeline[reader[r].pc] # "StatusRollup"
            /\ fields' \in Apply(Pipeline[reader[r].pc], fields)
            /\ reader'[r].pc = reader[r].pc + 1
         \/ /\ Pipeline[reader[r].pc] = "StatusRollup"
            /\ fields'.status = fields.status
<1>0. fields \in Fields /\ reader \in [Readers -> Reader] /\ reader[r] \in Reader
      /\ reader[r].pc + 1 \in Nat
  BY SpanTypes DEF TypeInv, ReadTypeOK
<1>1. CASE Supplement(r)
  <2>1. reader'[r] = [reader[r] EXCEPT !.pc = reader[r].pc + 1]
    BY <1>0, <1>1 DEF Supplement
  <2>2. reader'[r].pc = reader[r].pc + 1
    BY <1>0, <2>1, ReaderField
  <2> QED BY <1>1, <2>2 DEF Supplement, StepOf
<1>2. \A x : [fields EXCEPT !.rollup = x].status = fields.status
  BY <1>0 DEF Fields
<1>3. CASE RollupStart(r) \/ RollupNothing(r)
  BY <1>2, <1>3 DEF RollupStart, RollupNothing, StepOf
<1>4. ASSUME NEW s \in Sensors, RollupSensor(r, s)
      PROVE  Pipeline[reader[r].pc] = "StatusRollup" /\ fields'.status = fields.status
  <2>1. Rolling(r)
    BY <1>4 DEF RollupSensor, Rolling
  <2> QED BY <1>2, <1>4, <2>1 DEF RollupSensor, TypeInv, StepOf
<1> QED BY <1>1, <1>3, <1>4 DEF Own

LEMMA PipelineOfHealth ==
  ASSUME entity \in {"chassis", "fan"}
  PROVE  /\ Len(Pipeline) = 2
         /\ fromFirst => Pipeline[1] = "StatusFromRollup" /\ Pipeline[2] = "StatusRollup"
         /\ ~fromFirst => Pipeline[1] = "StatusRollup" /\ Pipeline[2] = "StatusFromRollup"
<1>1. CASE fromFirst
  <2>1. Pipeline = <<"StatusFromRollup", "StatusRollup">>
    BY <1>1 DEF Pipeline, Defaults
  <2> QED BY <1>1, <2>1
<1>2. CASE ~fromFirst
  <2>1. Pipeline = <<"StatusRollup", "StatusFromRollup">>
    BY <1>2 DEF Pipeline, Defaults
  <2> QED BY <1>2, <2>1
<1> QED BY <1>1, <1>2

(* The health a quiet thread has put together so far: the roll-up of the   *)
(* pass before when it is copied first, or else the one just made.         *)
QuietStatus ==
    \A r \in Readers : reader[r].quiet /\ entity \in {"chassis", "fan"} =>
        IF fromFirst
        THEN /\ reader[r].pc = 1 => fields.rollup = reader[r].prev
             /\ reader[r].pc > 1 => fields.status = reader[r].prev
        ELSE reader[r].pc > 2 => fields.status = fields.rollup

LEMMA QuietStatusNext ==
  ASSUME TypeInv, QuietAlone, QuietStatus, [Next]_vars PROVE QuietStatus'
<1>1. CASE UNCHANGED vars
  BY <1>1 DEF vars, QuietStatus
<1>2. CASE Next
  <2> SUFFICES ASSUME NEW r \in Readers, reader'[r].quiet, entity' \in {"chassis", "fan"}
               PROVE  IF fromFirst'
                      THEN /\ reader'[r].pc = 1 => fields'.rollup = reader'[r].prev
                           /\ reader'[r].pc > 1 => fields'.status = reader'[r].prev
                      ELSE reader'[r].pc > 2 => fields'.status = fields'.rollup
    BY DEF QuietStatus
  <2>1. CASE Begin(r) /\ NobodyReads /\ handling = "nothing"
    <3> DEFINE b == NobodyReads /\ handling = "nothing"
               v == [pc |-> 1, todo |-> {}, acc |-> ok, prev |-> fields.rollup, quiet |-> b]
    <3>1. reader' = [Disturbed EXCEPT ![r] = v] /\ fields' = fields
      BY <2>1 DEF Begin
    <3>2. v.pc = 1 /\ v.prev = fields.rollup
      OBVIOUS
    <3> HIDE DEF v
    <3>3. reader'[r] = v
      BY <3>1, DisturbedIs DEF TypeInv, ReadTypeOK
    <3> QED BY <3>1, <3>2, <3>3
  <2>2. CASE Own(r) /\ reader[r].quiet
    <3> DEFINE p == reader[r].pc
    <3>1. /\ entity \in {"chassis", "fan"} /\ fromFirst' = fromFirst /\ fromFirst \in BOOLEAN
          /\ reader'[r].prev = reader[r].prev /\ reader'[r].pc \in {p, p + 1}
          /\ p \in 1..Len(Pipeline)
      BY <2>2, OwnMoves DEF TypeInv, ReadTypeOK
    <3>2. p \in {1, 2}
      <4>1. Len(Pipeline) = 2 /\ p \in 1..Len(Pipeline)
        BY <3>1, PipelineOfHealth
      <4> HIDE DEF p
      <4> QED BY <4>1
    <3>3. IF fromFirst THEN /\ p = 1 => fields.rollup = reader[r].prev
                            /\ p > 1 => fields.status = reader[r].prev
          ELSE p > 2 => fields.status = fields.rollup
      BY <2>2, <3>1 DEF QuietStatus
    <3>4. CASE Pipeline[p] = "StatusRollup"
      <4>1. fields'.status = fields.status
        BY <2>2, <3>4, OwnApplies
      <4>2. p = IF fromFirst THEN 2 ELSE 1
        BY <3>1, <3>2, <3>4, PipelineOfHealth
      <4> HIDE DEF p
      <4> QED BY <3>1, <3>3, <4>1, <4>2
    <3>5. CASE Pipeline[p] # "StatusRollup"
      <4>1. Pipeline[p] = "StatusFromRollup" /\ p = IF fromFirst THEN 1 ELSE 2
        BY <3>1, <3>2, <3>5, PipelineOfHealth
      <4>2. fields' \in Apply("StatusFromRollup", fields) /\ reader'[r].pc = p + 1
        BY <2>2, <3>5, <4>1, OwnApplies
      <4>3. fields' = [fields EXCEPT !.status = fields.rollup] /\ fields \in Fields
        BY <4>2 DEF Apply, TypeInv, ReadTypeOK
      <4>4. fields'.status = fields.rollup /\ fields'.rollup = fields.rollup
        BY <4>3 DEF Fields
      <4> HIDE DEF p
      <4> QED BY <3>1, <3>3, <4>1, <4>2, <4>4
    <3> QED BY <3>4, <3>5
  <2> QED BY <1>2, <2>1, <2>2, QuietStep
<1> QED BY <1>1, <1>2

(* The health shown is at most one pass behind the roll-up, and only when  *)
(* the map visits StatusFromRollup first: in a read that nobody disturbs,  *)
(* for any number of threads and sensors.                                  *)
THEOREM OnePassBehind == Spec => []StatusOnePassBehind
<1>1. Init => QuietStatus
  <2> SUFFICES ASSUME Init, NEW r \in Readers PROVE ~reader[r].quiet
    BY DEF QuietStatus
  <2> QED BY DEF Init, IdleReader
<1>2. TypeInv /\ QuietAlone /\ QuietStatus /\ [Next]_vars
        => TypeInv' /\ QuietAlone' /\ QuietStatus'
  BY TypeInvNext, QuietAloneNext, QuietStatusNext
<1>3. TypeInv /\ QuietStatus => StatusOnePassBehind
  <2> SUFFICES ASSUME QuietStatus, NEW r \in Readers, entity \in {"chassis", "fan"}, AtEnd(r),
                      reader[r].quiet
               PROVE  fields.status = IF fromFirst THEN reader[r].prev ELSE fields.rollup
    BY DEF StatusOnePassBehind
  <2>1. Len(Pipeline) = 2 /\ reader[r].pc = Len(Pipeline) + 1
    BY PipelineOfHealth DEF AtEnd
  <2>2. reader[r].pc = 3
    BY <2>1
  <2> QED BY <2>2 DEF QuietStatus
<1> QED BY <1>1, <1>2, <1>3, TypeInvInit, QuietAloneInit, PTL DEF Spec

----------------------------------------------------------------------------
(* The Server.  The callback manager's health in the cache is that of the  *)
(* causes it lists now, and what a quiet thread has passed is current.     *)
CallbackInv == cached.callback = FormatStatus(service.causes, observedCauserList)

LEMMA CallbackInvNext == ASSUME TypeInv, CallbackInv, [Next]_vars PROVE CallbackInv'
<1>0. service \in Service /\ cached \in Cached
  BY DEF TypeInv, ReadTypeOK
<1>1. CASE /\ UNCHANGED entity /\ service'.causes = service.causes
           /\ cached'.callback = cached.callback
  BY <1>1 DEF CallbackInv, observedCauserList
<1>2. CASE Handled
  <2>1. cached' = supplementByStaticFields /\ UNCHANGED <<service, entity>>
    BY <1>2 DEF Handled
  <2>2. cached'.callback = cached.callback
    BY <1>0, <2>1 DEF supplementByStaticFields, Cached
  <2> QED BY <1>1, <2>1, <2>2
<1>3. CASE Signals
  <2>0. UNCHANGED entity
    BY <1>3, SignalsKeep
  <2>1. ASSUME NEW o, NEW s, NEW c, Fill(o, s, c), s.causes = service.causes,
               c.callback = cached.callback
        PROVE  CallbackInv'
    BY <1>1, <2>0, <2>1 DEF Fill
  <2>2. CASE CausesChanged
    <3>1. PICK causes \in SUBSET Causes :
            Fill("callback", [service EXCEPT !.causes = causes],
                 [cached EXCEPT !.callback = FormatStatus(causes, observedCauserList)])
      BY <2>2 DEF CausesChanged
    <3>2. /\ service'.causes = causes
          /\ cached'.callback = FormatStatus(causes, observedCauserList)
      BY <1>0, <3>1 DEF Fill, Service, Cached
    <3> QED BY <2>0, <3>2 DEF CallbackInv, observedCauserList
  <2>3. CASE \E s \in Sensors : SensorChanged(s)
    <3>1. \A s \in Sensors : \A a : [service EXCEPT !.alarms[s] = a].causes = service.causes
      BY <1>0 DEF Service
    <3> QED BY <2>1, <2>3, <3>1 DEF SensorChanged
  <2>4. CASE BootModeChanged
    <3>1. /\ \A m : [service EXCEPT !.boot.mode = m].causes = service.causes
          /\ \A m : [cached EXCEPT !.boot = m].callback = cached.callback
      BY <1>0 DEF Service, Cached
    <3> QED BY <2>1, <2>4, <3>1 DEF BootModeChanged
  <2>5. CASE BootSourceChanged \/ OnceChanged
    <3>1. /\ \A m : [service EXCEPT !.boot.source = m].causes = service.causes
          /\ \A m : [service EXCEPT !.once.source = m].causes = service.causes
          /\ \A m : [service EXCEPT !.once.mode = m].causes = service.causes
          /\ \A m : [cached EXCEPT !.once = m].callback = cached.callback
          /\ [service EXCEPT !.oneTime = ~ @].causes = service.causes
      BY <1>0 DEF Service, Cached
    <3> QED BY <2>1, <2>5, <3>1 DEF BootSourceChanged, OnceChanged
  <2>6. CASE SettingChanged
    <3>1. [service EXCEPT !.retry = ~ @].causes = service.causes
      BY <1>0 DEF Service
    <3>2. \A l \in Leds : [service EXCEPT !.led[l] = ~ @].causes = service.causes
      BY <1>0 DEF Service
    <3>3. \A w \in Firmwares : \A x : [service EXCEPT !.fw[w] = x].causes = service.causes
      BY <1>0 DEF Service
    <3> QED BY <2>1, <2>6, <3>1, <3>2, <3>3 DEF SettingChanged
  <2>7. CASE Remove
    BY <1>1, <2>7 DEF Remove
  <2> QED BY <1>3, <2>2, <2>3, <2>4, <2>5, <2>6, <2>7 DEF Signals
<1> QED
  BY <1>1, <1>2, <1>3
  DEF Next, vars, Begin, Supplement, Answer, RollupStart, RollupNothing, RollupSensor

(* Nothing is listed when the caches have just been filled.                *)
LEMMA CallbackInvInit == Init => CallbackInv
<1> SUFFICES ASSUME Init PROVE CallbackInv
  OBVIOUS
<1>1. {statusDict(c.level) : c \in {d \in {} : isCauserObserved(d.causer, observedCauserList)}} = {}
  OBVIOUS
<1>2. Highest({}) = ok
  <2>1. Highest({}) = CHOOSE s \in {ok} : \A t \in {ok} : s >= t
    BY DEF Highest
  <2>2. ok >= ok
    BY StatusIs
  <2> QED BY <2>1, <2>2
<1> QED BY <1>1, <1>2 DEF Init, CallbackInv, FormatStatus

BootShown ==
    /\ fields.mode = cached.boot
    /\ fields.override = IF cached.boot = "none" THEN "none" ELSE "continuous"

OnceShown ==
    IF OnceApplies THEN fields.mode = cached.once /\ fields.override = "once" ELSE BootShown

(* What the fields show once a thread stands at stage p.                   *)
ServerStage(p) ==
    /\ p > 1 => fields.rollup = ServerRollup
    /\ p \in 2..7 => fields.led = FALSE
    /\ p > 2 => fields.retry = service.retry
    /\ p > 3 => fields.attempts = service.retry
    /\ p = 5 => fields.mode = "none" /\ fields.override = "none"
    /\ p = 6 => BootShown
    /\ p > 6 => OnceShown
    /\ p > 7 => (fields.led <=> \E l \in Leds : service.led[l])
    /\ p > 8 => (ActiveBmc # {} => fields.bmc \in ActiveBmc)
    /\ p > 9 => fields.status = cached.callback

LEMMA ServerPipeline ==
  ASSUME entity = "server"
  PROVE  /\ Len(Pipeline) = 9
         /\ Pipeline[1] = "ServerDefaults" /\ Pipeline[2] = "BootSettings"
         /\ Pipeline[3] = "linkRebootAttempts" /\ Pipeline[4] = "linkHostBootReset"
         /\ Pipeline[5] = "linkHostBoot" /\ Pipeline[6] = "linkHostBootOnce"
         /\ Pipeline[7] = "linkIndicatorLed" /\ Pipeline[8] = "linkActiveVersions"
         /\ Pipeline[9] = "StatusByCallbackManager"
<1>1. Pipeline = <<"ServerDefaults", "BootSettings", "linkRebootAttempts", "linkHostBootReset",
                   "linkHostBoot", "linkHostBootOnce", "linkIndicatorLed", "linkActiveVersions",
                   "StatusByCallbackManager">>
  BY DEF Pipeline
<1> QED BY <1>1

(* One provider further: what it sets is current, and what was stays so.   *)
LEMMA ServerStageNext ==
  ASSUME TypeInv, entity = "server", NEW p \in 1..9, ServerStage(p),
         fields' \in Apply(Pipeline[p], fields), UNCHANGED <<cached, service>>
  PROVE  ServerStage(p + 1)'
<1>0. /\ fields \in Fields /\ ServerRollup' = ServerRollup /\ ActiveBmc' = ActiveBmc
      /\ (OnceApplies' <=> OnceApplies)
  BY DEF TypeInv, ReadTypeOK, ServerRollup, BiosFirmware, ActiveBmc, OnceApplies
<1>1. CASE p = 1
  <2>1. fields' = [fields EXCEPT !.led = FALSE, !.rollup = ServerRollup]
    BY <1>1, ServerPipeline DEF Apply
  <2>2. fields'.led = FALSE /\ fields'.rollup = ServerRollup
    BY <1>0, <2>1 DEF Fields
  <2> QED BY <1>0, <1>1, <2>2 DEF ServerStage
<1>2. CASE p = 2
  <2>1. fields' = [fields EXCEPT !.retry = service.retry]
    BY <1>2, ServerPipeline DEF Apply
  <2>2. /\ fields'.retry = service.retry
        /\ fields'.rollup = fields.rollup /\ fields'.led = fields.led
    BY <1>0, <2>1 DEF Fields
  <2> QED BY <1>0, <1>2, <2>2 DEF ServerStage
<1>3. CASE p = 3
  <2>1. fields' = [fields EXCEPT !.attempts = fields.retry]
    BY <1>3, ServerPipeline DEF Apply, linkRebootAttempts
  <2>2. /\ fields'.attempts = fields.retry /\ fields'.retry = fields.retry
        /\ fields'.rollup = fields.rollup /\ fields'.led = fields.led
    BY <1>0, <2>1 DEF Fields
  <2> QED BY <1>0, <1>3, <2>2 DEF ServerStage
<1>4. CASE p = 4
  <2>1. fields' = [fields EXCEPT !.mode = "none", !.override = "none"]
    BY <1>4, ServerPipeline DEF Apply
  <2>2. /\ fields'.mode = "none" /\ fields'.override = "none"
        /\ fields'.attempts = fields.attempts /\ fields'.retry = fields.retry
        /\ fields'.rollup = fields.rollup /\ fields'.led = fields.led
    BY <1>0, <2>1 DEF Fields
  <2> QED BY <1>0, <1>4, <2>2 DEF ServerStage
<1>5. CASE p = 5
  <2>0. fields.mode = "none" /\ fields.override = "none"
    BY <1>5 DEF ServerStage
  <2>1. fields' = linkHostBoot(fields)
    BY <1>5, ServerPipeline DEF Apply
  <2>2. /\ fields'.attempts = fields.attempts /\ fields'.retry = fields.retry
        /\ fields'.rollup = fields.rollup /\ fields'.led = fields.led
        /\ fields'.mode = cached.boot
        /\ fields'.override = IF cached.boot = "none" THEN "none" ELSE "continuous"
    BY <1>0, <2>0, <2>1 DEF Fields, linkHostBoot
  <2>3. BootShown'
    BY <2>2 DEF BootShown
  <2> QED BY <1>0, <1>5, <2>2, <2>3 DEF ServerStage
<1>6. CASE p = 6
  <2>0. BootShown
    BY <1>6 DEF ServerStage
  <2>1. fields' = linkHostBootOnce(fields)
    BY <1>6, ServerPipeline DEF Apply
  <2>2. /\ fields'.attempts = fields.attempts /\ fields'.retry = fields.retry
        /\ fields'.rollup = fields.rollup /\ fields'.led = fields.led
        /\ OnceApplies => fields'.mode = cached.once /\ fields'.override = "once"
        /\ ~OnceApplies => fields' = fields
    BY <1>0, <2>1 DEF Fields, linkHostBootOnce
  <2>3. OnceShown'
    BY <1>0, <2>0, <2>2 DEF OnceShown, BootShown
  <2> QED BY <1>0, <1>6, <2>2, <2>3 DEF ServerStage
<1>7. CASE p = 7
  <2>0. OnceShown /\ fields.led = FALSE
    BY <1>7 DEF ServerStage
  <2> DEFINE lit == \E l \in Leds : service.led[l]
  <2>1. fields' = [fields EXCEPT !.led = fields.led \/ lit]
    BY <1>7, ServerPipeline DEF Apply, linkIndicatorLed
  <2>2. (lit <=> lit') /\ (fields.led \/ lit <=> lit)
    BY <2>0
  <2> HIDE DEF lit
  <2>3. /\ fields'.attempts = fields.attempts /\ fields'.retry = fields.retry
        /\ fields'.rollup = fields.rollup /\ fields'.led = (fields.led \/ lit)
        /\ fields'.mode = fields.mode /\ fields'.override = fields.override
    BY <1>0, <2>1 DEF Fields
  <2>4. OnceShown'
    BY <1>0, <2>0, <2>3 DEF OnceShown, BootShown
  <2>5. fields'.led <=> lit'
    BY <2>2, <2>3
  <2> QED BY <1>0, <1>7, <2>3, <2>4, <2>5 DEF ServerStage, lit
<1>8. CASE p = 8
  <2>0. OnceShown /\ (fields.led <=> \E l \in Leds : service.led[l])
    BY <1>8 DEF ServerStage
  <2>1. fields' \in linkActiveVersions(fields)
    BY <1>8, ServerPipeline DEF Apply
  <2>2. /\ fields'.attempts = fields.attempts /\ fields'.retry = fields.retry
        /\ fields'.rollup = fields.rollup /\ fields'.led = fields.led
        /\ fields'.mode = fields.mode /\ fields'.override = fields.override
        /\ ActiveBmc # {} => fields'.bmc \in ActiveBmc
    BY <1>0, <2>1 DEF Fields, linkActiveVersions
  <2>3. OnceShown'
    BY <1>0, <2>0, <2>2 DEF OnceShown, BootShown
  <2> QED BY <1>0, <1>8, <2>0, <2>2, <2>3 DEF ServerStage
<1>9. CASE p = 9
  <2>0. OnceShown /\ (fields.led <=> \E l \in Leds : service.led[l])
    BY <1>9 DEF ServerStage
  <2>1. fields' = [fields EXCEPT !.status = cached.callback]
    BY <1>9, ServerPipeline DEF Apply
  <2>2. /\ fields'.attempts = fields.attempts /\ fields'.retry = fields.retry
        /\ fields'.rollup = fields.rollup /\ fields'.led = fields.led
        /\ fields'.mode = fields.mode /\ fields'.override = fields.override
        /\ fields'.bmc = fields.bmc /\ fields'.status = cached.callback
    BY <1>0, <2>1 DEF Fields
  <2>3. OnceShown'
    BY <1>0, <2>0, <2>2 DEF OnceShown, BootShown
  <2> QED BY <1>0, <1>9, <2>0, <2>2, <2>3 DEF ServerStage
<1> QED BY <1>1, <1>2, <1>3, <1>4, <1>5, <1>6, <1>7, <1>8, <1>9

QuietServer ==
    \A r \in Readers : reader[r].quiet /\ entity = "server" => ServerStage(reader[r].pc)

LEMMA QuietServerNext ==
  ASSUME TypeInv, QuietAlone, QuietServer, [Next]_vars PROVE QuietServer'
<1>1. CASE UNCHANGED vars
  BY <1>1
  DEF vars, QuietServer, ServerStage, ServerRollup, BiosFirmware, ActiveBmc, OnceShown,
      BootShown, OnceApplies
<1>2. CASE Next
  <2> SUFFICES ASSUME NEW r \in Readers, reader'[r].quiet, entity' = "server"
               PROVE  ServerStage(reader[r].pc)'
    BY DEF QuietServer
  <2>1. CASE Begin(r) /\ NobodyReads /\ handling = "nothing"
    <3>1. reader'[r].pc = 1
      BY <2>1, BeginMoves
    <3> QED BY <3>1 DEF ServerStage
  <2>2. CASE Own(r) /\ reader[r].quiet
    <3> DEFINE p == reader[r].pc
    <3>1. entity = "server" /\ UNCHANGED <<cached, service>> /\ p \in 1..9 /\ ServerStage(p)
      BY <2>2, OwnMoves, ServerPipeline DEF QuietServer
    <3>2. Pipeline[p] # "StatusRollup"
      BY <3>1, PipelineOfServer
    <3>3. fields' \in Apply(Pipeline[p], fields) /\ reader'[r].pc = p + 1
      BY <2>2, <3>2, OwnApplies
    <3>4. \A n \in 1..9 : n = p => ServerStage(n + 1)'
      BY <3>1, <3>3, ServerStageNext
    <3>5. PICK n \in 1..9 : n = p
      BY <3>1
    <3>6. ServerStage(n + 1)' /\ reader'[r].pc = n + 1
      BY <3>3, <3>4, <3>5
    <3> QED BY <3>6 DEF ServerStage
  <2> QED BY <1>2, <2>1, <2>2, QuietStep
<1> QED BY <1>1, <1>2

(* At the end of a read that nobody disturbed the Server shows the boot    *)
(* override, the LED, the reboot attempts, the version and the health as   *)
(* the services have them, whatever earlier reads, signals and other       *)
(* threads left in the shared fields.                                      *)
THEOREM QuietReadCurrent == Spec => []QuietReadIsCurrent
<1>1. Init => QuietServer
  <2> SUFFICES ASSUME Init, NEW r \in Readers PROVE ~reader[r].quiet
    BY DEF QuietServer
  <2> QED BY DEF Init, IdleReader
<1>2. TypeInv /\ BootInv /\ CallbackInv /\ QuietAlone /\ QuietServer /\ [Next]_vars
        => TypeInv' /\ BootInv' /\ CallbackInv' /\ QuietAlone' /\ QuietServer'
  BY TypeInvNext, BootInvNext, CallbackInvNext, QuietAloneNext, QuietServerNext
<1>3. TypeInv /\ BootInv /\ CallbackInv /\ QuietAlone /\ QuietServer => QuietReadIsCurrent
  <2> SUFFICES ASSUME TypeInv, BootInv, CallbackInv, QuietAlone, QuietServer,
                      NEW r \in Readers, entity = "server", AtEnd(r), reader[r].quiet
               PROVE
        /\ fields.override = IF OnceNow # "none" /\ service.oneTime THEN "once"
                             ELSE IF BootNow # "none" THEN "continuous" ELSE "none"
        /\ fields.mode = CASE fields.override = "once"       -> OnceNow
                           [] fields.override = "continuous" -> BootNow
                           [] fields.override = "none"       -> "none"
        /\ fields.led = \E l \in Leds : service.led[l]
        /\ fields.attempts = service.retry
        /\ ActiveBmc # {} => fields.bmc \in ActiveBmc
        /\ fields.rollup = ServerRollup
        /\ fields.status = FormatStatus(service.causes, {})
    BY DEF QuietReadIsCurrent
  <2>1. ServerStage(10)
    <3>1. Len(Pipeline) = 9 /\ reader[r].pc = Len(Pipeline) + 1
      BY ServerPipeline DEF AtEnd
    <3>2. reader[r].pc = 10
      BY <3>1
    <3> QED BY <3>2 DEF QuietServer
  <2>2. /\ OnceShown /\ (fields.led <=> \E l \in Leds : service.led[l])
        /\ fields.attempts = service.retry
        /\ ActiveBmc # {} => fields.bmc \in ActiveBmc
        /\ fields.rollup = ServerRollup /\ fields.status = cached.callback
    BY <2>1 DEF ServerStage
  <2>3. cached.boot = BootNow /\ cached.once = OnceNow
    BY DEF QuietAlone, BootInv, BootNow, OnceNow, ModeOf, Shows
  <2>4. fields.override = IF OnceNow # "none" /\ service.oneTime THEN "once"
                          ELSE IF BootNow # "none" THEN "continuous" ELSE "none"
    BY <2>2, <2>3 DEF OnceShown, BootShown, OnceApplies
  <2>5. fields.mode = CASE fields.override = "once"       -> OnceNow
                        [] fields.override = "continuous" -> BootNow
                        [] fields.override = "none"       -> "none"
    BY <2>2, <2>3, <2>4 DEF OnceShown, BootShown, OnceApplies
  <2>6. fields.led = \E l \in Leds : service.led[l]
    <3>1. fields.led \in BOOLEAN
      BY DEF TypeInv, ReadTypeOK, Fields
    <3> DEFINE lit == \E l \in Leds : service.led[l]
    <3>2. (fields.led <=> lit) /\ lit \in BOOLEAN
      BY <2>2
    <3> HIDE DEF lit
    <3>3. fields.led = lit
      BY <3>1, <3>2
    <3> QED BY <3>3 DEF lit
  <2>7. fields.status = FormatStatus(service.causes, {})
    BY <2>2 DEF CallbackInv, observedCauserList
  <2> QED BY <2>2, <2>4, <2>5, <2>6, <2>7
<1> QED
  BY <1>1, <1>2, <1>3, TypeInvInit, BootInvInit, CallbackInvInit, QuietAloneInit, PTL DEF Spec
=============================================================================
