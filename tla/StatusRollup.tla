------------------------------ MODULE StatusRollup ------------------------------
(***************************************************************************)
(* The health of an instance (status_provider.hpp): three levels in the    *)
(* order of the C++ enumeration, the health of a sensor by its alarms, of  *)
(* a firmware by its activation, the causes the callback manager lists,    *)
(* and the boot mode, which a Mode and a Source interface decide together. *)
(* Only operators: EntityRead reads instances with them.                   *)
(***************************************************************************)
EXTENDS Integers

ok       == 0
warning  == 1
critical == 2
Status   == ok..critical

(* Mutant: the status that was asked last wins.                            *)
LastWins(left, right) == left

getHigherStatus(left, right) == IF left >= right THEN left ELSE right

(* What folding getHigherStatus over a list gives, ok to begin with.       *)
Highest(statuses) ==
    CHOOSE s \in statuses \cup {ok} : \A t \in statuses \cup {ok} : s >= t

----------------------------------------------------------------------------
(* Sensors::SensorQuery::setStatus.  alarmFieldsDict is an ordered map,    *)
(* so the entry of Status::ok, which lists the CRITICAL alarms, is looked  *)
(* at first and ends the loop.                                             *)
Alarms == {"critical", "warning"}

alarmFieldsDict == << [status |-> ok,      field |-> "critical"],
                      [status |-> warning, field |-> "warning"] >>

FirstAlarm(alarms) ==
    {i \in DOMAIN alarmFieldsDict :
        /\ alarmFieldsDict[i].field \in alarms
        /\ \A j \in 1..(i - 1) : alarmFieldsDict[j].field \notin alarms}

setStatus(alarms) ==
    Highest({alarmFieldsDict[i].status : i \in FirstAlarm(alarms)})

(* FirmwareProvider::Query::setStatus.                                     *)
Activations == {"active", "activating", "ready", "failed", "standbySpare"}

FirmwareStatus(activation) ==
    IF activation \in {"active", "activating", "ready"} THEN ok ELSE warning

----------------------------------------------------------------------------
(* StatusByCallbackManager: the associations <<level, causer>> of the      *)
(* object of the callback manager; an entity may observe some causers only *)
(* and an empty list of causers observes all of them.                      *)
(* Mutant: the levels of the associations count from one.                  *)
DictCountsFromOne(level) == CASE level = "Critical" -> critical + 1
                              [] level = "Warning"  -> warning + 1
                              [] OTHER              -> ok + 1

statusDict(level) == CASE level = "Critical" -> critical
                       [] level = "Warning"  -> warning
                       [] OTHER              -> ok

isCauserObserved(causer, observed) == observed = {} \/ causer \in observed

FormatStatus(causes, observed) ==
    Highest({statusDict(c.level) :
               c \in {d \in causes : isCauserObserved(d.causer, observed)}})

----------------------------------------------------------------------------
(* HostBootProvider: the Mode interface has the special modes, and only    *)
(* when it has none of them the Source interface decides.                  *)
SpecialModes == {"diags", "biosSetup"}
SourceModes  == {"hdd", "pxe", "none"}
Modes        == SpecialModes \cup SourceModes

BootModes   == {"Safe", "Setup", "Regular"}
(* ExternalMedia (cd) and RemovableMedia (usb) are like Disk; "Unknown" is  *)
(* any value the dictionary of sources has no entry for.                   *)
KnownSources == {"Disk", "Network", "Default"}
BootSources  == KnownSources \cup {"Unknown"}

FormatMode(bootMode) == CASE bootMode = "Safe"  -> "diags"
                          [] bootMode = "Setup" -> "biosSetup"
                          [] OTHER              -> "none"

SourceDict(bootSource) == CASE bootSource = "Disk"    -> "hdd"
                            [] bootSource = "Network" -> "pxe"
                            [] bootSource = "Default" -> "none"

(* Mutant: any mode but none is kept, the special ones and the others.     *)
KeepsAnyMode(mode, bootSource) ==
    IF mode # "none" \/ bootSource \notin KnownSources THEN mode ELSE SourceDict(bootSource)

(* FormatSource::operator(): mode > dbusOriginModeMax, and the source found*)
(* in the dictionary.                                                      *)
FormatSource(mode, bootSource) ==
    IF mode \in SpecialModes \/ bootSource \notin KnownSources THEN mode
    ELSE SourceDict(bootSource)
=============================================================================
