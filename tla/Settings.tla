------------------------------ MODULE Settings ------------------------------
(***************************************************************************)
(* Runtime settings: the stored values, what the process runs with, the    *)
(* audit of each change and the roll-back of a change from that audit.     *)
(*                                                                         *)
(* A save is one transaction and then a series of calls that apply the     *)
(* values to the process; a roll-back reads an event, derives the old      *)
(* values from it and writes them in a transaction of its own, without     *)
(* those calls.  Both may overlap with others of their kind.               *)
(***************************************************************************)
EXTENDS Naturals, Sequences, FiniteSets

CONSTANTS Savers,      \* requests in progress at a time
          MaxSettingChanges   \* bound on changes, each an event of the audit

ASSUME SettingsAssumption == MaxSettingChanges \in Nat /\ IsFiniteSet(Savers)

VARIABLES
  stored,    \* key -> its value, or Absent
  applied,   \* key -> the value the process runs with
  saving,   \* saver -> [at, values]
  events,    \* the settings.updated events: [before, after, revertable]
  stale      \* keys whose running value a roll-back or an overlap left behind

settingsVars == <<stored, applied, saving, events, stale>>

(* A tool path, applied unless empty; the proxy, sensitive, applied always; *)
(* a worker limit, never empty, which nothing applies to this process.      *)
SettingKeys == {"path", "proxy", "limit"}
Hot         == {"path", "proxy"}
Sensitive   == {"proxy"}
EmptyText  == ""
Absent == "absent"
Masked == "masked"
Written == {EmptyText, "a"}
Map == [SettingKeys -> Written \cup {Absent, Masked}]

SettingsTypeOK ==
  /\ stored \in [SettingKeys -> Written \cup {Absent}]
  /\ applied \in [Hot -> Written]
  /\ saving \in [Savers -> [at : {"idle", "rolling"} \cup Hot, values : Map]]
  /\ events \in Seq([before : Map, after : Map]) /\ Len(events) <= MaxSettingChanges
  /\ stale \subseteq Hot

Nothing == [k \in SettingKeys |-> Absent]
NoSave == [at |-> "idle", values |-> Nothing]

(* Start-up applies what is stored; an empty path is found by itself.      *)
Effective(values) == [k \in Hot |-> IF values[k] = Absent THEN EmptyText ELSE values[k]]

SettingsInit ==
  /\ stored = Nothing
  /\ applied = Effective(stored)
  /\ saving = [s \in Savers |-> NoSave]
  /\ events = <<>>
  /\ stale = {}

StoredKeys(values) == {k \in SettingKeys : values[k] # Absent}

(* The validator of the key; every one but that of a limit takes "".       *)
ValidValue(k, v) == k = "limit" => v # EmptyText

(* redactedValues: what the audit keeps of a map.                          *)
Redacted(values) ==
  [k \in SettingKeys |-> IF k \in Sensitive /\ values[k] \notin {Absent, EmptyText}
                         THEN Masked ELSE values[k]]

(* The transaction of SetMany: read what was, write all, record both.      *)
Write(values) ==
  LET before == [k \in SettingKeys |-> IF k \in StoredKeys(values) THEN stored[k] ELSE Absent]
  IN  /\ Len(events) < MaxSettingChanges
      /\ stored' = [k \in SettingKeys |->
                      IF k \in StoredKeys(values) THEN values[k] ELSE stored[k]]
      /\ events' = Append(events, [before |-> Redacted(before), after |-> Redacted(values)])

-----------------------------------------------------------------------------
(* UpdateSettings: all or nothing.  The calls that apply come after, path  *)
(* first; another request that is applying the same key may overtake.      *)
Applying(s) ==
  CASE saving[s].at = "path" -> Hot
    [] saving[s].at = "proxy" -> {"proxy"}
    [] OTHER -> {}

ToBeApplied(k) == {s \in Savers : k \in Applying(s) /\ saving[s].values[k] # Absent}

SaveSettings(s) ==
  \E values \in [SettingKeys -> Written \cup {Absent}] :
    /\ saving[s].at = "idle"
    /\ StoredKeys(values) # {} /\ \A k \in StoredKeys(values) : ValidValue(k, values[k])
    /\ Write(values)
    /\ saving' = [saving EXCEPT ![s] = [at |-> "path", values |-> values]]
    /\ stale' = stale \cup {k \in Hot \cap StoredKeys(values) : ToBeApplied(k) # {}}
    /\ UNCHANGED applied

(* applyFFmpegPathSettings, then applyNetworkProxySettings.                *)
Takes_NonEmpty(k, v) == v \notin {Absent, EmptyText}
Takes(k, v) == v # Absent /\ (k = "path" => v # EmptyText)

ApplySetting(s) ==
  LET k == saving[s].at
      v == saving[s].values[k]
  IN  /\ k \in Hot
      /\ applied' = IF Takes(k, v) THEN [applied EXCEPT ![k] = v] ELSE applied
      /\ stale' = IF k = "path" /\ v = EmptyText THEN stale \cup {k} ELSE stale
      /\ saving' = [saving EXCEPT ![s] =
                       IF k = "path" THEN [@ EXCEPT !.at = "proxy"] ELSE NoSave]
      /\ UNCHANGED <<stored, events>>

-----------------------------------------------------------------------------
(* settingsUpdatedReverter.CanRollback: a masked value cannot be restored, *)
(* so an event with a sensitive key on either side is refused.             *)
Revertable_ByBefore(e) == StoredKeys(e.before) \cap Sensitive = {}
Revertable(e) == (StoredKeys(e.before) \cup StoredKeys(e.after)) \cap Sensitive = {}

(* A key without a value before goes back to "".                           *)
RestoredValue_Skipped(e, k) == e.before[k]
RestoredValue(e, k) == IF k \in StoredKeys(e.after) /\ e.before[k] = Absent
                       THEN EmptyText ELSE e.before[k]

RestoredValues(e) == [k \in SettingKeys |-> IF k \in Sensitive THEN Absent ELSE RestoredValue(e, k)]

(* Apply reads the event, which never changes, ...                         *)
StartRollback(s) ==
  /\ saving[s].at = "idle"
  /\ \E i \in DOMAIN events :
       /\ Revertable(events[i])
       /\ StoredKeys(RestoredValues(events[i])) # {}
       /\ saving' = [saving EXCEPT ![s] = [at |-> "rolling", values |-> RestoredValues(events[i])]]
  /\ UNCHANGED <<stored, applied, events, stale>>

(* ... and SetMany writes the values, or refuses them all: rollback.failed.*)
ApplyRollback(s) ==
  /\ saving[s].at = "rolling"
  /\ IF \A k \in StoredKeys(saving[s].values) : ValidValue(k, saving[s].values[k])
     THEN /\ Write(saving[s].values)
          /\ stale' = stale \cup (Hot \cap StoredKeys(saving[s].values))
     ELSE UNCHANGED <<stored, events, stale>>
  /\ saving' = [saving EXCEPT ![s] = NoSave]
  /\ UNCHANGED applied

RestartWithSettings ==
  /\ applied' = Effective(stored)
  /\ stale' = {}
  /\ saving' = [s \in Savers |-> NoSave]
  /\ UNCHANGED <<stored, events>>

SettingsNext ==
  \/ \E s \in Savers : \/ SaveSettings(s) \/ ApplySetting(s)
                       \/ StartRollback(s) \/ ApplyRollback(s)
  \/ RestartWithSettings

SettingsSpec == SettingsInit /\ [][SettingsNext]_settingsVars

-----------------------------------------------------------------------------
(* The process runs with what is stored, except while a save is applying   *)
(* it, and where two saves overlapped, a path was emptied or a change was  *)
(* rolled back since the start.                                            *)
RunsAsStored ==
  \A k \in Hot : applied[k] = Effective(stored)[k] \/ k \in stale \/ ToBeApplied(k) # {}

(* What a roll-back undoes it undoes whole: a change of a secret is never  *)
(* half undone, and a key that had no value does not keep the new one.     *)
UndoesWhole ==
  \A i \in DOMAIN events :
    Revertable(events[i]) =>
      \A k \in StoredKeys(events[i].after) :
        /\ k \in StoredKeys(RestoredValues(events[i]))
        /\ RestoredValues(events[i])[k] # Masked
=============================================================================
