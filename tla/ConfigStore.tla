----------------------------- MODULE ConfigStore -----------------------------
(* The encrypted configuration on the SD card: src/src/ConfigFile.cpp and its *)
(* two users, SettingsStore.cpp and DeviceStore.cpp.  Each keeps a primary    *)
(* slot and a backup, and every save writes both, one after the other.  All   *)
(* of it runs on the main loop: what is hard is the power, which goes at any  *)
(* moment, and a card whose reads, opens and writes fail.                     *)
EXTENDS Naturals, FiniteSets

CONSTANTS Values,    \* the contents of a store
          Default,   \* what a store without a card holds
          Missing,   \* a slot that is absent, empty or too short
          Corrupt,   \* a slot whose CRC does not match
          Foreign,   \* a slot of another device or of another version
          Bad,       \* a JSON file that does not parse
          None,
          MaxCuts,   \* bounds the power cuts in the middle of a save
          MaxFaults  \* bounds the reads, opens, writes and removals that fail

ASSUME ValueAssumption ==
         /\ Default \in Values
         /\ {Missing, Corrupt, Foreign, Bad, None} \cap Values = {}
         /\ Bad # None /\ Missing # Corrupt /\ Foreign \notin {Missing, Corrupt}
ASSUME BoundAssumption == MaxCuts \in Nat /\ MaxFaults \in Nat

VARIABLES store,   \* which of the two: they differ in what a failed save leaves
          slot,    \* the two files
          json,    \* the plaintext import file
          at,      \* "off", "idle", or where saveBoth() is
          why,     \* who called saveBoth()
          failed,  \* one of the slots of this save failed
          ram,     \* the live contents
          dirty,   \* dirty_: a save is due after the debounce
          cuts, faults,
          acked,   \* history: the contents last loaded or reported as saved
          tried,   \* history: the contents of saves since then
          wear     \* history: cuts and faults since both slots were last written

vars == <<store, slot, json, at, why, failed, ram, dirty, cuts, faults, acked, tried, wear>>

Slots == {"primary", "backup"}
Contents == Values \cup {Missing, Corrupt, Foreign}

TypeOK == /\ store \in {"settings", "devices"}
          /\ slot \in [Slots -> Contents]
          /\ json \in Values \cup {None, Bad}
          /\ at \in {"off", "idle", "open", "write", "openBackup", "writeBackup", "end"}
          /\ why \in {"save", "tick", "repair", "import"}
          /\ failed \in BOOLEAN /\ dirty \in BOOLEAN /\ ram \in Values
          /\ cuts \in 0..MaxCuts /\ faults \in 0..MaxFaults
          /\ acked \in Values \cup {None} /\ tried \subseteq Values /\ wear \in Nat

Both(c) == [s \in Slots |-> c]

(* A new card, another device's card, or one with saved contents.            *)
Init == /\ store \in {"settings", "devices"}
        /\ \E c \in Values \cup {Missing, Foreign} :
             slot = Both(c) /\ acked = IF c \in Values THEN c ELSE None
        /\ json = None /\ at = "off" /\ why = "save" /\ failed = FALSE
        /\ ram = Default /\ dirty = FALSE
        /\ cuts = 0 /\ faults = 0 /\ tried = {} /\ wear = 0

Fault(n) == /\ faults + n <= MaxFaults
            /\ faults' = faults + n /\ wear' = wear + n

-----------------------------------------------------------------------------
(* Saving: saveBoth() calls save() for the primary and then for the backup.   *)

StartSave(caller, new) ==
  /\ at' = "open" /\ why' = caller /\ failed' = FALSE /\ ram' = new

(* The user changes something: saveNow(). *)
SaveNow(new) == /\ at = "idle" /\ StartSave("save", new) /\ tried' = tried \cup {new}
                /\ UNCHANGED <<store, slot, json, dirty, cuts, faults, acked, wear>>

(* markDirty(): only the captive probe's verdict waits for the debounce.      *)
MarkDirty(new) == /\ at = "idle" /\ store = "settings"
                  /\ ram' = new /\ dirty' = TRUE
                  /\ UNCHANGED <<store, slot, json, at, why, failed, cuts, faults,
                                 acked, tried, wear>>

Tick == /\ at = "idle" /\ dirty /\ StartSave("tick", ram) /\ tried' = tried \cup {ram}
        /\ UNCHANGED <<store, slot, json, dirty, cuts, faults, acked, wear>>

(* What save() leaves alone. *)
Saving == UNCHANGED <<store, json, why, ram, dirty, cuts, acked, tried>>

(* openFileForWrite() truncates the file. *)
OpenSlot(s, from, to) == /\ at = from /\ at' = to /\ slot' = [slot EXCEPT ![s] = Missing]
                         /\ Saving /\ UNCHANGED <<failed, faults, wear>>

OpenFails(from, to) == /\ at = from /\ at' = to /\ failed' = TRUE
                       /\ Fault(1) /\ Saving /\ UNCHANGED slot

WriteSlot(s, from, to) == /\ at = from /\ at' = to /\ slot' = [slot EXCEPT ![s] = ram]
                          /\ Saving /\ UNCHANGED <<failed, faults, wear>>

(* What a write that did not end may have left behind. *)
Torn == {Missing, Corrupt, ram}

WriteFails(s, from, to) == /\ at = from /\ at' = to /\ failed' = TRUE /\ Fault(1)
                           /\ \E c \in Torn : slot' = [slot EXCEPT ![s] = c]
                           /\ Saving

(* Mutant of Retried: a failed save is forgotten. *)
Forgotten == FALSE

(* A failed save of the settings is tried again after the debounce, one of    *)
(* the devices is only reported; the boot's own saves are not tried again.    *)
Retried == IF why \in {"save", "tick"} THEN failed /\ store = "settings" ELSE dirty

(* Mutant of Imported: the file goes whether or not the save succeeded. *)
ImportedAnyway == why = "import"

Imported == why = "import" /\ ~failed

EndSave ==
  /\ at = "end" /\ at' = "idle" /\ dirty' = Retried
  /\ IF failed THEN UNCHANGED <<acked, tried>> ELSE acked' = ram /\ tried' = {}
  /\ \/ /\ json' = IF Imported THEN None ELSE json
        /\ wear' = IF failed THEN wear ELSE 0
        /\ UNCHANGED faults
     \/ /\ Imported /\ json' = json    \* the file cannot be removed
        /\ faults < MaxFaults /\ faults' = faults + 1 /\ wear' = 0
  /\ UNCHANGED <<store, slot, why, failed, ram, cuts>>

-----------------------------------------------------------------------------
(* Booting: init(). *)

(* Mutant of LoadAb: the backup is only a stand-in for a missing file. *)
LoadUnlessThere(seen) ==
  CASE seen["primary"] \in Values -> seen["primary"]
    [] seen["primary"] = Missing /\ seen["backup"] \in Values -> seen["backup"]
    [] OTHER -> IF Foreign \in {seen["primary"], seen["backup"]} THEN Foreign ELSE Missing

(* loadAb(): the primary, else the backup; foreign outranks missing.          *)
LoadAb(seen) ==
  CASE seen["primary"] \in Values -> seen["primary"]
    [] seen["primary"] \notin Values /\ seen["backup"] \in Values -> seen["backup"]
    [] OTHER -> IF Foreign \in {seen["primary"], seen["backup"]} THEN Foreign ELSE Missing

(* A read that fails looks like a missing file. *)
Seen(lost) == [s \in Slots |-> IF s \in lost THEN Missing ELSE slot[s]]

Idle(new) == at' = "idle" /\ ram' = new /\ UNCHANGED <<why, failed>>

BootLoaded(lost) ==
  LET got == LoadAb(Seen(lost)) IN
  /\ got \in Values /\ acked' = got
  /\ IF Seen(lost)["primary"] = got THEN Idle(got) ELSE StartSave("repair", got)

(* Mutant of BootForeign: the contents are taken over before they are known   *)
(* to be of this device.                                                      *)
BootTakesForeign(lost) == /\ LoadAb(Seen(lost)) = Foreign /\ Idle(Foreign)
                          /\ acked' = None

BootForeign(lost) == LoadAb(Seen(lost)) = Foreign /\ Idle(Default) /\ acked' = None

BootImports(lost) == /\ LoadAb(Seen(lost)) = Missing /\ json \in Values
                     /\ StartSave("import", json) /\ acked' = None

BootKeepsBadFile(lost) == /\ LoadAb(Seen(lost)) = Missing /\ json = Bad
                          /\ Idle(Default) /\ acked' = None

(* Settings write their defaults to a new card, by saveNow(). *)
BootFresh(lost) ==
  /\ LoadAb(Seen(lost)) = Missing /\ json = None /\ acked' = None
  /\ IF store = "settings" THEN StartSave("save", Default) ELSE Idle(Default)

Boot == /\ at = "off" /\ dirty' = FALSE
        /\ \E lost \in SUBSET {s \in Slots : slot[s] # Missing} :
             /\ Fault(Cardinality(lost))
             /\ \/ BootLoaded(lost) \/ BootForeign(lost) \/ BootImports(lost)
                \/ BootKeepsBadFile(lost) \/ BootFresh(lost)
        /\ tried' = {ram'}
        /\ UNCHANGED <<store, slot, json, cuts>>

-----------------------------------------------------------------------------
(* The power and the user's card reader. *)

Off == at' = "off" /\ UNCHANGED <<store, json, why, failed, ram, dirty, faults, acked, tried>>

(* The power goes, or the device restarts, while the slots are not written.   *)
PowerOff == /\ at \in {"idle", "open", "end"} /\ Off
            /\ UNCHANGED <<slot, cuts, wear>>

PowerCut == /\ at \in {"write", "openBackup", "writeBackup"} /\ Off
            /\ cuts < MaxCuts /\ cuts' = cuts + 1 /\ wear' = wear + 1
            /\ \E c \in Torn :
                 slot' = CASE at = "write" -> [slot EXCEPT !["primary"] = c]
                           [] at = "writeBackup" -> [slot EXCEPT !["backup"] = c]
                           [] OTHER -> slot

(* The user deletes the pair and puts a plaintext file there. *)
DropJson == /\ at = "off" /\ json' \in Values \cup {Bad}
            /\ slot' = Both(Missing) /\ acked' = None /\ tried' = {} /\ wear' = 0
            /\ UNCHANGED <<store, at, why, failed, ram, dirty, cuts, faults>>

SaveStep ==
  \/ OpenSlot("primary", "open", "write") \/ OpenFails("open", "openBackup")
  \/ WriteSlot("primary", "write", "openBackup")
  \/ WriteFails("primary", "write", "openBackup")
  \/ OpenSlot("backup", "openBackup", "writeBackup") \/ OpenFails("openBackup", "end")
  \/ WriteSlot("backup", "writeBackup", "end")
  \/ WriteFails("backup", "writeBackup", "end")
  \/ EndSave

Next == \/ SaveStep \/ Tick \/ Boot \/ PowerOff \/ PowerCut \/ DropJson
        \/ \E new \in Values : SaveNow(new) \/ MarkDirty(new)

(* While the power is on, save() comes to its end and the loop ticks. *)
Spec == Init /\ [][Next]_vars /\ WF_vars(SaveStep) /\ WF_vars(Tick)

-----------------------------------------------------------------------------
(* Properties. *)

Recovered == LoadAb(slot) \in {acked} \cup tried

(* "a corrupt copy self-repairs from the backup" (USER_MANUAL.md:432): once   *)
(* a save has written both slots, one power cut at any point of any later     *)
(* save, or one read, open or write that fails, loses nothing: the next boot  *)
(* finds what was last reported as saved, or what was being saved.            *)
OneFaultLosesNothing == at = "off" /\ wear <= 1 /\ acked # None => Recovered

(* The plaintext file is removed once both slots hold its contents, so that   *)
(* an import is never lost with the file it came from.                        *)
ImportCommitted == [][(json \in Values /\ json' = None) => slot = Both(json)]_vars

(* Settings that were changed reach both slots in the end, whatever failed on *)
(* the way, unless the power goes: "on failure the debounced retry path stays *)
(* armed" (SettingsStore.h).  Devices have no such retry.                     *)
ChangesPersist ==
  (store = "settings" /\ (dirty \/ (at \notin {"off", "idle"} /\ why = "save")))
    ~> (at = "off" \/ slot = Both(ram))
=============================================================================
