-------------------------- MODULE ConfigStoreProofs ---------------------------
(* What one fault leaves of the configuration, for every set of contents and  *)
(* every bound.                                                               *)
EXTENDS ConfigStore, FiniteSetTheorems, TLAPS

LEMMA Apart == /\ Default \in Values
               /\ Missing \notin Values /\ Corrupt \notin Values /\ Foreign \notin Values
               /\ Bad \notin Values /\ None \notin Values
BY ValueAssumption

(* loadAb() returns the primary, or else the backup, or else nothing.         *)
LEMMA Loads ==
  ASSUME NEW s \in [Slots -> Contents]
  PROVE  /\ s["primary"] \in Values => LoadAb(s) = s["primary"]
         /\ s["primary"] \notin Values /\ s["backup"] \in Values => LoadAb(s) = s["backup"]
         /\ s["primary"] \notin Values /\ s["backup"] \notin Values
              => LoadAb(s) \in {Foreign, Missing}
BY DEF LoadAb

-----------------------------------------------------------------------------
(* Types. *)

(* Boot reads some of the slots that are there. *)
LEMMA LostFinite ==
  ASSUME NEW lost \in SUBSET {s \in Slots : slot[s] # Missing}
  PROVE  IsFiniteSet(lost) /\ Cardinality(lost) \in Nat
<1>0. Slots = ({} \cup {"primary"}) \cup {"backup"}
  BY DEF Slots
<1>1. IsFiniteSet(Slots)
  BY <1>0, FS_EmptySet, FS_AddElement
<1>2. IsFiniteSet(lost)
  BY <1>1, FS_Subset
<1> QED  BY <1>2, FS_CardinalityType

LEMMA SaveTypes == TypeOK /\ SaveStep => TypeOK'
<1> SUFFICES ASSUME TypeOK, SaveStep PROVE TypeOK'
  OBVIOUS
<1> USE BoundAssumption, Apart DEF TypeOK
<1>1. ASSUME NEW s \in Slots, NEW from \in {"open", "openBackup"},
             NEW to \in {"write", "writeBackup"}, OpenSlot(s, from, to)
      PROVE  TypeOK'
  BY <1>1 DEF OpenSlot, Saving, Contents, Slots
<1>2. ASSUME NEW from \in {"open", "openBackup"}, NEW to \in {"openBackup", "end"},
             OpenFails(from, to)
      PROVE  TypeOK'
  BY <1>2 DEF OpenFails, Saving, Fault
<1>3. ASSUME NEW s \in Slots, NEW from \in {"write", "writeBackup"},
             NEW to \in {"openBackup", "end"}, WriteSlot(s, from, to)
      PROVE  TypeOK'
  BY <1>3 DEF WriteSlot, Saving, Contents, Slots
<1>4. ASSUME NEW s \in Slots, NEW from \in {"write", "writeBackup"},
             NEW to \in {"openBackup", "end"}, WriteFails(s, from, to)
      PROVE  TypeOK'
  BY <1>4 DEF WriteFails, Saving, Fault, Torn, Contents, Slots
<1>5. CASE EndSave
  <2>1. UNCHANGED <<store, slot, why, failed, ram, cuts>> /\ at' = "idle"
    BY <1>5 DEF EndSave
  <2>2. dirty' \in BOOLEAN
    BY <1>5 DEF EndSave, Retried
  <2>3. acked' \in Values \cup {None} /\ tried' \subseteq Values
    BY <1>5 DEF EndSave
  <2>4. json' \in Values \cup {None, Bad} /\ wear' \in Nat /\ faults' \in 0..MaxFaults
    BY <1>5 DEF EndSave
  <2> QED  BY <2>1, <2>2, <2>3, <2>4
<1> QED  BY <1>1, <1>2, <1>3, <1>4, <1>5 DEF SaveStep, Slots

LEMMA BootTypes == TypeOK /\ Boot => TypeOK'
<1> SUFFICES ASSUME TypeOK, Boot PROVE TypeOK'
  OBVIOUS
<1> PICK lost \in SUBSET {s \in Slots : slot[s] # Missing} :
      /\ Fault(Cardinality(lost))
      /\ \/ BootLoaded(lost) \/ BootForeign(lost) \/ BootImports(lost)
         \/ BootKeepsBadFile(lost) \/ BootFresh(lost)
  BY DEF Boot
<1>1. Cardinality(lost) \in Nat
  BY LostFinite
<1>2. /\ UNCHANGED <<store, slot, json, cuts>> /\ dirty' = FALSE /\ tried' = {ram'}
  BY DEF Boot
<1>3. /\ faults' \in 0..MaxFaults /\ wear' \in Nat
  BY <1>1, BoundAssumption DEF Fault, TypeOK
<1>4. /\ at' \in {"idle", "open"} /\ why' \in {"save", "tick", "repair", "import"}
      /\ failed' \in BOOLEAN /\ ram' \in Values /\ acked' \in Values \cup {None}
  BY Apart DEF BootLoaded, BootForeign, BootImports, BootKeepsBadFile, BootFresh,
               Idle, StartSave, TypeOK
<1> QED  BY <1>2, <1>3, <1>4 DEF TypeOK

LEMMA StepTypes == TypeOK /\ [Next]_vars => TypeOK'
<1> SUFFICES ASSUME TypeOK, [Next]_vars PROVE TypeOK'
  OBVIOUS
<1> USE BoundAssumption, Apart
<1>1. CASE SaveStep  BY <1>1, SaveTypes
<1>2. CASE Boot  BY <1>2, BootTypes
<1>3. CASE Tick  BY <1>3 DEF Tick, StartSave, TypeOK
<1>4. CASE PowerOff  BY <1>4 DEF PowerOff, Off, TypeOK
<1>5. CASE PowerCut
  BY <1>5 DEF PowerCut, Off, Torn, TypeOK, Contents, Slots
<1>6. CASE DropJson  BY <1>6 DEF DropJson, Both, TypeOK, Contents, Slots
<1>7. ASSUME NEW new \in Values, SaveNow(new) \/ MarkDirty(new) PROVE TypeOK'
  BY <1>7 DEF SaveNow, MarkDirty, StartSave, TypeOK
<1>8. CASE UNCHANGED vars  BY <1>8 DEF vars, TypeOK
<1> QED  BY <1>1, <1>2, <1>3, <1>4, <1>5, <1>6, <1>7, <1>8 DEF Next

LEMMA InitTypes == Init => TypeOK
<1> SUFFICES ASSUME Init PROVE TypeOK
  OBVIOUS
<1>1. slot \in [Slots -> Contents] /\ acked \in Values \cup {None}
  BY DEF Init, Both, Contents, Slots
<1>2. /\ store \in {"settings", "devices"} /\ json = None /\ at = "off" /\ why = "save"
      /\ ~failed /\ failed \in BOOLEAN /\ dirty \in BOOLEAN /\ ram = Default
      /\ cuts = 0 /\ faults = 0 /\ tried = {} /\ wear = 0
  BY DEF Init
<1> QED  BY <1>1, <1>2, Apart, BoundAssumption DEF TypeOK

(* Every variable keeps its type: in particular what is live is always one of *)
(* the contents, never what a torn or foreign slot holds.                     *)
THEOREM StoreTypeCorrect == Spec => []TypeOK
BY InitTypes, StepTypes, PTL DEF Spec

-----------------------------------------------------------------------------
(* One fault loses nothing. *)

Known == {acked} \cup tried

(* Where the slots are in step, and which of them may be relied on, at each   *)
(* point of a save.  It says more than the property: with no fault since both *)
(* slots were last written the two agree, and a slot is only opened while the *)
(* other holds something known.                                               *)
Aligned == /\ at \in {"idle", "off", "open"} => slot["primary"] = slot["backup"]
           /\ at \in {"write", "openBackup"} /\ acked # None => slot["backup"] \in Known \cap Values
           /\ at \in {"open", "write", "openBackup", "writeBackup", "end"} => ~failed

Usable == /\ at \in {"idle", "off", "open", "openBackup", "end"} => Recovered
          /\ at = "writeBackup" /\ slot["primary"] \in Values => slot["primary"] \in Known

Written == /\ at \in {"openBackup", "writeBackup", "end"} /\ ~failed => slot["primary"] = ram
           /\ at = "end" /\ ~failed => slot["backup"] = ram
           /\ at \in {"open", "write", "openBackup", "writeBackup", "end"} => ram \in tried

SInv == /\ TypeOK
        /\ wear = 0 => Aligned
        /\ wear <= 1 /\ acked # None => Usable
        /\ Written

(* A slot that is known to hold contents is what the boot finds, or the       *)
(* primary is torn and the backup is.                                         *)
LEMMA Finds ==
  ASSUME TypeOK,
         \/ slot["primary"] \in Known \cap Values
         \/ slot["primary"] \notin Values /\ slot["backup"] \in Known \cap Values
  PROVE  Recovered
BY Loads DEF TypeOK, Recovered, Known

(* Conversely, what was recovered is in the primary, or in the backup behind  *)
(* a primary that does not load.                                              *)
LEMMA Found ==
  ASSUME TypeOK, Recovered, acked # None
  PROVE  \/ slot["primary"] \in Known \cap Values
         \/ slot["primary"] \notin Values /\ slot["backup"] \in Known \cap Values
BY Loads, Apart DEF TypeOK, Recovered, Known

(* What follows takes the types for granted, before and after each step.      *)

(* A save begins. *)
LEMMA SaveBegins ==
  ASSUME SInv, TypeOK', NEW new \in Values, NEW caller, at = "idle", StartSave(caller, new),
         tried' = tried \cup {new}, UNCHANGED <<slot, acked, wear>>
  PROVE  SInv'
<1>1. wear' = 0 => Aligned'
  BY DEF StartSave, SInv, Aligned
<1>2. wear' <= 1 /\ acked' # None => Usable'
  <2>1. LoadAb(slot)' = LoadAb(slot)
    BY DEF LoadAb
  <2> QED  BY <2>1 DEF StartSave, SInv, Usable, Recovered
<1>3. Written'
  BY DEF StartSave, Written
<1> QED  BY <1>1, <1>2, <1>3 DEF SInv

(* The slots, what is known of them and the faults stay as they are, and so   *)
(* do the live contents, unless none are being saved.                         *)
LEMMA Rests ==
  ASSUME SInv, TypeOK', UNCHANGED <<slot, acked, tried, wear>>,
         \/ at \in {"idle", "off"} /\ at' = at
         \/ at \in {"idle", "open", "end"} /\ at' = "off"
  PROVE  SInv'
<1>1. LoadAb(slot)' = LoadAb(slot)
  BY DEF LoadAb
<1>2. wear' = 0 => Aligned'
  BY DEF SInv, Aligned, Written
<1>3. wear' <= 1 /\ acked' # None => Usable'
  BY <1>1 DEF SInv, Usable, Recovered
<1>4. Written'
  BY DEF Written
<1> QED  BY <1>2, <1>3, <1>4 DEF SInv

(* A slot is opened: the other holds something known. *)
LEMMA PrimaryOpens ==
  ASSUME SInv, TypeOK', OpenSlot("primary", "open", "write") PROVE SInv'
<1>1. wear' = 0 => Aligned'
  <2> SUFFICES ASSUME wear = 0 PROVE Aligned'
    BY DEF OpenSlot
  <2>1. acked # None => slot["backup"] \in Known \cap Values
    BY Found DEF SInv, Usable, Aligned, OpenSlot
  <2>2. slot'["backup"] = slot["backup"] /\ Known' = Known /\ ~failed' /\ at' = "write"
    BY DEF OpenSlot, Saving, SInv, Aligned, Known, TypeOK, Slots
  <2> QED  BY <2>1, <2>2 DEF Aligned, OpenSlot, Saving
<1>2. Usable' /\ Written'
  BY DEF OpenSlot, Saving, Usable, Written, SInv
<1> QED  BY <1>1, <1>2 DEF SInv

LEMMA BackupOpens ==
  ASSUME SInv, TypeOK', OpenSlot("backup", "openBackup", "writeBackup") PROVE SInv'
<1>1. /\ slot'["primary"] = slot["primary"] /\ Known' = Known
      /\ UNCHANGED <<failed, ram, tried, acked, wear>>
      /\ at = "openBackup" /\ at' = "writeBackup"
  BY DEF OpenSlot, Saving, SInv, Known, TypeOK, Slots
<1>2. wear' = 0 => Aligned'
  BY <1>1 DEF SInv, Aligned
<1>3. wear' <= 1 /\ acked' # None => Usable'
  BY <1>1, Found DEF SInv, Usable
<1>4. Written'
  BY <1>1 DEF SInv, Written
<1> QED  BY <1>2, <1>3, <1>4 DEF SInv

(* The new contents are in the primary. *)
LEMMA PrimaryWritten ==
  ASSUME SInv, TypeOK', WriteSlot("primary", "write", "openBackup") PROVE SInv'
<1>1. /\ slot'["primary"] = ram /\ slot'["backup"] = slot["backup"] /\ Known' = Known
      /\ UNCHANGED <<failed, ram, tried, acked, wear>> /\ at = "write" /\ at' = "openBackup"
  BY DEF WriteSlot, Saving, SInv, Known, TypeOK, Slots
<1>2. ram \in Known \cap Values /\ ram' \in tried'
  BY <1>1 DEF SInv, Written, Known, TypeOK
<1>3. wear' = 0 => Aligned'
  BY <1>1 DEF SInv, Aligned
<1>4. Usable'
  <2>1. (slot["primary"] \in Known \cap Values)'
    BY <1>1, <1>2
  <2>2. Recovered'
    BY <2>1, Loads, TypeOK' DEF Recovered, Known, TypeOK
  <2> QED  BY <2>2, <1>1 DEF Usable
<1>5. Written'
  BY <1>1, <1>2 DEF Written
<1> QED  BY <1>3, <1>4, <1>5 DEF SInv

LEMMA BackupWritten ==
  ASSUME SInv, TypeOK', WriteSlot("backup", "writeBackup", "end") PROVE SInv'
<1>1. /\ slot'["backup"] = ram /\ slot'["primary"] = slot["primary"] /\ Known' = Known
      /\ UNCHANGED <<failed, ram, tried, acked, wear>> /\ at = "writeBackup" /\ at' = "end"
  BY DEF WriteSlot, Saving, SInv, Known, TypeOK, Slots
<1>2. ram \in Known \cap Values /\ ram' \in tried'
  BY <1>1 DEF SInv, Written, Known, TypeOK
<1>3. wear' = 0 => Aligned'
  BY <1>1 DEF SInv, Aligned
<1>4. wear' <= 1 /\ acked' # None => Usable'
  <2> SUFFICES ASSUME wear <= 1, acked # None PROVE Usable'
    BY <1>1
  <2>1. slot["primary"] \in Values => slot["primary"] \in Known
    BY <1>1 DEF SInv, Usable
  <2>2. Recovered'
    BY <2>1, <1>1, <1>2, Loads, TypeOK' DEF Recovered, Known, TypeOK
  <2> QED  BY <2>2, <1>1 DEF Usable
<1>5. Written'
  BY <1>1, <1>2 DEF SInv, Written
<1> QED  BY <1>3, <1>4, <1>5 DEF SInv

(* Failures.  Each is the first, or nothing is claimed after it. *)
LEMMA PrimaryNotOpened ==
  ASSUME SInv, TypeOK', OpenFails("open", "openBackup") PROVE SInv'
<1>1. /\ UNCHANGED <<slot, ram, tried, acked>> /\ wear' = wear + 1 /\ failed'
      /\ at = "open" /\ at' = "openBackup" /\ wear \in Nat
  BY DEF OpenFails, Saving, Fault, SInv, TypeOK
<1>2. LoadAb(slot)' = LoadAb(slot)
  BY <1>1 DEF LoadAb
<1>3. wear' <= 1 /\ acked' # None => Usable'
  BY <1>1, <1>2 DEF SInv, Usable, Recovered
<1>4. Written'
  BY <1>1 DEF SInv, Written
<1> QED  BY <1>1, <1>3, <1>4 DEF SInv

LEMMA PrimaryTorn ==
  ASSUME SInv, TypeOK', WriteFails("primary", "write", "openBackup") PROVE SInv'
<1>1. /\ slot'["primary"] \in Torn /\ slot'["backup"] = slot["backup"] /\ Known' = Known
      /\ UNCHANGED <<ram, tried, acked>> /\ wear' = wear + 1 /\ failed'
      /\ at = "write" /\ at' = "openBackup" /\ wear \in Nat
  BY DEF WriteFails, Saving, Fault, SInv, TypeOK, Known, Slots
<1>2. wear' <= 1 /\ acked' # None => Usable'
  <2> SUFFICES ASSUME wear = 0, acked # None PROVE Usable'
    BY <1>1
  <2>1. slot["backup"] \in Known \cap Values /\ ram \in Known
    BY <1>1 DEF SInv, Aligned, Written, Known
  <2>2. Recovered'
    BY <2>1, <1>1, Apart, Loads, TypeOK' DEF Recovered, Known, TypeOK, Torn
  <2> QED  BY <2>2, <1>1 DEF Usable
<1>3. Written'
  BY <1>1 DEF SInv, Written
<1> QED  BY <1>1, <1>2, <1>3 DEF SInv

LEMMA BackupFails ==
  ASSUME SInv, TypeOK',
         \/ OpenFails("openBackup", "end") \/ WriteFails("backup", "writeBackup", "end")
  PROVE  SInv'
<1>1. /\ slot'["primary"] = slot["primary"] /\ Known' = Known
      /\ UNCHANGED <<ram, tried, acked>> /\ wear' = wear + 1 /\ failed'
      /\ at \in {"openBackup", "writeBackup"} /\ at' = "end" /\ wear \in Nat
  BY DEF OpenFails, WriteFails, Saving, Fault, SInv, TypeOK, Known, Slots
<1>2. ram \in Known \cap Values /\ ram' \in tried'
  BY <1>1 DEF SInv, Written, Known, TypeOK
<1>3. wear' <= 1 /\ acked' # None => Usable'
  <2> SUFFICES ASSUME wear = 0, acked # None PROVE Usable'
    BY <1>1
  <2>1. slot["primary"] = ram
    BY <1>1 DEF SInv, Aligned, Written
  <2>2. Recovered'
    BY <2>1, <1>1, <1>2, Loads, TypeOK' DEF Recovered, Known, TypeOK
  <2> QED  BY <2>2, <1>1 DEF Usable
<1>4. Written'
  BY <1>1, <1>2 DEF SInv, Written
<1> QED  BY <1>1, <1>3, <1>4 DEF SInv

(* A save that succeeded is known, and takes all wear away. *)
LEMMA SaveEnds ==
  ASSUME SInv, TypeOK', EndSave PROVE SInv'
<1>1. /\ UNCHANGED <<slot, ram, failed>> /\ at = "end" /\ at' = "idle"
      /\ slot["primary"]' = slot["primary"] /\ slot["backup"]' = slot["backup"]
      /\ LoadAb(slot)' = LoadAb(slot)
  BY DEF EndSave, LoadAb
<1>2. CASE failed
  <2>1. UNCHANGED <<acked, tried, wear>>
    BY <1>2 DEF EndSave, Imported
  <2> QED  BY <1>1, <1>2, <2>1 DEF SInv, Aligned, Usable, Written, Recovered
<1>3. CASE ~failed
  <2>1. slot["primary"] = ram /\ slot["backup"] = ram /\ acked' = ram
    BY <1>1, <1>3 DEF SInv, Written, EndSave
  <2>2. Recovered'
    BY <2>1, <1>1, Loads DEF SInv, TypeOK, Recovered
  <2> QED  BY <1>1, <2>1, <2>2 DEF SInv, Aligned, Usable, Written
<1> QED  BY <1>2, <1>3

(* The power goes in the middle of a save: the first time, one slot of the    *)
(* two is still in the state that made it safe to write the other.            *)
LEMMA Cut ==
  ASSUME SInv, TypeOK', PowerCut PROVE SInv'
<1>1. /\ at' = "off" /\ UNCHANGED <<ram, acked, tried>> /\ Known' = Known
      /\ wear' = wear + 1 /\ wear \in Nat
  BY DEF PowerCut, Off, Known, SInv, TypeOK
<1>2. Written'
  BY <1>1 DEF Written
<1>3. ASSUME wear = 0, acked # None PROVE Recovered'
  <2>1. ram \in Known \cap Values
    BY DEF SInv, Written, PowerCut, Known, TypeOK
  <2>2. CASE at = "write"
    <3>1. slot'["primary"] \in Torn /\ slot'["backup"] = slot["backup"]
      BY <2>2 DEF PowerCut, SInv, TypeOK, Slots
    <3>2. slot["backup"] \in Known \cap Values
      BY <2>2, <1>3 DEF SInv, Aligned
    <3> QED  BY <3>1, <3>2, <2>1, <1>1, Apart, Loads, TypeOK'
             DEF Recovered, Known, TypeOK, Torn
  <2>3. CASE at # "write"
    <3>1. slot["primary"] = ram
      BY <2>3, <1>3 DEF SInv, Aligned, Written, PowerCut
    <3>2. slot'["primary"] = slot["primary"]
      BY <2>3 DEF PowerCut, SInv, TypeOK, Slots
    <3> QED  BY <3>1, <3>2, <2>1, <1>1, Loads, TypeOK' DEF Recovered, Known, TypeOK
  <2> QED  BY <2>2, <2>3
<1>4. wear' <= 1 /\ acked' # None => Usable'
  BY <1>1, <1>3 DEF Usable
<1> QED  BY <1>1, <1>2, <1>4 DEF SInv

(* A boot that meets at most one fault, on slots that agree if it meets one,  *)
(* finds what the slots hold.                                                 *)
LEMMA BootFinds ==
  ASSUME SInv, NEW lost \in SUBSET {s \in Slots : slot[s] # Missing},
         Fault(Cardinality(lost)), at = "off", wear' <= 1,
         LoadAb(Seen(lost)) \in Values
  PROVE  /\ LoadAb(slot) = LoadAb(Seen(lost))
         /\ wear' = 0 => wear = 0 /\ lost = {}
<1>1. IsFiniteSet(lost) /\ Cardinality(lost) \in Nat /\ wear \in Nat
  BY LostFinite DEF SInv, TypeOK
<1>2. wear' = wear + Cardinality(lost)
  BY DEF Fault
<1>3. Seen(lost) \in [Slots -> Contents] /\ slot \in [Slots -> Contents]
  BY DEF Seen, SInv, TypeOK, Contents
<1>4. CASE lost = {}
  <2>1. Seen(lost) = slot
    BY <1>3, <1>4 DEF Seen
  <2>2. Cardinality(lost) = 0
    BY <1>4, FS_EmptySet
  <2> QED  BY <1>1, <1>2, <1>4, <2>1, <2>2
<1>5. CASE lost # {}
  <2>1. Cardinality(lost) # 0
    BY <1>1, <1>5, FS_EmptySet
  <2>2. wear = 0 /\ wear' # 0
    BY <1>1, <1>2, <2>1
  <2>3. slot["primary"] = slot["backup"]
    BY <2>2 DEF SInv, Aligned
  <2>4. \A s \in Slots : Seen(lost)[s] \in {Missing, slot[s]}
    BY DEF Seen
  <2> QED  BY <1>3, <2>2, <2>3, <2>4, Loads, Apart DEF Slots
<1> QED  BY <1>4, <1>5

LEMMA Boots ==
  ASSUME SInv, TypeOK', Boot PROVE SInv'
<1> PICK lost \in SUBSET {s \in Slots : slot[s] # Missing} :
      /\ Fault(Cardinality(lost))
      /\ \/ BootLoaded(lost) \/ BootForeign(lost) \/ BootImports(lost)
         \/ BootKeepsBadFile(lost) \/ BootFresh(lost)
  BY DEF Boot
<1>1. /\ at = "off" /\ tried' = {ram'} /\ slot' = slot /\ LoadAb(slot)' = LoadAb(slot)
      /\ at' \in {"idle", "open"}
      /\ at' = "open" => ~failed'
  BY DEF Boot, LoadAb, BootLoaded, BootForeign, BootImports, BootKeepsBadFile, BootFresh,
         Idle, StartSave
<1>2. wear' = 0 => wear = 0
  BY LostFinite DEF Fault, SInv, TypeOK
<1>3. wear' = 0 => Aligned'
  BY <1>1, <1>2 DEF SInv, Aligned
<1>4. wear' <= 1 /\ acked' # None => Usable'
  <2> SUFFICES ASSUME wear' <= 1, acked' # None PROVE Usable'
    OBVIOUS
  <2>1. LoadAb(Seen(lost)) \in Values /\ acked' = LoadAb(Seen(lost))
    BY DEF BootLoaded, BootForeign, BootImports, BootKeepsBadFile, BootFresh
  <2>2. LoadAb(slot) = LoadAb(Seen(lost))
    BY <1>1, <2>1, BootFinds
  <2> QED  BY <1>1, <2>1, <2>2 DEF Usable, Recovered
<1>5. Written'
  BY <1>1 DEF Written
<1> QED  BY <1>3, <1>4, <1>5 DEF SInv

LEMMA Drops ==
  ASSUME SInv, TypeOK', DropJson PROVE SInv'
<1>1. Written'
  BY DEF DropJson, Written
<1>2. Aligned'
  BY DEF DropJson, Aligned, Both, Slots
<1> QED  BY <1>1, <1>2 DEF SInv, DropJson

LEMMA InitSound == Init => SInv
<1> SUFFICES ASSUME Init PROVE SInv
  OBVIOUS
<1>1. TypeOK
  BY InitTypes
<1>2. /\ at = "off" /\ wear = 0 /\ slot["primary"] = slot["backup"]
      /\ acked # None => slot["primary"] = acked /\ acked \in Values
  BY DEF Init, Both, Slots
<1>3. acked # None => Recovered
  BY <1>1, <1>2, Finds DEF Known
<1> QED  BY <1>1, <1>2, <1>3 DEF SInv, Aligned, Usable, Written

LEMMA StepSound == SInv /\ [Next]_vars => SInv'
<1> SUFFICES ASSUME SInv, [Next]_vars PROVE SInv'
  OBVIOUS
<1>0. TypeOK /\ TypeOK'
  BY StepTypes DEF SInv
<1>1. CASE SaveStep
  BY <1>0, <1>1, PrimaryOpens, PrimaryNotOpened, PrimaryWritten, PrimaryTorn,
     BackupOpens, BackupWritten, BackupFails, SaveEnds DEF SaveStep
<1>2. CASE Boot  BY <1>0, <1>2, Boots
<1>3. CASE PowerCut  BY <1>0, <1>3, Cut
<1>4. CASE DropJson  BY <1>0, <1>4, Drops
<1>5. CASE PowerOff \/ \E new \in Values : MarkDirty(new)
  BY <1>0, <1>5, Rests DEF PowerOff, Off, MarkDirty
<1>6. CASE Tick
  BY <1>0, <1>6, SaveBegins DEF Tick, TypeOK
<1>7. CASE \E new \in Values : SaveNow(new)
  BY <1>0, <1>7, SaveBegins DEF SaveNow
<1>8. CASE UNCHANGED vars
  <2>1. LoadAb(slot)' = LoadAb(slot)
    BY <1>8 DEF vars, LoadAb
  <2> QED  BY <1>0, <1>8, <2>1
           DEF vars, SInv, Aligned, Usable, Written, Recovered, Known
<1> QED  BY <1>1, <1>2, <1>3, <1>4, <1>5, <1>6, <1>7, <1>8 DEF Next

(* For every set of contents and every number of cuts and faults: since both  *)
(* slots were last written, one power cut or failed read, open or write loses *)
(* nothing that was reported as saved.                                        *)
THEOREM StoreSurvives == Spec => []OneFaultLosesNothing
<1>1. SInv => OneFaultLosesNothing
  BY DEF SInv, Usable, OneFaultLosesNothing
<1> QED  BY <1>1, InitSound, StepSound, PTL DEF Spec

(* An import saves what the file holds. *)
Importing == at \notin {"off", "idle"} /\ why = "import" => json = ram

(* For every set of contents: the plaintext file is only removed once both    *)
(* slots hold what it held.                                                   *)
THEOREM ImportsCommit == Spec => ImportCommitted
<1>1. Init => Importing
  BY DEF Init, Importing
<1>2. Importing /\ [Next]_vars => Importing'
  <2> SUFFICES ASSUME Importing, [Next]_vars PROVE Importing'
    OBVIOUS
  <2>1. CASE SaveStep
    BY <2>1 DEF SaveStep, OpenSlot, OpenFails, WriteSlot, WriteFails, Saving, EndSave, Importing
  <2>2. CASE Boot
    <3>1. UNCHANGED json /\ at = "off"
      BY <2>2 DEF Boot
    <3>2. at' \notin {"off", "idle"} /\ why' = "import" => ram' = json
      BY <2>2 DEF Boot, BootLoaded, BootForeign, BootImports, BootKeepsBadFile, BootFresh,
                  Idle, StartSave
    <3> QED  BY <3>1, <3>2 DEF Importing
  <2>3. CASE PowerOff \/ PowerCut \/ DropJson
    BY <2>3 DEF PowerOff, PowerCut, DropJson, Off, Importing
  <2>4. CASE Tick \/ \E new \in Values : SaveNow(new) \/ MarkDirty(new)
    BY <2>4 DEF Tick, SaveNow, MarkDirty, StartSave, Importing
  <2>5. CASE UNCHANGED vars
    BY <2>5 DEF vars, Importing
  <2> QED  BY <2>1, <2>2, <2>3, <2>4, <2>5 DEF Next
<1>3. SInv /\ Importing /\ [Next]_vars
        => [(json \in Values /\ json' = None) => slot = Both(json)]_vars
  <2> SUFFICES ASSUME SInv, Importing, Next, json \in Values, json' = None
               PROVE  slot = Both(json)
    BY Apart DEF vars
  <2>1. EndSave /\ why = "import" /\ ~failed
    <3>1. json' # json /\ json' \notin Values \cup {Bad}
      BY Apart, ValueAssumption
    <3>2. EndSave
      BY <3>1 DEF Next, SaveStep, OpenSlot, OpenFails, WriteSlot, WriteFails, Saving,
                  Tick, Boot, PowerOff, PowerCut, Off, DropJson, SaveNow, MarkDirty
    <3>3. Imported
      BY <3>1, <3>2 DEF EndSave
    <3> QED  BY <3>2, <3>3 DEF Imported
  <2>2. slot["primary"] = json /\ slot["backup"] = json
    BY <2>1 DEF EndSave, SInv, Written, Importing
  <2> QED  BY <2>2 DEF SInv, TypeOK, Both, Slots
<1> QED  BY <1>1, <1>2, <1>3, InitSound, StepSound, PTL DEF Spec, ImportCommitted
=============================================================================
