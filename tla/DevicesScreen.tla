--------------------------- MODULE DevicesScreen ----------------------------
(* The Devices screen of src/src/ui/Screens.cpp: the saved list, the scan,    *)
(* its results, and the confirmations that add and remove a device.           *)
EXTENDS DeviceDiscovery

Ids(list) == {list[i] : i \in DOMAIN list}
Stored(id) == id \in Ids(store.list)

(* What saveNow() leaves on the card: the list, or, when it says it failed,   *)
(* either (one of the two files was written).                                 *)
Saves(list, ok) == /\ store' \in {[list |-> list, disk |-> list], [list |-> list, disk |-> store.disk]}
                   /\ ok => store'.disk = list

Devs(mode, note) == devs' = [devs EXCEPT !.mode = mode, !.note = note]
Moves(count, b) == devs' = [devs EXCEPT !.cursor = Cycled(@, Step(b), count)]
Quiet == UNCHANGED <<at, scan, store>>
Shown(count) == Min({count, devs.visible})

SavedButton(b) ==
  \/ b \in {"up", "down"} /\ Moves(Shown(Len(store.list) + 1), b) /\ nav' = Repainted(nav) /\ Quiet
  \/ /\ b = "confirm" /\ nav' = Repainted(nav) /\ UNCHANGED <<at, store>>
     /\ \/ devs.cursor # Len(store.list) /\ Devs("confirmDelete", devs.note) /\ UNCHANGED scan
        \/ /\ devs.cursor = Len(store.list) /\ net.link # "connected"
           /\ Devs("saved", "no link") /\ UNCHANGED scan
        \/ /\ devs.cursor = Len(store.list) /\ net.link = "connected"
           /\ \/ Devs("scanning", devs.note) /\ scan' = Started(scan)
              \/ ~scan.on /\ Devs("saved", "scan failed") /\ UNCHANGED scan
  \/ b = "back" /\ nav' = Popped(nav) /\ Quiet /\ UNCHANGED devs

(* The device under the cursor; past the end of the list the array holds      *)
(* blank places, and past its own end anything.                               *)
Removable == IF devs.cursor < Len(store.list) THEN {store.list[devs.cursor + 1]}
             ELSE IF devs.cursor < MaxDevices THEN {None} ELSE Devices \cup {None}
ConfirmDeleteButton(b) ==
  \/ b = "back" /\ Devs("saved", devs.note) /\ nav' = Repainted(nav) /\ Quiet
  \/ /\ b = "confirm" /\ UNCHANGED scan
     /\ \E id \in Removable, ok \in BOOLEAN :
          IF Stored(id)
          THEN /\ Saves(Selected(store.list, Ids(store.list) \ {id}), ok)
               /\ IF ok THEN at' = "boot" /\ UNCHANGED <<nav, devs>>
                  ELSE Devs("saved", "remove failed") /\ nav' = Repainted(nav) /\ UNCHANGED at
          ELSE Devs("saved", "remove failed") /\ nav' = Repainted(nav) /\ UNCHANGED <<at, store>>

ScanningButton(b) ==
  b = "back" /\ scan' = Cancelled(scan) /\ Devs("saved", devs.note)
             /\ nav' = Repainted(nav) /\ UNCHANGED <<at, store>>

Chosen == scan.found[devs.cursor + 1].id
ResultsButton(b) ==
  \/ /\ b \in {"up", "down"} /\ nav' = Repainted(nav) /\ Quiet
     /\ IF scan.found = <<>> THEN UNCHANGED devs ELSE Moves(Shown(Len(scan.found)), b)
  \/ /\ b = "confirm" /\ scan.found # <<>> /\ nav' = Repainted(nav) /\ Quiet
     /\ IF Stored(Chosen) THEN Devs("saved", "already saved") ELSE Devs("confirm", devs.note)
  \/ b = "back" /\ Devs("saved", devs.note) /\ nav' = Repainted(nav) /\ Quiet

(* addDiscoveredDevice(): saved, or the note says why not. *)
ConfirmButton(b) ==
  \/ b = "back" /\ Devs("results", devs.note) /\ nav' = Repainted(nav) /\ Quiet
  \/ /\ b = "confirm" /\ nav' = Repainted(nav) /\ UNCHANGED <<at, scan>>
     /\ \/ Stored(Chosen) /\ Devs("saved", "already saved") /\ UNCHANGED store
        \/ /\ ~Stored(Chosen) /\ Len(store.list) >= MaxDevices
           /\ Devs("saved", "list full") /\ UNCHANGED store
        \/ /\ ~Stored(Chosen) /\ Len(store.list) < MaxDevices
           /\ \E ok \in BOOLEAN : /\ Saves(Append(store.list, Chosen), ok)
                                  /\ Devs("saved", IF ok THEN "saved" ELSE "add failed")

(* History: the device a dialog added or removed. *)
Dialog(b) ==
  CASE b = "confirm" /\ devs.mode = "confirm" -> <<"add", Chosen>>
    [] b = "confirm" /\ devs.mode = "confirmDelete" ->
         <<"remove", IF devs.cursor < Len(store.list) THEN store.list[devs.cursor + 1] ELSE None>>
    [] OTHER -> ghost
DevicesButton(b) ==
  /\ CASE devs.mode = "saved" -> SavedButton(Aliased(b))
       [] devs.mode = "confirmDelete" -> ConfirmDeleteButton(b)
       [] devs.mode = "scanning" -> ScanningButton(b)
       [] devs.mode = "results" -> ResultsButton(Aliased(b))
       [] devs.mode = "confirm" -> ConfirmButton(b)
  /\ ghost' = Dialog(b) /\ UNCHANGED <<panel, cur, ctl, set, queue, ac, net, spent>>

-----------------------------------------------------------------------------
(* renderDevices(): a scan that is over turns into its results, the cursor is *)
(* clamped to the rows that fit, and a dialog whose row is gone draws nothing.*)

Mode == IF devs.mode = "scanning" /\ ~scan.on THEN "results" ELSE devs.mode
ListLen == IF Mode = "saved" THEN Len(store.list) + 1 ELSE Len(scan.found)
Gone == \/ Mode = "confirm" /\ scan.found = <<>>
        \/ Mode = "confirmDelete" /\ devs.cursor >= Len(store.list)
Lists == Mode = "saved" \/ (Mode = "results" /\ scan.found # <<>>)
DevicesClamped ==
  [devs EXCEPT !.mode = IF Gone THEN "saved" ELSE Mode,
               !.visible = IF Lists THEN DevSpan ELSE @,
               !.cursor = IF Lists /\ @ >= Min({ListLen, DevSpan}) THEN 0 ELSE @]
DevicesShows(d) ==
  CASE Gone -> [mode |-> "blank"]
    [] d.mode = "saved" /\ ~Gone -> [mode |-> "saved", cursor |-> d.cursor, note |-> d.note, saved |-> store.list]
    [] d.mode = "scanning" -> [mode |-> "scanning"]
    [] d.mode = "results" -> [mode |-> "results", cursor |-> d.cursor,
                              found |-> [i \in DOMAIN scan.found |->
                                           <<scan.found[i], Stored(scan.found[i].id)>>]]
    [] d.mode = "confirm" -> [mode |-> "confirm", add |-> scan.found[d.cursor + 1]]
    [] d.mode = "confirmDelete" -> [mode |-> "confirmDelete", remove |-> store.list[d.cursor + 1]]
=============================================================================
