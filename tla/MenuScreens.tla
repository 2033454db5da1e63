---------------------------- MODULE MenuScreens -----------------------------
(* The other screens of src/src/ui/Screens.cpp: the menus, the passive pages, *)
(* the scrolling lists and the login prompt.  Each has its button handler and *)
(* what it shows.                                                             *)
EXTENDS DeviceDiscovery

Cursor(c) == cur' = c
Still == UNCHANGED cur
NoEdits == UNCHANGED <<set, spent>>
Repaints == nav' = Repainted(nav)
Leaves == nav' = Popped(nav)

-----------------------------------------------------------------------------
(* Home, Dashboard, Details, About.                                           *)

HomeTargets == <<"Dashboard", "Control", "Settings", "About">>
HomeButton(b) ==
  \/ b \in {"up", "down"} /\ Repaints
     /\ Cursor([cur EXCEPT !.home = Cycled(@, Step(b), Len(HomeTargets))])
  \/ b = "confirm" /\ nav' = Pushed(nav, HomeTargets[cur.home + 1]) /\ Still
  \/ b = "back" /\ UNCHANGED nav /\ Still
HomeShows == [cursor |-> cur.home]

DashboardButton(b) ==
  /\ \/ b = "confirm" /\ nav' = Pushed(nav, "Details")
     \/ b = "back" /\ Leaves
  /\ Still
AboutButton(b) ==
  /\ \/ b = "confirm" /\ nav' = Pushed(nav, "Licenses")
     \/ b = "back" /\ Leaves
  /\ Still

(* The power row is drawn as it is when the frame is; see PowerMoved. *)
DashboardShows ==
  [stale |-> Stale, weather |-> net.weather, watts |-> ac.ext.watts,
   mode |-> IF ~ac.has THEN -1 ELSE IF ac.state.power THEN ac.state.mode ELSE 255,
   target |-> IF ac.has THEN ac.state.target ELSE -1,
   fan |-> IF ac.has THEN ac.state.fan ELSE -1]

DetailRows(ext) ==
  <<ext.compressor, ext.outdoor, ext.discharge, ext.fan, ext.outdoorFan, ext.humidity,
    ext.watts, ext.now, ext.run, ext.energy>>
(* The line that tells the age of the values costs a row. *)
Aged == ac.ext # NoExt /\ ~ac.up
DetailVisible == DetailSpan - (IF Aged THEN 1 ELSE 0)
DetailMax == Max({0, Len(DetailRows(NoExt)) - DetailVisible})
DetailsButton(b) ==
  \/ b = "up" /\ cur.details > 0 /\ Cursor([cur EXCEPT !.details = @ - 1]) /\ Repaints
  \/ b = "down" /\ cur.details < cur.detailsMax /\ Cursor([cur EXCEPT !.details = @ + 1]) /\ Repaints
  \/ b = "back" /\ Leaves /\ Still
DetailsClamped == [cur EXCEPT !.detailsMax = DetailMax, !.details = Min({@, DetailMax})]
DetailsShows(c) ==
  [aged |-> Aged, rows |-> SubSeq(DetailRows(ac.ext), c.details + 1,
                                  Min({c.details + DetailVisible, Len(DetailRows(NoExt))}))]

-----------------------------------------------------------------------------
(* Licenses: a list that scrolls with its selection, and texts in pages.  The *)
(* bounds are those the last frame left behind, a text's also for the next    *)
(* text.                                                                      *)

LicenseCount == Len(TextLines)
LicensesButton(b) ==
  \/ b = "up" /\ cur.license > 0 /\ Cursor([cur EXCEPT !.license = @ - 1]) /\ Repaints
  \/ b = "down" /\ cur.license + 1 < LicenseCount /\ Cursor([cur EXCEPT !.license = @ + 1]) /\ Repaints
  \/ b = "confirm" /\ Cursor([cur EXCEPT !.text = cur.license, !.line = 0])
     /\ nav' = Pushed(nav, "LicenseText")
  \/ b = "back" /\ Leaves /\ Still
LicensesMax == Max({0, LicenseCount - LicenseSpan})
LicensesClamped ==
  LET top == Min({cur.licenseTop, LicensesMax})
  IN [cur EXCEPT !.licenseTop = CASE cur.license < top -> cur.license
                                  [] cur.license + 1 > top + LicenseSpan -> cur.license + 1 - LicenseSpan
                                  [] OTHER -> top]
LicensesShows(c) == [cursor |-> c.license, top |-> c.licenseTop]

Page == IF cur.page = 0 THEN 1 ELSE cur.page
LicenseTextButton(b) ==
  \/ b = "up" /\ cur.line > 0 /\ Cursor([cur EXCEPT !.line = Max({0, @ - Page})]) /\ Repaints
  \/ b = "down" /\ cur.line < cur.lineMax
     /\ Cursor([cur EXCEPT !.line = Min({cur.lineMax, @ + Page})]) /\ Repaints
  \/ b = "back" /\ Leaves /\ Still
LineMax == Max({0, TextLines[cur.text + 1] - PageLines})
(* The frame starts at the line the last bound allows; then the new bound     *)
(* moves the member, not the frame.                                           *)
DrawnLine == Min({cur.line, cur.lineMax})
LicenseTextClamped == [cur EXCEPT !.line = Min({DrawnLine, LineMax}), !.lineMax = LineMax, !.page = PageLines]
LicenseTextShows(line) == [text |-> cur.text, line |-> line]

-----------------------------------------------------------------------------
(* Settings, Networks, the login prompt, the provisioning screen.             *)

SettingsRows == <<"Networks", "Devices", "Weather", "Hotspot", "Portal", "WireGuard">>
SettingsRow == SettingsRows[cur.settings + 1]
(* The rows that change something themselves; a tunnel without configuration  *)
(* is not switched on, and the weather is only asked for.                     *)
SettingsActs ==
  \/ /\ SettingsRow = "Weather" \/ (SettingsRow = "WireGuard" /\ ~set.wg /\ ~set.tunnel)
     /\ NoEdits
  \/ SettingsRow = "Portal" /\ set' = [set EXCEPT !.portal = ~@] /\ UNCHANGED spent
  \/ /\ SettingsRow = "WireGuard" /\ (set.wg \/ set.tunnel)
     /\ set' = [set EXCEPT !.wg = ~@] /\ Spend("edits", MaxEdits)
SettingsButton(b) ==
  \/ /\ b \in {"up", "down"} /\ Repaints /\ NoEdits /\ UNCHANGED <<at, devs, scan>>
     /\ Cursor([cur EXCEPT !.settings = Cycled(@, Step(b), Len(SettingsRows))])
  \/ /\ b = "confirm" /\ SettingsRow = "Networks" /\ nav' = Pushed(nav, "Networks")
     /\ NoEdits /\ Still /\ UNCHANGED <<at, devs, scan>>
  \/ /\ b = "confirm" /\ SettingsRow = "Devices" /\ nav' = Pushed(nav, "Devices")
     /\ scan' = Cancelled(scan) /\ devs' = [devs EXCEPT !.mode = "saved", !.cursor = 0, !.note = ""]
     /\ NoEdits /\ Still /\ UNCHANGED at
  \/ /\ b = "confirm" /\ SettingsActs /\ Repaints /\ Still /\ UNCHANGED <<at, devs, scan>>
  \/ /\ b = "confirm" /\ SettingsRow = "Hotspot" /\ NoEdits /\ Still
     /\ at' \in {"provision", at} /\ UNCHANGED <<nav, devs, scan>>
  \/ b = "back" /\ Leaves /\ NoEdits /\ Still /\ UNCHANGED <<at, devs, scan>>

(* The portal's address is left out: the portal closes when it is idle and    *)
(* tells no one. *)
SettingsShows ==
  [cursor |-> cur.settings, link |-> net.link, verdict |-> set.verdicts[set.active],
   saved |-> Len(store.list), weather |-> net.weather, on |-> set.wg,
   tunnel |-> IF set.wg THEN net.tunnel ELSE "off"]

NetworksButton(b) ==
  \/ /\ b \in {"up", "down"} /\ Repaints /\ NoEdits /\ UNCHANGED net
     /\ Cursor([cur EXCEPT !.networks = Cycled(@, Step(b), Networks)])
  \/ /\ b = "confirm" /\ cur.networks + 1 # set.active   \* WifiService::restart()
     /\ set' = [set EXCEPT !.active = cur.networks + 1]
     /\ net' = [net EXCEPT !.link = "connecting"]
     /\ Spend("edits", MaxEdits) /\ Repaints /\ Still
  \/ b = "back" /\ Leaves /\ NoEdits /\ Still /\ UNCHANGED net
NetworksShows ==
  [cursor |-> cur.networks,
   rows |-> [i \in 1..Networks |-> <<i = set.active, set.verdicts[i]>>]]

CaptiveLoginButton(b) ==
  \/ /\ b = "confirm" /\ ~net.login
     /\ \/ net' = [net EXCEPT !.login = TRUE] /\ Repaints
        \/ Leaves /\ UNCHANGED net   \* no task could be created
  \/ b = "back" /\ ~net.login /\ Leaves /\ UNCHANGED net
CaptiveLoginShows == [busy |-> net.login, network |-> set.active]
=============================================================================
