------------------------------ MODULE UiTypes -------------------------------
(* What the screens of Freedea share: the navigation, the e-ink panel, the    *)
(* screens' own members and what the services behind them publish.  The       *)
(* screens run on the main loop; AC, weather and login tasks publish at any   *)
(* time and leave an edge that the loop consumes once per pass.  A frame is a *)
(* record of what it shows; its layout, the button hints and the toasts (see  *)
(* Toast) are left out.                                                       *)
EXTENDS Commands, FiniteSets

CONSTANTS
  Rows,          \* the rows of the Control screen the instance looks at
  RowSpan,       \* rows of it that fit on the panel
  TempMin, TempMax,   \* the supported span in degrees, 17 and 30 in the code
  QueueDepth,    \* commandQueue_
  StatePages,    \* state payloads the AC may send
  CapPages,      \* and capabilities: a base page, and an additional one or None
  PropPages,     \* and property values
  GroupPages,    \* and group data: the group and its payload
  Capacity,      \* kBackstackCapacity
  Networks,      \* number of saved networks
  DetailSpan,    \* rows of Details that fit when no age line takes one
  LicenseSpan, PageLines, TextLines,   \* the same of Licenses; the texts' lines
  Devices, Datagrams, MaxDevices, MaxResults, DevSpan,
  MaxBurst,      \* bound, per scene: presses drained by one tick
  MaxEdits,      \* bound, per scene: commands given, settings and networks changed
  MaxNews        \* bound, per scene: what the world changes by itself

VARIABLES
  at,      \* where loop() is: services, nav.tick(), rebooting or powered off
  scene,   \* what this user does: fixed, see Ui
  nav,     \* Navigation
  burst,   \* presses this tick has drained
  panel,   \* what the e-ink panel shows
  cur,     \* cursors and scroll positions of the menus
  ctl,     \* members of the Control screen
  devs,    \* members of the Devices screen
  scan,    \* DeviceDiscovery
  store,   \* the device list, in memory and on the card
  set,     \* the settings
  queue,   \* commands queued and not acknowledged by the AC
  ac,      \* what AcService has published
  net,     \* link, tunnel, forecast, login attempt
  edges,   \* published and not consumed
  spent,   \* events counted against the bounds
  ghost    \* history: what the last press in an open dropdown saved

uiState == <<cur, ctl, devs>>
world == <<scan, store, set, queue, ac, net>>
vars == <<at, scene, nav, burst, panel, uiState, world, edges, spent, ghost>>

ASSUME UiAssumption ==
  /\ \A n \in {RowSpan, QueueDepth, DetailSpan, LicenseSpan, PageLines, DevSpan, Networks} : n \in Nat \ {0}
  /\ Capacity \in Nat /\ Capacity > 5   \* 8 in the code
  /\ DetailSpan > 1 /\ TempMin \in Nat /\ TempMax \in Nat /\ TempMin < TempMax
  /\ MaxDevices \in Nat /\ MaxResults \in Nat
  /\ TextLines \in Seq(Nat) /\ TextLines # <<>>
  /\ "mode" \in Rows   \* always there

(* Payloads are bytes, as many of them as the parsers ask for first. *)
Byte == 0..255
ASSUME PayloadAssumption ==
  /\ \A p \in StatePages : p \in Seq(Byte) /\ Len(p) >= 22
  /\ \A page \in CapPages : /\ page.base \in Seq(Byte) /\ Len(page.base) >= 2
                             /\ page.extra \in Seq(Byte) /\ (page.extra = <<>> \/ Len(page.extra) >= 2)

ScreenIds == {"Home", "Dashboard", "Control", "Settings", "About", "Hotspot", "Devices",
              "Details", "Licenses", "LicenseText", "Networks", "CaptiveLogin"}
Buttons == {"up", "down", "left", "right", "confirm", "back"}

Current == nav.stack[Len(nav.stack)]
Repainted(n) == [n EXCEPT !.dirty = TRUE]
(* push(), pop(): a full stack ignores the push, the root stays. *)
Pushed(n, screen) == IF Len(n.stack) >= Capacity THEN n
                     ELSE Repainted([n EXCEPT !.stack = Append(@, screen)])
Popped(n) == IF Len(n.stack) = 1 THEN n ELSE Repainted([n EXCEPT !.stack = Front(@)])

(* aliasSideToNav(): where Up and Down navigate, Left and Right do the same. *)
Aliased(b) == CASE b = "left" -> "up" [] b = "right" -> "down" [] OTHER -> b
(* The entries of s that are kept, in their order. *)
Selected(s, keep) ==
  LET upTo[i \in 0..Len(s)] ==
        IF i = 0 THEN <<>>
        ELSE upTo[i - 1] \o (IF s[i] \in keep THEN <<s[i]>> ELSE <<>>)
  IN upTo[Len(s)]
Cycled(value, delta, count) == (value + delta + count) % count
Step(b) == IF b = "up" THEN -1 ELSE 1

(* An answer the AC service has not had. *)
NoExt == [compressor |-> -1, outdoor |-> -1, discharge |-> -1, fan |-> -1, outdoorFan |-> -1,
          humidity |-> -1, watts |-> -1, now |-> -1, run |-> -1, energy |-> -1, louver |-> -1]
BlankState == [power |-> FALSE, target |-> 0, mode |-> 0, fan |-> 0, swing |-> 0, eco |-> FALSE,
               turbo |-> FALSE, purifier |-> FALSE, freezeProtection |-> FALSE, sleep |-> FALSE,
               followMe |-> FALSE, display |-> FALSE]
Stale == ac.has /\ ~ac.up

Spend(kind, max) == spent[kind] < max[scene] /\ spent' = [spent EXCEPT ![kind] = @ + 1]
=============================================================================
