--------------------------------- MODULE Ui ---------------------------------
(* The screens of Freedea under the main loop: loop() of src/src/main.cpp     *)
(* consumes what the services published, Navigation::tick() drains the        *)
(* presses and draws one frame.  A household's user keeps to one scene: the   *)
(* Control screen, the devices, the settings or the pages below Home.         *)
EXTENDS ControlScreen, DevicesScreen, MenuScreens

Scenes == [control |-> <<"Home", "Control">>, devices |-> <<"Home", "Settings", "Devices">>,
           settings |-> <<"Home", "Settings">>, home |-> <<"Home">>, about |-> <<"Home", "About">>,
           cached |-> <<"Home", "Control">>]
ASSUME SceneAssumption ==
  \A bound \in {MaxBurst, MaxEdits, MaxNews} :
    DOMAIN Scenes \subseteq DOMAIN bound /\ \A s \in DOMAIN Scenes : bound[s] \in Nat
Welcome(b) ==   \* what the user of the scene presses
  CASE scene \in {"control", "cached"} -> ctl.open \/ b # "back"
    [] scene = "devices" -> Current # "Home" /\ (Current = "Settings" => b = "confirm")
    [] scene = "settings" -> /\ Current # "Home"
                             /\ Current = "Settings"
                                => b # "back" /\ ~(b = "confirm" /\ SettingsRow = "Devices")
    [] scene = "about" -> Current # "Home"
    [] OTHER -> (Current = "Home" /\ b = "confirm") => HomeTargets[cur.home + 1] = "Dashboard"

BlankCur == [home |-> 0, settings |-> 0, networks |-> 0, details |-> 0, detailsMax |-> 0,
             license |-> 0, licenseTop |-> 0, text |-> 0, line |-> 0, lineMax |-> 0, page |-> 0]
BlankCtl == [focus |-> 0, scroll |-> 0, open |-> FALSE, sel |-> 0, desired |-> BlankState]
BlankDevs == [mode |-> "saved", cursor |-> 0, visible |-> 1, note |-> ""]
BlankAc == [has |-> FALSE, up |-> FALSE, state |-> BlankState, caps |-> None,
            props |-> [k \in Props |-> -1], ext |-> NoExt]
(* The additional page is asked for where the base announces it, and may fail.*)
CapAnswers ==
  LET Base(page) == ParseCapabilities(page.base)
  IN {Base(page) : page \in CapPages}
     \cup {MergeCapabilities(Base(page), ParseCapabilities(page.extra)) :
             page \in {p \in CapPages : Base(p).more /\ p.extra # <<>>}}
BlankNet(link) == [link |-> link, tunnel |-> "waiting", weather |-> 0, login |-> FALSE]

Init ==
  /\ at = "nav" /\ scene \in DOMAIN Scenes /\ burst = 0
  /\ nav = [stack |-> Scenes[scene], dirty |-> TRUE, power |-> FALSE, watts |-> -1]
  /\ cur = [BlankCur EXCEPT !.home = IF scene = "home" THEN 0 ELSE IF scene \in {"control", "cached"} THEN 1 ELSE IF scene = "about" THEN 3 ELSE 2,
                            !.settings = IF scene = "devices" THEN 1 ELSE 0]
  /\ panel = [on |-> "Home", show |-> HomeShows, link |-> "connected", torn |-> FALSE]
  /\ ctl = BlankCtl /\ devs = BlankDevs /\ scan = NoScan
  /\ store = [list |-> <<>>, disk |-> <<>>]
  /\ set = [beep |-> FALSE, lock |-> FALSE, wg |-> FALSE, tunnel |-> TRUE, portal |-> FALSE,
            active |-> 1, verdicts |-> [i \in 1..Networks |-> "unknown"]]
  /\ ac \in IF scene = "cached" THEN {[BlankAc EXCEPT !.caps = c] : c \in CapAnswers} ELSE {BlankAc}
  /\ queue = <<>> /\ net = BlankNet("connected")
  /\ edges = {} /\ spent = [edits |-> 0, news |-> 0] /\ ghost = <<>>

-----------------------------------------------------------------------------
(* Navigation::tick(): the presses, the power button, then at most one frame. *)

Passive(b) ==
  \/ Current = "Home" /\ HomeButton(Aliased(b))
  \/ Current = "Dashboard" /\ DashboardButton(b)
  \/ Current = "Details" /\ DetailsButton(Aliased(b))
  \/ Current = "About" /\ AboutButton(b)
  \/ Current = "Licenses" /\ LicensesButton(Aliased(b))
  \/ Current = "LicenseText" /\ LicenseTextButton(Aliased(b))
Handles(b) ==
  \/ Current = "Control" /\ ControlButton(b) /\ UNCHANGED at
  \/ Current = "Devices" /\ DevicesButton(b)
  \/ /\ Current = "Settings" /\ SettingsButton(Aliased(b))
     /\ UNCHANGED <<panel, ctl, store, queue, ac, net, ghost>>
  \/ /\ Current = "Networks" /\ NetworksButton(Aliased(b))
     /\ UNCHANGED <<at, panel, ctl, devs, scan, store, queue, ac, ghost>>
  \/ /\ Current = "CaptiveLogin" /\ CaptiveLoginButton(b)
     /\ UNCHANGED <<at, panel, uiState, scan, store, set, queue, ac, spent, ghost>>
  \/ Passive(b) /\ UNCHANGED <<at, panel, ctl, devs, world, spent, ghost>>
  \/ /\ Current = "Hotspot" /\ b = "back" /\ at' = "boot"
     /\ UNCHANGED <<nav, panel, uiState, world, spent, ghost>>

Press(b) == /\ at = "nav" /\ burst < MaxBurst[scene] /\ Welcome(b)
            /\ Handles(b) /\ burst' = burst + 1 /\ UNCHANGED <<scene, edges>>

(* A tap of the power button, and five minutes without a press, draw the      *)
(* frame anew; a hold of three seconds arms standby and draws nothing.        *)
NavOnly(n) == nav' = n /\ UNCHANGED <<at, scene, burst, panel, uiState, world, edges, spent, ghost>>
PowerDown == at = "nav" /\ scene = "about" /\ ~nav.power /\ NavOnly([nav EXCEPT !.power = TRUE])
PowerTap == at = "nav" /\ nav.power /\ NavOnly(Repainted([nav EXCEPT !.power = FALSE]))
IdleRefresh == at = "nav" /\ ~nav.dirty /\ NavOnly(Repainted(nav))
PowerHeld == /\ at = "nav" /\ nav.power /\ at' = "off"
             /\ panel' = [panel EXCEPT !.on = "Off", !.show = [off |-> TRUE]]
             /\ UNCHANGED <<scene, nav, burst, uiState, world, edges, spent, ghost>>

Shows(c, k, d) ==
  CASE Current = "Home" -> HomeShows
    [] Current = "Dashboard" -> DashboardShows
    [] Current = "Details" -> DetailsShows(c)
    [] Current = "Control" -> ControlShows(k)
    [] Current = "Devices" -> DevicesShows(d)
    [] Current = "Settings" -> SettingsShows
    [] Current = "Networks" -> NetworksShows
    [] Current = "CaptiveLogin" -> CaptiveLoginShows
    [] Current = "Licenses" -> LicensesShows(c)
    [] Current = "LicenseText" -> LicenseTextShows(DrawnLine)
    [] OTHER -> [page |-> Current]

(* renderCurrent(): the frame, and what drawing it does to the members. *)
CurDrawn == CASE Current = "Details" -> DetailsClamped
              [] Current = "Licenses" -> LicensesClamped
              [] Current = "LicenseText" -> LicenseTextClamped
              [] OTHER -> cur
CtlDrawn == IF Current = "Control" THEN ControlClamped ELSE ctl
DevsDrawn == IF Current = "Devices" THEN DevicesClamped ELSE devs
Frame == Shows(CurDrawn, CtlDrawn, DevsDrawn)
Draw ==
  /\ at = "nav" /\ nav.dirty /\ at' = "services" /\ burst' = 0
  /\ nav' = [nav EXCEPT !.dirty = FALSE]
  /\ cur' = CurDrawn /\ ctl' = CtlDrawn /\ devs' = DevsDrawn
  /\ panel' = [on |-> Current, show |-> Frame, link |-> net.link, torn |-> FALSE]
  /\ UNCHANGED <<scene, world, edges, spent, ghost>>
NoDraw == /\ at = "nav" /\ ~nav.dirty /\ at' = "services" /\ burst' = 0
          /\ UNCHANGED <<scene, nav, panel, uiState, world, edges, spent, ghost>>

-----------------------------------------------------------------------------
(* loop() up to nav.tick(): what happens to every edge there is.              *)

Published(edge) == edge \in edges
AcScreens == {"Dashboard", "Control", "Details"}
PowerMoved(n) == Published("ext") /\ Last(n.stack) = "Dashboard" /\ ac.ext.watts # n.watts
Wanted ==   \* by the screen that is current
  {"login"} \cup (IF Current = "Hotspot" THEN {} ELSE {"link"})
  \cup (IF Current \in AcScreens THEN {"state", "reach"} ELSE {})
  \cup (IF Current \in {"Dashboard", "Settings"} THEN {"weather"} ELSE {})
  \cup (CASE Current = "Settings" -> {"verdict", "wg"} [] Current = "Networks" -> {"verdict"}
          [] Current = "Control" -> {"caps", "props"} [] Current = "Details" -> {"ext"}
          [] Current = "Devices" -> {"scan"} [] OTHER -> {})
AfterLogin == IF Published("login") /\ Current = "CaptiveLogin" THEN Popped(nav) ELSE nav
(* Mutant of AfterPrompt: the prompt is stacked upon itself. *)
AfterPromptAnew(n) == IF Published("prompt") THEN Pushed(n, "CaptiveLogin") ELSE n
AfterPrompt(n) == IF Published("prompt") /\ Last(n.stack) # "CaptiveLogin"
                  THEN Pushed(n, "CaptiveLogin") ELSE n

(* A screen that was popped or covered here is drawn whatever it wanted.      *)
Services ==
  /\ at = "services" /\ at' = "nav" /\ edges' = {}
  /\ scan' = [Polled(scan) EXCEPT !.edge = FALSE]
  /\ LET n == AfterPrompt(AfterLogin)
         now == edges \cup (IF Polled(scan).edge THEN {"scan"} ELSE {})
     IN nav' = CASE PowerMoved(n) -> Repainted([n EXCEPT !.watts = ac.ext.watts])
                 [] ~PowerMoved(n) /\ now \cap Wanted # {} -> Repainted(n)
                 [] OTHER -> n
  /\ ctl' = IF Published("state") THEN [ctl EXCEPT !.desired = ac.state] ELSE ctl
  /\ ghost' = <<>> /\ UNCHANGED <<scene, burst, panel, cur, devs, store, set, queue, ac, net, spent>>

(* setup(): what is in memory starts anew, the card holds what it holds. *)
Boot ==
  /\ at \in {"boot", "provision"} /\ at' = "nav" /\ burst' = 0
  /\ nav' = [stack |-> IF at = "boot" THEN <<"Home">> ELSE <<"Hotspot">>, dirty |-> TRUE,
             power |-> FALSE, watts |-> -1]
  /\ cur' = BlankCur /\ ctl' = BlankCtl /\ devs' = BlankDevs /\ scan' = NoScan
  /\ store' = [store EXCEPT !.list = store.disk]
  /\ set' = [set EXCEPT !.portal = at = "provision"]
  /\ ac' \in {BlankAc, [BlankAc EXCEPT !.caps = ac.caps]}   \* CapabilitiesStore
  /\ net' = BlankNet(IF at = "boot" THEN "connecting" ELSE "disabled")
  /\ queue' = <<>> /\ edges' = {} /\ ghost' = <<>> /\ UNCHANGED <<scene, panel, spent>>

-----------------------------------------------------------------------------
(* What the AC service publishes, at any time.                                *)

Raised(edge) == edges' = edges \cup {edge}
Awake == at \in {"services", "nav"}
OnlyAc == UNCHANGED <<at, scene, nav, burst, panel, uiState, scan, store, set, net, ghost>>

Compared == {"power", "target", "mode", "fan", "swing", "eco", "turbo", "display"}
Publish(st) ==   \* publishState()
  /\ ac' = [ac EXCEPT !.has = TRUE, !.up = TRUE, !.state = st]
  /\ edges' = edges \cup (IF ac.up THEN {} ELSE {"reach"})
       \cup (IF ~ac.has \/ \E f \in Compared : st[f] # ac.state[f] THEN {"state"} ELSE {})
PublishProps(values) ==
  LET props == ApplyProperties(ac.props, values)
  IN /\ ac' = [ac EXCEPT !.props = props]
     /\ edges' = edges \cup (IF props = ac.props THEN {} ELSE {"props"})

States == {ParseState(page) : page \in StatePages}
StateArrives == \E st \in States :
  Awake /\ scene \in {"control", "cached", "home"} /\ Spend("news", MaxNews)
  /\ Publish(st) /\ OnlyAc /\ UNCHANGED queue
Properties == {ParseProperties(page) : page \in PropPages}
PropsArrive == \E values \in Properties :
  Awake /\ scene = "cached" /\ ac.has /\ Spend("news", MaxNews)
  /\ PublishProps(values) /\ OnlyAc /\ UNCHANGED queue
GroupArrives == \E group \in GroupPages :
  LET ext == ParseGroup(group[1], group[2], ac.ext)
  IN /\ Awake /\ scene = "home" /\ ac.has /\ Spend("news", MaxNews)
     /\ ac' = [ac EXCEPT !.ext = ext]
     /\ edges' = edges \cup (IF ext = ac.ext THEN {} ELSE {"ext"})
     /\ OnlyAc /\ UNCHANGED queue
SessionEnds == /\ Awake /\ ac.up /\ scene \in {"control", "home"} /\ Spend("news", MaxNews)
               /\ ac' = [ac EXCEPT !.up = FALSE] /\ Raised("reach") /\ OnlyAc /\ UNCHANGED queue

CapsArrive == \E caps \in CapAnswers :
  /\ Awake /\ scene = "control" /\ ac.caps = None /\ Spend("news", MaxNews)
  /\ ac' = [ac EXCEPT !.caps = caps] /\ Raised("caps") /\ OnlyAc /\ UNCHANGED queue

(* The service sends the oldest command; the AC's answers are published.      *)
Acknowledged ==
  /\ Awake /\ queue # <<>> /\ queue' = Tail(queue) /\ OnlyAc /\ UNCHANGED spent
  /\ LET c == Head(queue)
     IN CASE c.kind = "set" -> Publish(DeviceReads(SetState(c.st, set.beep), ac.state.display))
          [] c.kind = "toggle" -> Publish([ac.state EXCEPT !.display = ~@])
          [] c.kind = "prop" -> PublishProps(ParseProperties(DeviceAnswers(SetProperty(c.prop, c.value))))
          [] c.kind = "beep" -> UNCHANGED <<ac, edges>>

-----------------------------------------------------------------------------
(* What the other services do: the main loop ticks all but the tasks of the   *)
(* weather and the login.                                                     *)

News(where, scenes, edge, n, s) ==
  /\ at \in where /\ scene \in scenes /\ net.link # "disabled" /\ Spend("news", MaxNews)
  /\ Raised(edge) /\ net' = n /\ set' = s
  /\ UNCHANGED <<at, scene, nav, burst, panel, uiState, scan, store, queue, ac, ghost>>
Ticked == {"services"}
LinkMoves == \E link \in {"connected", "connecting", "lost"} \ {net.link} :
  News(Ticked, {"home", "settings", "devices", "about"}, "link", [net EXCEPT !.link = link], set)
VerdictArrives == \E verdict \in {"open", "portal"} \ {set.verdicts[set.active]} :
  News(Ticked, {"settings"}, "verdict", net, [set EXCEPT !.verdicts[set.active] = verdict])
TunnelMoves == \E tunnel \in {"waiting", "up"} \ {net.tunnel} :
  News(Ticked, {"settings"}, "wg", [net EXCEPT !.tunnel = tunnel], set)
PromptDue == ~net.login /\ News(Ticked, {"settings", "devices"}, "prompt", net, set)
WeatherArrives == News({"services", "nav"}, {"home", "settings"}, "weather", [net EXCEPT !.weather = @ + 1], set)
LoginEnds == /\ Awake /\ net.login /\ net' = [net EXCEPT !.login = FALSE] /\ Raised("login")
             /\ UNCHANGED <<at, scene, nav, burst, panel, uiState, scan, store, set, queue, ac, spent, ghost>>

Tick == (\E b \in Buttons : Press(b)) \/ PowerDown \/ PowerTap \/ PowerHeld \/ IdleRefresh
EndTick == Draw \/ NoDraw
World == \/ StateArrives \/ PropsArrive \/ GroupArrives \/ SessionEnds \/ CapsArrive \/ Acknowledged
         \/ LinkMoves \/ VerdictArrives \/ TunnelMoves \/ PromptDue \/ WeatherArrives \/ LoginEnds
         \/ TimePasses \/ ReplyArrives
Next == Tick \/ EndTick \/ Services \/ Boot \/ World

Spec == Init /\ [][Next]_vars

-----------------------------------------------------------------------------
(* Cursors stay on their lists, frames are those of screens, and no queue or  *)
(* table outgrows its array, whatever shrinks beneath them.                   *)
TypeOK ==
  /\ at \in {"services", "nav", "boot", "provision", "off"} /\ scene \in DOMAIN Scenes
  /\ nav.stack \in Seq(ScreenIds) /\ Len(nav.stack) \in 1..Capacity
  /\ nav.dirty \in BOOLEAN /\ nav.power \in BOOLEAN /\ burst \in 0..MaxBurst[scene]
  /\ panel.on \in ScreenIds \cup {"Off"} /\ panel.torn \in BOOLEAN
  /\ cur.home < Len(HomeTargets) /\ cur.settings < Len(SettingsRows) /\ cur.networks < Networks
  /\ cur.license < LicenseCount /\ cur.licenseTop <= LicensesMax /\ cur.details <= cur.detailsMax
  /\ ctl.focus < Len(LookedAt) /\ ctl.sel < MaxOptions
  /\ devs.mode \in {"saved", "scanning", "results", "confirm", "confirmDelete"}
  /\ devs.cursor < DevSpan /\ Len(scan.found) <= MaxResults
  /\ Len(store.list) <= MaxDevices /\ Len(store.disk) <= MaxDevices
  /\ Len(queue) <= QueueDepth /\ spent.edits <= MaxEdits[scene] /\ spent.news <= MaxNews[scene]

(* After a pass with nothing left to consume the panel shows the current      *)
(* screen, its values as they are and the state of the link: no edge was      *)
(* consumed for another screen or before a change, no handler forgot to ask   *)
(* for a frame, and boxes drawn into the held frame left it as a new frame    *)
(* would be.  Left out are the Dashboard's power, the values that are not     *)
(* announced (see EditLands), whether the only option of a list is lit, a     *)
(* text drawn beyond its end and the empty page of a dialog whose row is gone *)
(* (see the README).                                                          *)
Unannounced == {"purifier", "freezeProtection", "sleep", "followMe"}
Told(show) ==
  CASE panel.on = "Dashboard" -> [show EXCEPT !.watts = 0]
    [] panel.on = "Control" ->
         [show EXCEPT !.rows = [i \in DOMAIN @ |-> IF @[i][1] \in Unannounced THEN <<@[i][1]>> ELSE @[i]],
                      !.drop.lit = IF Len(show.drop.options) = 1 THEN 0 ELSE @]
    [] OTHER -> show
Overrun == panel.on = "LicenseText" /\ panel.show.line > cur.lineMax
Blank == panel.on = "Devices" /\ panel.show.mode = "blank"
Rest == at = "services" /\ edges = {} /\ ~nav.dirty
FrameCurrent ==
  Rest /\ ~Overrun /\ ~Blank
  => /\ panel.on = Current /\ panel.link = net.link /\ ~panel.torn
     /\ Told(panel.show) = Told(Frame)

(* The stack holds no screen twice and never has to drop a push, however      *)
(* prompts and presses interleave.                                            *)
StackSound ==
  /\ \A i, j \in DOMAIN nav.stack : nav.stack[i] = nav.stack[j] => i = j
  /\ Len(nav.stack) < Capacity

(* What the AC reads from a SetState are the values the user composed, half   *)
(* degrees and temperatures outside of the plain range included.              *)
SentAsChosen ==
  \A i \in DOMAIN queue : queue[i].kind = "set" /\ queue[i].st.target \in 26..86
    => DeviceReads(SetState(queue[i].st, set.beep), queue[i].st.display) = queue[i].st

(* While the panel is up to date, Confirm in a dialog does what the panel     *)
(* says: it saves the highlighted option in the row the dropdown names, it    *)
(* adds or removes the device that is asked about.  The handlers recompute    *)
(* rows, options and devices from positions; none may have moved beneath the  *)
(* frame.                                                                     *)
OnPanel ==
  CASE panel.on = "Control" /\ panel.show.drop # NoDrop ->
         <<panel.show.drop.row, panel.show.drop.options[panel.show.drop.lit + 1]>>
    [] panel.on = "Devices" /\ panel.show.mode = "confirm" -> <<"add", panel.show.add.id>>
    [] panel.on = "Devices" /\ panel.show.mode = "confirmDelete" -> <<"remove", panel.show.remove>>
    [] OTHER -> <<>>
NoneLit == panel.on = "Control" /\ panel.show.drop.lit >= Len(panel.show.drop.options)
ActsAsShown ==
  [][(ghost' \notin {<<>>, ghost} /\ ~nav.dirty /\ edges = {} /\ ~NoneLit) => ghost' = OnPanel]_vars

(* What Screens.cpp:1839-1840 says: an edit lands visually when the state     *)
(* that the AC answers it with arrives.                                       *)
EditLands ==
  Rest /\ queue = <<>> /\ panel.on = "Control" /\ ac.has
  => \A i \in DOMAIN panel.show.rows : panel.show.rows[i][2] = RowValue(panel.show.rows[i][1])
=============================================================================
