------------------------------- MODULE Network -------------------------------
(* The network services of Freedea under one main loop: the link (WifiService *)
(* over the radio), the captive-portal probe, the portal login, the tunnel    *)
(* and the weather task, with the user who switches networks, edits profiles  *)
(* in the web portal and answers the login prompt.                            *)
EXTENDS WifiService, CaptiveProbe, PortalLogin, WireGuardService, WeatherService

TypeOK ==
  /\ \E i \in DOMAIN Turns : at = Turns[i]
  /\ settings \in [active : Slots \cup {None}, ssid : [Slots -> Names \cup {None}],
                   portal : [Slots -> Portal], wg : WgSettings, weather : BOOLEAN]
  /\ radio \in [net : Names \cup {None}, status : {"idle", "joining", "connected", "failed"}]
  /\ WifiType /\ ProbeType /\ LoginType /\ WgType /\ WxType
  /\ spent \in [Kinds -> Nat] /\ \A kind \in Kinds : spent[kind] <= Bound(kind)
  /\ ghost \in [probes : Nat, prompts : Nat, login : BOOLEAN \cup {None}, asked : BOOLEAN]

(* setup(): the services are initialised and the first WiFi tick starts the   *)
(* first attempt.  The settings come from the card.                           *)
NoTunnel == [on |-> FALSE, config |-> None]
Boot(s, events) ==
  /\ at = "wifi" /\ settings = s
  /\ radio = [net |-> None, status |-> "idle"]
  /\ wifi = [link |-> "disconnected", inFlight |-> FALSE, waiting |-> FALSE]
  /\ probe = [linkWasUp |-> FALSE, tried |-> FALSE, ready |-> FALSE, task |-> "none",
              slot |-> None, ssid |-> None, verdict |-> "unknown"]
  /\ login = [linkWasUp |-> FALSE, prompted |-> FALSE, edge |-> FALSE, joined |-> FALSE,
              task |-> "none", hops |-> 0, result |-> FALSE]
  /\ wg = [started |-> FALSE, linkWasUp |-> FALSE, cancel |-> FALSE, done |-> FALSE,
           cfg |-> None, last |-> NoTunnel, status |-> "disabled", waiting |-> FALSE,
           patient |-> FALSE, task |-> "none", outcome |-> "none", open |-> FALSE, peer |-> FALSE]
  /\ wx = [task |-> "sleep", refresh |-> FALSE, due |-> TRUE, data |-> None,
           update |-> FALSE, error |-> FALSE]
  /\ screen = [prompt |-> FALSE, verdict |-> None, forecast |-> None, stale |-> FALSE]
  /\ spent = [kind \in Kinds |-> IF kind \in events THEN 0 ELSE Bound(kind)]
  /\ ghost = [probes |-> 0, prompts |-> 0, login |-> None, asked |-> FALSE]

(* The households an instance looks at, each with the kinds of events that    *)
(* come together in it: networks with and without a login page, a tunnel, the *)
(* forecast.                                                                  *)
First == CHOOSE slot \in Slots : TRUE
Name == CHOOSE name \in [Slots -> Names] : \A s, t \in Slots : name[s] = name[t] => s = t
Tunnel == [on |-> TRUE, config |-> CHOOSE config \in WgConfigs \ BadConfigs : TRUE]
House(kept, portal, tunnel, weather) ==
  [active |-> First, ssid |-> [slot \in Slots |-> IF slot \in kept THEN Name[slot] ELSE None],
   portal |-> [slot \in Slots |-> IF slot = First THEN portal ELSE "unknown"],
   wg |-> tunnel, weather |-> weather]
Init ==
  \/ Boot(House(Slots, "unknown", NoTunnel, FALSE), {"drops"})
  \/ Boot(House(Slots, "portal", NoTunnel, FALSE), {"faults", "profiles"})
  \/ Boot(House({First}, "open", NoTunnel, FALSE), {"profiles"})
  \/ \E events \in {{"drops", "faults"}, {"drops", "tunnel"}} :
       Boot(House({First}, "open", Tunnel, FALSE), events)
  \/ Boot(House({First}, "open", NoTunnel, TRUE), {"drops", "faults", "refresh"})

-----------------------------------------------------------------------------
(* The user.                                                                  *)

Edited(kind) == /\ Over /\ Spend(kind)
                /\ UNCHANGED <<radio, wifi, probe, login, wg, wx, screen, ghost>>

(* handleNetwork() of src/src/WebPortal.cpp.  A saved change of the       *)
(* active profile reboots; after a failed save it holds in memory only, and   *)
(* the link stays where it is.                                                *)
PortalConnects(slot) ==
  /\ Turn("portal") /\ settings.ssid[slot] # None /\ settings.active # slot
  /\ settings' = [settings EXCEPT !.active = slot] /\ Edited("profiles")
Remaining(slot) == {s \in Slots \ {slot} : settings.ssid[s] # None}
PortalDeletes(slot) ==
  /\ Turn("portal") /\ settings.ssid[slot] # None
  /\ \E next \in IF settings.active # slot THEN {settings.active}
                 ELSE IF Remaining(slot) = {} THEN {None} ELSE Remaining(slot) :
       settings' = [settings EXCEPT !.ssid[slot] = None, !.portal[slot] = "unknown", !.active = next]
  /\ Edited("profiles")
PortalRenames(slot, name) ==
  /\ Turn("portal") /\ settings.ssid[slot] # name
  /\ settings' = [settings EXCEPT !.ssid[slot] = name, !.portal[slot] = "unknown",
                                  !.active = IF @ = None THEN slot ELSE @]
  /\ Edited("profiles")

(* handleWireGuard(), and the switch of the Settings screen. *)
PortalTunnel(tunnel) ==
  /\ Turn("portal") /\ tunnel # settings.wg /\ tunnel.config # None
  /\ settings' = [settings EXCEPT !.wg = tunnel] /\ Edited("tunnel")
SwitchTunnel ==
  /\ Turn("nav") /\ settings.wg.config # None
  /\ settings' = [settings EXCEPT !.wg.on = ~@] /\ Edited("tunnel")

(* The Networks screen: the choice holds whether or not it could be saved,    *)
(* and WifiService::restart() drops the link for the new profile.             *)
SwitchNetwork(slot) ==
  /\ Turn("nav") /\ Over /\ settings.ssid[slot] # None /\ settings.active # slot
  /\ Spend("profiles")
  /\ settings' = [settings EXCEPT !.active = slot]
  /\ \E refused \in BOOLEAN :
       StartAttempt([wifi EXCEPT !.inFlight = FALSE], settings.ssid[slot], refused)
  /\ UNCHANGED <<probe, login, wg, wx, screen>>

Pass == (Turn("portal") \/ Turn("nav")) /\ Over
        /\ UNCHANGED <<settings, radio, services, screen, spent, ghost>>

-----------------------------------------------------------------------------

Loop == \/ WifiTick \/ ConsumeVerdict \/ ProbeTick \/ WgTick
        \/ FinishedCheck \/ FinishedClear \/ FinishedToast \/ ConsumePrompt
        \/ ConsumeForecast \/ PaintForecast \/ Pass
User == \/ \E slot \in Slots : \/ PortalConnects(slot) \/ PortalDeletes(slot) \/ SwitchNetwork(slot)
                               \/ \E name \in Names : PortalRenames(slot, name)
        \/ \E tunnel \in WgSettings : PortalTunnel(tunnel)
        \/ SwitchTunnel \/ ConfirmLogin \/ DismissLogin \/ RequestRefresh
Deadlines == WifiDeadline \/ WgRetryDue \/ WgPatienceOver
Tasks == ProbeRun \/ LoginRun \/ WgRun \/ WxRun
World == RadioJoins \/ RadioRefused \/ RadioDrops \/ PeerAnswers \/ PeerLost \/ WxDue

Next == Loop \/ User \/ Deadlines \/ Tasks \/ World

(* The loop and the tasks keep running and deadlines pass; an access point    *)
(* that is tried again and again is reached in the end.                       *)
Fairness == /\ WF_vars(Loop) /\ WF_vars(ProbeRun) /\ WF_vars(LoginRun) /\ WF_vars(WgRun)
            /\ WF_vars(WifiDeadline) /\ WF_vars(WgRetryDue) /\ WF_vars(WgPatienceOver)
            /\ SF_vars(RadioJoins)
Spec == Init /\ [][Next]_vars /\ Fairness

-----------------------------------------------------------------------------

(* A link session is probed at most once, whatever its profile goes through   *)
(* meanwhile ("never hammered", CaptiveProbeService.cpp:93).                   *)
OneProbePerSession == ghost.probes <= 1

(* The login prompt comes up at most once in a link session, "Later" or not.  *)
PromptOncePerSession == ghost.prompts <= 1

(* Once a login attempt is over and reported, the verdict shown is that of    *)
(* the last attempt, although an attempt may start while the one before still *)
(* waits to be reported and the flags between the threads have no lock.       *)
ReportedVerdictIsLast ==
  login.task = "none" /\ ~login.edge /\ at \notin {"clear", "toast"} => screen.verdict = ghost.login

(* What the user reads of the tunnel after each pass agrees with the service: *)
(* handshaking or up exactly while it has a tunnel.                           *)
WgStatusTrue == at = "portal" => (wg.started <=> wg.status \in {"handshaking", "up"})

(* A refresh asked for is kept until a request goes out after it: the task    *)
(* clears the flag before it fetches, not after.                              *)
RefreshKept == ghost.asked => wx.refresh

(* A published forecast is on the screen or about to be: the edge outlives    *)
(* the passes that happen around it.                                          *)
ForecastShown == screen.forecast # wx.data => wx.update \/ screen.stale

(* The link comes back after any loss, refusal and switch, unless there is no *)
(* profile left to connect to.                                                *)
LinkReturns == <>[](Linked \/ wifi.link = "disabled")

(* A session the probe sees begin over a profile of unknown state is probed,  *)
(* also when the probe of the session before is still running.                *)
FreshSessionProbed ==
  (at = "verdict" /\ Linked /\ ~probe.linkWasUp /\ ActiveName # None /\ ActivePortal = "unknown")
  ~> (ghost.probes > 0 \/ ~Linked \/ ActiveName = None \/ ActivePortal # "unknown")

(* An attempt to log in ends in a report, also with a portal that redirects   *)
(* without end.                                                               *)
LoginReported == (login.task \notin {"none", "end"}) ~> at = "toast"

(* A tunnel that is wanted is tried again and again: no failure, cancelled    *)
(* attempt or missing task leaves the service resting.                        *)
WantedTunnelTried == []<>(\/ ~Desired \/ wg.started \/ WgRunning
                          \/ settings.wg.config \in BadConfigs)
=============================================================================
