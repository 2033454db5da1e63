----------------------------- MODULE NetTypes -------------------------------
(* What the network services of Freedea share: the settings they read, the    *)
(* radio below them and the main loop that ticks them one after the other     *)
(* (loop() in src/src/main.cpp).  Each service is a module of its own.        *)
EXTENDS Naturals, Sequences

CONSTANTS None,
          Slots,      \* places of the network list
          Names,      \* SSIDs
          WgConfigs,  \* complete tunnel configurations
          BadConfigs, \* those of them whose tunnel address does not parse
          MaxDrops,   \* bound: links lost and joins refused
          MaxEdits,   \* bound: changes by the user
          MaxFaults   \* bound: failed requests, tasks and calls

VARIABLES at,        \* the service whose turn it is in loop()
          settings,  \* settingsStore.settings(), as far as the services read it
          radio,     \* the station below WiFi.begin() and WiFi.status()
          wifi, probe, login, wg, wx,   \* members of the five services
          screen,    \* what the services put before the user
          spent,     \* events counted against the bounds
          ghost      \* history: what the properties compare with

vars == <<at, settings, radio, wifi, probe, login, wg, wx, screen, spent, ghost>>
services == <<wifi, probe, login, wg, wx>>

NetAssumption == /\ None \notin Slots \cup Names \cup WgConfigs
                 /\ BadConfigs \subseteq WgConfigs /\ WgConfigs # BadConfigs
                 /\ Slots # {}
                 /\ \E name \in [Slots -> Names] : \A s, t \in Slots : name[s] = name[t] => s = t
                 /\ MaxDrops \in Nat /\ MaxEdits \in Nat /\ MaxFaults \in Nat
ASSUME NetAssumption

Portal == {"unknown", "open", "portal"}
(* loop(): the services in their order, with a turn of its own for each read  *)
(* of what a task may change meanwhile.  They meet only in the settings and   *)
(* the link, so one household (Init of Network) looks at one of them over the *)
(* link: the forecast, the tunnel, or the login pages of its networks.        *)
Turns ==
  IF settings.weather THEN <<"wifi", "forecast", "paint", "nav">>
  ELSE IF settings.wg.config # None
  THEN <<"wifi", "wgDone", "wgLink", "wgConfig", "wgWatch", "wgSpawn", "portal", "nav">>
  ELSE <<"wifi", "verdict", "probe", "finished", "clear", "toast", "prompt", "portal", "nav">>
NextTurn(t) == LET i == CHOOSE j \in DOMAIN Turns : Turns[j] = t
               IN Turns[(i % Len(Turns)) + 1]

Turn(t) == at = t
Over == at' = NextTurn(at)

(* What the environment may still do, by kind of event. *)
Kinds == {"drops", "faults", "profiles", "tunnel", "refresh"}
Bound(kind) == IF kind = "drops" THEN MaxDrops ELSE IF kind = "faults" THEN MaxFaults ELSE MaxEdits
Spend(kind) == /\ spent[kind] < Bound(kind)
               /\ spent' = [spent EXCEPT ![kind] = @ + 1]

Linked == wifi.link = "connected"

(* activeNetwork(): the profile the index names, unless its place is empty. *)
ActiveName == IF settings.active = None THEN None ELSE settings.ssid[settings.active]
ActivePortal == IF ActiveName = None THEN "unknown" ELSE settings.portal[settings.active]
=============================================================================
