--------------------------- MODULE NetworkProofs ----------------------------
(* The invariants of the network services, proved for every set of networks,  *)
(* tunnel configurations and bounds.                                          *)
EXTENDS Network, TLAPS

-----------------------------------------------------------------------------
(* Whose turn it is in loop(). *)

(* A household with the forecast.                                             *)
LEMMA WeatherTurns ==
  ASSUME settings.weather
  PROVE  /\ NextTurn("wifi") = "forecast" /\ NextTurn("forecast") = "paint"
         /\ NextTurn("paint") = "nav" /\ NextTurn("nav") = "wifi"
<1>1. Turns = <<"wifi", "forecast", "paint", "nav">>
  BY DEF Turns
<1>2. \A i, j \in 1..4 : Turns[i] = Turns[j] => i = j
  BY <1>1
<1>3. ASSUME NEW i \in 1..4 PROVE NextTurn(Turns[i]) = Turns[(i % 4) + 1]
  <2>1. DOMAIN Turns = 1..4 /\ Len(Turns) = 4
    BY <1>1
  <2>2. (CHOOSE j \in DOMAIN Turns : Turns[j] = Turns[i]) = i
    BY <1>2, <2>1
  <2> QED BY <2>1, <2>2 DEF NextTurn
<1> QED BY <1>1, <1>3

(* A household with a tunnel.                                                 *)
LEMMA TunnelTurns ==
  ASSUME ~settings.weather, settings.wg.config # None
  PROVE  /\ NextTurn("wifi") = "wgDone" /\ NextTurn("wgDone") = "wgLink"
         /\ NextTurn("wgLink") = "wgConfig" /\ NextTurn("wgConfig") = "wgWatch"
         /\ NextTurn("wgWatch") = "wgSpawn" /\ NextTurn("wgSpawn") = "portal"
         /\ NextTurn("portal") = "nav" /\ NextTurn("nav") = "wifi"
<1>1. Turns = <<"wifi", "wgDone", "wgLink", "wgConfig", "wgWatch", "wgSpawn", "portal", "nav">>
  BY DEF Turns
<1>2. \A i, j \in 1..8 : Turns[i] = Turns[j] => i = j
  BY <1>1
<1>3. ASSUME NEW i \in 1..8 PROVE NextTurn(Turns[i]) = Turns[(i % 8) + 1]
  <2>1. DOMAIN Turns = 1..8 /\ Len(Turns) = 8
    BY <1>1
  <2>2. (CHOOSE j \in DOMAIN Turns : Turns[j] = Turns[i]) = i
    BY <1>2, <2>1
  <2> QED BY <2>1, <2>2 DEF NextTurn
<1> QED BY <1>1, <1>3

(* A household whose networks may have a login page.                          *)
LEMMA CaptiveTurns ==
  ASSUME ~settings.weather, settings.wg.config = None
  PROVE  /\ NextTurn("wifi") = "verdict" /\ NextTurn("verdict") = "probe"
         /\ NextTurn("probe") = "finished" /\ NextTurn("finished") = "clear"
         /\ NextTurn("clear") = "toast" /\ NextTurn("toast") = "prompt"
         /\ NextTurn("prompt") = "portal" /\ NextTurn("portal") = "nav"
         /\ NextTurn("nav") = "wifi"
<1>1. Turns = <<"wifi", "verdict", "probe", "finished", "clear", "toast", "prompt", "portal", "nav">>
  BY DEF Turns
<1>2. \A i, j \in 1..9 : Turns[i] = Turns[j] => i = j
  BY <1>1
<1>3. ASSUME NEW i \in 1..9 PROVE NextTurn(Turns[i]) = Turns[(i % 9) + 1]
  <2>1. DOMAIN Turns = 1..9 /\ Len(Turns) = 9
    BY <1>1
  <2>2. (CHOOSE j \in DOMAIN Turns : Turns[j] = Turns[i]) = i
    BY <1>2, <2>1
  <2> QED BY <2>1, <2>2 DEF NextTurn
<1> QED BY <1>1, <1>3

TurnSet == IF settings.weather THEN {"wifi", "forecast", "paint", "nav"}
           ELSE IF settings.wg.config # None
           THEN {"wifi", "wgDone", "wgLink", "wgConfig", "wgWatch", "wgSpawn", "portal", "nav"}
           ELSE {"wifi", "verdict", "probe", "finished", "clear", "toast", "prompt", "portal", "nav"}

-----------------------------------------------------------------------------
(* Types.  TypeOK names the members of screen one by one; that it has no      *)
(* others is needed to follow an assignment to one of them.                   *)

TurnType == at \in TurnSet
SettingsType == settings \in [active : Slots \cup {None}, ssid : [Slots -> Names \cup {None}],
                              portal : [Slots -> Portal], wg : WgSettings, weather : BOOLEAN]
RadioType == radio \in [net : Names \cup {None}, status : {"idle", "joining", "connected", "failed"}]
ScreenType == screen \in [prompt : BOOLEAN, verdict : BOOLEAN \cup {None},
                          forecast : Forecasts \cup {None}, stale : BOOLEAN]
AttemptType ==
  login \in [linkWasUp : BOOLEAN, prompted : BOOLEAN, edge : BOOLEAN, joined : BOOLEAN,
             task : {"none", "fetch", "submit", "reprobe", "finish", "edge", "end"},
             hops : 0..MaxRedirects, result : BOOLEAN]
FetchType ==
  wx \in [task : {"sleep", "clear", "get"}, refresh : BOOLEAN, due : BOOLEAN,
          data : Forecasts \cup {None}, update : BOOLEAN, error : BOOLEAN]
SpentType == spent \in [Kinds -> Nat] /\ \A kind \in Kinds : spent[kind] <= Bound(kind)
GhostType == ghost \in [probes : Nat, prompts : Nat, login : BOOLEAN \cup {None}, asked : BOOLEAN]

TypeInv == /\ TurnType /\ SettingsType /\ RadioType /\ WifiType /\ ProbeType /\ AttemptType
           /\ WgType /\ FetchType /\ ScreenType /\ SpentType /\ GhostType

-----------------------------------------------------------------------------
(* What the properties rest on. *)

(* A probed session was seen by tick() and is marked as tried for as long as  *)
(* the link stays up.                                                         *)
ProbeInv == /\ ghost.probes <= 1
            /\ ghost.probes = 1 /\ Linked => probe.linkWasUp /\ probe.tried
PromptInv == /\ ghost.prompts <= 1
             /\ ghost.prompts = 1 /\ Linked => login.linkWasUp /\ login.prompted

(* Between finish() and the toast the verdict is on its way: joined holds it, *)
(* the edge or the turn of the loop still has to bring it to the screen.      *)
VerdictInv ==
  /\ at = "clear" => login.edge
  /\ login.task = "edge" => login.joined = login.result
  /\ login.task # "edge" => IF login.edge \/ at = "toast" THEN login.joined = ghost.login
                            ELSE screen.verdict = ghost.login

(* A tunnel is neither being brought up nor waiting to be reported while      *)
(* there is one, and the status says which it is.                             *)
TunnelInv == /\ wg.started <=> wg.status \in {"handshaking", "up"}
             /\ wg.task # "none" \/ wg.done => ~wg.started

NetInv == ProbeInv /\ PromptInv /\ VerdictInv /\ TunnelInv /\ RefreshKept /\ ForecastShown

-----------------------------------------------------------------------------

(* The turn goes on within the household, and to known places from some.      *)
LEMMA Turning ==
  ASSUME TurnType, Over
  PROVE  /\ at' \in TurnSet
         /\ at' = "clear" => at = "finished"
         /\ at' = "toast" <=> at = "clear"
         /\ at = "portal" => at' = "nav"
         /\ at = "nav" => at' = "wifi"
<1>1. CASE settings.weather
  BY <1>1, WeatherTurns DEF TurnType, TurnSet, Over
<1>2. CASE ~settings.weather /\ settings.wg.config # None
  BY <1>2, TunnelTurns DEF TurnType, TurnSet, Over
<1>3. CASE ~settings.weather /\ settings.wg.config = None
  BY <1>3, CaptiveTurns DEF TurnType, TurnSet, Over
<1> QED BY <1>1, <1>2, <1>3

(* The turns of a household are those its sequence lists. *)
LEMMA TurnsListed == TurnType => \E i \in DOMAIN Turns : at = Turns[i]
<1>1. ASSUME settings.weather, at \in TurnSet PROVE \E i \in 1..4 : at = Turns[i] /\ i \in DOMAIN Turns
  BY <1>1 DEF TurnSet, Turns
<1>2. ASSUME ~settings.weather, settings.wg.config # None, at \in TurnSet
      PROVE  \E i \in 1..8 : at = Turns[i] /\ i \in DOMAIN Turns
  BY <1>2 DEF TurnSet, Turns
<1>3. ASSUME ~settings.weather, settings.wg.config = None, at \in TurnSet
      PROVE  \E i \in 1..9 : at = Turns[i] /\ i \in DOMAIN Turns
  BY <1>3 DEF TurnSet, Turns
<1> QED BY <1>1, <1>2, <1>3 DEF TurnType

(* A turn that is over leaves the settings alone, or changes them where every *)
(* household goes on in the same way.                                         *)
LEMMA TurnStep ==
  ASSUME TurnType, Over, settings' = settings \/ (at \in {"portal", "nav"} /\ settings'.weather = settings.weather),
         at = "portal" => ~settings'.weather
  PROVE  TurnType'
<1>1. CASE settings' = settings
  BY <1>1, Turning DEF TurnType, TurnSet
<1>2. CASE at = "portal"
  BY <1>2, Turning DEF TurnType, TurnSet
<1>3. CASE at = "nav"
  BY <1>3, Turning DEF TurnType, TurnSet
<1> QED BY <1>1, <1>2, <1>3

(* An event is counted within its bound. *)
LEMMA Spending ==
  ASSUME SpentType, NEW kind \in Kinds, Spend(kind)
  PROVE  SpentType'
<1>1. spent[kind] \in Nat /\ MaxDrops \in Nat /\ MaxEdits \in Nat /\ MaxFaults \in Nat
  BY NetAssumption DEF SpentType, NetAssumption
<1>2. Bound(kind) \in Nat /\ spent[kind] + 1 <= Bound(kind)
  BY <1>1 DEF Spend, Bound
<1>3. spent' \in [Kinds -> Nat]
  BY <1>1 DEF SpentType, Spend
<1>4. ASSUME NEW k \in Kinds PROVE spent'[k] <= Bound(k)
  BY <1>1, <1>2 DEF SpentType, Spend
<1> QED BY <1>3, <1>4 DEF SpentType, Bound

(* What the services read of the settings. *)
LEMMA ActiveTyped ==
  ASSUME SettingsType
  PROVE  ActiveName \in Names \cup {None} /\ ActivePortal \in Portal
BY DEF SettingsType, ActiveName, ActivePortal, Portal

(* Setting the link, with what a new session resets. *)
LEMMA SetLinkTyped ==
  ASSUME GhostType, NEW w \in [link : Links, inFlight : BOOLEAN, waiting : BOOLEAN],
         NEW next \in Links, SetLink(w, next)
  PROVE  WifiType' /\ GhostType'
BY DEF GhostType, WifiType, SetLink

(* An attempt to connect, whatever WiFi.begin() answers. *)
LEMMA AttemptTyped ==
  ASSUME GhostType, RadioType, NEW w \in [link : Links, inFlight : BOOLEAN, waiting : BOOLEAN],
         NEW name \in Names \cup {None}, NEW refused \in BOOLEAN, StartAttempt(w, name, refused)
  PROVE  WifiType' /\ GhostType' /\ RadioType'
<1> DEFINE Rec == [link : Links, inFlight : BOOLEAN, waiting : BOOLEAN]
<1>1. CASE name = None
  <2>1. SetLink(w, "disabled") /\ radio' = radio
    BY <1>1 DEF StartAttempt
  <2> QED BY <2>1, SetLinkTyped DEF RadioType, Links
<1>2. CASE name # None /\ ~refused
  <2>1. [w EXCEPT !.inFlight = TRUE] \in Rec /\ "connecting" \in Links
    BY DEF Links
  <2>2. SetLink([w EXCEPT !.inFlight = TRUE], "connecting") /\ radio' = [net |-> name, status |-> "joining"]
    BY <1>2 DEF StartAttempt
  <2> QED BY <2>1, <2>2, SetLinkTyped DEF RadioType
<1>3. CASE name # None /\ refused
  <2>1. Retrying(w) \in Rec /\ "disconnected" \in Links
    BY DEF Retrying, Links
  <2>2. SetLink(Retrying(w), "disconnected") /\ radio' = [net |-> None, status |-> "failed"]
    BY <1>3 DEF StartAttempt
  <2> QED BY <2>1, <2>2, SetLinkTyped DEF RadioType
<1> QED BY <1>1, <1>2, <1>3

(* WifiService. *)
LEMMA WifiTyped ==
  ASSUME TypeInv, WifiTick \/ WifiDeadline
  PROVE  TypeInv'
<1>0. /\ TurnType /\ SettingsType /\ RadioType /\ WifiType /\ GhostType /\ SpentType
      /\ Retrying(wifi) \in [link : Links, inFlight : BOOLEAN, waiting : BOOLEAN]
      /\ "disconnected" \in Links /\ "connected" \in Links
  BY DEF TypeInv, WifiType, Links, Retrying
<1>1. CASE WifiDeadline
  <2>1. WifiType' /\ UNCHANGED <<at, settings, radio, probe, login, wg, wx, screen, spent, ghost>>
    BY <1>0, <1>1 DEF WifiDeadline, WifiType
  <2> QED BY <2>1 DEF TypeInv, TurnType, TurnSet, SettingsType, RadioType, ProbeType, AttemptType, WgType,
          FetchType, ScreenType, SpentType, GhostType, Bound
<1>2. CASE WifiTick
  <2>1. UNCHANGED <<settings, probe, login, wg, wx, screen>> /\ Over
    BY <1>2 DEF WifiTick, WifiDisabled, WifiUp, WifiTrying, WifiTimesOut, WifiAttemptFails, WifiLost,
          WifiBacksOff, WifiRetries
  <2>2. at = "wifi"
    BY <1>2 DEF WifiTick, WifiDisabled, WifiUp, WifiTrying, WifiTimesOut, WifiAttemptFails, WifiLost,
          WifiBacksOff, WifiRetries, Turn
  <2>3. TurnType'
    BY <1>0, <2>1, <2>2, TurnStep
  <2>4. WifiType' /\ GhostType' /\ RadioType' /\ SpentType'
    <3>1. CASE UNCHANGED <<wifi, radio, spent, ghost>>
      BY <1>0, <3>1 DEF RadioType, WifiType, GhostType, SpentType, Bound
    <3>2. CASE WifiUp
      <4>1. [wifi EXCEPT !.inFlight = FALSE] \in [link : Links, inFlight : BOOLEAN, waiting : BOOLEAN]
        BY <1>0 DEF WifiType
      <4>2. UNCHANGED <<wifi, ghost>> \/ SetLink([wifi EXCEPT !.inFlight = FALSE], "connected")
        BY <3>2 DEF WifiUp
      <4>3. WifiType' /\ GhostType'
        BY <1>0, <4>1, <4>2, SetLinkTyped DEF WifiType, GhostType
      <4> QED BY <1>0, <3>2, <4>3 DEF WifiUp, RadioType, SpentType, Bound
    <3>3. CASE WifiTimesOut \/ WifiAttemptFails \/ WifiLost
      <4>1. SetLink(Retrying(wifi), "disconnected") /\ spent' = spent
            /\ (radio' = radio \/ radio' = [net |-> None, status |-> "idle"])
        BY <3>3 DEF WifiTimesOut, WifiAttemptFails, WifiLost
      <4> QED BY <1>0, <4>1, SetLinkTyped DEF RadioType, SpentType, Bound
    <3>4. CASE WifiRetries
      <4>1. PICK refused \in BOOLEAN : StartAttempt(wifi, ActiveName, refused) /\ (spent' = spent \/ Spend("drops"))
        BY <3>4 DEF WifiRetries
      <4>2. SpentType'
        BY <1>0, <4>1, Spending DEF Kinds, SpentType, Bound
      <4> QED BY <1>0, <4>1, <4>2, ActiveTyped, AttemptTyped DEF WifiType
    <3> QED BY <1>2, <3>1, <3>2, <3>3, <3>4 DEF WifiTick, WifiDisabled, WifiTrying, WifiBacksOff
  <2> QED BY <2>1, <2>3, <2>4 DEF TypeInv, SettingsType, ProbeType, AttemptType, WgType, FetchType, ScreenType
<1> QED BY <1>1, <1>2

(* The radio. *)
LEMMA RadioTyped ==
  ASSUME TypeInv, RadioJoins \/ RadioRefused \/ RadioDrops
  PROVE  TypeInv'
<1>1. RadioType /\ SpentType /\ UNCHANGED <<at, settings, services, screen, ghost>>
  BY DEF TypeInv, RadioJoins, RadioRefused, RadioDrops, RadioStep
<1>2. radio' = [net |-> radio.net, status |-> radio'.status]
      /\ radio'.status \in {"joining", "connected", "failed"}
      /\ (spent' = spent \/ Spend("drops"))
  BY DEF RadioJoins, RadioRefused, RadioDrops, RadioStep
<1>3. RadioType' /\ SpentType'
  BY <1>1, <1>2, Spending DEF RadioType, SpentType, Bound, Kinds
<1> QED BY <1>1, <1>3 DEF TypeInv, services, TurnType, TurnSet, SettingsType, WifiType, ProbeType, AttemptType,
            WgType, FetchType, ScreenType, GhostType

(* CaptiveProbe. *)
LEMMA ProbeTyped ==
  ASSUME TypeInv, ConsumeVerdict \/ ProbeTick \/ ProbeRun
  PROVE  TypeInv'
<1>0. TurnType /\ SettingsType /\ ProbeType /\ SpentType /\ GhostType
  BY DEF TypeInv
<1>1. CASE ConsumeVerdict
  <2>1. at = "verdict" /\ Over /\ UNCHANGED <<radio, wifi, login, wg, wx, screen, spent, ghost>>
    BY <1>1 DEF ConsumeVerdict, Turn
  <2>2. ProbeType'
    BY <1>0, <1>1 DEF ConsumeVerdict, ProbeType
  <2>3. SettingsType' /\ settings'.weather = settings.weather /\ settings'.wg = settings.wg
    BY <1>0, <1>1 DEF ConsumeVerdict, ProbeType, SettingsType
  <2>4. TurnType'
    BY <1>0, <2>1, <2>3, Turning DEF TurnType, TurnSet
  <2> QED BY <2>1, <2>2, <2>3, <2>4 DEF TypeInv, RadioType, WifiType, AttemptType, WgType, FetchType,
             ScreenType, SpentType, GhostType, Bound
<1>2. CASE ProbeTick
  <2>1. at = "probe" /\ Over /\ UNCHANGED <<settings, radio, wifi, login, wg, wx, screen>>
    BY <1>2 DEF ProbeTick, Turn
  <2>2. Session \in [linkWasUp : BOOLEAN, tried : BOOLEAN, ready : BOOLEAN,
             task : {"none", "get", "ending"}, slot : Slots \cup {None},
             ssid : Names \cup {None}, verdict : Portal]
    BY <1>0 DEF ProbeType, Session
  <2>3. ProbeType'
    <3>1. settings.active \in Slots \cup {None} /\ ActiveName \in Names \cup {None}
      BY <1>0, ActiveTyped DEF SettingsType
    <3> QED BY <1>2, <2>2, <3>1 DEF ProbeTick, ProbeType
  <2>4. GhostType' /\ (spent' = spent \/ Spend("faults"))
    BY <1>0, <1>2 DEF ProbeTick, GhostType
  <2>5. SpentType'
    BY <1>0, <2>4, Spending DEF SpentType, Bound, Kinds
  <2>6. TurnType'
    BY <1>0, <2>1, TurnStep
  <2> QED BY <2>1, <2>3, <2>4, <2>5, <2>6 DEF TypeInv, SettingsType, RadioType, WifiType, AttemptType, WgType,
             FetchType, ScreenType
<1>3. CASE ProbeRun
  <2>1. /\ UNCHANGED <<at, settings, radio, wifi, login, wg, wx, screen, ghost>>
        /\ spent' = spent \/ Spend("faults")
    BY <1>3 DEF ProbeRun, ProbeAnswered, ProbeFails, ProbeEnds, ProbeStep
  <2>2. ProbeType'
    BY <1>0, <1>3 DEF ProbeRun, ProbeAnswered, ProbeFails, ProbeEnds, ProbeStep, ProbeType, Portal
  <2>3. SpentType'
    BY <1>0, <2>1, Spending DEF SpentType, Bound, Kinds
  <2> QED BY <2>1, <2>2, <2>3 DEF TypeInv, TurnType, TurnSet, SettingsType, RadioType, WifiType, AttemptType,
             WgType, FetchType, ScreenType, GhostType
<1> QED BY <1>1, <1>2, <1>3

(* PortalLogin. *)
LEMMA LoginTyped ==
  ASSUME TypeInv, \/ FinishedCheck \/ FinishedClear \/ FinishedToast \/ ConsumePrompt
                  \/ ConfirmLogin \/ DismissLogin \/ LoginRun
  PROVE  TypeInv'
<1>0. TurnType /\ SettingsType /\ AttemptType /\ ScreenType /\ SpentType /\ GhostType
  BY DEF TypeInv
<1>1. CASE FinishedCheck
  <2>1. at = "finished" /\ at' \in {"clear", "prompt"}
        /\ UNCHANGED <<settings, radio, services, screen, spent, ghost>>
    BY <1>1 DEF FinishedCheck, Turn
  <2>2. TurnType'
    BY <1>0, <2>1 DEF TurnType, TurnSet
  <2> QED BY <2>1, <2>2 DEF TypeInv, services, SettingsType, RadioType, WifiType, ProbeType, AttemptType, WgType,
             FetchType, ScreenType, SpentType, GhostType, Bound
<1>2. CASE FinishedClear \/ FinishedToast
  <2>1. at \in {"clear", "toast"} /\ Over /\ UNCHANGED <<settings, radio, wifi, probe, wg, wx, spent, ghost>>
    BY <1>2 DEF FinishedClear, FinishedToast, Turn, services
  <2>2. AttemptType' /\ ScreenType'
    BY <1>0, <1>2 DEF FinishedClear, FinishedToast, AttemptType, ScreenType, services
  <2>3. TurnType'
    BY <1>0, <2>1, TurnStep
  <2> QED BY <2>1, <2>2, <2>3 DEF TypeInv, SettingsType, RadioType, WifiType, ProbeType, WgType,
             FetchType, SpentType, GhostType, Bound
<1>3. CASE ConsumePrompt
  <2>1. at = "prompt" /\ Over /\ UNCHANGED <<settings, radio, wifi, probe, wg, wx, spent>>
    BY <1>3 DEF ConsumePrompt, Turn
  <2>2. Prompts \in BOOLEAN /\ Linked \in BOOLEAN
    BY DEF Prompts, Linked
  <2>3. AttemptType'
    BY <1>0, <1>3, <2>2 DEF ConsumePrompt, AttemptType, Prompted
  <2>4. ScreenType' /\ GhostType'
    BY <1>0, <1>3, <2>2 DEF ConsumePrompt, ScreenType, GhostType
  <2>5. TurnType'
    BY <1>0, <2>1, TurnStep
  <2> QED BY <2>1, <2>3, <2>4, <2>5 DEF TypeInv, SettingsType, RadioType, WifiType, ProbeType, WgType,
             FetchType, SpentType, Bound
<1>4. CASE ConfirmLogin \/ DismissLogin
  <2>1. /\ at = "nav" /\ Over /\ UNCHANGED <<settings, radio, wifi, probe, wg, wx, ghost>>
        /\ spent' = spent \/ Spend("faults")
    BY <1>4 DEF ConfirmLogin, DismissLogin, PromptButton, Turn
  <2>2. AttemptType' /\ ScreenType'
    <3>1. 0 \in 0..MaxRedirects
      BY RedirectsAssumption
    <3>2. /\ login' = login \/ login' = [login EXCEPT !.task = "fetch", !.hops = 0]
          /\ screen' = screen \/ screen' = [screen EXCEPT !.prompt = FALSE]
      BY <1>4 DEF ConfirmLogin, DismissLogin
    <3>3. AttemptType'
      BY <1>0, <3>1, <3>2 DEF AttemptType
    <3> QED BY <1>0, <3>2, <3>3 DEF ScreenType
  <2>3. SpentType'
    BY <1>0, <2>1, Spending DEF SpentType, Bound, Kinds
  <2>4. TurnType'
    BY <1>0, <2>1, TurnStep
  <2> QED BY <2>1, <2>2, <2>3, <2>4 DEF TypeInv, SettingsType, RadioType, WifiType, ProbeType, WgType,
             FetchType, GhostType
<1>5. CASE LoginRun
  <2>1. UNCHANGED <<at, settings, radio, wifi, probe, wg, wx, screen, spent>>
    BY <1>5 DEF LoginRun, FetchRedirected, FetchOpen, FetchPage, Submitted, ReprobeOpen, LoginFails,
          Finish, FinishEnd, LoginStep
  <2>2. AttemptType'
    <3>1. Redirected \in [linkWasUp : BOOLEAN, prompted : BOOLEAN, edge : BOOLEAN, joined : BOOLEAN,
             task : {"none", "fetch", "submit", "reprobe", "finish", "edge", "end"},
             hops : 0..MaxRedirects, result : BOOLEAN]
      <4>1. login.hops < MaxRedirects => login.hops + 1 \in 0..MaxRedirects
        BY <1>0, RedirectsAssumption DEF AttemptType
      <4> QED BY <1>0, <4>1 DEF Redirected, Finishing, AttemptType
    <3>2. CASE FetchRedirected
      BY <3>1, <3>2 DEF FetchRedirected, LoginStep, AttemptType
    <3>3. CASE FetchOpen \/ FetchPage \/ Submitted \/ ReprobeOpen \/ LoginFails
      BY <1>0, <3>3 DEF FetchOpen, FetchPage, Submitted, ReprobeOpen, LoginFails, LoginStep, Finishing, AttemptType
    <3>4. CASE Finish \/ FinishEnd
      BY <1>0, <3>4 DEF Finish, Finished, FinishEnd, LoginStep, AttemptType
    <3> QED BY <1>5, <3>2, <3>3, <3>4 DEF LoginRun
  <2>3. GhostType'
    BY <1>0, <1>5 DEF LoginRun, FetchRedirected, FetchOpen, FetchPage, Submitted, ReprobeOpen, LoginFails,
          Finish, FinishEnd, AttemptType, GhostType
  <2> QED BY <2>1, <2>2, <2>3 DEF TypeInv, TurnType, TurnSet, SettingsType, RadioType, WifiType, ProbeType,
             WgType, FetchType, ScreenType, SpentType, Bound
<1> QED BY <1>1, <1>2, <1>3, <1>4, <1>5

(* WeatherService. *)
LEMMA WeatherTyped ==
  ASSUME TypeInv, ConsumeForecast \/ PaintForecast \/ RequestRefresh \/ WxRun \/ WxDue
  PROVE  TypeInv'
<1>0. TurnType /\ FetchType /\ ScreenType /\ SpentType /\ GhostType
  BY DEF TypeInv
<1>1. UNCHANGED <<settings, radio, wifi, probe, login, wg>>
  BY DEF ConsumeForecast, PaintForecast, RequestRefresh, WxRun, WxDue, WxWakes, WxClears, WxForecast, WxFails,
     WxStep, services
<1>2. at' = at \/ (Over /\ at # "portal")
  BY DEF ConsumeForecast, PaintForecast, RequestRefresh, WxRun, WxDue, WxWakes, WxClears, WxForecast, WxFails,
     WxStep, services, Turn
<1>3. TurnType'
  BY <1>0, <1>1, <1>2, TurnStep DEF TurnType, TurnSet
<1>4. spent' = spent \/ Spend("faults") \/ Spend("refresh")
  BY DEF ConsumeForecast, PaintForecast, RequestRefresh, WxRun, WxDue, WxWakes, WxClears, WxForecast, WxFails
<1>5. SpentType'
  BY <1>0, <1>4, Spending DEF SpentType, Bound, Kinds
<1>6. FetchType' /\ ScreenType' /\ GhostType'
  <2>1. CASE ConsumeForecast
    BY <1>0, <2>1 DEF ConsumeForecast, Stale, FetchType, ScreenType, GhostType
  <2>2. CASE PaintForecast
    BY <1>0, <2>2 DEF PaintForecast, FetchType, ScreenType, GhostType, services
  <2>3. CASE RequestRefresh
    BY <1>0, <2>3 DEF RequestRefresh, FetchType, ScreenType, GhostType
  <2>4. CASE WxRun \/ WxDue
    <3>1. UNCHANGED screen /\ GhostType'
      BY <1>0, <2>4 DEF WxRun, WxDue, WxWakes, WxClears, WxForecast, WxFails, WxStep, GhostType
    <3>2. CASE WxWakes \/ WxClears \/ WxFails \/ WxDue
      BY <1>0, <3>1, <3>2 DEF WxDue, WxWakes, WxClears, WxFails, WxStep, FetchType, ScreenType
    <3>3. CASE \E f \in Forecasts : WxForecast(f)
      BY <1>0, <3>1, <3>3 DEF WxForecast, WxStep, FetchType, ScreenType
    <3> QED BY <2>4, <3>2, <3>3, <3>1 DEF WxRun
  <2> QED BY <2>1, <2>2, <2>3, <2>4
<1> QED BY <1>1, <1>3, <1>5, <1>6 DEF TypeInv, SettingsType, RadioType, WifiType, ProbeType, AttemptType, WgType

(* The members of the tunnel's service. *)
WgMembers ==
  [started : BOOLEAN, linkWasUp : BOOLEAN, cancel : BOOLEAN, done : BOOLEAN,
   cfg : WgConfigs \cup {None}, last : WgSettings,
   status : Statuses, waiting : BOOLEAN, patient : BOOLEAN,
   task : {"none", "begin", "check", "report", "end"},
   outcome : {"none", "ok", "failed", "cancelled"},
   open : BOOLEAN, peer : BOOLEAN]

(* A turn of the tunnel's service changes its members only. *)
LEMMA WgTurns ==
  ASSUME WgTick
  PROVE  /\ UNCHANGED <<settings, radio, wifi, probe, login, wx, screen, ghost>>
         /\ Over /\ at \in {"wgDone", "wgLink", "wgConfig", "wgWatch", "wgSpawn"}
<1>1. \E t \in {"wgDone", "wgLink", "wgConfig", "wgWatch", "wgSpawn"} : \E w : WgTurn(t, w)
  <2>1. CASE WgConsume
    BY <2>1 DEF WgConsume
  <2>2. CASE WgLinkLost \/ WgLinkKept
    BY <2>2 DEF WgLinkLost, WgLinkKept, Stops
  <2>3. CASE WgConfigChanged \/ WgConfigKept
    BY <2>3 DEF WgConfigChanged, WgConfigKept, Stops
  <2>4. CASE WgIdle \/ WgPeerUp \/ WgPeerAway
    BY <2>4 DEF WgIdle, WgPeerUp, WgPeerAway, Stops
  <2>5. CASE WgRests \/ WgBadIp \/ WgSpawns \/ WgNoTask
    BY <2>5 DEF WgRests, WgBadIp, WgSpawns, WgNoTask
  <2> QED BY <2>1, <2>2, <2>3, <2>4, <2>5 DEF WgTick
<1> QED BY <1>1 DEF WgTurn, Turn

(* It keeps the types of what it does not change.                             *)
LEMMA WgTurnTyped ==
  ASSUME TypeInv, WgTick
  PROVE  /\ TurnType' /\ UNCHANGED <<settings, radio, wifi, probe, login, wx, screen, ghost>>
         /\ spent' = spent \/ Spend("faults")
<1>1. spent' = spent \/ Spend("faults")
  BY DEF WgTick, WgConsume, WgLinkLost, WgLinkKept, WgConfigChanged, WgConfigKept, WgIdle, WgPeerUp, WgPeerAway,
     WgRests, WgBadIp, WgSpawns, WgNoTask, Stops
<1> QED BY <1>1, WgTurns, TurnStep DEF TypeInv

(* Stopping the tunnel, whether or not the call succeeds. *)
LEMMA StopsTyped ==
  ASSUME NEW t, NEW w \in WgMembers, Stops(t, w)
  PROVE  /\ wg' \in WgMembers
         /\ wg' = Stopped(w) \/ wg' = StopFails(w)
BY DEF Stops, Stopped, StopFails, WgTurn, WgMembers

(* WireGuardService. *)
LEMMA TunnelTyped ==
  ASSUME TypeInv, WgTick \/ WgRun \/ PeerAnswers \/ PeerLost \/ WgRetryDue \/ WgPatienceOver
  PROVE  TypeInv'
<1>0. wg \in WgMembers /\ SettingsType /\ SpentType
  BY DEF TypeInv, WgType, WgMembers
<1>1. ASSUME wg' \in WgMembers, TurnType',
             UNCHANGED <<settings, radio, wifi, probe, login, wx, screen, ghost>>,
             spent' = spent \/ Spend("faults") \/ Spend("drops")
      PROVE  TypeInv'
  <2>1. SpentType'
    BY <1>0, <1>1, Spending DEF SpentType, Bound, Kinds
  <2> QED BY <1>1, <2>1 DEF TypeInv, WgType, WgMembers, SettingsType, RadioType, WifiType, ProbeType, AttemptType,
             FetchType, ScreenType, GhostType
<1>2. CASE WgTick
  <2> SUFFICES wg' \in WgMembers
    BY <1>1, <1>2, WgTurnTyped
  <2>1. CASE WgConsume
    <3>1. Consumed \in WgMembers
      BY <1>0 DEF Consumed, WgMembers, Statuses
    <3> QED BY <1>0, <1>2, <2>1, <3>1, WgTurnTyped DEF WgConsume, WgTurn
  <2>2. CASE WgLinkLost
    <3>1. /\ [wg EXCEPT !.linkWasUp = FALSE, !.waiting = FALSE, !.cancel = TRUE] \in WgMembers
          /\ [wg EXCEPT !.linkWasUp = FALSE, !.waiting = FALSE, !.status = "disabled"] \in WgMembers
      BY <1>0 DEF WgMembers, Statuses
    <3>2. \/ wg' \in WgMembers
          \/ Stops("wgLink", [wg EXCEPT !.linkWasUp = FALSE, !.waiting = FALSE, !.status = "disabled"])
      BY <2>2, <3>1 DEF WgLinkLost, WgTurn
    <3> QED BY <1>2, <3>1, <3>2, StopsTyped, WgTurnTyped
  <2>3. CASE WgConfigChanged
    <3>1. settings.wg \in WgSettings
      BY <1>0 DEF SettingsType
    <3>2. /\ [wg EXCEPT !.last = settings.wg, !.waiting = FALSE] \in WgMembers
          /\ [wg EXCEPT !.last = settings.wg, !.waiting = FALSE, !.cancel = TRUE] \in WgMembers
          /\ [wg EXCEPT !.last = settings.wg, !.waiting = FALSE, !.status = "disabled"] \in WgMembers
      BY <1>0, <3>1 DEF WgMembers, Statuses
    <3>3. \/ wg' \in WgMembers
          \/ Stops("wgConfig", [wg EXCEPT !.last = settings.wg, !.waiting = FALSE, !.status = "disabled"])
      BY <2>3, <3>2 DEF WgConfigChanged, WgTurn
    <3> QED BY <1>2, <3>2, <3>3, StopsTyped, WgTurnTyped
  <2>4. CASE WgPeerAway
    <3>1. /\ [wg EXCEPT !.status = "handshaking", !.patient = TRUE] \in WgMembers
          /\ [wg EXCEPT !.waiting = TRUE, !.status = "failed"] \in WgMembers
      BY <1>0 DEF WgMembers, Statuses
    <3>2. wg' \in WgMembers \/ Stops("wgWatch", [wg EXCEPT !.waiting = TRUE, !.status = "failed"])
      BY <1>0, <2>4, <3>1 DEF WgPeerAway, WgTurn
    <3> QED BY <1>2, <3>1, <3>2, StopsTyped, WgTurnTyped
  <2>5. CASE WgLinkKept \/ WgConfigKept \/ WgIdle \/ WgPeerUp \/ WgRests
    <3>1. wg' \in WgMembers
      BY <1>0, <2>5 DEF WgLinkKept, WgConfigKept, WgIdle, WgPeerUp, WgRests, WgTurn, WgMembers, Linked, Statuses
    <3> QED BY <1>2, <3>1, WgTurnTyped
  <2>6. CASE WgBadIp \/ WgSpawns \/ WgNoTask
    <3>1. wg.last.config \in WgConfigs \cup {None}
      BY <1>0 DEF WgMembers, WgSettings
    <3>2. wg' \in WgMembers
      BY <1>0, <2>6, <3>1 DEF WgBadIp, WgSpawns, WgNoTask, WgTurn, WgMembers, Statuses
    <3> QED BY <1>2, <3>2, WgTurnTyped
  <2> QED BY <1>1, <1>2, <2>1, <2>2, <2>3, <2>4, <2>5, <2>6 DEF WgTick
<1>3. CASE WgRun \/ PeerAnswers \/ PeerLost \/ WgRetryDue \/ WgPatienceOver
  <2>1. /\ UNCHANGED <<at, settings, radio, wifi, probe, login, wx, screen, ghost>>
        /\ spent' = spent \/ Spend("faults") \/ Spend("drops")
    BY <1>3 DEF WgRun, WgBegins, WgBeginFails, WgKeeps, WgCloses, WgReports, WgEnds, PeerAnswers, PeerLost,
          WgRetryDue, WgPatienceOver, WgStep
  <2>2. wg' \in WgMembers
    <3>1. CASE WgBegins \/ WgBeginFails \/ WgKeeps
      BY <1>0, <3>1 DEF WgBegins, WgBeginFails, WgKeeps, WgStep, WgMembers
    <3>2. CASE WgCloses
      BY <1>0, <3>2 DEF WgCloses, Cancelled, WgStep, WgMembers
    <3>3. CASE WgReports \/ WgEnds
      BY <1>0, <3>3 DEF WgReports, WgEnds, WgStep, WgMembers
    <3>4. CASE PeerAnswers \/ PeerLost \/ WgRetryDue \/ WgPatienceOver
      BY <1>0, <3>4 DEF PeerAnswers, PeerLost, WgRetryDue, WgPatienceOver, WgStep, WgMembers
    <3> QED BY <1>3, <3>1, <3>2, <3>3, <3>4 DEF WgRun
  <2> QED BY <1>0, <1>1, <2>1, <2>2 DEF TypeInv, TurnType, TurnSet
<1> QED BY <1>2, <1>3

(* The user. *)
LEMMA UserTyped ==
  ASSUME TypeInv, NEW slot \in Slots, NEW name \in Names, NEW tunnel \in WgSettings,
         \/ PortalConnects(slot) \/ PortalDeletes(slot) \/ PortalRenames(slot, name)
         \/ PortalTunnel(tunnel) \/ SwitchTunnel \/ SwitchNetwork(slot) \/ Pass
  PROVE  TypeInv'
<1>0. TurnType /\ SettingsType /\ SpentType /\ RadioType /\ GhostType /\ WifiType
  BY DEF TypeInv
<1>1. SettingsType' /\ settings'.weather = settings.weather
  <2>1. CASE PortalConnects(slot) \/ SwitchNetwork(slot)
    BY <1>0, <2>1 DEF PortalConnects, SwitchNetwork, SettingsType
  <2>2. CASE PortalDeletes(slot)
    <3>1. PICK next : /\ next \in IF settings.active # slot THEN {settings.active}
                                  ELSE IF Remaining(slot) = {} THEN {None} ELSE Remaining(slot)
                      /\ settings' = [settings EXCEPT !.ssid[slot] = None, !.portal[slot] = "unknown",
                                                      !.active = next]
      BY <2>2 DEF PortalDeletes
    <3>2. next \in Slots \cup {None}
      BY <1>0, <3>1 DEF SettingsType, Remaining
    <3> QED BY <1>0, <3>1, <3>2 DEF SettingsType, Portal
  <2>3. CASE PortalRenames(slot, name)
    BY <1>0, <2>3 DEF PortalRenames, SettingsType, Portal
  <2>4. CASE PortalTunnel(tunnel) \/ SwitchTunnel
    <3>1. settings.wg \in WgSettings
      BY <1>0 DEF SettingsType
    <3>2. [settings.wg EXCEPT !.on = ~@] \in WgSettings
      BY <3>1 DEF WgSettings
    <3>3. \/ settings' = [settings EXCEPT !.wg = tunnel]
          \/ settings' = [settings EXCEPT !.wg = [settings.wg EXCEPT !.on = ~@]]
      BY <1>0, <2>4 DEF PortalTunnel, SwitchTunnel, SettingsType
    <3> QED BY <1>0, <3>2, <3>3 DEF SettingsType
  <2>5. CASE Pass
    BY <1>0, <2>5 DEF Pass, SettingsType
  <2> QED BY <2>1, <2>2, <2>3, <2>4, <2>5
<1>2. Over /\ at \in {"portal", "nav"}
  BY DEF PortalConnects, PortalDeletes, PortalRenames, PortalTunnel, SwitchTunnel, SwitchNetwork, Pass, Edited, Turn
<1>3. TurnType'
  <2>1. at = "portal" => ~settings.weather
    BY <1>0, <1>2 DEF TurnType, TurnSet
  <2> QED BY <1>0, <1>1, <1>2, <2>1, TurnStep
<1>4. UNCHANGED <<probe, login, wg, wx, screen>>
  BY DEF PortalConnects, PortalDeletes, PortalRenames, PortalTunnel, SwitchTunnel, SwitchNetwork, Pass, Edited, services
<1>5. SpentType'
  <2>1. spent' = spent \/ Spend("profiles") \/ Spend("tunnel")
    BY DEF PortalConnects, PortalDeletes, PortalRenames, PortalTunnel, SwitchTunnel, SwitchNetwork, Pass, Edited
  <2> QED BY <1>0, <2>1, Spending DEF SpentType, Bound, Kinds
<1>6. RadioType' /\ WifiType' /\ GhostType'
  <2>1. CASE SwitchNetwork(slot)
    <3>1. /\ [wifi EXCEPT !.inFlight = FALSE] \in [link : Links, inFlight : BOOLEAN, waiting : BOOLEAN]
          /\ settings.ssid[slot] \in Names \cup {None}
      BY <1>0 DEF WifiType, SettingsType
    <3>2. \E refused \in BOOLEAN : StartAttempt([wifi EXCEPT !.inFlight = FALSE], settings.ssid[slot], refused)
      BY <2>1 DEF SwitchNetwork
    <3> QED BY <1>0, <3>1, <3>2, AttemptTyped
  <2>2. CASE UNCHANGED <<radio, wifi, ghost>>
    BY <1>0, <2>2 DEF RadioType, WifiType, GhostType
  <2> QED BY <2>1, <2>2 DEF PortalConnects, PortalDeletes, PortalRenames, PortalTunnel, SwitchTunnel, Pass, Edited, services
<1> QED BY <1>1, <1>3, <1>4, <1>5, <1>6 DEF TypeInv, ProbeType, AttemptType, WgType, FetchType, ScreenType

(* Every step keeps the types. *)
LEMMA TypeStep ==
  ASSUME TypeInv, [Next]_vars
  PROVE  TypeInv'
<1>1. CASE UNCHANGED vars
  BY <1>1 DEF vars, TypeInv, TurnType, TurnSet, SettingsType, RadioType, WifiType, ProbeType, AttemptType, WgType,
        FetchType, ScreenType, SpentType, GhostType, Bound
<1>2. CASE Loop
  <2>1. Names # {}
    BY NetAssumption DEF NetAssumption
  <2>2. \E slot \in Slots, name \in Names, tunnel \in WgSettings : TRUE
    <3>1. [on |-> FALSE, config |-> None] \in WgSettings
      BY DEF WgSettings
    <3> QED BY <2>1, <3>1, NetAssumption DEF NetAssumption
  <2> QED BY <1>2, <2>2, WifiTyped, ProbeTyped, LoginTyped, WeatherTyped, TunnelTyped, UserTyped DEF Loop
<1>3. CASE User
  <2>1. \E name \in Names, tunnel \in WgSettings : TRUE
    <3>1. [on |-> FALSE, config |-> None] \in WgSettings
      BY DEF WgSettings
    <3> QED BY <3>1, NetAssumption DEF NetAssumption
  <2>2. \E slot \in Slots : TRUE
    BY NetAssumption DEF NetAssumption
  <2> QED BY <1>3, <2>1, <2>2, LoginTyped, WeatherTyped, UserTyped DEF User
<1>4. CASE Deadlines \/ Tasks \/ World
  BY <1>4, WifiTyped, ProbeTyped, LoginTyped, WeatherTyped, TunnelTyped, RadioTyped DEF Deadlines, Tasks, World
<1> QED BY <1>1, <1>2, <1>3, <1>4 DEF Next

(* The households have the types of the settings, and nothing runs at boot.   *)
LEMMA BootTyped ==
  ASSUME NEW s, NEW events, Boot(s, events),
         s \in [active : Slots \cup {None}, ssid : [Slots -> Names \cup {None}],
                portal : [Slots -> Portal], wg : WgSettings, weather : BOOLEAN]
  PROVE  TypeInv
<1>1. TurnType /\ SettingsType /\ RadioType
  BY DEF Boot, TurnType, TurnSet, SettingsType, RadioType
<1>2. WifiType /\ ProbeType /\ AttemptType
  BY RedirectsAssumption DEF Boot, WifiType, ProbeType, AttemptType, Links, Portal
<1>3. WgType /\ FetchType /\ ScreenType /\ GhostType
  BY DEF Boot, WgType, FetchType, ScreenType, GhostType, NoTunnel, WgSettings, Statuses
<1>4. SpentType
  <2>1. \A kind \in Kinds : Bound(kind) \in Nat
    BY NetAssumption DEF NetAssumption, Bound
  <2> QED BY <2>1 DEF Boot, SpentType
<1> QED BY <1>1, <1>2, <1>3, <1>4 DEF TypeInv

(* At boot everything has its type.                                           *)
LEMMA TypeInitially == ASSUME Init PROVE TypeInv
<1>1. First \in Slots
  BY NetAssumption DEF NetAssumption, First
<1>2. Name \in [Slots -> Names]
  BY NetAssumption DEF NetAssumption, Name
<1>3. NoTunnel \in WgSettings /\ Tunnel \in WgSettings
  <2>1. \E config \in WgConfigs \ BadConfigs : TRUE
    BY NetAssumption DEF NetAssumption
  <2> QED BY <2>1 DEF NoTunnel, Tunnel, WgSettings
<1>4. ASSUME NEW kept, NEW portal \in Portal, NEW tunnel \in WgSettings, NEW weather \in BOOLEAN
      PROVE  House(kept, portal, tunnel, weather) \in
               [active : Slots \cup {None}, ssid : [Slots -> Names \cup {None}],
                portal : [Slots -> Portal], wg : WgSettings, weather : BOOLEAN]
  BY <1>1, <1>2, <1>4 DEF House, Portal
<1>5. ASSUME NEW kept, NEW portal \in Portal, NEW tunnel \in WgSettings, NEW weather \in BOOLEAN, NEW events,
             Boot(House(kept, portal, tunnel, weather), events)
      PROVE  TypeInv
  BY <1>4, <1>5, BootTyped
<1>6. "unknown" \in Portal /\ "portal" \in Portal /\ "open" \in Portal
  BY DEF Portal
<1> QED BY <1>3, <1>5, <1>6 DEF Init

-----------------------------------------------------------------------------
(* Who changes what.  A step belongs to one service or to none of them, and   *)
(* these are the members it leaves alone.                                     *)

Stays(t) == at' = at \/ (Over /\ at \in t)

(* The link: a session begins only where there was none. *)
LinkStep == /\ UNCHANGED <<probe, login, wg, wx, screen>> /\ Stays({"wifi", "nav"})
            /\ \/ wifi'.link = wifi.link /\ ghost' = ghost
               \/ wifi'.link # "connected" /\ ghost' = ghost
               \/ ~Linked /\ ghost' = [ghost EXCEPT !.probes = 0, !.prompts = 0]
ProbeStepOnly == /\ ConsumeVerdict \/ ProbeTick \/ ProbeRun
                 /\ UNCHANGED <<wifi, login, wg, wx, screen>> /\ Stays({"verdict", "probe"})
                 /\ ghost' = [ghost EXCEPT !.probes = ghost'.probes]
LoginStepOnly == /\ \/ FinishedCheck \/ FinishedClear \/ FinishedToast \/ ConsumePrompt
                    \/ ConfirmLogin \/ DismissLogin \/ LoginRun
                 /\ UNCHANGED <<wifi, probe, wg, wx>>
                 /\ screen'.forecast = screen.forecast /\ screen'.stale = screen.stale
                 /\ ghost'.probes = ghost.probes /\ ghost'.asked = ghost.asked
TunnelStep == /\ WgTick \/ WgRun \/ PeerAnswers \/ PeerLost \/ WgRetryDue \/ WgPatienceOver
              /\ UNCHANGED <<wifi, probe, login, wx, screen, ghost>>
              /\ Stays({"wgDone", "wgLink", "wgConfig", "wgWatch", "wgSpawn"})
WeatherStep == /\ ConsumeForecast \/ PaintForecast \/ RequestRefresh \/ WxRun \/ WxDue
               /\ UNCHANGED <<wifi, probe, login, wg>> /\ Stays({"forecast", "paint", "nav"})
               /\ screen'.verdict = screen.verdict
               /\ ghost' = [ghost EXCEPT !.asked = ghost'.asked]
OtherStep == UNCHANGED <<wifi, probe, login, wg, wx, screen, ghost>> /\ Stays({"portal", "nav"})

(* An attempt to connect is no session yet. *)
LEMMA AttemptMoves ==
  ASSUME RadioType, NEW w \in [link : Links, inFlight : BOOLEAN, waiting : BOOLEAN],
         NEW name, NEW refused \in BOOLEAN, StartAttempt(w, name, refused)
  PROVE  wifi'.link # "connected" /\ ghost' = ghost
<1>1. CASE name = None
  BY <1>1 DEF StartAttempt, SetLink
<1>2. CASE name # None /\ ~refused
  BY <1>2 DEF StartAttempt, SetLink
<1>3. CASE name # None /\ refused
  BY <1>3 DEF StartAttempt, SetLink, Retrying
<1> QED BY <1>1, <1>2, <1>3

(* The steps of the link, and the switch of networks on the screen. *)
LEMMA LinkSteps ==
  ASSUME TypeInv, WifiTick \/ WifiDeadline \/ (\E slot \in Slots : SwitchNetwork(slot))
  PROVE  LinkStep
<1>0. RadioType /\ WifiType
  BY DEF TypeInv
<1>1. CASE WifiDeadline
  BY <1>0, <1>1 DEF WifiDeadline, WifiType, LinkStep, Stays
<1>2. CASE WifiTick
  <2>1. UNCHANGED <<probe, login, wg, wx, screen>> /\ Stays({"wifi", "nav"})
    BY <1>2 DEF WifiTick, WifiDisabled, WifiUp, WifiTrying, WifiTimesOut, WifiAttemptFails, WifiLost,
          WifiBacksOff, WifiRetries, Turn, Stays
  <2>2. CASE WifiUp
    BY <1>0, <2>1, <2>2 DEF WifiUp, SetLink, Linked, WifiType, LinkStep
  <2>3. CASE WifiTimesOut \/ WifiAttemptFails \/ WifiLost
    BY <1>0, <2>1, <2>3 DEF WifiTimesOut, WifiAttemptFails, WifiLost, SetLink, Retrying, WifiType, LinkStep
  <2>4. CASE WifiRetries
    <3>1. PICK refused \in BOOLEAN : StartAttempt(wifi, ActiveName, refused)
      BY <2>4 DEF WifiRetries
    <3> QED BY <1>0, <2>1, <3>1, AttemptMoves DEF WifiType, LinkStep
  <2>5. CASE UNCHANGED <<wifi, ghost>>
    BY <2>1, <2>5 DEF LinkStep
  <2> QED BY <1>2, <2>2, <2>3, <2>4, <2>5 DEF WifiTick, WifiDisabled, WifiTrying, WifiBacksOff
<1>3. CASE \E slot \in Slots : SwitchNetwork(slot)
  <2>1. PICK slot \in Slots : SwitchNetwork(slot)
    BY <1>3
  <2>2. PICK refused \in BOOLEAN :
          StartAttempt([wifi EXCEPT !.inFlight = FALSE], settings.ssid[slot], refused)
    BY <2>1 DEF SwitchNetwork
  <2>3. [wifi EXCEPT !.inFlight = FALSE] \in [link : Links, inFlight : BOOLEAN, waiting : BOOLEAN]
    BY <1>0 DEF WifiType
  <2>4. UNCHANGED <<probe, login, wg, wx, screen>> /\ Stays({"wifi", "nav"})
    BY <2>1 DEF SwitchNetwork, Stays, Turn
  <2> QED BY <1>0, <2>2, <2>3, <2>4, AttemptMoves DEF LinkStep
<1> QED BY <1>1, <1>2, <1>3

(* Every step is one of those. *)
LEMMA StepKinds ==
  ASSUME TypeInv, [Next]_vars
  PROVE  LinkStep \/ ProbeStepOnly \/ LoginStepOnly \/ TunnelStep \/ WeatherStep \/ OtherStep
<1>0. ghost \in [probes : Nat, prompts : Nat, login : BOOLEAN \cup {None}, asked : BOOLEAN] /\ ScreenType
  BY DEF TypeInv, GhostType
<1>1. CASE WifiTick \/ WifiDeadline \/ (\E slot \in Slots : SwitchNetwork(slot))
  BY <1>1, LinkSteps
<1>2. CASE ConsumeVerdict \/ ProbeTick \/ ProbeRun
  <2>1. UNCHANGED <<wifi, login, wg, wx, screen>> /\ Stays({"verdict", "probe"})
    BY <1>2 DEF ConsumeVerdict, ProbeTick, ProbeRun, ProbeAnswered, ProbeFails, ProbeEnds, ProbeStep, Stays, Turn
  <2>2. ghost' = [ghost EXCEPT !.probes = ghost'.probes]
    BY <1>0, <1>2 DEF ConsumeVerdict, ProbeTick, ProbeRun, ProbeAnswered, ProbeFails, ProbeEnds, ProbeStep
  <2> QED BY <1>2, <2>1, <2>2 DEF ProbeStepOnly
<1>3. CASE \/ FinishedCheck \/ FinishedClear \/ FinishedToast \/ ConsumePrompt
           \/ ConfirmLogin \/ DismissLogin \/ LoginRun
  <2>1. UNCHANGED <<wifi, probe, wg, wx>>
    BY <1>3 DEF FinishedCheck, FinishedClear, FinishedToast, ConsumePrompt, ConfirmLogin, DismissLogin,
          PromptButton, LoginRun, FetchRedirected, FetchOpen, FetchPage, Submitted, ReprobeOpen, LoginFails,
          Finish, FinishEnd, LoginStep, services
  <2>2. screen'.forecast = screen.forecast /\ screen'.stale = screen.stale
    BY <1>0, <1>3 DEF FinishedCheck, FinishedClear, FinishedToast, ConsumePrompt, ConfirmLogin, DismissLogin,
          PromptButton, LoginRun, FetchRedirected, FetchOpen, FetchPage, Submitted, ReprobeOpen, LoginFails,
          Finish, FinishEnd, LoginStep, ScreenType
  <2>3. ghost'.probes = ghost.probes /\ ghost'.asked = ghost.asked
    BY <1>0, <1>3 DEF FinishedCheck, FinishedClear, FinishedToast, ConsumePrompt, ConfirmLogin, DismissLogin,
          PromptButton, LoginRun, FetchRedirected, FetchOpen, FetchPage, Submitted, ReprobeOpen, LoginFails,
          Finish, FinishEnd
  <2> QED BY <1>3, <2>1, <2>2, <2>3 DEF LoginStepOnly
<1>4. CASE WgTick \/ WgRun \/ PeerAnswers \/ PeerLost \/ WgRetryDue \/ WgPatienceOver
  <2>1. CASE WgTick
    BY <2>1, WgTurns DEF TunnelStep, Stays
  <2>2. CASE WgRun \/ PeerAnswers \/ PeerLost \/ WgRetryDue \/ WgPatienceOver
    BY <2>2 DEF WgRun, WgBegins, WgBeginFails, WgKeeps, WgCloses, WgReports, WgEnds, PeerAnswers, PeerLost,
          WgRetryDue, WgPatienceOver, WgStep, TunnelStep, Stays
  <2> QED BY <1>4, <2>1, <2>2
<1>5. CASE ConsumeForecast \/ PaintForecast \/ RequestRefresh \/ WxRun \/ WxDue
  <2>1. UNCHANGED <<wifi, probe, login, wg>> /\ Stays({"forecast", "paint", "nav"})
    BY <1>5 DEF ConsumeForecast, PaintForecast, RequestRefresh, WxRun, WxDue, WxWakes, WxClears, WxForecast,
          WxFails, WxStep, services, Stays, Turn
  <2>2. screen'.verdict = screen.verdict
    BY <1>0, <1>5 DEF ConsumeForecast, PaintForecast, RequestRefresh, WxRun, WxDue, WxWakes, WxClears, WxForecast,
          WxFails, WxStep, ScreenType
  <2>3. ghost' = [ghost EXCEPT !.asked = ghost'.asked]
    BY <1>0, <1>5 DEF ConsumeForecast, PaintForecast, RequestRefresh, WxRun, WxDue, WxWakes, WxClears, WxForecast,
          WxFails
  <2> QED BY <1>5, <2>1, <2>2, <2>3 DEF WeatherStep
<1>6. CASE \/ RadioJoins \/ RadioRefused \/ RadioDrops \/ Pass \/ SwitchTunnel
           \/ \E tunnel \in WgSettings : PortalTunnel(tunnel)
           \/ \E slot \in Slots : \/ PortalConnects(slot) \/ PortalDeletes(slot)
                                  \/ \E name \in Names : PortalRenames(slot, name)
  BY <1>6 DEF RadioJoins, RadioRefused, RadioDrops, RadioStep, Pass, SwitchTunnel, PortalTunnel, PortalConnects,
        PortalDeletes, PortalRenames, Edited, services, OtherStep, Stays, Turn
<1>7. CASE UNCHANGED vars
  BY <1>7 DEF vars, OtherStep, Stays
<1> QED BY <1>1, <1>2, <1>3, <1>4, <1>5, <1>6, <1>7 DEF Next, Loop, User, Deadlines, Tasks, World

-----------------------------------------------------------------------------
(* Each part of the invariant is kept by every step. *)

(* A session that was probed is not probed again. *)
LEMMA ProbeInvStep ==
  ASSUME TypeInv, ProbeInv, [Next]_vars
  PROVE  ProbeInv'
<1>0. /\ ghost \in [probes : Nat, prompts : Nat, login : BOOLEAN \cup {None}, asked : BOOLEAN]
      /\ ProbeType
  BY DEF TypeInv, GhostType
<1>1. CASE LinkStep
  <2>1. probe' = probe /\ (ghost'.probes = ghost.probes \/ ghost'.probes = 0)
    BY <1>0, <1>1 DEF LinkStep
  <2>2. Linked' => ghost'.probes = 0 \/ (Linked /\ ghost'.probes = ghost.probes)
    BY <1>0, <1>1 DEF LinkStep, Linked
  <2> QED BY <1>0, <2>1, <2>2 DEF ProbeInv
<1>2. CASE ProbeStepOnly
  <2>1. CASE ProbeTick
    <3>1. CASE Spawns
      <4>1. Linked /\ ~Session.tried /\ ghost.probes = 0
        BY <1>0, <3>1 DEF Spawns, Session, ProbeInv
      <4>2. probe'.linkWasUp /\ probe'.tried
        BY <1>0, <2>1, <3>1, <4>1 DEF ProbeTick, Session, ProbeType
      <4>3. ghost'.probes = 1
        BY <1>0, <2>1, <3>1, <4>1 DEF ProbeTick
      <4> QED BY <4>2, <4>3 DEF ProbeInv
    <3>2. CASE ~Spawns
      <4>1. probe' = Session /\ ghost' = ghost /\ wifi' = wifi
        BY <2>1, <3>2 DEF ProbeTick
      <4> QED BY <1>0, <4>1 DEF ProbeInv, Session, Linked, ProbeType
    <3> QED BY <3>1, <3>2
  <2>2. CASE ConsumeVerdict \/ ProbeRun
    <3>1. /\ ghost' = ghost /\ wifi' = wifi
          /\ probe'.linkWasUp = probe.linkWasUp /\ probe'.tried = probe.tried
      BY <1>0, <2>2 DEF ConsumeVerdict, ProbeRun, ProbeAnswered, ProbeFails, ProbeEnds, ProbeStep, ProbeType
    <3> QED BY <3>1 DEF ProbeInv, Linked
  <2> QED BY <1>2, <2>1, <2>2 DEF ProbeStepOnly
<1>3. CASE LoginStepOnly \/ TunnelStep \/ WeatherStep \/ OtherStep
  <2>1. UNCHANGED <<wifi, probe>> /\ ghost'.probes = ghost.probes
    BY <1>0, <1>3 DEF LoginStepOnly, TunnelStep, WeatherStep, OtherStep
  <2> QED BY <2>1 DEF ProbeInv, Linked
<1> QED BY <1>1, <1>2, <1>3, StepKinds

(* A session that was prompted for is not prompted for again. *)
LEMMA PromptInvStep ==
  ASSUME TypeInv, PromptInv, [Next]_vars
  PROVE  PromptInv'
<1>0. /\ ghost \in [probes : Nat, prompts : Nat, login : BOOLEAN \cup {None}, asked : BOOLEAN]
      /\ AttemptType
  BY DEF TypeInv, GhostType
<1>1. CASE LinkStep
  <2>1. login' = login /\ (ghost'.prompts = ghost.prompts \/ ghost'.prompts = 0)
    BY <1>0, <1>1 DEF LinkStep
  <2>2. Linked' => ghost'.prompts = 0 \/ (Linked /\ ghost'.prompts = ghost.prompts)
    BY <1>0, <1>1 DEF LinkStep, Linked
  <2> QED BY <1>0, <2>1, <2>2 DEF PromptInv
<1>2. CASE LoginStepOnly
  <2>1. CASE ConsumePrompt
    <3>1. CASE Prompts
      <4>1. Linked /\ ~Prompted.prompted /\ ghost.prompts = 0
        BY <1>0, <3>1 DEF Prompts, Prompted, PromptInv
      <4>2. login'.linkWasUp /\ login'.prompted
        BY <1>0, <2>1, <3>1, <4>1 DEF ConsumePrompt, Prompted, AttemptType
      <4>3. ghost'.prompts = 1
        BY <1>0, <2>1, <3>1, <4>1 DEF ConsumePrompt
      <4> QED BY <4>2, <4>3 DEF PromptInv
    <3>2. CASE ~Prompts
      <4>1. login' = [Prompted EXCEPT !.prompted = @ \/ Prompts] /\ ghost' = ghost /\ wifi' = wifi
        BY <2>1, <3>2 DEF ConsumePrompt
      <4>2. login'.linkWasUp = Prompted.linkWasUp /\ login'.prompted = Prompted.prompted
        BY <1>0, <3>2, <4>1 DEF Prompted, AttemptType
      <4> QED BY <1>0, <4>1, <4>2 DEF PromptInv, Prompted, Linked, AttemptType
    <3> QED BY <3>1, <3>2
  <2>2. CASE FinishedCheck \/ FinishedClear \/ FinishedToast \/ ConfirmLogin \/ DismissLogin \/ LoginRun
    <3>1. ghost'.prompts = ghost.prompts /\ wifi' = wifi
      BY <1>0, <1>2, <2>2 DEF LoginStepOnly, FinishedCheck, FinishedClear, FinishedToast, ConfirmLogin, DismissLogin,
            PromptButton, LoginRun, FetchRedirected, FetchOpen, FetchPage, Submitted, ReprobeOpen, LoginFails,
            Finish, FinishEnd
    <3>2. login'.linkWasUp = login.linkWasUp /\ login'.prompted = login.prompted
      BY <1>0, <2>2 DEF FinishedCheck, FinishedClear, FinishedToast, ConfirmLogin, DismissLogin,
            PromptButton, LoginRun, FetchRedirected, FetchOpen, FetchPage, Submitted, ReprobeOpen, LoginFails,
            Finish, Finished, FinishEnd, LoginStep, Redirected, Finishing, AttemptType, services
    <3> QED BY <3>1, <3>2 DEF PromptInv, Linked
  <2> QED BY <1>2, <2>1, <2>2 DEF LoginStepOnly
<1>3. CASE ProbeStepOnly \/ TunnelStep \/ WeatherStep \/ OtherStep
  <2>1. UNCHANGED <<wifi, login>> /\ ghost'.prompts = ghost.prompts
    BY <1>0, <1>3 DEF ProbeStepOnly, TunnelStep, WeatherStep, OtherStep
  <2> QED BY <2>1 DEF PromptInv, Linked
<1> QED BY <1>1, <1>2, <1>3, StepKinds

(* A verdict that was reported gets to the screen before it counts as shown,  *)
(* and no later attempt gets between the two.                                 *)
LEMMA VerdictInvStep ==
  ASSUME TypeInv, VerdictInv, [Next]_vars
  PROVE  VerdictInv'
<1>0. /\ ghost \in [probes : Nat, prompts : Nat, login : BOOLEAN \cup {None}, asked : BOOLEAN]
      /\ AttemptType /\ ScreenType /\ TurnType
  BY DEF TypeInv, GhostType
<1>1. ASSUME login' = login, screen'.verdict = screen.verdict, ghost'.login = ghost.login,
             (at' = "clear" => at = "clear"), (at' = "toast" <=> at = "toast")
      PROVE  VerdictInv'
  BY <1>1 DEF VerdictInv
<1>2. CASE LoginStepOnly
  <2>1. CASE FinishedCheck
    <3>1. /\ at = "finished" /\ at' = (IF login.edge THEN "clear" ELSE "prompt")
          /\ login' = login /\ screen' = screen /\ ghost' = ghost
      BY <2>1 DEF FinishedCheck, Turn, services
    <3> QED BY <3>1 DEF VerdictInv
  <2>2. CASE FinishedClear
    <3>1. at = "clear" /\ at' = "toast" /\ login' = [login EXCEPT !.edge = FALSE] /\ screen' = screen /\ ghost' = ghost
      BY <1>0, <2>2, Turning DEF FinishedClear, Turn
    <3> QED BY <1>0, <3>1 DEF VerdictInv, AttemptType
  <2>3. CASE FinishedToast
    <3>1. at = "toast" /\ Over /\ login' = login /\ ghost' = ghost /\ screen'.verdict = login.joined
      BY <1>0, <2>3 DEF FinishedToast, Turn, services, ScreenType
    <3>2. at' # "clear" /\ at' # "toast"
      BY <1>0, <3>1, Turning
    <3> QED BY <3>1, <3>2 DEF VerdictInv
  <2>4. CASE ConsumePrompt
    <3>1. at = "prompt" /\ Over /\ screen'.verdict = screen.verdict /\ ghost'.login = ghost.login
      BY <1>0, <2>4 DEF ConsumePrompt, Turn, ScreenType
    <3>2. /\ login'.edge = login.edge /\ login'.joined = login.joined /\ login'.task = login.task
          /\ login'.result = login.result
      BY <1>0, <2>4 DEF ConsumePrompt, Prompted, AttemptType
    <3>3. at' # "clear" /\ at' # "toast"
      BY <1>0, <3>1, Turning
    <3> QED BY <3>1, <3>2, <3>3 DEF VerdictInv
  <2>5. CASE ConfirmLogin \/ DismissLogin
    <3>1. at = "nav" /\ Over /\ screen'.verdict = screen.verdict /\ ghost' = ghost /\ login.task = "none"
      BY <1>0, <2>5 DEF ConfirmLogin, DismissLogin, PromptButton, LoginRunning, Turn, ScreenType
    <3>2. /\ login'.edge = login.edge /\ login'.joined = login.joined /\ login'.result = login.result
          /\ login'.task # "edge"
      BY <1>0, <2>5, <3>1 DEF ConfirmLogin, DismissLogin, AttemptType
    <3>3. at' # "clear" /\ at' # "toast"
      BY <1>0, <3>1, Turning
    <3> QED BY <3>1, <3>2, <3>3 DEF VerdictInv
  <2>6. CASE LoginRun
    <3>1. at' = at /\ screen' = screen
      BY <2>6 DEF LoginRun, FetchRedirected, FetchOpen, FetchPage, Submitted, ReprobeOpen, LoginFails,
            Finish, FinishEnd, LoginStep
    <3>2. CASE FetchRedirected \/ FetchOpen \/ FetchPage \/ Submitted \/ ReprobeOpen \/ LoginFails \/ FinishEnd
      <4>1. /\ login'.edge = login.edge /\ login'.joined = login.joined
            /\ login'.task # "edge" /\ login.task # "edge" /\ ghost' = ghost
        BY <1>0, <3>2 DEF FetchRedirected, FetchOpen, FetchPage, Submitted, ReprobeOpen, LoginFails, FinishEnd,
              LoginStep, Redirected, Finishing, AttemptType
      <4> QED BY <3>1, <4>1 DEF VerdictInv
    <3>3. CASE Finish
      <4>1. CASE login.task = "finish"
        <5>1. /\ login' = [login EXCEPT !.joined = login.result, !.task = "edge"] /\ ghost' = ghost
          BY <3>3, <4>1 DEF Finish, Finished, LoginStep
        <5> QED BY <1>0, <3>1, <5>1 DEF VerdictInv, AttemptType
      <4>2. CASE login.task = "edge"
        <5>1. /\ login' = [login EXCEPT !.edge = TRUE, !.task = "end"] /\ ghost'.login = login.result
          BY <1>0, <3>3, <4>2 DEF Finish, Finished, LoginStep
        <5> QED BY <1>0, <3>1, <4>2, <5>1 DEF VerdictInv, AttemptType
      <4> QED BY <3>3, <4>1, <4>2 DEF Finish
    <3> QED BY <2>6, <3>2, <3>3 DEF LoginRun
  <2> QED BY <1>2, <2>1, <2>2, <2>3, <2>4, <2>5, <2>6 DEF LoginStepOnly
<1>3. CASE LinkStep \/ ProbeStepOnly \/ TunnelStep \/ WeatherStep \/ OtherStep
  <2>1. login' = login /\ screen'.verdict = screen.verdict /\ ghost'.login = ghost.login
    BY <1>0, <1>3 DEF LinkStep, ProbeStepOnly, TunnelStep, WeatherStep, OtherStep
  <2>2. at' = at \/ (Over /\ at \notin {"finished", "clear", "toast"})
    BY <1>3 DEF LinkStep, ProbeStepOnly, TunnelStep, WeatherStep, OtherStep, Stays
  <2>3. (at' = "clear" => at = "clear") /\ (at' = "toast" <=> at = "toast")
    BY <1>0, <2>2, Turning
  <2> QED BY <1>1, <2>1, <2>3
<1> QED BY <1>2, <1>3, StepKinds

(* The service has a tunnel exactly while its status says so.                 *)
LEMMA TunnelInvStep ==
  ASSUME TypeInv, TunnelInv, [Next]_vars
  PROVE  TunnelInv'
<1>0. wg \in WgMembers
  BY DEF TypeInv, WgType, WgMembers
<1>1. CASE TunnelStep
  <2>1. CASE WgConsume
    <3>1. CASE wg.done /\ ~WgRunning
      <4>1. wg' = Consumed /\ ~wg.started /\ wg.task = "none"
        BY <2>1, <3>1 DEF WgConsume, WgTurn, TunnelInv, WgRunning
      <4> QED BY <1>0, <4>1 DEF Consumed, WgMembers, TunnelInv
    <3>2. CASE ~(wg.done /\ ~WgRunning)
      BY <2>1, <3>2 DEF WgConsume, WgTurn, TunnelInv
    <3> QED BY <3>1, <3>2
  <2>2. CASE WgLinkLost
    <3> DEFINE w == [wg EXCEPT !.linkWasUp = FALSE, !.waiting = FALSE]
    <3>1. CASE WgRunning
      <4>1. wg' = [w EXCEPT !.cancel = TRUE]
        BY <2>2, <3>1 DEF WgLinkLost, WgTurn
      <4> QED BY <1>0, <4>1 DEF WgMembers, TunnelInv
    <3>2. CASE ~WgRunning
      <4>1. \/ wg' = Stopped([w EXCEPT !.status = "disabled"])
            \/ wg' = StopFails([w EXCEPT !.status = "disabled"])
            \/ ~wg.started /\ wg' = [w EXCEPT !.status = "disabled"]
        BY <2>2, <3>2 DEF WgLinkLost, Stops, WgTurn
      <4> QED BY <1>0, <4>1 DEF WgMembers, TunnelInv, Stopped, StopFails
    <3> QED BY <3>1, <3>2
  <2>3. CASE WgConfigChanged
    <3> DEFINE w == [wg EXCEPT !.last = settings.wg, !.waiting = FALSE]
    <3>1. \/ wg' = [w EXCEPT !.cancel = TRUE]
          \/ wg' = Stopped([w EXCEPT !.status = "disabled"])
          \/ wg' = StopFails([w EXCEPT !.status = "disabled"])
          \/ wg' = w
      BY <2>3 DEF WgConfigChanged, Stops, WgTurn
    <3> QED BY <1>0, <3>1 DEF WgMembers, TunnelInv, Stopped, StopFails
  <2>4. CASE WgPeerAway
    <3>1. wg.started /\ \/ wg' = [wg EXCEPT !.status = "handshaking", !.patient = TRUE]
                        \/ wg' = Stopped([wg EXCEPT !.waiting = TRUE, !.status = "failed"])
                        \/ wg' = StopFails([wg EXCEPT !.waiting = TRUE, !.status = "failed"])
                        \/ wg' = wg
      BY <2>4 DEF WgPeerAway, Stops, WgTurn
    <3> QED BY <1>0, <3>1 DEF WgMembers, TunnelInv, Stopped, StopFails
  <2>5. CASE WgLinkKept \/ WgConfigKept \/ WgIdle \/ WgPeerUp \/ WgRests
    <3>1. \/ wg' = [wg EXCEPT !.linkWasUp = Linked] \/ wg' = wg
          \/ wg.started /\ wg' = [wg EXCEPT !.status = "up"]
      BY <2>5 DEF WgLinkKept, WgConfigKept, WgIdle, WgPeerUp, WgRests, WgTurn
    <3> QED BY <1>0, <3>1 DEF WgMembers, TunnelInv
  <2>6. CASE WgBadIp \/ WgSpawns \/ WgNoTask
    <3>1. /\ ~wg.started
          /\ wg'.started = wg.started /\ wg'.status \in {"failed", "connecting"}
      BY <1>0, <2>6 DEF WgBadIp, WgSpawns, WgNoTask, WgTurn, MaySpawn, WgMembers
    <3> QED BY <3>1 DEF TunnelInv
  <2>7. CASE WgRun
    <3>1. /\ wg.task # "none" /\ wg'.started = wg.started /\ wg'.status = wg.status
      BY <1>0, <2>7 DEF WgRun, WgBegins, WgBeginFails, WgKeeps, WgCloses, WgReports, WgEnds, WgStep, Cancelled,
            WgMembers
    <3> QED BY <3>1 DEF TunnelInv
  <2>8. CASE PeerAnswers \/ PeerLost \/ WgRetryDue \/ WgPatienceOver
    <3>1. /\ wg'.started = wg.started /\ wg'.status = wg.status /\ wg'.task = wg.task /\ wg'.done = wg.done
      BY <1>0, <2>8 DEF PeerAnswers, PeerLost, WgRetryDue, WgPatienceOver, WgStep, WgMembers
    <3> QED BY <3>1 DEF TunnelInv
  <2> QED BY <1>1, <2>1, <2>2, <2>3, <2>4, <2>5, <2>6, <2>7, <2>8 DEF TunnelStep, WgTick
<1>2. CASE LinkStep \/ ProbeStepOnly \/ LoginStepOnly \/ WeatherStep \/ OtherStep
  <2>1. wg' = wg
    BY <1>2 DEF LinkStep, ProbeStepOnly, LoginStepOnly, WeatherStep, OtherStep
  <2> QED BY <2>1 DEF TunnelInv
<1> QED BY <1>1, <1>2, StepKinds

(* A request and its history come and go together, and a forecast and its     *)
(* edge; the edge is turned into a repaint in one step.                       *)
LEMMA WeatherInvStep ==
  ASSUME TypeInv, RefreshKept, ForecastShown, [Next]_vars
  PROVE  RefreshKept' /\ ForecastShown'
<1>0. FetchType /\ ScreenType /\ GhostType
  BY DEF TypeInv
<1>1. CASE WeatherStep
  <2>1. RefreshKept'
    <3>1. CASE ConsumeForecast \/ PaintForecast \/ RequestRefresh
      BY <1>0, <3>1 DEF ConsumeForecast, PaintForecast, RequestRefresh, services, RefreshKept, FetchType, GhostType
    <3>2. CASE WxRun \/ WxDue
      BY <1>0, <3>2 DEF WxRun, WxDue, WxWakes, WxClears, WxForecast, WxFails, WxStep, RefreshKept, FetchType, GhostType
    <3> QED BY <1>1, <3>1, <3>2 DEF WeatherStep
  <2>2. ForecastShown'
    <3>1. CASE ConsumeForecast \/ PaintForecast \/ RequestRefresh
      BY <1>0, <3>1 DEF ConsumeForecast, PaintForecast, RequestRefresh, Stale, services, ForecastShown, FetchType,
            ScreenType
    <3>2. CASE WxRun \/ WxDue
      BY <1>0, <3>2 DEF WxRun, WxDue, WxWakes, WxClears, WxForecast, WxFails, WxStep, ForecastShown, FetchType
    <3> QED BY <1>1, <3>1, <3>2 DEF WeatherStep
  <2> QED BY <2>1, <2>2
<1>2. CASE LinkStep \/ ProbeStepOnly \/ LoginStepOnly \/ TunnelStep \/ OtherStep
  <2>1. /\ wx' = wx /\ ghost'.asked = ghost.asked
        /\ screen'.forecast = screen.forecast /\ screen'.stale = screen.stale
    BY <1>0, <1>2 DEF LinkStep, ProbeStepOnly, LoginStepOnly, TunnelStep, OtherStep, GhostType
  <2> QED BY <2>1 DEF RefreshKept, ForecastShown
<1> QED BY <1>1, <1>2, StepKinds

-----------------------------------------------------------------------------
(* The theorems. *)

(* At boot nothing was probed, prompted, reported, tunnelled or asked.        *)
LEMMA Initially == ASSUME Init PROVE TypeInv /\ NetInv
<1>1. ASSUME NEW s, NEW events, Boot(s, events) PROVE NetInv
  BY <1>1 DEF Boot, NetInv, ProbeInv, PromptInv, VerdictInv, TunnelInv, RefreshKept, ForecastShown
<1> QED BY <1>1, TypeInitially DEF Init

(* Every reachable state satisfies the invariant.                             *)
LEMMA Invariance == Spec => [](TypeInv /\ NetInv)
<1>1. Init => TypeInv /\ NetInv
  BY Initially
<1>2. TypeInv /\ NetInv /\ [Next]_vars => (TypeInv /\ NetInv)'
  BY TypeStep, ProbeInvStep, PromptInvStep, VerdictInvStep, TunnelInvStep, WeatherInvStep DEF NetInv
<1> QED BY <1>1, <1>2, PTL DEF Spec

(* Every service keeps its members within their types, the loop is at a turn  *)
(* of its household, and no kind of event exceeds its bound.                  *)
THEOREM NetworkTypeCorrect == Spec => []TypeOK
<1>1. TypeInv => TypeOK
  BY TurnsListed DEF TypeInv, TypeOK, SettingsType, RadioType, ScreenType, AttemptType, LoginType, FetchType, WxType,
     SpentType, GhostType
<1> QED BY <1>1, Invariance, PTL

(* A link session is probed at most once.                                     *)
THEOREM ProbedOnce == Spec => []OneProbePerSession
<1>1. NetInv => OneProbePerSession
  BY DEF NetInv, ProbeInv, OneProbePerSession
<1> QED BY <1>1, Invariance, PTL

(* A link session is prompted for at most once.                               *)
THEOREM PromptedOnce == Spec => []PromptOncePerSession
<1>1. NetInv => PromptOncePerSession
  BY DEF NetInv, PromptInv, PromptOncePerSession
<1> QED BY <1>1, Invariance, PTL

(* The verdict on the screen is that of the last attempt reported.            *)
THEOREM LastVerdictShown == Spec => []ReportedVerdictIsLast
<1>1. NetInv => ReportedVerdictIsLast
  BY DEF NetInv, VerdictInv, ReportedVerdictIsLast
<1> QED BY <1>1, Invariance, PTL

(* The status of the tunnel agrees with the service, and not only where the   *)
(* user reads it.                                                             *)
THEOREM TunnelStatusTrue == Spec => []WgStatusTrue
<1>1. NetInv => WgStatusTrue
  BY DEF NetInv, TunnelInv, WgStatusTrue
<1> QED BY <1>1, Invariance, PTL

(* A refresh asked for is pending until a request goes out after it.          *)
THEOREM RefreshIsKept == Spec => []RefreshKept
<1>1. NetInv => RefreshKept
  BY DEF NetInv
<1> QED BY <1>1, Invariance, PTL

(* A forecast that is not on the screen is about to be.                       *)
THEOREM ForecastIsShown == Spec => []ForecastShown
<1>1. NetInv => ForecastShown
  BY DEF NetInv
<1> QED BY <1>1, Invariance, PTL
=============================================================================
