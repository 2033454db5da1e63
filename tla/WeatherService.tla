--------------------------- MODULE WeatherService ---------------------------
(* src/src/service/WeatherService.cpp: a task that looks once a second        *)
(* whether a forecast is due or was asked for, and publishes it under a       *)
(* mutex.  The flag of the Settings screen is outside of the mutex.           *)
EXTENDS NetTypes

Forecasts == {"warm", "cold"}

WxType ==
  /\ wx \in [task : {"sleep", "clear", "get"}, refresh : BOOLEAN, due : BOOLEAN,
             data : Forecasts \cup {None}, update : BOOLEAN, error : BOOLEAN]
  /\ screen.forecast \in Forecasts \cup {None} /\ screen.stale \in BOOLEAN

WxStep(w) == /\ wx' = w
             /\ UNCHANGED <<at, settings, radio, wifi, probe, login, wg, screen>>

(* run(): nothing is tried while the panel is off or the link is down.        *)
WxWakes == /\ wx.task = "sleep" /\ settings.weather /\ Linked /\ (wx.due \/ wx.refresh)
           /\ WxStep([wx EXCEPT !.task = "clear"]) /\ UNCHANGED <<spent, ghost>>
WxClears == /\ wx.task = "clear"
            /\ WxStep([wx EXCEPT !.task = "get", !.refresh = FALSE, !.due = FALSE])
            /\ ghost' = [ghost EXCEPT !.asked = FALSE] /\ UNCHANGED spent

(* Mutant of WxForecast: the request is taken for served after the fetch.     *)
WxForecastServes(f) == /\ wx.task = "get" /\ radio.status = "connected"
                       /\ WxStep([wx EXCEPT !.task = "sleep", !.data = f, !.update = TRUE,
                                            !.refresh = FALSE])
                       /\ UNCHANGED <<spent, ghost>>
(* fetchOnce(): the whole forecast, or an error and the forecast of before.   *)
WxForecast(f) == /\ wx.task = "get" /\ radio.status = "connected"
                 /\ WxStep([wx EXCEPT !.task = "sleep", !.data = f, !.update = TRUE])
                 /\ UNCHANGED <<spent, ghost>>
WxFails == /\ wx.task = "get"
           /\ WxStep([wx EXCEPT !.task = "sleep", !.error = TRUE])
           /\ IF radio.status = "connected" THEN Spend("faults") ELSE UNCHANGED spent
           /\ UNCHANGED ghost
(* kFetchIntervalMs is over; counted with the faults to bound the fetches.    *)
WxDue == /\ ~wx.due /\ WxStep([wx EXCEPT !.due = TRUE])
         /\ Spend("faults") /\ UNCHANGED ghost

WxRun == WxWakes \/ WxClears \/ (\E f \in Forecasts : WxForecast(f)) \/ WxFails

-----------------------------------------------------------------------------
(* Mutant of Stale: an error hides the forecast that came with it.            *)
StaleUnlessFailed == screen.stale \/ (wx.update /\ ~wx.error)
(* The main loop: consumeUpdate() and consumeError() ask for a repaint, and   *)
(* the Dashboard draws the snapshot of that moment at the end of the pass.    *)
Stale == screen.stale \/ wx.update \/ wx.error
ConsumeForecast ==
  /\ Turn("forecast") /\ Over
  /\ wx' = [wx EXCEPT !.update = FALSE, !.error = FALSE]
  /\ screen' = [screen EXCEPT !.stale = Stale]
  /\ UNCHANGED <<settings, radio, wifi, probe, login, wg, spent, ghost>>
PaintForecast ==
  /\ Turn("paint") /\ Over
  /\ screen' = IF screen.stale THEN [screen EXCEPT !.stale = FALSE, !.forecast = wx.data] ELSE screen
  /\ UNCHANGED <<settings, radio, services, spent, ghost>>

(* The Weather row of the Settings screen. *)
RequestRefresh ==
  /\ Turn("nav") /\ Over /\ settings.weather /\ Spend("refresh")
  /\ wx' = [wx EXCEPT !.refresh = TRUE] /\ ghost' = [ghost EXCEPT !.asked = TRUE]
  /\ UNCHANGED <<settings, radio, wifi, probe, login, wg, screen>>
=============================================================================
