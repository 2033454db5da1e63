---------------------------- MODULE WifiService -----------------------------
(* src/src/WifiService.cpp: tick() samples the radio once per pass of the     *)
(* main loop; restart() is called by the Networks screen in the same thread.  *)
(* A deadline is a flag: wifi.waiting while retryAtMs_ lies ahead.            *)
EXTENDS NetTypes

Links == {"disabled", "connecting", "disconnected", "connected"}

WifiType == wifi \in [link : Links, inFlight : BOOLEAN, waiting : BOOLEAN]

(* setLink(); a link that comes up begins a link session.                     *)
SetLink(w, next) ==
  /\ wifi' = [w EXCEPT !.link = next]
  /\ ghost' = IF next = "connected" THEN [ghost EXCEPT !.probes = 0, !.prompts = 0] ELSE ghost

(* Mutant of Retrying: the attempt that failed counts as in flight.           *)
RetryingInFlight(w) == [w EXCEPT !.waiting = TRUE]
(* scheduleRetry() arms the backoff. *)
Retrying(w) == [w EXCEPT !.inFlight = FALSE, !.waiting = TRUE]

(* startAttempt(): WiFi.begin() is an asynchronous kick, or refuses at once.  *)
StartAttempt(w, name, refused) ==
  CASE name = None -> SetLink(w, "disabled") /\ UNCHANGED radio
    [] name # None /\ ~refused -> /\ SetLink([w EXCEPT !.inFlight = TRUE], "connecting")
                                 /\ radio' = [net |-> name, status |-> "joining"]
    [] name # None /\ refused -> /\ SetLink(Retrying(w), "disconnected")
                                /\ radio' = [net |-> None, status |-> "failed"]

-----------------------------------------------------------------------------
(* tick(), by what WiFi.status() says.                                        *)

WifiDisabled == Turn("wifi") /\ Over /\ wifi.link = "disabled"
                /\ UNCHANGED <<wifi, radio, spent, ghost>>

WifiUp ==
  /\ Turn("wifi") /\ Over /\ wifi.link # "disabled" /\ radio.status = "connected"
  /\ IF Linked THEN UNCHANGED <<wifi, ghost>>
     ELSE SetLink([wifi EXCEPT !.inFlight = FALSE], "connected")
  /\ UNCHANGED <<radio, spent>>

WifiTrying == /\ Turn("wifi") /\ Over /\ wifi.inFlight /\ radio.status \in {"joining", "idle"}
              /\ UNCHANGED <<wifi, radio, spent, ghost>>

(* kAttemptTimeoutMs is over: WiFi.disconnect() cancels the attempt.          *)
WifiTimesOut ==
  /\ Turn("wifi") /\ Over /\ wifi.inFlight /\ radio.status \in {"joining", "idle"}
  /\ SetLink(Retrying(wifi), "disconnected")
  /\ radio' = [net |-> None, status |-> "idle"] /\ UNCHANGED spent

WifiAttemptFails ==
  /\ Turn("wifi") /\ Over /\ wifi.inFlight /\ radio.status = "failed"
  /\ SetLink(Retrying(wifi), "disconnected") /\ UNCHANGED <<radio, spent>>

WifiLost ==
  /\ Turn("wifi") /\ Over /\ ~wifi.inFlight /\ Linked /\ radio.status # "connected"
  /\ SetLink(Retrying(wifi), "disconnected") /\ UNCHANGED <<radio, spent>>

WifiBacksOff ==
  /\ Turn("wifi") /\ Over /\ wifi.link \in {"connecting", "disconnected"}
  /\ ~wifi.inFlight /\ radio.status # "connected" /\ wifi.waiting
  /\ UNCHANGED <<wifi, radio, spent, ghost>>

WifiRetries ==
  /\ Turn("wifi") /\ Over /\ wifi.link \in {"connecting", "disconnected"}
  /\ ~wifi.inFlight /\ radio.status # "connected" /\ ~wifi.waiting
  /\ \/ StartAttempt(wifi, ActiveName, FALSE) /\ UNCHANGED spent
     \/ ActiveName # None /\ StartAttempt(wifi, ActiveName, TRUE) /\ Spend("drops")

WifiTick == /\ \/ WifiDisabled \/ WifiUp \/ WifiTrying \/ WifiTimesOut
               \/ WifiAttemptFails \/ WifiLost \/ WifiBacksOff \/ WifiRetries
            /\ UNCHANGED <<settings, probe, login, wg, wx, screen>>

WifiDeadline == wifi.waiting /\ wifi' = [wifi EXCEPT !.waiting = FALSE]
                /\ UNCHANGED <<at, settings, radio, probe, login, wg, wx, screen, spent, ghost>>

-----------------------------------------------------------------------------
(* The radio and the access points, which are not in this repository.         *)

RadioStep(net, status) ==
  /\ radio' = [net |-> net, status |-> status]
  /\ UNCHANGED <<at, settings, services, screen, ghost>>

RadioJoins == radio.status = "joining" /\ RadioStep(radio.net, "connected") /\ UNCHANGED spent
RadioRefused == radio.status = "joining" /\ Spend("drops") /\ RadioStep(radio.net, "failed")

(* A lost association is joined again by the core itself, with or without a   *)
(* tick of the main loop in between.                                          *)
RadioDrops == radio.status = "connected" /\ Spend("drops") /\ RadioStep(radio.net, "joining")
=============================================================================
