------------------------- MODULE WireGuardService ---------------------------
(* src/src/service/WireGuardService.cpp over the tunnel of                    *)
(* src/lib/WireGuard/src/WireGuard.cpp.  A bring-up blocks for seconds and    *)
(* runs on a task; the main loop owns the tunnel in all other phases.  The    *)
(* flags between the two are read and written without a lock.                 *)
EXTENDS NetTypes

Statuses == {"disabled", "connecting", "handshaking", "up", "failed"}

(* settings.wireguard: its switch, and None while a field is missing. *)
WgSettings == [on : BOOLEAN, config : WgConfigs \cup {None}]

WgType ==
  wg \in [started : BOOLEAN, linkWasUp : BOOLEAN, cancel : BOOLEAN, done : BOOLEAN,
          cfg : WgConfigs \cup {None}, last : WgSettings,
          status : Statuses, waiting : BOOLEAN, patient : BOOLEAN,
          task : {"none", "begin", "check", "report", "end"},
          outcome : {"none", "ok", "failed", "cancelled"},
          open : BOOLEAN, peer : BOOLEAN]

Desired == settings.wg.on /\ settings.wg.config # None /\ Linked
WgRunning == wg.task # "none"

WgTurn(t, w) == /\ Turn(t) /\ Over /\ wg' = w
                /\ UNCHANGED <<settings, radio, wifi, probe, login, wx, screen, ghost>>

(* stopTunnel(): end() is a call to the tcpip thread, which may fail; the     *)
(* service takes the tunnel for stopped either way.                           *)
Stopped(w) == [w EXCEPT !.started = FALSE, !.open = FALSE, !.peer = FALSE]
StopFails(w) == [w EXCEPT !.started = FALSE]
Stops(t, w) == \/ WgTurn(t, Stopped(w)) /\ UNCHANGED spent
               \/ wg.open /\ WgTurn(t, StopFails(w)) /\ Spend("faults")

-----------------------------------------------------------------------------
(* tick(), its five steps.                                                    *)

(* Mutant of Consumed: a failed attempt is consumed again on each pass.       *)
ConsumedAgain == IF wg.outcome = "failed" THEN [wg EXCEPT !.waiting = TRUE, !.status = "failed"]
                 ELSE IF wg.outcome = "ok"
                 THEN [wg EXCEPT !.done = FALSE, !.started = TRUE, !.status = "handshaking",
                                 !.patient = TRUE]
                 ELSE [wg EXCEPT !.done = FALSE, !.status = "disabled"]
(* 1. A finished attempt. *)
Consumed == IF wg.outcome = "ok"
            THEN [wg EXCEPT !.done = FALSE, !.started = TRUE, !.status = "handshaking",
                            !.patient = TRUE]
            ELSE IF wg.outcome = "failed"
            THEN [wg EXCEPT !.done = FALSE, !.waiting = TRUE, !.status = "failed"]
            ELSE [wg EXCEPT !.done = FALSE, !.status = "disabled"]
WgConsume == WgTurn("wgDone", IF wg.done /\ ~WgRunning THEN Consumed ELSE wg) /\ UNCHANGED spent

(* 2. A lost link kills the tunnel and resets the retry ladder. *)
WgLinkLost ==
  /\ wg.linkWasUp /\ ~Linked
  /\ LET w == [wg EXCEPT !.linkWasUp = FALSE, !.waiting = FALSE]
     IN IF WgRunning THEN WgTurn("wgLink", [w EXCEPT !.cancel = TRUE]) /\ UNCHANGED spent
        ELSE IF wg.started THEN Stops("wgLink", [w EXCEPT !.status = "disabled"])
        ELSE WgTurn("wgLink", [w EXCEPT !.status = "disabled"]) /\ UNCHANGED spent
WgLinkKept == ~(wg.linkWasUp /\ ~Linked)
              /\ WgTurn("wgLink", [wg EXCEPT !.linkWasUp = Linked]) /\ UNCHANGED spent

(* Mutant of WgConfigChanged: the status of the tunnel stays.                 *)
WgConfigChangedSilently ==
  /\ wg.last # settings.wg
  /\ LET w == [wg EXCEPT !.last = settings.wg, !.waiting = FALSE]
     IN IF WgRunning THEN WgTurn("wgConfig", [w EXCEPT !.cancel = TRUE]) /\ UNCHANGED spent
        ELSE IF wg.started THEN Stops("wgConfig", w)
        ELSE WgTurn("wgConfig", w) /\ UNCHANGED spent
(* 3. A changed configuration: tear down and evaluate anew. *)
WgConfigChanged ==
  /\ wg.last # settings.wg
  /\ LET w == [wg EXCEPT !.last = settings.wg, !.waiting = FALSE]
     IN IF WgRunning THEN WgTurn("wgConfig", [w EXCEPT !.cancel = TRUE]) /\ UNCHANGED spent
        ELSE IF wg.started THEN Stops("wgConfig", [w EXCEPT !.status = "disabled"])
        ELSE WgTurn("wgConfig", w) /\ UNCHANGED spent
WgConfigKept == wg.last = settings.wg /\ WgTurn("wgConfig", wg) /\ UNCHANGED spent

(* 4. The peer: up, lost again, or silent past kHandshakeTimeoutMs. *)
WgIdle == ~wg.started /\ WgTurn("wgWatch", wg) /\ UNCHANGED spent
WgPeerUp == wg.started /\ wg.peer
            /\ WgTurn("wgWatch", [wg EXCEPT !.status = "up"]) /\ UNCHANGED spent
WgPeerAway ==
  /\ wg.started /\ ~wg.peer
  /\ IF wg.status = "up"
     THEN WgTurn("wgWatch", [wg EXCEPT !.status = "handshaking", !.patient = TRUE]) /\ UNCHANGED spent
     ELSE IF wg.status = "handshaking" /\ ~wg.patient
     THEN Stops("wgWatch", [wg EXCEPT !.waiting = TRUE, !.status = "failed"])
     ELSE WgTurn("wgWatch", wg) /\ UNCHANGED spent

(* 5. A bring-up, when one is wanted and the backoff is over. *)
MaySpawn == ~WgRunning /\ ~wg.started /\ Desired /\ ~wg.waiting
WgRests == ~MaySpawn /\ WgTurn("wgSpawn", wg) /\ UNCHANGED spent
WgBadIp == /\ MaySpawn /\ wg.last.config \in BadConfigs
           /\ WgTurn("wgSpawn", [wg EXCEPT !.cfg = wg.last.config, !.status = "failed", !.waiting = TRUE])
           /\ UNCHANGED spent
WgSpawns == /\ MaySpawn /\ wg.last.config \notin BadConfigs
            /\ WgTurn("wgSpawn", [wg EXCEPT !.cfg = wg.last.config, !.cancel = FALSE, !.task = "begin",
                                            !.status = "connecting"])
            /\ UNCHANGED spent
WgNoTask == /\ MaySpawn /\ wg.last.config \notin BadConfigs /\ Spend("faults")
            /\ WgTurn("wgSpawn", [wg EXCEPT !.cfg = wg.last.config, !.cancel = FALSE, !.status = "failed",
                                            !.waiting = TRUE])

WgTick == \/ WgConsume \/ WgLinkLost \/ WgLinkKept \/ WgConfigChanged \/ WgConfigKept
          \/ WgIdle \/ WgPeerUp \/ WgPeerAway \/ WgRests \/ WgBadIp \/ WgSpawns \/ WgNoTask

-----------------------------------------------------------------------------
(* run(), and the tunnel.                                                     *)

WgStep(w) == /\ wg' = w
             /\ UNCHANGED <<at, settings, radio, wifi, probe, login, wx, screen, ghost>>

(* begin() refuses a tunnel that is open already. *)
WgBegins == /\ wg.task = "begin" /\ ~wg.open /\ radio.status = "connected"
            /\ WgStep([wg EXCEPT !.open = TRUE, !.task = "check"]) /\ UNCHANGED spent
WgBeginFails == /\ wg.task = "begin"
                /\ WgStep([wg EXCEPT !.outcome = "failed", !.task = "report"])
                /\ IF wg.open \/ radio.status # "connected" THEN UNCHANGED spent ELSE Spend("faults")

(* The last look at cancelRequested_ and at the settings. *)
Cancelled == [wg EXCEPT !.outcome = "cancelled", !.task = "report"]
WgKeeps == /\ wg.task = "check" /\ ~wg.cancel /\ Desired
           /\ WgStep([wg EXCEPT !.outcome = "ok", !.task = "report"]) /\ UNCHANGED spent
WgCloses == /\ wg.task = "check" /\ (wg.cancel \/ ~Desired)
            /\ \/ WgStep([Cancelled EXCEPT !.open = FALSE, !.peer = FALSE]) /\ UNCHANGED spent
               \/ WgStep(Cancelled) /\ Spend("faults")
WgReports == /\ wg.task = "report" /\ WgStep([wg EXCEPT !.done = TRUE, !.task = "end"])
             /\ UNCHANGED spent
WgEnds == wg.task = "end" /\ WgStep([wg EXCEPT !.task = "none"]) /\ UNCHANGED spent

WgRun == WgBegins \/ WgBeginFails \/ WgKeeps \/ WgCloses \/ WgReports \/ WgEnds

PeerAnswers == /\ wg.open /\ ~wg.peer /\ radio.status = "connected"
               /\ WgStep([wg EXCEPT !.peer = TRUE]) /\ UNCHANGED spent
PeerLost == /\ wg.peer /\ WgStep([wg EXCEPT !.peer = FALSE])
            /\ IF radio.status = "connected" THEN Spend("drops") ELSE UNCHANGED spent

WgRetryDue == wg.waiting /\ WgStep([wg EXCEPT !.waiting = FALSE]) /\ UNCHANGED spent
WgPatienceOver == wg.patient /\ WgStep([wg EXCEPT !.patient = FALSE]) /\ UNCHANGED spent
=============================================================================
