---------------------------- MODULE CaptiveProbe ----------------------------
(* src/src/service/CaptiveProbeService.cpp: one GET per link session decides  *)
(* whether a login page stands before the active network.  tick() and         *)
(* consumeResult() run on the main loop, run() on a task of its own, and only *)
(* volatile flags order the two.                                              *)
EXTENDS NetTypes

ProbeType ==
  probe \in [linkWasUp : BOOLEAN, tried : BOOLEAN, ready : BOOLEAN,
             task : {"none", "get", "ending"}, slot : Slots \cup {None},
             ssid : Names \cup {None}, verdict : Portal]

ProbeRunning == probe.task # "none"

(* consumeResult(): the verdict is for the profile as it was probed. *)
ConsumeVerdict ==
  /\ Turn("verdict") /\ Over
  /\ probe' = [probe EXCEPT !.ready = FALSE]
  /\ settings' = IF probe.ready /\ settings.ssid[probe.slot] = probe.ssid
                 THEN [settings EXCEPT !.portal[probe.slot] = probe.verdict]
                 ELSE settings
  /\ UNCHANGED <<radio, wifi, login, wg, wx, screen, spent, ghost>>

(* Mutant of Session: a probe still running uses the new session up.          *)
SessionUsedUp == IF ~Linked THEN [probe EXCEPT !.linkWasUp = FALSE, !.tried = FALSE]
                 ELSE IF probe.linkWasUp THEN probe
                 ELSE [probe EXCEPT !.linkWasUp = TRUE, !.tried = ProbeRunning]
(* tick(), first half: sessionTried_ starts afresh with each link session it  *)
(* sees begin.                                                                *)
Session == IF ~Linked THEN [probe EXCEPT !.linkWasUp = FALSE, !.tried = FALSE]
           ELSE IF probe.linkWasUp THEN probe
           ELSE [probe EXCEPT !.linkWasUp = TRUE, !.tried = FALSE]

Spawns == /\ Linked /\ ~ProbeRunning /\ ~Session.tried
          /\ ActiveName # None /\ ActivePortal = "unknown"

ProbeTick ==
  /\ Turn("probe") /\ Over
  /\ \/ ~Spawns /\ probe' = Session /\ UNCHANGED <<spent, ghost>>
     \/ /\ Spawns
        /\ probe' = [Session EXCEPT !.tried = TRUE, !.task = "get",
                                    !.slot = settings.active, !.ssid = ActiveName]
        /\ ghost' = [ghost EXCEPT !.probes = @ + 1] /\ UNCHANGED spent
     \/ /\ Spawns /\ Spend("faults")    \* no memory for the task
        /\ probe' = [Session EXCEPT !.tried = TRUE, !.slot = settings.active, !.ssid = ActiveName]
        /\ ghost' = [ghost EXCEPT !.probes = @ + 1]
  /\ UNCHANGED <<settings, radio, wifi, login, wg, wx, screen>>

-----------------------------------------------------------------------------
(* run() *)

ProbeStep(p) == /\ probe' = p
                /\ UNCHANGED <<at, settings, radio, wifi, login, wg, wx, screen, ghost>>

(* classify(): the exact empty 204 is open, any other answer is a portal. *)
ProbeAnswered(v) == /\ probe.task = "get" /\ radio.status = "connected"
                    /\ ProbeStep([probe EXCEPT !.verdict = v, !.ready = TRUE, !.task = "ending"])
                    /\ UNCHANGED spent
(* Mutant of ProbeFails: a failed probe is tried again at once.               *)
ProbeFailsRetried == /\ probe.task = "get"
                     /\ ProbeStep([probe EXCEPT !.task = "ending", !.tried = FALSE])
                     /\ IF radio.status = "connected" THEN Spend("faults") ELSE UNCHANGED spent
ProbeFails == /\ probe.task = "get"
              /\ ProbeStep([probe EXCEPT !.task = "ending"])
              /\ IF radio.status = "connected" THEN Spend("faults") ELSE UNCHANGED spent
ProbeEnds == /\ probe.task = "ending" /\ ProbeStep([probe EXCEPT !.task = "none"])
             /\ UNCHANGED spent

ProbeRun == (\E v \in {"open", "portal"} : ProbeAnswered(v)) \/ ProbeFails \/ ProbeEnds
=============================================================================
