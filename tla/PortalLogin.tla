----------------------------- MODULE PortalLogin ----------------------------
(* src/src/service/PortalLoginService.cpp and the prompt it raises, the       *)
(* CaptiveLogin screen of src/src/ui/Screens.cpp.  The attempt is a task:     *)
(* fetch the login page, submit its form, probe again, report.                *)
EXTENDS NetTypes

CONSTANT MaxRedirects   \* kMaxRedirects

ASSUME RedirectsAssumption == MaxRedirects \in Nat

LoginType ==
  /\ login \in [linkWasUp : BOOLEAN, prompted : BOOLEAN, edge : BOOLEAN, joined : BOOLEAN,
                task : {"none", "fetch", "submit", "reprobe", "finish", "edge", "end"},
                hops : 0..MaxRedirects, result : BOOLEAN]
  /\ screen.prompt \in BOOLEAN /\ screen.verdict \in BOOLEAN \cup {None}

LoginRunning == login.task # "none"

(* consumeFinished() and the toast it carries: three reads and writes of      *)
(* members that the task writes too.                                          *)
FinishedCheck == /\ Turn("finished")
                 /\ at' = IF login.edge THEN "clear" ELSE "prompt"
                 /\ UNCHANGED <<settings, radio, services, screen, spent, ghost>>
FinishedClear == /\ Turn("clear") /\ Over /\ login' = [login EXCEPT !.edge = FALSE]
                 /\ UNCHANGED <<settings, radio, wifi, probe, wg, wx, screen, spent, ghost>>
FinishedToast == /\ Turn("toast") /\ Over
                 /\ screen' = [screen EXCEPT !.verdict = login.joined, !.prompt = FALSE]
                 /\ UNCHANGED <<settings, radio, services, spent, ghost>>

(* Mutant of Prompted: each pass over a link counts as a new session.         *)
PromptedAnew == [login EXCEPT !.linkWasUp = Linked, !.prompted = FALSE]
(* consumePromptEdge(), and the push of the prompt. *)
Prompted == IF ~Linked THEN [login EXCEPT !.linkWasUp = FALSE, !.prompted = FALSE]
            ELSE IF login.linkWasUp THEN login
            ELSE [login EXCEPT !.linkWasUp = TRUE, !.prompted = FALSE]
Prompts == Linked /\ ~Prompted.prompted /\ ~LoginRunning /\ ActivePortal = "portal"
ConsumePrompt ==
  /\ Turn("prompt") /\ Over
  /\ login' = [Prompted EXCEPT !.prompted = @ \/ Prompts]
  /\ screen' = [screen EXCEPT !.prompt = @ \/ Prompts]
  /\ ghost' = IF Prompts THEN [ghost EXCEPT !.prompts = @ + 1] ELSE ghost
  /\ UNCHANGED <<settings, radio, wifi, probe, wg, wx, spent>>

(* captiveLoginButton(): nothing is taken while an attempt runs. *)
PromptButton == /\ Turn("nav") /\ Over /\ screen.prompt /\ ~LoginRunning
                /\ UNCHANGED <<settings, radio, wifi, probe, wg, wx, ghost>>
ConfirmLogin ==
  /\ PromptButton
  /\ \/ /\ login' = [login EXCEPT !.task = "fetch", !.hops = 0]
        /\ UNCHANGED <<screen, spent>>
     \/ /\ Spend("faults")    \* no memory for the task
        /\ screen' = [screen EXCEPT !.prompt = FALSE] /\ UNCHANGED login
DismissLogin == PromptButton /\ screen' = [screen EXCEPT !.prompt = FALSE]
                /\ UNCHANGED <<login, spent>>

-----------------------------------------------------------------------------
(* run() *)

LoginStep(l) == /\ login' = l
                /\ UNCHANGED <<at, settings, radio, wifi, probe, wg, wx, screen>>
Finishing(joined) == [login EXCEPT !.task = "finish", !.result = joined]

(* Mutants of Redirected: one redirect too many, and a count that starts      *)
(* over.                                                                      *)
RedirectedOnceMore == IF login.hops <= MaxRedirects THEN [login EXCEPT !.hops = @ + 1]
                      ELSE Finishing(FALSE)
RedirectedAnew == [login EXCEPT !.hops = IF @ < MaxRedirects THEN @ + 1 ELSE 0]
(* fetchInterceptionPage(): a redirect is followed by hand, a bounded number  *)
(* of times; an empty 204 means that no page stands in the way.               *)
Redirected == IF login.hops < MaxRedirects THEN [login EXCEPT !.hops = @ + 1]
              ELSE Finishing(FALSE)
FetchRedirected == /\ login.task = "fetch" /\ radio.status = "connected"
                   /\ LoginStep(Redirected) /\ UNCHANGED <<spent, ghost>>
FetchOpen == /\ login.task = "fetch" /\ radio.status = "connected"
             /\ LoginStep(Finishing(TRUE)) /\ UNCHANGED <<spent, ghost>>
FetchPage == /\ login.task = "fetch" /\ radio.status = "connected"
             /\ LoginStep([login EXCEPT !.task = "submit"]) /\ UNCHANGED <<spent, ghost>>

(* The form is parsed and submitted; the answer to it is not looked at. *)
Submitted == /\ login.task = "submit" /\ radio.status = "connected"
             /\ LoginStep([login EXCEPT !.task = "reprobe"]) /\ UNCHANGED <<spent, ghost>>
ReprobeOpen == /\ login.task = "reprobe" /\ radio.status = "connected"
               /\ LoginStep(Finishing(TRUE)) /\ UNCHANGED <<spent, ghost>>

(* No answer, no form, a form that cannot be submitted, still a portal. *)
LoginFails == /\ login.task \in {"fetch", "submit", "reprobe"}
              /\ LoginStep(Finishing(FALSE)) /\ UNCHANGED <<spent, ghost>>

(* Mutant of Finished: the edge is raised before the verdict is there.        *)
FinishedEarly == IF login.task = "finish" THEN [login EXCEPT !.edge = TRUE, !.task = "edge"]
                 ELSE [login EXCEPT !.joined = login.result, !.task = "end"]
(* finish(): the verdict, the edge, and running_ last. *)
Finished == IF login.task = "finish" THEN [login EXCEPT !.joined = login.result, !.task = "edge"]
            ELSE [login EXCEPT !.edge = TRUE, !.task = "end"]
Finish == /\ login.task \in {"finish", "edge"} /\ LoginStep(Finished)
          /\ ghost' = IF login.task = "edge" THEN [ghost EXCEPT !.login = login.result] ELSE ghost
          /\ UNCHANGED spent
FinishEnd == /\ login.task = "end" /\ LoginStep([login EXCEPT !.task = "none"])
             /\ UNCHANGED <<spent, ghost>>

LoginRun == \/ FetchRedirected \/ FetchOpen \/ FetchPage \/ Submitted
            \/ ReprobeOpen \/ LoginFails \/ Finish \/ FinishEnd
=============================================================================
