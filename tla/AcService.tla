------------------------------ MODULE AcService ------------------------------
(* src/src/service/AcService.cpp: the acsvc task that owns the AC session.    *)
(* Every tick it takes one command off the queue and makes one pass           *)
(* (serviceSession()).  A pass is a continuation, task.work: each action here *)
(* takes its first step and puts in its place the steps that follow from it,  *)
(* so that the main loop, the AC and the link run between any two steps.      *)
EXTENDS AcMainLoop, AcDevice

At(step) == task.work # <<>> /\ Head(task.work) = step

Then(t, steps) == [t EXCEPT !.work = steps \o Tail(@)]
Done(t) == Then(t, <<>>)
Finish(t) == [t EXCEPT !.work = <<>>]

(* What a step of the task leaves alone. *)
Do(t, sh, l) == /\ task' = t /\ shared' = sh /\ link' = l
                /\ UNCHANGED <<ui, queue, dev>>
Plain == UNCHANGED <<spent, ghost>>

(* scheduleRetry() *)
Retry(t) == [t EXCEPT !.retry = TRUE]

Closed == [link EXCEPT !.open = FALSE, !.peer = FALSE, !.expired = FALSE,
                       !.requests = <<>>, !.inbound = <<>>]

-----------------------------------------------------------------------------
(* Publishing. *)

(* Mutant of Published: only the first state is announced. *)
PublishedOnce(sh, s) ==
  [sh EXCEPT !.state = s, !.received = TRUE, !.changed = @ \/ ~sh.received,
             !.sessionUp = TRUE, !.reach = @ \/ ~sh.sessionUp]

(* publishState(): the repaint edge only for what the UI shows. *)
Published(sh, s) ==
  [sh EXCEPT !.state = s, !.received = TRUE,
             !.changed = @ \/ ~sh.received \/ Shown(s) # Shown(sh.state),
             !.sessionUp = TRUE, !.reach = @ \/ ~sh.sessionUp]

(* The first state seen while locked arms the target. *)
Armed(t, s) == IF t.lockOn /\ t.target = None THEN [t EXCEPT !.target = s] ELSE t

(* applyProperties() *)
Merged(sh, on) ==
  LET new == [k \in Kinds |-> IF on[k] = None THEN sh.props[k] ELSE on[k]]
  IN [sh EXCEPT !.props = new, !.propsEdge = @ \/ new # sh.props]

(* The property rows the capabilities offer. *)
Offered == CASE shared.caps = "none" -> {}
             [] shared.caps = "base" -> BaseKinds
             [] shared.caps = "full" -> BaseKinds \cup MoreKinds

(* Mutant of Pending: a toggle alone is not work. *)
PendingValues(t) == t.set # None \/ t.props # Unknown

Pending(t) == t.set # None \/ t.props # Unknown \/ t.toggle

-----------------------------------------------------------------------------
(* run(): one command, or none within the tick, and then a pass. *)

Accepted(c) ==
  CASE c.kind = "set" ->
         IF ui.lock   \* buttonLockEnabled(): every edit moves the lock target
         THEN [task EXCEPT !.set = c.st, !.target = c.st, !.strikes = 0]
         ELSE [task EXCEPT !.set = c.st]
    [] c.kind = "toggle" -> [task EXCEPT !.toggle = TRUE]
    [] c.kind = "prop" -> [task EXCEPT !.props[c.prop] = c.on]

Receive ==
  /\ task.work = <<>> /\ queue # <<>>
  /\ task' = [Accepted(Head(queue)) EXCEPT !.work = <<"begin">>]
  /\ queue' = Tail(queue)
  /\ UNCHANGED <<ui, shared, link, dev, spent, ghost>>

(* Mutants of Navigated: the screen left is looked at instead of the one      *)
(* entered; a screen that does not poll is ignored.                           *)
NavigatedFrom(t) == IF shared.mode = t.mode THEN t
                    ELSE IF t.mode = "none" THEN [t EXCEPT !.mode = "none"]
                    ELSE [t EXCEPT !.mode = shared.mode, !.poll = FALSE, !.retry = FALSE]
NavigatedAwake(t) == IF shared.mode \in {t.mode, "none"} THEN t
                     ELSE [t EXCEPT !.mode = shared.mode, !.poll = FALSE, !.retry = FALSE]

(* takePollMode(): entering a polling mode polls at once and skips backoff. *)
Navigated(t) == IF shared.mode = t.mode THEN t
                ELSE IF shared.mode = "none" THEN [t EXCEPT !.mode = "none"]
                ELSE [t EXCEPT !.mode = shared.mode, !.poll = FALSE, !.retry = FALSE]

(* updateButtonLockMode(): either transition drops the target. *)
LockRead(t) == IF ui.lock = t.lockOn THEN t
               ELSE [t EXCEPT !.lockOn = ui.lock, !.target = None, !.strikes = 0]

(* A pass begins after a command, or when none came within the tick. *)
Begin ==
  /\ At("begin") \/ (task.work = <<>> /\ queue = <<>>)
  /\ Plain
  /\ LET up == link.wifi /\ Alive
     IN Do([LockRead(Navigated(task)) EXCEPT !.work = <<"link">>],
           [shared EXCEPT !.sessionUp = up, !.reach = @ \/ up # shared.sessionUp],  \* updateSessionFlags()
           link)

(* What the pass polls: a lock polls the state with no screen open. *)
Polls == IF task.lockOn /\ task.mode = "none" THEN "state" ELSE task.mode

(* Without WiFi the session is closed and nothing else happens. *)
LinkWithoutWifi == /\ At("link") /\ ~link.wifi /\ Plain
                   /\ Do(Finish(task), shared, IF Alive THEN Closed ELSE link)

LinkWithWifi ==
  /\ At("link") /\ link.wifi /\ Plain
  /\ LET t == IF shared.resync THEN [task EXCEPT !.fast = TRUE, !.poll = FALSE] ELSE task
         sh == [shared EXCEPT !.resync = FALSE]   \* consumeResyncEdge()
         active == Polls # "none" \/ Pending(t) \/ t.fast
     IN CASE Alive /\ active /\ link.expired -> Do(Then(t, <<"open">>), sh, Closed)
          [] Alive /\ active /\ ~link.expired ->
               Do([Then(t, <<"drain", "dispatch">>) EXCEPT !.burst = Burst], sh, link)
          [] Alive /\ ~active ->
               Do([Then(t, <<"drainQuietly">>) EXCEPT !.burst = Burst], sh, link)
          [] ~Alive /\ active -> Do(Then(t, <<"open">>), sh, link)
          [] ~Alive /\ ~active -> Do(Finish(t), sh, link)

-----------------------------------------------------------------------------
(* drainPushes(): what the AC pushed, a burst of it at most. *)

Draining == At("drain") \/ At("drainQuietly")

Drained == /\ Draining /\ Plain
           /\ link.inbound = <<>> \/ task.burst = 0
           /\ Do(Done([task EXCEPT !.burst = 0]), shared, link)

DrainFrame ==
  /\ Draining /\ Plain /\ task.burst > 0 /\ Alive /\ link.inbound # <<>>
  /\ LET f == Head(link.inbound)
         t == [task EXCEPT !.burst = @ - 1]
         l == [link EXCEPT !.inbound = Tail(@)]
     IN /\ f.kind # "corrupt"
        /\ IF f.kind = "state" THEN Do(Armed(t, f.st), Published(shared, f.st), l)
           ELSE Do(t, shared, l)

(* A failed read ends the session and the pass; quietly in passive mode. *)
DrainFails ==
  /\ Draining /\ Plain /\ task.burst > 0 /\ link.inbound # <<>>
  /\ ~Alive \/ Head(link.inbound).kind = "corrupt"
  /\ LET t == [Finish(task) EXCEPT !.burst = 0]
     IN Do(IF At("drainQuietly") THEN t ELSE Retry(t), shared, Closed)

-----------------------------------------------------------------------------
(* What a pass does with the session: commands, else the lock, else a poll.   *)
(* Deadlines are only read by the next pass; where the code sets one again    *)
(* after the last answer, it is set here with the first request.              *)

Commands == (IF task.set # None THEN <<"set">> ELSE <<>>)
              \o (IF task.props # Unknown THEN <<"setProps">> ELSE <<>>)
              \o (IF task.toggle THEN <<"toggle">> ELSE <<>>)

(* applyButtonLock() *)
Differs == /\ task.lockOn /\ task.target # None /\ shared.received
           /\ Locked(shared.state) # Locked(task.target)
Converged == /\ task.lockOn /\ task.target # None /\ shared.received
             /\ Locked(shared.state) = Locked(task.target)
(* Mutant of Override: one strike too many. *)
OverrideOnceMore == Differs /\ task.strikes <= LockMaxStrikes /\ ~task.revert

Override == Differs /\ task.strikes < LockMaxStrikes /\ ~task.revert

(* Mutant of Struck: the strike is not counted. *)
StruckFreely == [task EXCEPT !.revert = TRUE, !.set = task.target]

Struck == [task EXCEPT !.strikes = @ + 1, !.revert = TRUE, !.set = task.target]

(* The groups pollModeExtras() asks for. *)
Rounds == CASE Polls = "power" -> PowerGroups
            [] Polls = "all" -> AllGroups
            [] OTHER -> <<>>
PollSteps == IF Rounds = <<>> THEN <<"pull">> ELSE <<"pull", "extras">>

(* A live session polls when its slot comes, a fresh one at once; either way  *)
(* the next slot is booked.                                                   *)
Dispatching == At("dispatch") \/ At("first")
Booked(t) == IF At("first") THEN [t EXCEPT !.poll = TRUE] ELSE t

DispatchCommands == /\ Dispatching /\ Pending(task) /\ Plain
                    /\ Do(Then(Booked(task), Commands), shared, link)

DispatchOverride == /\ Dispatching /\ ~Pending(task) /\ Override
                    /\ Do(Done(Booked(Struck)), shared, link)
                    /\ ghost' = [ghost EXCEPT !.sets = @ + 1] /\ UNCHANGED spent

DispatchPoll ==
  /\ Dispatching /\ ~Pending(task) /\ ~Override /\ Plain
  /\ LET t == IF Converged THEN [task EXCEPT !.strikes = 0] ELSE task
     IN IF At("dispatch") /\ t.poll THEN Do(Done(t), shared, link)
        ELSE Do(Then([t EXCEPT !.poll = TRUE], PollSteps), shared, link)

-----------------------------------------------------------------------------
(* Opening a session. *)

InBackoff == At("open") /\ task.retry /\ Do(Finish(task), shared, link) /\ Plain

OpenFails == /\ At("open") /\ ~task.retry
             /\ Do([Finish(task) EXCEPT !.retry = TRUE], shared, Closed)
             /\ UNCHANGED ghost /\ IF link.wifi THEN Fault ELSE UNCHANGED spent

Open == /\ At("open") /\ ~task.retry /\ link.wifi /\ Plain
        /\ Do(Then(task, (IF task.capsKnown THEN <<>> ELSE <<"getCaps", "checkLink">>)
                           \o <<"getProps", "first">>),
              shared, [Closed EXCEPT !.open = TRUE, !.peer = TRUE])

CheckLink == /\ At("checkLink") /\ Plain
             /\ Do(IF Alive THEN Done(task) ELSE Finish(task), shared, link)

-----------------------------------------------------------------------------
(* Requests.  sendFrame() fails on a dead link only. *)

Sent(r) == [link EXCEPT !.requests = Append(@, r)]

(* Send r and go on with ok, or with what a failed send leads to. *)
Send(step, r, t, ok, failed) ==
  /\ At(step)
  /\ IF Alive THEN Do(Then(t, ok), shared, Sent(r)) ELSE Do(Then(t, failed), shared, link)

GetCaps(step, read) ==
  /\ At(step) /\ Plain
  /\ IF Alive THEN Do(Then(task, <<read>>), shared, Sent([kind |-> "caps"]))
     ELSE Do(Retry(IF step = "getMore" THEN [Done(task) EXCEPT !.capsKnown = TRUE] ELSE Done(task)),
             IF step = "getMore" THEN [shared EXCEPT !.caps = "base"] ELSE shared, Closed)

(* fetchPropertiesOnce(): the properties the capabilities offer, if any. *)
SkipGetProps == At("getProps") /\ Offered = {} /\ Do(Done(task), shared, link) /\ Plain
GetProps == /\ Offered # {} /\ Plain
            /\ Send("getProps", [kind |-> "getProps", ask |-> Offered], task,
                    <<"readProps">>, <<>>)

(* The fast poll window every command opens. *)
Window(t) == [t EXCEPT !.fast = TRUE, !.poll = TRUE]

(* sendPendingProps(): cleared before they are sent, gated by capabilities. *)
SetProps ==
  /\ At("setProps") /\ Plain
  /\ LET on == [k \in Kinds |-> IF k \in Offered \cup {BeepKind} THEN task.props[k] ELSE None]
         t == [task EXCEPT !.props = Unknown]
     IN IF on = Unknown THEN Do(Done(t), shared, link)
        ELSE Send("setProps", [kind |-> "setProps", on |-> on], Window(t),
                  <<"readPropsAck", "getProps">>, <<"getProps">>)

(* sendPendingSetState() and sendToggleDisplay(): likewise. *)
SetState ==
  /\ ghost' = [ghost EXCEPT !.sets = @ - 1]
  /\ UNCHANGED spent
  /\ Send("set", [kind |-> "set", st |-> task.set], Window([task EXCEPT !.set = None]),
          <<"readAck", "pull">>, <<"pull">>)

(* Mutant of ToggleSent: a toggle whose send failed is kept. *)
ToggleKept ==
  /\ ghost' = [ghost EXCEPT !.toggles = @ - 1] /\ UNCHANGED spent
  /\ Send("toggle", [kind |-> "toggle"], Window([task EXCEPT !.toggle = ~Alive]),
          <<"pull">>, <<"pull">>)

ToggleSent ==
  /\ ghost' = [ghost EXCEPT !.toggles = @ - 1] /\ UNCHANGED spent
  /\ Send("toggle", [kind |-> "toggle"], Window([task EXCEPT !.toggle = FALSE]),
          <<"pull">>, <<"pull">>)

(* pullStateOnce(): a dead link, or too many silent answers, end the session. *)
PullEnds(r) ==
  IF r # "timeout" \/ task.timeouts + 1 = MaxPollTimeouts
  THEN Do(Retry([Done(task) EXCEPT !.timeouts = 0]), shared, Closed)
  ELSE Do([Done(task) EXCEPT !.timeouts = @ + 1], shared, link)

Pull == /\ At("pull") /\ Plain
        /\ IF Alive THEN Do(Then(task, <<"readState">>), shared, Sent([kind |-> "getState"]))
           ELSE PullEnds("linkdown")

-----------------------------------------------------------------------------
(* Reads. *)

Wanted == [readAck |-> "state", readState |-> "state", readProps |-> "props",
           readPropsAck |-> "propsAck", readCaps |-> "caps", readMore |-> "caps",
           readGroup |-> "group"]

Reading == task.work # <<>> /\ Head(task.work) \in Reads
Arrived == Reading /\ Alive /\ link.inbound # <<>> /\ Head(link.inbound).kind # "corrupt"
Front == Head(link.inbound)
Behind == [link EXCEPT !.inbound = Tail(@)]

(* Another frame than the awaited one: a state is published, the rest passed  *)
(* over.                                                                      *)
SkipFrame ==
  /\ Arrived /\ Front.kind # Wanted[Head(task.work)] /\ Plain
  /\ IF Front.kind = "state" THEN Do(Armed(task, Front.st), Published(shared, Front.st), Behind)
     ELSE Do(task, shared, Behind)

Awaited(step) == At(step) /\ Arrived /\ Front.kind = Wanted[step] /\ Plain

ReadAck == Awaited("readAck")
           /\ Do(Done(Armed(task, Front.st)), Published(shared, Front.st), Behind)
ReadState == Awaited("readState")
             /\ Do([Done(Armed(task, Front.st)) EXCEPT !.timeouts = 0],
                   Published(shared, Front.st), Behind)
ReadProps == Awaited("readProps") /\ Do(Done(task), Merged(shared, Front.on), Behind)
ReadPropsAck == Awaited("readPropsAck") /\ Do(Done(task), shared, Behind)

Known(t) == [t EXCEPT !.capsKnown = TRUE]
ReadCaps == /\ Awaited("readCaps")
            /\ IF MoreKinds # {} THEN Do(Then(task, <<"getMore">>), shared, Behind)
               ELSE Do(Known(Done(task)), [shared EXCEPT !.caps = "full"], Behind)
ReadMore == Awaited("readMore")
            /\ Do(Known(Done(task)), [shared EXCEPT !.caps = "full"], Behind)

(* How a read fails, and what that leaves of the link: a packet that cannot   *)
(* be decoded stays in the buffer, one of an impossible size is dropped.      *)
ReadFails(r, l) ==
  /\ Reading /\ UNCHANGED ghost
  /\ \/ r = "linkdown" /\ ~Alive /\ l = link /\ UNCHANGED spent
     \/ /\ r = "protocol" /\ Alive /\ link.inbound # <<>> /\ Front.kind = "corrupt"
        /\ l \in {link, Behind} /\ UNCHANGED spent
     \/ /\ r = "timeout" /\ Alive /\ link.inbound = <<>> /\ l = link
        /\ IF link.wifi /\ link.requests # <<>> THEN Fault ELSE UNCHANGED spent

Failed(step, r) ==
  \E l \in {link} \cup (IF link.inbound = <<>> THEN {} ELSE {Behind}) :
    /\ At(step) /\ ReadFails(r, l)
    /\ CASE step \in {"readAck", "readProps", "readPropsAck"} -> Do(Done(task), shared, l)
         [] step = "readState" -> PullEnds(r)
         [] step = "readCaps" -> IF r = "timeout" THEN Do(Done(task), shared, l)
                                 ELSE Do(Retry(Done(task)), shared, Closed)
         [] step = "readMore" ->   \* the base page alone is kept
              LET sh == [shared EXCEPT !.caps = "base"]
              IN IF r = "timeout" THEN Do(Known(Done(task)), sh, l)
                 ELSE Do(Known(Retry(Done(task))), sh, Closed)
         [] step = "readGroup" ->
              IF r = "timeout" THEN Do(Then([task EXCEPT !.left = Tail(@)], <<"group">>), shared, l)
              ELSE Do(Then(task, <<"endRound">>), shared, l)

-----------------------------------------------------------------------------
(* pollModeExtras() and pollGroups(). *)

Extras == /\ At("extras") /\ Plain
          /\ IF Alive THEN Do(Then([task EXCEPT !.left = Rounds], <<"group">>), shared, link)
             ELSE Do(Done(task), shared, link)

Group == /\ At("group") /\ Plain
         /\ IF task.left # <<>> /\ Alive
            THEN Do(Then(task, <<"readGroup">>), shared,
                    Sent([kind |-> "group", group |-> Head(task.left)]))
            ELSE Do(Then([task EXCEPT !.left = <<>>], <<"endRound">>), shared, link)

(* Any group's answer is recorded; the one asked for ends the wait. *)
ReadGroup ==
  /\ Awaited("readGroup")
  /\ Do(IF Front.group = Head(task.left)
        THEN Then([task EXCEPT !.left = Tail(@)], <<"group">>) ELSE task,
        [shared EXCEPT !.ext[Front.group] = Front.on], Behind)

(* Mutant of EndRound: a quiet round takes back the edge of the one before. *)
EndRoundAnew == /\ At("endRound") /\ Plain
                /\ Do(Done([task EXCEPT !.left = <<>>, !.shown = shared.ext]),
                      [shared EXCEPT !.extEdge = shared.ext # task.shown], link)

(* The edge is raised once a round, and only when a number moved. *)
EndRound == /\ At("endRound") /\ Plain
            /\ Do(Done([task EXCEPT !.left = <<>>, !.shown = shared.ext]),
                  [shared EXCEPT !.extEdge = @ \/ shared.ext # task.shown], link)

-----------------------------------------------------------------------------
(* A deadline passes.  A pass reads each deadline once, so that it is enough  *)
(* to let them pass between two passes.                                       *)
Passes(timer) == /\ task.work = <<>> /\ task[timer] /\ Plain
                 /\ Do([task EXCEPT ![timer] = FALSE], shared, link)

Timers == {"retry", "poll", "fast", "revert"}

ServiceStep ==
  \/ Receive \/ Begin \/ LinkWithoutWifi \/ LinkWithWifi
  \/ Drained \/ DrainFrame \/ DrainFails
  \/ DispatchCommands \/ DispatchOverride \/ DispatchPoll
  \/ InBackoff \/ OpenFails \/ Open \/ CheckLink
  \/ GetCaps("getCaps", "readCaps") \/ GetCaps("getMore", "readMore")
  \/ SkipGetProps \/ GetProps \/ SetProps \/ SetState \/ ToggleSent \/ Pull
  \/ SkipFrame \/ ReadAck \/ ReadState \/ ReadProps \/ ReadPropsAck
  \/ ReadCaps \/ ReadMore
  \/ \E step \in Reads, r \in {"timeout", "linkdown", "protocol"} : Failed(step, r)
  \/ Extras \/ Group \/ ReadGroup \/ EndRound

(* Everything but the screen, from which nothing but the base of a later edit *)
(* comes back: the runs on liveness leave it out.                             *)
SessionNext == \/ ServiceStep \/ \E timer \in Timers : Passes(timer)
               \/ UserStep \/ Notify
               \/ DeviceAnswers \/ Surroundings \/ WifiReturns

Next == SessionNext \/ Paint

Spec == Init /\ [][Next]_vars

(* Time passes: the task ticks, a call returns by its deadline and timers run *)
(* out; WifiService keeps reconnecting; an AC that is reached answers, but    *)
(* for the requests MaxFaults lets it ignore.                                 *)
Fairness == /\ WF_vars(ServiceStep) /\ WF_vars(Notify)
            /\ WF_vars(DeviceAnswers) /\ WF_vars(WifiReturns)
            /\ \A timer \in Timers : SF_vars(Passes(timer))

SessionSpec == Init /\ [][SessionNext]_vars /\ Fairness

-----------------------------------------------------------------------------
(* Properties. *)

(* The e-ink screen is repainted on edges only, and each edge is consumed in  *)
(* another critical section than the data it announces: still, what is on the *)
(* screen (the state, the stale indicator, the property rows) is what the     *)
(* service knows, or an edge or a repaint is on its way.                      *)
NoMissedRepaint ==
  /\ shared.received => \/ shared.changed \/ ui.todo = "paint"
                        \/ ui.painted = Shown(shared.state)
  /\ shared.reach \/ ui.todo = "paintLink" \/ ui.up = shared.sessionUp
  /\ shared.propsEdge \/ ui.todo = "paintProps" \/ ui.props = shared.props

(* The same of the Dashboard's power reading, group 7, whose edge waits for   *)
(* the end of the round: while the Dashboard shows, a reading that arrives is *)
(* painted, or announced when its round ends.  One reading may stay unpainted *)
(* and the clause before the last says which: the one the repaint gate        *)
(* remembers (main.cpp:461), as it asks for a frame only when the reading is  *)
(* another, and frames drawn for other reasons do not move it.  It does not   *)
(* hold of a round of several groups: README, "What is not claimed".          *)
NoMissedReading ==
  shared.mode = "power" =>
    \/ shared.extEdge \/ ui.todo \in {"paintExt", "draw"}
    \/ PowerOf(ui.ext) = PowerOf(shared.ext)
    \/ PowerOf(shared.ext) = ui.drawn
    \/ At("group") \/ At("readGroup") \/ At("endRound")

(* Whatever fails, is retried or coalesced, the AC is never sent a display    *)
(* toggle more often than the user asked for one, nor a SetState that neither *)
(* the user nor the lock asked for: a toggle sent twice is a toggle undone.   *)
AtMostOnce == ghost.toggles >= 0 /\ ghost.sets >= 0

(* "every queued command is a complete desired state (the UI composes from    *)
(* its accumulated edits)" (AcService.cpp:320): of two edits in the queue, the *)
(* later one carries the earlier one along.                                   *)
CommandsAccumulate ==
  \A i, j \in DOMAIN queue :
    /\ i < j /\ queue[i].kind = "set" /\ queue[j].kind = "set"
    /\ queue[i].field # queue[j].field
    => queue[j].st[queue[i].field] = queue[i].st[queue[i].field]

(* "changing a value on the Control screen moves the lock target to the new   *)
(* state" (USER_MANUAL.md:294): the lock does not override the AC with        *)
(* another state than the one the user chose since turning it on.             *)
LockFollowsUser ==
  (/\ Dispatching /\ ~Pending(task) /\ Override /\ ghost.wish # None
   /\ \A i \in DOMAIN queue : queue[i].kind # "set")
    => Locked(task.target) = Locked(ghost.wish)

(* While a screen polls, the published state becomes the AC's and stays so,   *)
(* whatever frames were lost, late or passed over on the way.                 *)
EventuallyFresh ==
  <>[](shared.mode # "none") => <>[](shared.received /\ shared.state = dev.state)

(* No command stays behind in the queue or in a pending slot.                 *)
NothingStranded ==
  []<>(queue = <<>> /\ task.set = None /\ task.props = Unknown /\ ~task.toggle)

(* "plain kNone is passive" (AcService.cpp:385): with no screen polling and   *)
(* the lock off the service, in the end, leaves the AC alone.                 *)
GoesQuiet ==
  <>[](shared.mode = "none" /\ ~ui.lock)
    => <>[](link.requests = <<>> /\ ~At("open"))

(* A lock that stays on wins against the remote or gives up after its strikes *)
(* (AcService.h): it neither forgets its target nor goes on forever.          *)
LockSettles ==
  <>[]ui.lock => <>[](/\ task.target # None
                      /\ \/ Locked(dev.state) = Locked(task.target)
                         \/ task.strikes = LockMaxStrikes)
=============================================================================
