--------------------------- MODULE AcServiceProofs ---------------------------
(* Proofs about AcService, for every value of its constants. *)
EXTENDS AcService, SequenceTheorems, TLAPS

-----------------------------------------------------------------------------
(* The continuation.  Whatever waits behind the step at hand is one of Later: *)
(* reads and the steps that need something prepared are only ever at the      *)
(* front.                                                                     *)
Later == {"dispatch", "checkLink", "getProps", "first", "setProps", "toggle",
          "pull", "extras"}

Works == {w \in Seq(Step) : w # <<>> => Tail(w) \in Seq(Later)}

LEMMA LaterSteps == Later \subseteq Step
BY DEF Later, Step, Reads

LEMMA HeadTailOfJoin ==
  ASSUME NEW S, NEW s \in Seq(S), s # <<>>, NEW t \in Seq(S)
  PROVE  s \o t # <<>> /\ Head(s \o t) = Head(s) /\ Tail(s \o t) = Tail(s) \o t
<1>1. /\ s \o t \in Seq(S) /\ Len(s \o t) = Len(s) + Len(t) /\ Len(s) > 0
      /\ \A i \in 1..(Len(s) + Len(t)) :
           (s \o t)[i] = IF i <= Len(s) THEN s[i] ELSE t[i - Len(s)]
  BY ConcatProperties, EmptySeq
<1>2. s \o t # <<>> /\ Head(s \o t) = Head(s)
  BY <1>1
<1>3. /\ Tail(s \o t) \in Seq(S) /\ Tail(s) \o t \in Seq(S)
      /\ Len(Tail(s \o t)) = Len(Tail(s) \o t)
  BY <1>1, <1>2, HeadTailProperties, ConcatProperties
<1>4. ASSUME NEW i \in 1..Len(Tail(s \o t))
      PROVE  Tail(s \o t)[i] = (Tail(s) \o t)[i]
  BY <1>1, <1>2, HeadTailProperties, ConcatProperties
<1> QED BY <1>2, <1>3, <1>4, SeqEqual

(* Putting steps in front of what waits leaves a continuation. *)
LEMMA WorksJoin ==
  ASSUME NEW steps \in Works, NEW rest \in Seq(Later)
  PROVE  /\ steps \o rest \in Works
         /\ steps # <<>> => steps \o rest # <<>> /\ Head(steps \o rest) = Head(steps)
         /\ steps = <<>> => steps \o rest = rest
<1>1. rest \in Seq(Step)
  BY LaterSteps
<1>2. steps \in Seq(Step)
  BY DEF Works
<1>3. CASE steps = <<>>
  <2>1. steps \o rest = rest
    BY <1>1, <1>3, ConcatEmptySeq
  <2>2. rest # <<>> => Tail(rest) \in Seq(Later)
    BY HeadTailProperties
  <2> QED BY <1>1, <1>3, <2>1, <2>2 DEF Works
<1>4. CASE steps # <<>>
  <2>1. Tail(steps) \in Seq(Later)
    BY <1>4 DEF Works
  <2>2. steps \o rest \in Seq(Step)
    BY <1>1, <1>2
  <2>3. /\ steps \o rest # <<>>
        /\ Head(steps \o rest) = Head(steps)
        /\ Tail(steps \o rest) = Tail(steps) \o rest
    BY <1>1, <1>2, <1>4, HeadTailOfJoin
  <2>4. Tail(steps) \o rest \in Seq(Later)
    BY <2>1
  <2> QED BY <1>4, <2>2, <2>3, <2>4 DEF Works
<1> QED BY <1>3, <1>4

LEMMA NoSteps == <<>> \in Works
BY DEF Works

LEMMA OneStep ==
  ASSUME NEW s \in Step
  PROVE  <<s>> \in Works /\ <<s>> # <<>> /\ Head(<<s>>) = s
<1>1. <<s>> \in Seq(Step) /\ <<s>> # <<>> /\ Head(<<s>>) = s /\ Len(<<s>>) = 1
  OBVIOUS
<1>2. Tail(<<s>>) = <<>>
  BY <1>1, HeadTailProperties, EmptySeq
<1>3. <<>> \in Seq(Later)
  OBVIOUS
<1> QED BY <1>1, <1>2, <1>3 DEF Works

LEMMA TwoSteps ==
  ASSUME NEW s \in Step, NEW l \in Later
  PROVE  <<s, l>> \in Works /\ <<s, l>> # <<>> /\ Head(<<s, l>>) = s
<1>1. /\ <<s, l>> \in Seq(Step) /\ <<s, l>> # <<>> /\ Head(<<s, l>>) = s
      /\ Len(<<s, l>>) = 2
  BY LaterSteps
<1>2. Tail(<<s, l>>) = <<l>>
  BY <1>1
<1>3. <<l>> \in Seq(Later)
  OBVIOUS
<1> QED BY <1>1, <1>2, <1>3 DEF Works

-----------------------------------------------------------------------------
(* The members of the task: their types, and what the step at hand relies on. *)
Good(t) == /\ t \in TaskType /\ t.work \in Works
           /\ t.work # <<>> /\ Head(t.work) = "set" => t.set # None
           /\ t.work # <<>> /\ Head(t.work) = "readGroup" => t.left # <<>>

LEMMA Continues ==
  ASSUME NEW t \in TaskType, t.work \in Works, t.work # <<>>, NEW steps \in Works,
         steps # <<>> /\ Head(steps) = "set" => t.set # None,
         steps # <<>> /\ Head(steps) = "readGroup" => t.left # <<>>
  PROVE  Good(Then(t, steps))
<1> DEFINE rest == Tail(t.work)
           w == steps \o rest
<1>1. rest \in Seq(Later)
  BY DEF Works
<1>2. /\ w \in Works
      /\ steps # <<>> => w # <<>> /\ Head(w) = Head(steps)
      /\ steps = <<>> => w = rest
  BY <1>1, WorksJoin
<1>3. w # <<>> /\ steps = <<>> => Head(w) \in Later
  BY <1>1, <1>2, HeadTailProperties
<1>4. w \in Seq(Step)
  BY <1>2 DEF Works
<1>5. Then(t, steps) = [t EXCEPT !.work = w]
  BY DEF Then
<1> HIDE DEF w, rest
<1>6. /\ Then(t, steps) \in TaskType /\ Then(t, steps).work = w
      /\ Then(t, steps).set = t.set /\ Then(t, steps).left = t.left
  BY <1>4, <1>5 DEF TaskType
<1> QED BY <1>2, <1>3, <1>6 DEF Good, Later

LEMMA Pops ==
  ASSUME NEW t \in TaskType, t.work \in Works, t.work # <<>>
  PROVE  Good(Done(t))
BY NoSteps, Continues DEF Done

LEMMA Ends ==
  ASSUME NEW t \in TaskType
  PROVE  Good(Finish(t))
<1>1. Finish(t) = [t EXCEPT !.work = <<>>] /\ <<>> \in Seq(Step)
  BY DEF Finish
<1>2. Finish(t) \in TaskType /\ Finish(t).work = <<>>
  BY <1>1 DEF TaskType
<1> QED BY <1>2, NoSteps DEF Good

(* What is left alone but for the work keeps what the work relies on. *)
LEMMA Stays ==
  ASSUME NEW t, Good(t), NEW u \in TaskType, u.work = t.work,
         u.set = t.set, u.left = t.left
  PROVE  Good(u)
BY DEF Good

LEMMA PublishedType ==
  ASSUME NEW sh \in SharedType, NEW s \in AcState
  PROVE  Published(sh, s) \in SharedType
BY DEF Published, SharedType

LEMMA ArmedGood ==
  ASSUME NEW t, Good(t), NEW s \in AcState
  PROVE  Good(Armed(t, s)) /\ Armed(t, s).work = t.work
<1>1. t \in TaskType
  BY DEF Good
<1>2. CASE Armed(t, s) = t
  BY <1>2
<1>3. CASE Armed(t, s) = [t EXCEPT !.target = s]
  <2>1. /\ Armed(t, s) \in TaskType /\ Armed(t, s).work = t.work
        /\ Armed(t, s).set = t.set /\ Armed(t, s).left = t.left
    BY <1>1, <1>3 DEF TaskType
  <2> QED BY <2>1, Stays
<1> QED BY <1>2, <1>3 DEF Armed

LEMMA MergedType ==
  ASSUME NEW sh \in SharedType, NEW on \in PropValues
  PROVE  Merged(sh, on) \in SharedType
<1> DEFINE new == [k \in Kinds |-> IF on[k] = None THEN sh.props[k] ELSE on[k]]
<1>1. new \in PropValues
  BY DEF PropValues, SharedType
<1>2. Merged(sh, on) = [sh EXCEPT !.props = new, !.propsEdge = @ \/ new # sh.props]
  BY DEF Merged
<1> HIDE DEF new
<1> QED BY <1>1, <1>2 DEF SharedType

LEMMA FrameFields ==
  ASSUME NEW f \in Frame
  PROVE  /\ f.kind = "state" => f.st \in AcState
         /\ f.kind = "props" => f.on \in PropValues
         /\ f.kind = "group" => f.group \in Groups /\ f.on \in BOOLEAN
BY DEF Frame

LEMMA LinkFront ==
  ASSUME link \in LinkType, link.inbound # <<>>
  PROVE  Front \in Frame /\ Behind \in LinkType
<1>1. link.inbound \in Seq(Frame)
  BY DEF LinkType
<1>2. Head(link.inbound) \in Frame /\ Tail(link.inbound) \in Seq(Frame)
  BY <1>1, HeadTailProperties
<1> QED BY <1>2 DEF Front, Behind, LinkType

LEMMA SentType ==
  ASSUME link \in LinkType, NEW r \in Request
  PROVE  Sent(r) \in LinkType
<1>1. Append(link.requests, r) \in Seq(Request)
  BY DEF LinkType
<1> QED BY <1>1 DEF Sent, LinkType

LEMMA ClosedType ==
  ASSUME link \in LinkType
  PROVE  Closed \in LinkType
<1>1. <<>> \in Seq(Request) /\ <<>> \in Seq(Frame)
  OBVIOUS
<1> QED BY <1>1 DEF Closed, LinkType

(* The inductive invariant. *)
IInv == TypeOK /\ Good(task)

LEMMA TaskActs ==
  ASSUME IInv, NEW t, Good(t), NEW sh \in SharedType, NEW l \in LinkType,
         Do(t, sh, l), spent' \in SpentType, ghost' \in GhostType
  PROVE  IInv'
BY DEF IInv, TypeOK, Do, Good

-----------------------------------------------------------------------------
(* The steps of a pass keep it. *)

LEMMA CommandFields ==
  ASSUME NEW c \in Command
  PROVE  /\ c.kind \in {"set", "toggle", "prop"}
         /\ c.kind = "set" => c.st \in AcState
         /\ c.kind = "prop" => c.prop \in Kinds /\ c.on \in BOOLEAN
BY DEF Command

LEMMA PassStarts ==
  ASSUME NEW t \in TaskType, NEW s \in Step \ {"set", "readGroup"}
  PROVE  Good([t EXCEPT !.work = <<s>>])
<1> DEFINE w == <<s>>
<1>1. w \in Works /\ w # <<>> /\ Head(w) = s /\ w \in Seq(Step)
  BY OneStep DEF Works
<1> HIDE DEF w
<1>2. [t EXCEPT !.work = w] \in TaskType /\ [t EXCEPT !.work = w].work = w
  BY <1>1 DEF TaskType
<1>3. Good([t EXCEPT !.work = w])
  BY <1>1, <1>2 DEF Good
<1> QED BY <1>3 DEF w

LEMMA ReceiveStep == IInv /\ Receive => IInv'
<1> SUFFICES ASSUME IInv, Receive PROVE IInv'
  OBVIOUS
<1> DEFINE c == Head(queue)
<1>1. c \in Command /\ Tail(queue) \in Seq(Command) /\ Len(Tail(queue)) <= QueueDepth
  BY HeadTailProperties, AcAssumption DEF IInv, TypeOK, Receive
<1>2. Accepted(c) \in TaskType
  <2>1. task \in TaskType
    BY DEF IInv, TypeOK
  <2>2. CASE c.kind = "set"
    <3>1. c.st \in AcState /\ 0 \in 0..LockMaxStrikes
      BY <1>1, <2>2, CommandFields, AcAssumption
    <3>2. /\ [task EXCEPT !.set = c.st, !.target = c.st, !.strikes = 0] \in TaskType
          /\ [task EXCEPT !.set = c.st] \in TaskType
      BY <2>1, <3>1 DEF TaskType
    <3> QED BY <2>2, <3>2 DEF Accepted
  <2>3. CASE c.kind = "toggle"
    BY <2>1, <2>3 DEF Accepted, TaskType
  <2>4. CASE c.kind = "prop"
    <3>1. [task.props EXCEPT ![c.prop] = c.on] \in PropValues
      BY <1>1, <2>1, <2>4, CommandFields DEF TaskType, PropValues
    <3>2. Accepted(c) = [task EXCEPT !.props = [@ EXCEPT ![c.prop] = c.on]]
      BY <2>4 DEF Accepted
    <3> QED BY <2>1, <3>1, <3>2 DEF TaskType
  <2> QED BY <1>1, <2>2, <2>3, <2>4, CommandFields
<1>3. Good(task')
  BY <1>2, PassStarts DEF Receive, Step
<1> QED BY <1>1, <1>3 DEF IInv, TypeOK, Receive, Good

LEMMA BeginStep == IInv /\ Begin => IInv'
<1> SUFFICES ASSUME IInv, Begin PROVE IInv'
  OBVIOUS
<1>1. task \in TaskType /\ shared \in SharedType /\ link \in LinkType /\ ui \in UiType
  BY DEF IInv, TypeOK
<1>2. Navigated(task) \in TaskType
  <2>1. shared.mode \in PollModes /\ "none" \in PollModes
    BY <1>1 DEF SharedType, PollModes
  <2>2. /\ [task EXCEPT !.mode = "none"] \in TaskType
        /\ [task EXCEPT !.mode = shared.mode, !.poll = FALSE, !.retry = FALSE] \in TaskType
    BY <1>1, <2>1 DEF TaskType
  <2> QED BY <1>1, <2>2 DEF Navigated
<1>3. \A t \in TaskType : LockRead(t) \in TaskType
  <2> TAKE t \in TaskType
  <2>1. /\ ui.lock \in BOOLEAN /\ 0 \in 0..LockMaxStrikes
        /\ None \in AcState \cup {None}
    BY <1>1, AcAssumption DEF UiType
  <2>2. [t EXCEPT !.lockOn = ui.lock, !.target = None, !.strikes = 0] \in TaskType
    BY <2>1 DEF TaskType
  <2> QED BY <2>2 DEF LockRead
<1>4. Good([LockRead(Navigated(task)) EXCEPT !.work = <<"link">>])
  BY <1>2, <1>3, PassStarts DEF Step
<1>5. (link.wifi /\ Alive) \in BOOLEAN
  BY <1>1 DEF Alive, LinkType
<1>6. \A up \in BOOLEAN :
        [shared EXCEPT !.sessionUp = up, !.reach = @ \/ up # shared.sessionUp] \in SharedType
  BY <1>1 DEF SharedType
<1> QED BY <1>1, <1>4, <1>5, <1>6, TaskActs DEF Begin, Plain, IInv, TypeOK

(* At a step the work is not empty, and what the task relies on is there. *)
LEMMA AtFacts ==
  ASSUME IInv
  PROVE  /\ task \in TaskType /\ task.work \in Works /\ Good(task)
         /\ shared \in SharedType /\ link \in LinkType
         /\ spent \in SpentType /\ ghost \in GhostType
         /\ \A step \in Step : At(step) => task.work # <<>>
BY DEF IInv, TypeOK, Good, At

LEMMA LinkSteps ==
  ASSUME IInv, LinkWithoutWifi \/ LinkWithWifi
  PROVE  IInv'
<1> USE AtFacts
<1>0. task.work # <<>> /\ spent' \in SpentType /\ ghost' \in GhostType
  BY DEF At, LinkWithoutWifi, LinkWithWifi, Plain
<1>1. CASE LinkWithoutWifi
  BY <1>0, <1>1, Ends, ClosedType, TaskActs DEF LinkWithoutWifi
<1>2. CASE LinkWithWifi
  <2> DEFINE t == IF shared.resync THEN [task EXCEPT !.fast = TRUE, !.poll = FALSE] ELSE task
             sh == [shared EXCEPT !.resync = FALSE]
  <2>1. sh \in SharedType
    BY DEF SharedType
  <2>2. t \in TaskType /\ t.work = task.work /\ t.work # <<>>
    BY <1>0 DEF TaskType
  <2>3. PICK l \in {link, Closed}, u \in {Finish(t), Then(t, <<"open">>),
               [Then(t, <<"drain", "dispatch">>) EXCEPT !.burst = Burst],
               [Then(t, <<"drainQuietly">>) EXCEPT !.burst = Burst]} : Do(u, sh, l)
    BY <1>2 DEF LinkWithWifi
  <2> HIDE DEF t, sh
  <2>4. Good(Finish(t))
    BY <2>2, Ends
  <2>5. Good(Then(t, <<"open">>)) /\ Good(Then(t, <<"drainQuietly">>))
    BY <2>2, Continues, OneStep DEF Step
  <2>6. Good(Then(t, <<"drain", "dispatch">>))
    <3>1. "drain" \in Step /\ "dispatch" \in Later
      BY DEF Step, Later
    <3>2. /\ <<"drain", "dispatch">> \in Works
          /\ Head(<<"drain", "dispatch">>) = "drain"
      BY <3>1, TwoSteps
    <3> QED BY <2>2, <3>2, Continues
  <2>7. ASSUME NEW v, Good(v) PROVE Good([v EXCEPT !.burst = Burst])
    <3>1. v \in TaskType /\ Burst \in 0..Burst
      BY <2>7, AcAssumption DEF Good
    <3>2. /\ [v EXCEPT !.burst = Burst] \in TaskType
          /\ [v EXCEPT !.burst = Burst].work = v.work
          /\ [v EXCEPT !.burst = Burst].set = v.set
          /\ [v EXCEPT !.burst = Burst].left = v.left
      BY <3>1 DEF TaskType
    <3> QED BY <2>7, <3>2, Stays
  <2>8. Good(u)
    BY <2>3, <2>4, <2>5, <2>6, <2>7
  <2> QED BY <1>0, <2>1, <2>3, <2>8, ClosedType, TaskActs
<1> QED BY <1>1, <1>2

(* The members that nothing in the work relies on. *)
Same(u, t) == u.work = t.work /\ u.set = t.set /\ u.left = t.left

LEMMA Flagged ==
  ASSUME NEW t, Good(t)
  PROVE  /\ Good(Retry(t)) /\ Same(Retry(t), t)
         /\ Good(Window(t)) /\ Same(Window(t), t)
         /\ Good(Known(t)) /\ Same(Known(t), t)
         /\ Good([t EXCEPT !.poll = TRUE]) /\ Same([t EXCEPT !.poll = TRUE], t)
         /\ Good([t EXCEPT !.burst = 0]) /\ Same([t EXCEPT !.burst = 0], t)
         /\ Good([t EXCEPT !.timeouts = 0]) /\ Same([t EXCEPT !.timeouts = 0], t)
         /\ Good([t EXCEPT !.strikes = 0]) /\ Same([t EXCEPT !.strikes = 0], t)
<1>0. t \in TaskType
  BY DEF Good
<1>1. 0 \in 0..Burst /\ 0 \in 0..LockMaxStrikes /\ 0 \in 0..(MaxPollTimeouts - 1)
  BY AcAssumption
<1>2. Retry(t) \in TaskType /\ Same(Retry(t), t)
  BY <1>0 DEF Retry, TaskType, Same
<1>3. Window(t) \in TaskType /\ Same(Window(t), t)
  BY <1>0 DEF Window, TaskType, Same
<1>4. Known(t) \in TaskType /\ Same(Known(t), t)
  BY <1>0 DEF Known, TaskType, Same
<1>5. [t EXCEPT !.poll = TRUE] \in TaskType /\ Same([t EXCEPT !.poll = TRUE], t)
  BY <1>0 DEF TaskType, Same
<1>6. [t EXCEPT !.burst = 0] \in TaskType /\ Same([t EXCEPT !.burst = 0], t)
  BY <1>0, <1>1 DEF TaskType, Same
<1>7. [t EXCEPT !.timeouts = 0] \in TaskType /\ Same([t EXCEPT !.timeouts = 0], t)
  BY <1>0, <1>1 DEF TaskType, Same
<1>8. [t EXCEPT !.strikes = 0] \in TaskType /\ Same([t EXCEPT !.strikes = 0], t)
  BY <1>0, <1>1 DEF TaskType, Same
<1> QED BY <1>2, <1>3, <1>4, <1>5, <1>6, <1>7, <1>8, Stays DEF Same

LEMMA DrainSteps ==
  ASSUME IInv, Drained \/ DrainFrame \/ DrainFails
  PROVE  IInv'
<1> USE AtFacts
<1>0. task.work # <<>> /\ spent' \in SpentType /\ ghost' \in GhostType
  BY DEF At, Draining, Drained, DrainFrame, DrainFails, Plain
<1>1. CASE Drained
  <2>1. /\ [task EXCEPT !.burst = 0] \in TaskType
        /\ [task EXCEPT !.burst = 0].work \in Works
        /\ [task EXCEPT !.burst = 0].work # <<>>
    BY <1>0, Flagged DEF Same, Good
  <2> QED BY <1>0, <1>1, <2>1, Pops, TaskActs DEF Drained
<1>2. CASE DrainFrame
  <2> DEFINE t == [task EXCEPT !.burst = @ - 1]
  <2>1. t \in TaskType /\ Same(t, task)
    <3>1. task.burst - 1 \in 0..Burst
      <4>1. task.burst \in 0..Burst /\ Burst \in Nat /\ task.burst > 0
        BY <1>2, AcAssumption DEF DrainFrame, TaskType
      <4> QED BY <4>1
    <3>2. [task EXCEPT !.burst = @ - 1] = [task EXCEPT !.burst = task.burst - 1]
      OBVIOUS
    <3> QED BY <3>1, <3>2 DEF TaskType, Same
  <2>2. Good(t)
    BY <2>1, Stays DEF Same
  <2> HIDE DEF t
  <2>3. Front \in Frame /\ Behind \in LinkType
    BY <1>2, LinkFront DEF DrainFrame
  <2>4. PICK u \in {t, Armed(t, Front.st)}, sh \in {shared, Published(shared, Front.st)} :
          /\ Do(u, sh, Behind)
          /\ u # t \/ sh # shared => Front.kind = "state"
    BY <1>2 DEF DrainFrame, Front, Behind, t
  <2>5. Good(u) /\ sh \in SharedType
    BY <2>2, <2>3, <2>4, FrameFields, ArmedGood, PublishedType
  <2> QED BY <1>0, <2>3, <2>4, <2>5, TaskActs
<1>3. CASE DrainFails
  <2>1. Good([Finish(task) EXCEPT !.burst = 0]) /\ Good(Retry([Finish(task) EXCEPT !.burst = 0]))
    BY Ends, Flagged
  <2> QED BY <1>0, <1>3, <2>1, ClosedType, TaskActs DEF DrainFails
<1> QED BY <1>1, <1>2, <1>3

LEMMA CommandsWork ==
  ASSUME IInv
  PROVE  Commands \in Works /\ (Commands # <<>> /\ Head(Commands) = "set" => task.set # None)
         /\ (Commands # <<>> => Head(Commands) # "readGroup")
<1> DEFINE a == IF task.set # None THEN <<"set">> ELSE <<>>
           b == IF task.props # Unknown THEN <<"setProps">> ELSE <<>>
           c == IF task.toggle THEN <<"toggle">> ELSE <<>>
<1>1. b \in Seq(Later) /\ c \in Seq(Later)
  BY DEF Later
<1>2. "set" \in Step
  BY DEF Step
<1>3. a \in Works /\ a \in Seq(Step) /\ (a # <<>> => Head(a) = "set" /\ task.set # None)
  BY <1>2, OneStep, NoSteps DEF Works
<1>4. Commands = (a \o b) \o c
  BY DEF Commands
<1> HIDE DEF a, b, c
<1>5. /\ a \o b \in Works
      /\ a # <<>> => a \o b # <<>> /\ Head(a \o b) = Head(a)
      /\ a = <<>> => a \o b = b
  BY <1>1, <1>3, WorksJoin
<1>6. /\ Commands \in Works
      /\ a \o b # <<>> => Commands # <<>> /\ Head(Commands) = Head(a \o b)
      /\ a \o b = <<>> => Commands = c
  BY <1>1, <1>4, <1>5, WorksJoin
<1>7. /\ b # <<>> => Head(b) \in Later
      /\ c # <<>> => Head(c) \in Later
  BY <1>1, HeadTailProperties
<1> QED BY <1>3, <1>5, <1>6, <1>7 DEF Later

LEMMA RoundsType == Rounds \in Seq(Groups)
<1>1. PowerGroups \in Seq(Groups)
  BY AcAssumption DEF Groups
<1>2. AllGroups \in Seq(Groups)
  BY AcAssumption DEF Groups
<1> QED BY <1>1, <1>2 DEF Rounds

LEMMA StrikeType ==
  ASSUME task \in TaskType, task.target # None, task.strikes < LockMaxStrikes
  PROVE  task.target \in AcState /\ task.strikes + 1 \in 0..LockMaxStrikes
<1>1. task.target \in AcState \cup {None} /\ task.strikes \in 0..LockMaxStrikes
  BY DEF TaskType
<1>2. LockMaxStrikes \in Nat
  BY AcAssumption
<1> QED BY <1>1, <1>2

LEMMA DispatchSteps ==
  ASSUME IInv, DispatchCommands \/ DispatchOverride \/ DispatchPoll
  PROVE  IInv'
<1> USE AtFacts
<1>0. task.work # <<>> /\ spent' \in SpentType
  BY DEF At, Dispatching, DispatchCommands, DispatchOverride, DispatchPoll, Plain
<1>1. CASE DispatchCommands
  <2>1. Good(Booked(task)) /\ Same(Booked(task), task)
    BY Flagged DEF Booked, Same
  <2>2. Good(Then(Booked(task), Commands))
    BY <1>0, <2>1, CommandsWork, Continues DEF Same, Good
  <2> QED BY <1>0, <1>1, <2>2, TaskActs DEF DispatchCommands, Plain
<1>2. CASE DispatchOverride
  <2>1. /\ Struck \in TaskType /\ Struck.work = task.work
    <3>1. task.target \in AcState /\ task.strikes + 1 \in 0..LockMaxStrikes
      BY <1>2, StrikeType DEF DispatchOverride, Override, Differs
    <3> QED BY <3>1 DEF Struck, TaskType
  <2>2. /\ Booked(Struck) \in TaskType /\ Booked(Struck).work = task.work
    <3>1. /\ [Struck EXCEPT !.poll = TRUE] \in TaskType
          /\ [Struck EXCEPT !.poll = TRUE].work = Struck.work
      BY <2>1 DEF TaskType
    <3> QED BY <2>1, <3>1 DEF Booked
  <2>3. Good(Done(Booked(Struck)))
    BY <1>0, <2>2, Pops
  <2>4. ghost' \in GhostType
    BY <1>2 DEF DispatchOverride, GhostType
  <2> QED BY <1>0, <1>2, <2>3, <2>4, TaskActs DEF DispatchOverride
<1>3. CASE DispatchPoll
  <2> DEFINE t == IF Converged THEN [task EXCEPT !.strikes = 0] ELSE task
             p == [t EXCEPT !.poll = TRUE]
  <2>1. Good(t) /\ Same(t, task)
    BY Flagged DEF Same
  <2>2. Good(p) /\ Same(p, t)
    BY <2>1, Flagged
  <2>3. Do(Done(t), shared, link) \/ Do(Then(p, PollSteps), shared, link)
    BY <1>3 DEF DispatchPoll
  <2> HIDE DEF t, p
  <2>4. PollSteps \in Works /\ PollSteps # <<>> /\ Head(PollSteps) = "pull"
    <3>1. "pull" \in Step /\ "extras" \in Later
      BY DEF Step, Later
    <3> QED BY <3>1, OneStep, TwoSteps DEF PollSteps
  <2>5. Good(Done(t)) /\ Good(Then(p, PollSteps))
    BY <1>0, <2>1, <2>2, <2>4, Pops, Continues DEF Same, Good
  <2> QED BY <1>0, <1>3, <2>3, <2>5, TaskActs DEF DispatchPoll, Plain
<1> QED BY <1>1, <1>2, <1>3

LEMMA OpenSteps ==
  ASSUME IInv, InBackoff \/ OpenFails \/ Open \/ CheckLink
  PROVE  IInv'
<1> USE AtFacts
<1>0. task.work # <<>> /\ ghost' \in GhostType
  BY DEF At, InBackoff, OpenFails, Open, CheckLink, Plain
<1>1. CASE InBackoff
  BY <1>0, <1>1, Ends, TaskActs DEF InBackoff, Plain
<1>2. CASE OpenFails
  <2>1. spent' \in SpentType
    BY <1>2 DEF OpenFails, Fault, Spend, SpentType
  <2>2. Good([Finish(task) EXCEPT !.retry = TRUE])
    BY Ends, Flagged DEF Retry
  <2> QED BY <1>0, <1>2, <2>1, <2>2, ClosedType, TaskActs DEF OpenFails
<1>3. CASE Open
  <2> DEFINE a == IF task.capsKnown THEN <<>> ELSE <<"getCaps", "checkLink">>
             b == <<"getProps", "first">>
             l == [Closed EXCEPT !.open = TRUE, !.peer = TRUE]
  <2>1. "getCaps" \in Step /\ "checkLink" \in Later /\ "getProps" \in Later /\ "first" \in Later
    BY DEF Step, Later
  <2>2. a \in Works /\ (a # <<>> => Head(a) = "getCaps")
    BY <2>1, TwoSteps, NoSteps
  <2>3. b \in Seq(Later) /\ b # <<>> /\ Head(b) = "getProps"
    BY <2>1
  <2>4. l \in LinkType
    BY ClosedType DEF LinkType
  <2>5. Do(Then(task, a \o b), shared, l)
    BY <1>3 DEF Open
  <2> HIDE DEF a, b, l
  <2>6. /\ a \o b \in Works
        /\ Head(a \o b) \in {"getCaps", "getProps"}
    BY <2>2, <2>3, WorksJoin
  <2>7. Good(Then(task, a \o b))
    BY <1>0, <2>6, Continues
  <2> QED BY <1>0, <1>3, <2>4, <2>5, <2>7, TaskActs DEF Open, Plain
<1>4. CASE CheckLink
  <2>1. Good(Done(task)) /\ Good(Finish(task))
    BY <1>0, Pops, Ends
  <2> QED BY <1>0, <1>4, <2>1, TaskActs DEF CheckLink, Plain
<1> QED BY <1>1, <1>2, <1>3, <1>4

LEMMA Requests ==
  /\ [kind |-> "caps"] \in Request
  /\ [kind |-> "toggle"] \in Request
  /\ [kind |-> "getState"] \in Request
  /\ \A s \in AcState : [kind |-> "set", st |-> s] \in Request
  /\ \A ask \in SUBSET Kinds : [kind |-> "getProps", ask |-> ask] \in Request
  /\ \A on \in PropValues : [kind |-> "setProps", on |-> on] \in Request
  /\ \A g \in Groups : [kind |-> "group", group |-> g] \in Request
BY DEF Request

LEMMA ShareCaps ==
  ASSUME NEW sh \in SharedType
  PROVE  /\ [sh EXCEPT !.caps = "base"] \in SharedType
         /\ [sh EXCEPT !.caps = "full"] \in SharedType
BY DEF SharedType

(* Send() goes on with one of the two continuations it is given. *)
LEMMA Sending ==
  ASSUME IInv, NEW step \in Step, NEW r \in Request, NEW t, NEW ok, NEW failed,
         Send(step, r, t, ok, failed),
         Good(Then(t, ok)), Good(Then(t, failed)),
         spent' \in SpentType, ghost' \in GhostType
  PROVE  IInv'
BY AtFacts, SentType, TaskActs DEF Send

LEMMA GetCapsSteps ==
  ASSUME IInv, GetCaps("getCaps", "readCaps") \/ GetCaps("getMore", "readMore")
  PROVE  IInv'
<1> USE AtFacts
<1>0. task.work # <<>> /\ ghost' \in GhostType /\ spent' \in SpentType
  BY DEF At, GetCaps, Plain
<1>1. Good(Then(task, <<"readCaps">>)) /\ Good(Then(task, <<"readMore">>))
  <2>1. "readCaps" \in Step /\ "readMore" \in Step
    BY DEF Step, Reads
  <2> QED BY <1>0, <2>1, OneStep, Continues
<1>2. /\ Good(Done(task)) /\ Good(Retry(Done(task)))
      /\ Good(Known(Done(task))) /\ Good(Retry(Known(Done(task))))
  BY <1>0, Pops, Flagged
<1> QED BY <1>0, <1>1, <1>2, Requests, SentType, ClosedType, ShareCaps, TaskActs
        DEF GetCaps, Known

LEMMA OfferedType ==
  ASSUME shared \in SharedType
  PROVE  Offered \subseteq Kinds
BY DEF Offered, Kinds, SharedType

LEMMA Names ==
  /\ {"readProps", "readPropsAck", "readAck", "readState", "readGroup", "getMore",
      "getProps", "pull", "group", "endRound"} \subseteq Step
  /\ {"getProps", "pull"} \subseteq Later
BY DEF Step, Reads, Later

LEMMA PropSteps ==
  ASSUME IInv, SkipGetProps \/ GetProps \/ SetProps
  PROVE  IInv'
<1> USE AtFacts
<1>0. ghost' \in GhostType /\ spent' \in SpentType
  BY DEF SkipGetProps, GetProps, SetProps, Plain
<1>1. CASE SkipGetProps
  <2>1. Good(Done(task))
    BY <1>1, Pops DEF SkipGetProps, At
  <2> QED BY <1>0, <1>1, <2>1, TaskActs DEF SkipGetProps
<1>2. CASE GetProps
  <2>1. task.work # <<>>
    BY <1>2 DEF GetProps, Send, At
  <2>2. Good(Then(task, <<"readProps">>)) /\ Good(Then(task, <<>>))
    BY <2>1, Names, OneStep, NoSteps, Continues
  <2> QED BY <1>0, <1>2, <2>2, OfferedType, Requests, Names, Sending DEF GetProps
<1>3. CASE SetProps
  <2> DEFINE on == [k \in Kinds |-> IF k \in Offered \cup {BeepKind} THEN task.props[k] ELSE None]
             t == [task EXCEPT !.props = Unknown]
  <2>1. task.work # <<>>
    BY <1>3 DEF SetProps, At
  <2>2. on \in PropValues
    BY DEF PropValues, TaskType
  <2>3. Unknown \in PropValues
    BY DEF Unknown, PropValues
  <2>4. t \in TaskType /\ Same(t, task)
    BY <2>3 DEF TaskType, Same
  <2>5. Good(t)
    BY <2>4, Stays DEF Same
  <2>6. \/ Do(Done(t), shared, link)
        \/ Send("setProps", [kind |-> "setProps", on |-> on], Window(t),
                <<"readPropsAck", "getProps">>, <<"getProps">>)
    BY <1>3 DEF SetProps
  <2> HIDE DEF t, on
  <2>7. Good(Done(t))
    BY <2>1, <2>4, <2>5, Pops DEF Same, Good
  <2>8. Good(Window(t)) /\ Window(t).work = task.work
    BY <2>4, <2>5, Flagged DEF Same
  <2>9. /\ Good(Then(Window(t), <<"readPropsAck", "getProps">>))
        /\ Good(Then(Window(t), <<"getProps">>))
    BY <2>1, <2>8, Names, OneStep, TwoSteps, Continues DEF Good
  <2>10. "setProps" \in Step
    BY DEF Step
  <2> QED BY <1>0, <2>2, <2>6, <2>7, <2>9, <2>10, Requests, Sending, TaskActs
<1> QED BY <1>1, <1>2, <1>3

LEMMA SetStateStep ==
  ASSUME IInv, SetState
  PROVE  IInv'
<1> USE AtFacts
<1> DEFINE t == [task EXCEPT !.set = None]
<1>1. At("set") /\ task.work # <<>> /\ "set" \in Step
  BY DEF SetState, Send, At, Step
<1>2. task.set \in AcState
  BY <1>1 DEF At, Good, TaskType
<1>3. t \in TaskType /\ t.work = task.work
  BY DEF TaskType
<1> HIDE DEF t
<1>4. Window(t) \in TaskType /\ Window(t).work = task.work
  BY <1>3 DEF Window, TaskType
<1>5. Good(Then(Window(t), <<"readAck", "pull">>)) /\ Good(Then(Window(t), <<"pull">>))
  BY <1>1, <1>4, Names, OneStep, TwoSteps, Continues
<1>6. ghost' \in GhostType /\ spent' \in SpentType
  BY DEF SetState, GhostType
<1>7. Send("set", [kind |-> "set", st |-> task.set], Window(t),
           <<"readAck", "pull">>, <<"pull">>)
  BY DEF SetState, t
<1> QED BY <1>1, <1>2, <1>5, <1>6, <1>7, Requests, Sending

LEMMA ToggleStep ==
  ASSUME IInv, ToggleSent
  PROVE  IInv'
<1> USE AtFacts
<1> DEFINE t == [task EXCEPT !.toggle = FALSE]
<1>1. task.work # <<>> /\ "toggle" \in Step
  BY DEF ToggleSent, Send, At, Step
<1>2. t \in TaskType /\ t.work = task.work
  BY DEF TaskType
<1> HIDE DEF t
<1>3. Window(t) \in TaskType /\ Window(t).work = task.work
  BY <1>2 DEF Window, TaskType
<1>4. Good(Then(Window(t), <<"pull">>))
  BY <1>1, <1>3, Names, OneStep, Continues
<1>5. ghost' \in GhostType /\ spent' \in SpentType
  BY DEF ToggleSent, GhostType
<1>6. Send("toggle", [kind |-> "toggle"], Window(t), <<"pull">>, <<"pull">>)
  BY DEF ToggleSent, t
<1> QED BY <1>1, <1>4, <1>5, <1>6, Requests, Sending

LEMMA PullEndsType ==
  ASSUME IInv, task.work # <<>>, NEW r, PullEnds(r),
         spent' \in SpentType, ghost' \in GhostType
  PROVE  IInv'
<1> USE AtFacts
<1>1. Good(Done(task)) /\ Done(task) \in TaskType
  BY Pops DEF Good
<1>2. CASE r # "timeout" \/ task.timeouts + 1 = MaxPollTimeouts
  <2>1. Good(Retry([Done(task) EXCEPT !.timeouts = 0]))
    BY <1>1, Flagged
  <2> QED BY <1>2, <2>1, ClosedType, TaskActs DEF PullEnds
<1>3. CASE ~(r # "timeout" \/ task.timeouts + 1 = MaxPollTimeouts)
  <2> DEFINE n == task.timeouts + 1
             t == [Done(task) EXCEPT !.timeouts = n]
  <2>1. n \in 0..(MaxPollTimeouts - 1)
    <3>1. task.timeouts \in 0..(MaxPollTimeouts - 1) /\ MaxPollTimeouts \in Nat
      BY AcAssumption DEF TaskType
    <3> QED BY <1>3, <3>1
  <2>2. Done(task).timeouts = task.timeouts
    BY DEF Done, Then, TaskType
  <2>3. Do(t, shared, link)
    BY <1>3, <2>2 DEF PullEnds
  <2> HIDE DEF n
  <2>4. t \in TaskType /\ Same(t, Done(task))
    BY <1>1, <2>1 DEF TaskType, Same
  <2>5. Good(t)
    BY <1>1, <2>4, Stays DEF Same
  <2> QED BY <2>3, <2>5, TaskActs
<1> QED BY <1>2, <1>3

LEMMA PullStep ==
  ASSUME IInv, Pull
  PROVE  IInv'
<1> USE AtFacts
<1>1. task.work # <<>> /\ spent' \in SpentType /\ ghost' \in GhostType
  BY DEF Pull, At, Plain
<1>2. Good(Then(task, <<"readState">>))
  BY <1>1, Names, OneStep, Continues
<1> QED BY <1>1, <1>2, Requests, SentType, TaskActs, PullEndsType DEF Pull

LEMMA ReadSteps ==
  ASSUME IInv, SkipFrame \/ ReadAck \/ ReadState \/ ReadProps \/ ReadPropsAck
  PROVE  IInv'
<1> USE AtFacts
<1>0. task.work # <<>> /\ link.inbound # <<>> /\ spent' \in SpentType /\ ghost' \in GhostType
  BY DEF SkipFrame, ReadAck, ReadState, ReadProps, ReadPropsAck, Awaited, Arrived,
         Reading, At, Plain
<1>1. Front \in Frame /\ Behind \in LinkType
  BY <1>0, LinkFront
<1>2. ASSUME Front.kind = "state"
      PROVE  /\ Good(Armed(task, Front.st)) /\ Good(Done(Armed(task, Front.st)))
             /\ Good([Done(Armed(task, Front.st)) EXCEPT !.timeouts = 0])
             /\ Published(shared, Front.st) \in SharedType
  <2>1. Front.st \in AcState
    BY <1>1, <1>2, FrameFields
  <2>2. Good(Armed(task, Front.st)) /\ Armed(task, Front.st).work = task.work
    BY <2>1, ArmedGood
  <2>3. Good(Done(Armed(task, Front.st)))
    BY <1>0, <2>2, Pops DEF Good
  <2> QED BY <2>1, <2>2, <2>3, Flagged, PublishedType
<1>3. ASSUME Front.kind = "props" PROVE Merged(shared, Front.on) \in SharedType
  BY <1>1, <1>3, FrameFields, MergedType
<1>4. Good(Done(task))
  BY <1>0, Pops
<1>5. CASE SkipFrame
  BY <1>0, <1>1, <1>2, <1>5, TaskActs DEF SkipFrame
<1>6. CASE ReadAck
  BY <1>0, <1>1, <1>2, <1>6, TaskActs DEF ReadAck, Awaited, Wanted
<1>7. CASE ReadState
  BY <1>0, <1>1, <1>2, <1>7, TaskActs DEF ReadState, Awaited, Wanted
<1>8. CASE ReadProps
  BY <1>0, <1>1, <1>3, <1>4, <1>8, TaskActs DEF ReadProps, Awaited, Wanted
<1>9. CASE ReadPropsAck
  BY <1>0, <1>1, <1>4, <1>9, TaskActs DEF ReadPropsAck
<1> QED BY <1>5, <1>6, <1>7, <1>8, <1>9

LEMMA CapsSteps ==
  ASSUME IInv, ReadCaps \/ ReadMore
  PROVE  IInv'
<1> USE AtFacts
<1>0. task.work # <<>> /\ link.inbound # <<>> /\ spent' \in SpentType /\ ghost' \in GhostType
  BY DEF ReadCaps, ReadMore, Awaited, Arrived, Reading, At, Plain
<1>1. Good(Then(task, <<"getMore">>))
  BY <1>0, Names, OneStep, Continues
<1>2. Good(Known(Done(task)))
  BY <1>0, Pops, Flagged
<1> QED BY <1>0, <1>1, <1>2, LinkFront, ShareCaps, TaskActs DEF ReadCaps, ReadMore

(* Dropping the group asked for. *)
LEMMA LeftFacts ==
  ASSUME NEW t, Good(t), NEW left \in Seq(Groups), t.work # <<>>
  PROVE  /\ [t EXCEPT !.left = left] \in TaskType
         /\ [t EXCEPT !.left = left].work = t.work
         /\ [t EXCEPT !.left = left].left = left
         /\ \A step \in {"group", "endRound"} : Good(Then([t EXCEPT !.left = left], <<step>>))
<1>1. /\ [t EXCEPT !.left = left] \in TaskType
      /\ [t EXCEPT !.left = left].work = t.work
      /\ [t EXCEPT !.left = left].left = left
  BY DEF Good, TaskType
<1>2. ASSUME NEW step \in {"group", "endRound"}
      PROVE  Good(Then([t EXCEPT !.left = left], <<step>>))
  <2>1. <<step>> \in Works /\ Head(<<step>>) = step
    BY Names, OneStep
  <2> QED BY <1>1, <1>2, <2>1, Continues DEF Good
<1> QED BY <1>1, <1>2

LEMMA FailedStep ==
  ASSUME IInv, NEW step \in Reads, NEW r, Failed(step, r)
  PROVE  IInv'
<1> USE AtFacts
<1>0. PICK l \in {link} \cup (IF link.inbound = <<>> THEN {} ELSE {Behind}) :
        /\ At(step) /\ ReadFails(r, l)
        /\ CASE step \in {"readAck", "readProps", "readPropsAck"} -> Do(Done(task), shared, l)
             [] step = "readState" -> PullEnds(r)
             [] step = "readCaps" -> IF r = "timeout" THEN Do(Done(task), shared, l)
                                     ELSE Do(Retry(Done(task)), shared, Closed)
             [] step = "readMore" ->
                  LET sh == [shared EXCEPT !.caps = "base"]
                  IN IF r = "timeout" THEN Do(Known(Done(task)), sh, l)
                     ELSE Do(Known(Retry(Done(task))), sh, Closed)
             [] step = "readGroup" ->
                  IF r = "timeout" THEN Do(Then([task EXCEPT !.left = Tail(@)], <<"group">>), shared, l)
                  ELSE Do(Then(task, <<"endRound">>), shared, l)
  BY DEF Failed
<1>1. task.work # <<>> /\ ghost' \in GhostType /\ spent' \in SpentType
  BY <1>0 DEF At, ReadFails, Fault, Spend, SpentType
<1>2. l \in LinkType
  BY LinkFront
<1>3. /\ Good(Done(task)) /\ Good(Retry(Done(task)))
      /\ Good(Known(Done(task))) /\ Good(Known(Retry(Done(task))))
  BY <1>1, Pops, Flagged
<1>4. CASE step \in {"readAck", "readProps", "readPropsAck"}
  BY <1>0, <1>1, <1>2, <1>3, <1>4, TaskActs
<1>5. CASE step = "readState"
  BY <1>0, <1>1, <1>5, PullEndsType
<1>6. CASE step = "readCaps"
  BY <1>0, <1>1, <1>2, <1>3, <1>6, ClosedType, TaskActs
<1>7. CASE step = "readMore"
  BY <1>0, <1>1, <1>2, <1>3, <1>7, ClosedType, ShareCaps, TaskActs
<1>8. CASE step = "readGroup"
  <2>1. Tail(task.left) \in Seq(Groups)
    <3>1. task.left # <<>> /\ task.left \in Seq(Groups)
      BY <1>0, <1>1, <1>8 DEF At, Good, TaskType
    <3> QED BY <3>1, HeadTailProperties
  <2>2. Good(Then([task EXCEPT !.left = Tail(task.left)], <<"group">>))
    BY <1>1, <2>1, LeftFacts
  <2>3. Good(Then(task, <<"endRound">>))
    BY <1>1, Names, OneStep, Continues
  <2>4. \/ Do(Then([task EXCEPT !.left = Tail(task.left)], <<"group">>), shared, l)
        \/ Do(Then(task, <<"endRound">>), shared, l)
    BY <1>0, <1>8
  <2> QED BY <1>1, <1>2, <2>2, <2>3, <2>4, TaskActs
<1> QED BY <1>4, <1>5, <1>6, <1>7, <1>8 DEF Reads

LEMMA GroupSteps ==
  ASSUME IInv, Extras \/ Group \/ ReadGroup \/ EndRound
  PROVE  IInv'
<1> USE AtFacts
<1>0. task.work # <<>> /\ spent' \in SpentType /\ ghost' \in GhostType
  BY DEF Extras, Group, ReadGroup, EndRound, Awaited, At, Plain
<1>1. CASE Extras
  <2>1. Good(Done(task)) /\ Good(Then([task EXCEPT !.left = Rounds], <<"group">>))
    BY <1>0, Pops, RoundsType, LeftFacts
  <2> QED BY <1>0, <1>1, <2>1, TaskActs DEF Extras
<1>2. CASE Group
  <2>1. CASE task.left # <<>> /\ Alive
    <3>1. Head(task.left) \in Groups
      BY <2>1 DEF TaskType
    <3>2. Good(Then(task, <<"readGroup">>))
      BY <1>0, <2>1, Names, OneStep, Continues
    <3> QED BY <1>0, <1>2, <2>1, <3>1, <3>2, Requests, SentType, TaskActs DEF Group
  <2>2. CASE ~(task.left # <<>> /\ Alive)
    <3>1. Good(Then([task EXCEPT !.left = <<>>], <<"endRound">>))
      <4>1. <<>> \in Seq(Groups)
        OBVIOUS
      <4> QED BY <1>0, <4>1, LeftFacts
    <3> QED BY <1>0, <1>2, <2>2, <3>1, TaskActs DEF Group
  <2> QED BY <2>1, <2>2
<1>3. CASE ReadGroup
  <2>1. /\ Front \in Frame /\ Behind \in LinkType
        /\ Front.group \in Groups /\ Front.on \in BOOLEAN
    BY <1>3, LinkFront, FrameFields DEF ReadGroup, Awaited, Arrived, Wanted
  <2>2. [shared EXCEPT !.ext[Front.group] = Front.on] \in SharedType
    <3>1. [shared.ext EXCEPT ![Front.group] = Front.on] \in Ext
      BY <2>1 DEF SharedType, Ext
    <3>2. [shared EXCEPT !.ext[Front.group] = Front.on]
            = [shared EXCEPT !.ext = [shared.ext EXCEPT ![Front.group] = Front.on]]
      OBVIOUS
    <3> QED BY <3>1, <3>2 DEF SharedType
  <2>3. Tail(task.left) \in Seq(Groups)
    <3>1. task.left # <<>> /\ task.left \in Seq(Groups)
      BY <1>0, <1>3 DEF ReadGroup, Awaited, At, Good, TaskType
    <3> QED BY <3>1, HeadTailProperties
  <2>4. Good(Then([task EXCEPT !.left = Tail(task.left)], <<"group">>))
    BY <1>0, <2>3, LeftFacts
  <2>5. PICK u \in {task, Then([task EXCEPT !.left = Tail(task.left)], <<"group">>)} :
          Do(u, [shared EXCEPT !.ext[Front.group] = Front.on], Behind)
    BY <1>3 DEF ReadGroup
  <2> QED BY <1>0, <2>1, <2>2, <2>4, <2>5, TaskActs
<1>4. CASE EndRound
  <2> DEFINE t == [task EXCEPT !.left = <<>>, !.shown = shared.ext]
             sh == [shared EXCEPT !.extEdge = @ \/ shared.ext # task.shown]
  <2>1. sh \in SharedType
    BY DEF SharedType
  <2>2. t \in TaskType /\ t.work = task.work
    <3>1. <<>> \in Seq(Groups) /\ shared.ext \in Ext
      BY DEF SharedType
    <3> QED BY <3>1 DEF TaskType
  <2>3. Do(Done(t), sh, link)
    BY <1>4 DEF EndRound
  <2> HIDE DEF t, sh
  <2>4. Good(Done(t))
    BY <1>0, <2>2, Pops
  <2> QED BY <1>0, <2>1, <2>3, <2>4, TaskActs
<1> QED BY <1>1, <1>2, <1>3, <1>4

LEMMA PassesStep ==
  ASSUME IInv, NEW timer \in Timers, Passes(timer)
  PROVE  IInv'
<1> USE AtFacts
<1>1. [task EXCEPT ![timer] = FALSE] \in TaskType
  BY DEF Timers, TaskType
<1>2. Same([task EXCEPT ![timer] = FALSE], task)
  BY DEF Timers, TaskType, Same
<1> QED BY <1>1, <1>2, Stays, TaskActs DEF Passes, Plain, Same

-----------------------------------------------------------------------------
(* The steps of the main loop, the AC and the link keep it: none of them      *)
(* touches the task.                                                          *)

LEMMA OthersAct ==
  ASSUME IInv, task' = task, ui' \in UiType, shared' \in SharedType,
         link' \in LinkType, dev' \in DevType,
         queue' \in Seq(Command), Len(queue') <= QueueDepth,
         spent' \in SpentType, ghost' \in GhostType
  PROVE  IInv'
BY DEF IInv, TypeOK, Good

LEMMA Types ==
  ASSUME IInv
  PROVE  /\ ui \in UiType /\ shared \in SharedType /\ task \in TaskType
         /\ link \in LinkType /\ dev \in DevType
         /\ queue \in Seq(Command) /\ Len(queue) <= QueueDepth
         /\ spent \in SpentType /\ ghost \in GhostType
BY DEF IInv, TypeOK

LEMMA SpendType ==
  ASSUME spent \in SpentType, NEW what \in {"edits", "flips", "remote", "faults"}, Spend(what)
  PROVE  spent' \in SpentType
BY DEF Spend, SpentType

LEMMA SubmitStep ==
  ASSUME IInv, NEW c \in Command, NEW base \in AcState, Submit(c, base)
  PROVE  IInv'
<1> USE Types
<1>1. spent' \in SpentType
  BY SpendType DEF Submit
<1>2. ui' \in UiType
  BY DEF Submit, UiType
<1>3. ghost' \in GhostType
  <2>1. c.kind = "set" => c.st \in AcState
    BY CommandFields
  <2>2. \A n, m \in Int, w \in AcState \cup {None} :
          [ghost EXCEPT !.toggles = n, !.sets = m, !.wish = w] \in GhostType
    BY DEF GhostType
  <2>3. ghost.toggles \in Int /\ ghost.sets \in Int /\ ghost.wish \in AcState \cup {None}
    BY DEF GhostType
  <2>4. PICK n \in {ghost.toggles, ghost.toggles + 1}, m \in {ghost.sets, ghost.sets + 1},
             w \in {ghost.wish} \cup (IF c.kind = "set" THEN {c.st} ELSE {}) :
          ghost' = ghost \/ ghost' = [ghost EXCEPT !.toggles = n, !.sets = m, !.wish = w]
    BY DEF Submit
  <2>5. n \in Int /\ m \in Int /\ w \in AcState \cup {None}
    BY <2>1, <2>3
  <2>6. ghost \in GhostType /\ [ghost EXCEPT !.toggles = n, !.sets = m, !.wish = w] \in GhostType
    BY <2>2, <2>5
  <2> QED BY <2>4, <2>6
<1>4. queue' \in Seq(Command) /\ Len(queue') <= QueueDepth
  <2>1. CASE Len(queue) < QueueDepth
    <3>1. queue' = Append(queue, c)
      BY <2>1 DEF Submit
    <3>2. queue' \in Seq(Command) /\ Len(queue') = Len(queue) + 1
      BY <3>1
    <3>3. Len(queue) \in Nat /\ QueueDepth \in Nat
      BY AcAssumption
    <3> QED BY <2>1, <3>2, <3>3
  <2>2. CASE ~(Len(queue) < QueueDepth)
    BY <2>2 DEF Submit
  <2> QED BY <2>1, <2>2
<1> QED BY <1>1, <1>2, <1>3, <1>4, OthersAct DEF Submit

(* The frames of the main loop.                                               *)
LEMMA FrameOf ==
  ASSUME shared \in SharedType, NEW u \in UiType, NEW mode
  PROVE  /\ Drawn(u, mode) \in UiType
         /\ Drawn(u, mode).todo = u.todo /\ Drawn(u, mode).painted = u.painted
         /\ Drawn(u, mode).up = u.up /\ Drawn(u, mode).props = u.props
         /\ mode = "power" => Drawn(u, mode).ext = shared.ext
BY DEF Drawn, UiType, SharedType

LEMMA Marked ==
  ASSUME NEW u \in UiType
  PROVE  [u EXCEPT !.todo = "none"] \in UiType
BY DEF UiType

LEMMA PowerType ==
  ASSUME shared \in SharedType
  PROVE  PowerOf(shared.ext) \in Power
BY DEF SharedType, Ext, PowerOf, Power, PowerIds, Groups

LEMMA UserSteps ==
  ASSUME IInv, UserStep \/ Notify
  PROVE  IInv'
<1> USE Types
<1>1. ASSUME NEW f \in {"temp", "sleep"}, NEW v \in IF f = "temp" THEN Temps ELSE Sleeps,
             EditState(f, v)
      PROVE  IInv'
  <2> DEFINE base == [ui.base EXCEPT ![f] = v]
  <2>1. base \in AcState
    BY DEF UiType, AcState
  <2>2. [kind |-> "set", st |-> base, field |-> f] \in Command
    BY <2>1 DEF Command
  <2>3. Submit([kind |-> "set", st |-> base, field |-> f], base)
    BY <1>1 DEF EditState
  <2> QED BY <2>1, <2>2, <2>3, SubmitStep
<1>2. ASSUME NEW k \in Kinds, NEW on \in BOOLEAN, EditProp(k, on)
      PROVE  IInv'
  <2>1. [kind |-> "prop", prop |-> k, on |-> on] \in Command /\ ui.base \in AcState
    BY DEF Command, UiType
  <2> QED BY <1>2, <2>1, SubmitStep DEF EditProp
<1>3. CASE ToggleDisplay
  <2>1. [kind |-> "toggle"] \in Command /\ ui.base \in AcState
    BY DEF Command, UiType
  <2> QED BY <1>3, <2>1, SubmitStep DEF ToggleDisplay
<1>4. CASE FlipLock
  <2>1. ui' \in UiType /\ ghost' \in GhostType
    BY <1>4 DEF FlipLock, UiType, GhostType
  <2>2. spent' \in SpentType
    BY <1>4, SpendType DEF FlipLock
  <2> QED BY <1>4, <2>1, <2>2, OthersAct DEF FlipLock
<1>5. ASSUME NEW m \in Modes, SetPollMode(m)
      PROVE  IInv'
  <2>1. m \in PollModes
    BY AcAssumption
  <2>2. shared' \in SharedType /\ spent' \in SpentType
    BY <1>5, <2>1, SpendType DEF SetPollMode, SharedType
  <2>3. ui' \in UiType
    BY <1>5, FrameOf DEF SetPollMode
  <2> QED BY <1>5, <2>2, <2>3, OthersAct DEF SetPollMode
<1>6. CASE Notify
  <2>1. shared' \in SharedType /\ ui' \in UiType
    BY <1>6 DEF Notify, SharedType, UiType
  <2> QED BY <1>6, <2>1, OthersAct DEF Notify
<1>7. CASE UserStep
  <2>1. \/ \E f \in {"temp", "sleep"} : \E v \in IF f = "temp" THEN Temps ELSE Sleeps :
             EditState(f, v)
        \/ \E k \in Kinds, on \in BOOLEAN : EditProp(k, on)
        \/ ToggleDisplay \/ FlipLock
        \/ \E m \in Modes : SetPollMode(m)
    BY <1>7 DEF UserStep
  <2> QED BY <1>1, <1>2, <1>3, <1>4, <1>5, <2>1
<1> QED BY <1>6, <1>7

LEMMA PaintSteps ==
  ASSUME IInv, Paint
  PROVE  IInv'
<1> USE Types
<1>1. ASSUME NEW flag \in {"changed", "reach", "propsEdge", "extEdge"},
             NEW then \in {"paint", "paintLink", "paintProps", "paintExt"},
             Consume(flag, then)
      PROVE  IInv'
  <2>1. shared' \in SharedType
    BY <1>1 DEF Consume, SharedType
  <2>2. ui' \in UiType
    BY <1>1 DEF Consume, UiType
  <2> QED BY <1>1, <2>1, <2>2, OthersAct DEF Consume
<1>2. CASE ConsumeStateChanged \/ ConsumeReachabilityEdge \/ ConsumePropsEdge
           \/ ConsumeExtUpdate
  BY <1>1, <1>2 DEF ConsumeStateChanged, ConsumeReachabilityEdge, ConsumePropsEdge,
     ConsumeExtUpdate
<1>3. CASE OnAcStateChanged
  <2>1. shared.state \in AcState /\ Shown(shared.state) \in [temp : Temps, display : BOOLEAN]
    BY DEF SharedType, AcState, Shown
  <2> DEFINE u == [ui EXCEPT !.base = shared.state, !.painted = Shown(shared.state)]
  <2>2. u \in UiType
    BY <2>1 DEF UiType
  <2>3. ui' = [Drawn(u, shared.mode) EXCEPT !.todo = "none"]
    BY <1>3 DEF OnAcStateChanged, Act
  <2> HIDE DEF u
  <2>4. ui' \in UiType
    BY <2>2, <2>3, FrameOf, Marked
  <2> QED BY <1>3, <2>4, OthersAct DEF OnAcStateChanged, Act
<1>4. CASE PaintLink
  <2> DEFINE u == [ui EXCEPT !.up = shared.sessionUp]
  <2>1. u \in UiType
    BY DEF UiType, SharedType
  <2>2. ui' = [Drawn(u, shared.mode) EXCEPT !.todo = "none"]
    BY <1>4 DEF PaintLink, Act
  <2> HIDE DEF u
  <2>3. ui' \in UiType
    BY <2>1, <2>2, FrameOf, Marked
  <2> QED BY <1>4, <2>3, OthersAct DEF PaintLink, Act
<1>5. CASE PaintProps
  <2>1. ui' \in UiType
    BY <1>5 DEF PaintProps, Act, UiType, SharedType
  <2> QED BY <1>5, <2>1, OthersAct DEF PaintProps, Act
<1>6. CASE PaintExt
  <2>1. PowerOf(shared.ext) \in Power
    BY PowerType
  <2>2. ui' \in UiType
    BY <1>6, <2>1 DEF PaintExt, UiType
  <2> QED BY <1>6, <2>2, OthersAct DEF PaintExt
<1>7. CASE Draw
  <2>1. ui' \in UiType
    BY <1>7, FrameOf, Marked DEF Draw, Act
  <2> QED BY <1>7, <2>1, OthersAct DEF Draw, Act
<1> QED BY <1>2, <1>3, <1>4, <1>5, <1>6, <1>7 DEF Paint

LEMMA AskedType ==
  ASSUME IInv, NEW kind, Asks(kind)
  PROVE  Asked \in Request /\ Tail(link.requests) \in Seq(Request)
BY Types, HeadTailProperties DEF Asks, Asked, LinkType

LEMMA RequestFields ==
  ASSUME NEW r \in Request
  PROVE  /\ r.kind = "set" => r.st \in AcState
         /\ r.kind = "setProps" => r.on \in PropValues
         /\ r.kind = "group" => r.group \in Groups
BY DEF Request

LEMMA FrameTypes ==
  /\ \A s \in AcState : StateFrame(s) \in Frame
  /\ \A on \in PropValues : [kind |-> "props", on |-> on] \in Frame
  /\ \A g \in Groups, on \in BOOLEAN : [kind |-> "group", group |-> g, on |-> on] \in Frame
  /\ \A k \in {"caps", "propsAck", "invalid", "corrupt"} : [kind |-> k] \in Frame
BY DEF StateFrame, Frame

LEMMA AnswersType ==
  ASSUME IInv, NEW kind, Asks(kind), NEW new \in DevType, NEW frames \in Seq(Frame),
         Answers(new, frames)
  PROVE  IInv'
<1> USE Types
<1>1. link.inbound \o frames \in Seq(Frame) /\ Tail(link.requests) \in Seq(Request)
  BY AskedType DEF LinkType
<1> DEFINE in == link.inbound \o frames
           rq == Tail(link.requests)
<1>2. link' = [link EXCEPT !.requests = rq, !.inbound = in]
  BY DEF Answers
<1> HIDE DEF in, rq
<1>3. link' \in LinkType
  BY <1>1, <1>2 DEF LinkType, in, rq
<1> QED BY <1>3, OthersAct DEF Answers

LEMMA AnswerSteps ==
  ASSUME IInv, DeviceAnswers
  PROVE  IInv'
<1> USE Types
<1>0. \A f \in Frame : <<f>> \in Seq(Frame)
  OBVIOUS
<1>1. dev.state \in AcState /\ dev.reading \in BOOLEAN
  BY DEF DevType
<1>2. \A s \in AcState : [dev EXCEPT !.state = s] \in DevType
  BY DEF DevType
<1>3. CASE AnswerState
  BY <1>0, <1>1, <1>3, FrameTypes, AnswersType DEF AnswerState
<1>4. CASE AnswerSet
  <2>1. Asked.st \in AcState
    BY <1>4, AskedType, RequestFields DEF AnswerSet, Asks
  <2>2. Commanded(dev.state, Asked.st) \in AcState
    BY <1>1, <2>1 DEF Commanded, AcState
  <2> QED BY <1>0, <1>1, <1>2, <1>4, <2>2, FrameTypes, AnswersType DEF AnswerSet
<1>5. CASE AnswerToggle
  <2> DEFINE s == [dev.state EXCEPT !.display = ~@]
  <2>1. s \in AcState
    BY <1>1 DEF AcState
  <2>2. <<>> \in Seq(Frame) /\ <<StateFrame(s)>> \in Seq(Frame)
    BY <2>1, <1>0, FrameTypes
  <2>3. Asks("toggle")
    BY <1>5 DEF AnswerToggle
  <2>4. PICK frames \in {<<>>, <<StateFrame(s)>>} : Answers([dev EXCEPT !.state = s], frames)
    BY <1>5 DEF AnswerToggle
  <2> QED BY <1>2, <2>1, <2>2, <2>3, <2>4, AnswersType
<1>6. CASE AnswerCaps
  BY <1>0, <1>6, FrameTypes, AnswersType DEF AnswerCaps
<1>7. CASE AnswerProps
  <2> DEFINE on == [k \in Kinds |-> IF k \in Asked.ask THEN dev.props[k] ELSE None]
  <2>1. on \in PropValues
    BY DEF PropValues, DevType
  <2>2. Asks("getProps") /\ Answers(dev, <<[kind |-> "props", on |-> on]>>)
    BY <1>7 DEF AnswerProps
  <2> HIDE DEF on
  <2> QED BY <1>0, <2>1, <2>2, FrameTypes, AnswersType
<1>8. CASE AnswerSetProps
  <2> DEFINE props == [k \in Kinds |->
                         IF Asked.on[k] = None THEN dev.props[k] ELSE Asked.on[k]]
  <2>1. Asked.on \in PropValues
    BY <1>8, AskedType, RequestFields DEF AnswerSetProps, Asks
  <2>2. props \in [Kinds -> BOOLEAN]
    BY <2>1 DEF PropValues, DevType
  <2>3. Asks("setProps") /\ Answers([dev EXCEPT !.props = props], <<[kind |-> "propsAck"]>>)
    BY <1>8 DEF AnswerSetProps
  <2> HIDE DEF props
  <2>4. [dev EXCEPT !.props = props] \in DevType
    BY <2>2 DEF DevType
  <2> QED BY <1>0, <2>3, <2>4, FrameTypes, AnswersType
<1>9. CASE AnswerGroup
  <2>1. Asked.group \in Groups
    BY <1>9, AskedType, RequestFields DEF AnswerGroup, Asks
  <2> QED BY <1>0, <1>1, <1>9, <2>1, FrameTypes, AnswersType DEF AnswerGroup
<1> QED BY <1>3, <1>4, <1>5, <1>6, <1>7, <1>8, <1>9 DEF DeviceAnswers

LEMMA PutType ==
  ASSUME IInv, NEW f \in Frame
  PROVE  Put(f) \in LinkType
<1>1. Append(link.inbound, f) \in Seq(Frame)
  BY Types DEF LinkType
<1> QED BY <1>1, Types DEF Put, LinkType

LEMMA SurroundingSteps ==
  ASSUME IInv, Surroundings \/ WifiReturns
  PROVE  IInv'
<1> USE Types
<1>1. CASE DeviceIgnores
  <2>1. Tail(link.requests) \in Seq(Request)
    BY <1>1, HeadTailProperties DEF DeviceIgnores, LinkType
  <2>2. link' \in LinkType
    BY <1>1, <2>1 DEF DeviceIgnores, LinkType
  <2> QED BY <1>1, <2>2, SpendType, OthersAct DEF DeviceIgnores, Fault
<1>2. CASE RemoteChange
  <2>1. PICK s \in AcState : dev' = [dev EXCEPT !.state = s]
    BY <1>2 DEF RemoteChange
  <2>2. dev' \in DevType /\ dev'.state \in AcState
    BY <2>1 DEF DevType
  <2>3. link' \in LinkType
    BY <1>2, <2>2, FrameTypes, PutType DEF RemoteChange
  <2> QED BY <1>2, <2>2, <2>3, SpendType, OthersAct DEF RemoteChange
<1>3. CASE ReadingChanges
  <2>1. dev' \in DevType
    BY <1>3 DEF ReadingChanges, DevType
  <2> QED BY <1>3, <2>1, SpendType, OthersAct DEF ReadingChanges
<1>4. CASE Noise
  BY <1>4, FrameTypes, PutType, SpendType, OthersAct DEF Noise, Fault
<1>5. CASE WifiDrops
  <2>1. link' \in LinkType
    BY <1>5 DEF WifiDrops, SetLink, LinkType
  <2> QED BY <1>5, <2>1, SpendType, OthersAct DEF WifiDrops, SetLink, Fault
<1>6. CASE PeerDrops
  <2>1. <<>> \in Seq(Request)
    OBVIOUS
  <2>2. link' \in LinkType
    BY <1>6, <2>1 DEF PeerDrops, SetLink, LinkType
  <2> QED BY <1>6, <2>2, SpendType, OthersAct DEF PeerDrops, SetLink, Fault
<1>7. CASE AuthExpires
  <2>1. link' \in LinkType
    BY <1>7 DEF AuthExpires, SetLink, LinkType
  <2> QED BY <1>7, <2>1, SpendType, OthersAct DEF AuthExpires, SetLink, Fault
<1>8. CASE WifiReturns
  <2>1. link' \in LinkType
    BY <1>8 DEF WifiReturns, SetLink, LinkType
  <2> QED BY <1>8, <2>1, OthersAct DEF WifiReturns, SetLink
<1> QED BY <1>1, <1>2, <1>3, <1>4, <1>5, <1>6, <1>7, <1>8 DEF Surroundings

-----------------------------------------------------------------------------
LEMMA InitEstablishes == Init => IInv
<1> SUFFICES ASSUME Init PROVE IInv
  OBVIOUS
<1>0. /\ <<>> \in Seq(Step) /\ <<>> \in Seq(Groups) /\ <<>> \in Seq(Request)
      /\ <<>> \in Seq(Frame) /\ <<>> \in Seq(Command) /\ Len(<<>>) = 0
  OBVIOUS
<1>1. /\ Unknown \in PropValues /\ [g \in Groups |-> None] \in Ext
      /\ [g \in PowerIds |-> None] \in Power
      /\ "none" \in PollModes /\ Blank \in AcState /\ CapsSeeded \in BOOLEAN
      /\ 0 \in 0..LockMaxStrikes /\ 0 \in 0..(MaxPollTimeouts - 1) /\ 0 \in 0..Burst
      /\ 0 <= QueueDepth
  BY AcAssumption DEF Unknown, PropValues, Ext, Power, PollModes
<1>2. ui \in UiType
  BY <1>1 DEF Init, Start, UiType
<1>3. shared \in SharedType
  BY <1>1 DEF Init, Start, SharedType
<1>4. task \in TaskType /\ task.work = <<>>
  BY <1>0, <1>1 DEF Init, Start, TaskType
<1>5. link \in LinkType
  BY <1>0 DEF Init, Start, LinkType
<1>6. dev \in DevType
  <2>1. [k \in Kinds |-> FALSE] \in [Kinds -> BOOLEAN]
    OBVIOUS
  <2> QED BY <2>1 DEF Init, Start, DevType
<1>7. queue \in Seq(Command) /\ Len(queue) <= QueueDepth
  BY <1>0, <1>1 DEF Init, Start
<1>8. spent \in SpentType
  BY DEF Init, Start, SpentType
<1>9. ghost \in GhostType
  BY DEF Init, Start, GhostType
<1> QED BY <1>2, <1>3, <1>4, <1>5, <1>6, <1>7, <1>8, <1>9, NoSteps DEF IInv, TypeOK, Good

LEMMA NextKeeps == IInv /\ [Next]_vars => IInv'
<1> SUFFICES ASSUME IInv, [Next]_vars PROVE IInv'
  OBVIOUS
<1>1. CASE UNCHANGED vars
  BY <1>1 DEF vars, IInv, TypeOK, Good
<1>2. CASE ServiceStep
  <2>1. ASSUME \E step \in Reads, r \in {"timeout", "linkdown", "protocol"} : Failed(step, r)
        PROVE  IInv'
    BY <2>1, FailedStep
  <2> QED BY <1>2, <2>1, ReceiveStep, BeginStep, LinkSteps, DrainSteps, DispatchSteps,
          OpenSteps, GetCapsSteps, PropSteps, SetStateStep, ToggleStep, PullStep,
          ReadSteps, CapsSteps, GroupSteps DEF ServiceStep
<1>3. CASE \E timer \in Timers : Passes(timer)
  BY <1>3, PassesStep
<1>4. CASE UserStep \/ Notify
  BY <1>4, UserSteps
<1>5. CASE DeviceAnswers \/ Surroundings \/ WifiReturns
  BY <1>5, AnswerSteps, SurroundingSteps
<1>6. CASE Paint
  BY <1>6, PaintSteps
<1> QED BY <1>1, <1>2, <1>3, <1>4, <1>5, <1>6 DEF Next, SessionNext

(* Every member keeps its type: the queue holds at most QueueDepth commands,  *)
(* a burst and the lock's strikes stay within their limits, a run of silent   *)
(* polls within MaxPollTimeouts, and no step of a pass is taken without what  *)
(* it needs (a SetState to send, a group to wait for).                        *)
THEOREM TypeCorrect == Spec => []TypeOK
<1>1. IInv => TypeOK
  BY DEF IInv
<1> QED BY <1>1, InitEstablishes, NextKeeps, PTL DEF Spec

(* The specification that liveness is checked under is one of the others'.    *)
COROLLARY SessionTypeCorrect == SessionSpec => []TypeOK
<1>1. SessionNext => Next
  BY DEF Next
<1>2. IInv => TypeOK
  BY DEF IInv
<1>3. IInv /\ [SessionNext]_vars => IInv'
  BY <1>1, NextKeeps
<1> QED BY <1>2, <1>3, InitEstablishes, PTL DEF SessionSpec

-----------------------------------------------------------------------------
(* The screen.  All a step can do to what the main loop has painted, or will  *)
(* be told to paint, is one of these.                                         *)
Silent(sh) == /\ sh.received = shared.received /\ sh.changed = shared.changed
              /\ sh.state = shared.state /\ sh.sessionUp = shared.sessionUp
              /\ sh.reach = shared.reach
              /\ sh.props = shared.props /\ sh.propsEdge = shared.propsEdge

Seen(up) == [shared EXCEPT !.sessionUp = up, !.reach = @ \/ up # shared.sessionUp]

Shares == \/ Silent(shared')
          \/ \E s \in AcState : shared' = Published(shared, s)
          \/ \E on \in PropValues : shared' = Merged(shared, on)
          \/ \E up \in BOOLEAN : shared' = Seen(up)

(* Whatever the task shares, it announces. *)
LEMMA SharesKeeps ==
  ASSUME shared \in SharedType, NoMissedRepaint, ui' = ui, Shares
  PROVE  NoMissedRepaint'
<1>1. CASE Silent(shared')
  BY <1>1 DEF Silent, NoMissedRepaint
<1>2. ASSUME NEW s \in AcState, shared' = Published(shared, s)
      PROVE  NoMissedRepaint'
  <2>1. /\ shared'.state = s /\ shared'.received
        /\ shared'.changed = (shared.changed \/ ~shared.received
                                \/ Shown(s) # Shown(shared.state))
        /\ shared'.sessionUp = TRUE
        /\ shared'.reach = (shared.reach \/ ~shared.sessionUp)
        /\ shared'.props = shared.props /\ shared'.propsEdge = shared.propsEdge
    BY <1>2 DEF Published, SharedType
  <2>2. shared.sessionUp \in BOOLEAN
    BY DEF SharedType
  <2> QED BY <2>1, <2>2 DEF NoMissedRepaint
<1>3. ASSUME NEW on \in PropValues, shared' = Merged(shared, on)
      PROVE  NoMissedRepaint'
  <2> DEFINE new == [k \in Kinds |-> IF on[k] = None THEN shared.props[k] ELSE on[k]]
  <2>1. shared' = [shared EXCEPT !.props = new, !.propsEdge = @ \/ new # shared.props]
    BY <1>3 DEF Merged
  <2> HIDE DEF new
  <2>2. /\ shared'.received = shared.received /\ shared'.changed = shared.changed
        /\ shared'.state = shared.state /\ shared'.sessionUp = shared.sessionUp
        /\ shared'.reach = shared.reach
        /\ shared'.props = new
        /\ shared'.propsEdge = (shared.propsEdge \/ new # shared.props)
    BY <2>1 DEF SharedType
  <2> QED BY <2>2 DEF NoMissedRepaint
<1>4. ASSUME NEW up \in BOOLEAN, shared' = Seen(up)
      PROVE  NoMissedRepaint'
  <2>1. /\ shared'.received = shared.received /\ shared'.changed = shared.changed
        /\ shared'.state = shared.state /\ shared'.sessionUp = up
        /\ shared'.reach = (shared.reach \/ up # shared.sessionUp)
        /\ shared'.props = shared.props /\ shared'.propsEdge = shared.propsEdge
    BY <1>4 DEF Seen, SharedType
  <2> QED BY <2>1 DEF NoMissedRepaint
<1> QED BY <1>1, <1>2, <1>3, <1>4 DEF Shares

LEMMA Silences ==
  ASSUME shared \in SharedType
  PROVE  /\ Silent(shared)
         /\ \A v : /\ Silent([shared EXCEPT !.mode = v])
                   /\ Silent([shared EXCEPT !.caps = v])
                   /\ Silent([shared EXCEPT !.resync = v])
                   /\ Silent([shared EXCEPT !.ext = v])
                   /\ Silent([shared EXCEPT !.extEdge = v])
BY DEF Silent, SharedType

LEMMA ServiceShares ==
  ASSUME IInv, ServiceStep
  PROVE  ui' = ui /\ Shares
<1> USE AtFacts, Silences
<1>1. CASE Receive
  BY <1>1 DEF Receive, Shares
<1>2. CASE Begin
  <2>1. (link.wifi /\ Alive) \in BOOLEAN
    BY DEF Alive, LinkType
  <2> QED BY <1>2, <2>1 DEF Begin, Do, Shares, Seen
<1>3. CASE LinkWithoutWifi \/ LinkWithWifi
  BY <1>3 DEF LinkWithoutWifi, LinkWithWifi, Do, Shares
<1>4. CASE Drained \/ DrainFails
  BY <1>4 DEF Drained, DrainFails, Do, Shares
<1>5. CASE DrainFrame
  <2>1. Front.kind = "state" => Front.st \in AcState
    BY <1>5, LinkFront, FrameFields DEF DrainFrame
  <2> QED BY <1>5, <2>1 DEF DrainFrame, Front, Do, Shares
<1>6. CASE DispatchCommands \/ DispatchOverride \/ DispatchPoll
  BY <1>6 DEF DispatchCommands, DispatchOverride, DispatchPoll, Do, Shares
<1>7. CASE InBackoff \/ OpenFails \/ Open \/ CheckLink
  BY <1>7 DEF InBackoff, OpenFails, Open, CheckLink, Do, Shares
<1>8. CASE GetCaps("getCaps", "readCaps") \/ GetCaps("getMore", "readMore")
  BY <1>8 DEF GetCaps, Do, Shares
<1>9. CASE SkipGetProps \/ GetProps \/ SetProps \/ SetState \/ ToggleSent
  BY <1>9 DEF SkipGetProps, GetProps, SetProps, SetState, ToggleSent, Send, Do, Shares
<1>10. CASE Pull
  BY <1>10 DEF Pull, PullEnds, Do, Shares
<1>11. CASE SkipFrame \/ ReadAck \/ ReadState \/ ReadProps \/ ReadPropsAck
  <2>1. Front \in Frame
    BY <1>11, LinkFront DEF SkipFrame, ReadAck, ReadState, ReadProps, ReadPropsAck,
       Awaited, Arrived
  <2>2. /\ Front.kind = "state" => Front.st \in AcState
        /\ Front.kind = "props" => Front.on \in PropValues
    BY <2>1, FrameFields
  <2> QED BY <1>11, <2>2 DEF SkipFrame, ReadAck, ReadState, ReadProps, ReadPropsAck,
          Awaited, Wanted, Do, Shares
<1>12. CASE ReadCaps \/ ReadMore
  BY <1>12 DEF ReadCaps, ReadMore, Do, Shares
<1>13. ASSUME NEW step \in Reads, NEW r, Failed(step, r)
       PROVE  ui' = ui /\ Shares
  BY <1>13 DEF Failed, PullEnds, Reads, Do, Shares
<1>14. CASE Extras \/ Group \/ EndRound
  BY <1>14 DEF Extras, Group, EndRound, Do, Shares
<1>15. CASE ReadGroup
  <2>1. Do(task', [shared EXCEPT !.ext = [shared.ext EXCEPT ![Front.group] = Front.on]], Behind)
    BY <1>15 DEF ReadGroup, Do
  <2> QED BY <2>1 DEF Do, Shares
<1> QED BY <1>1, <1>2, <1>3, <1>4, <1>5, <1>6, <1>7, <1>8, <1>9, <1>10, <1>11, <1>12,
        <1>13, <1>14, <1>15 DEF ServiceStep

LEMMA MainLoopKeeps ==
  ASSUME IInv, NoMissedRepaint, UserStep \/ Notify \/ Paint
  PROVE  NoMissedRepaint'
<1> USE Types
<1>1. ASSUME NEW c, NEW base, Submit(c, base)
      PROVE  NoMissedRepaint'
  <2>1. /\ shared' = shared /\ ui.todo = "none"
        /\ ui'.painted = ui.painted /\ ui'.up = ui.up /\ ui'.props = ui.props
    BY <1>1 DEF Submit, Idle, UiType
  <2> QED BY <2>1 DEF NoMissedRepaint
<1>2. CASE UserStep
  <2>1. CASE FlipLock
    <3>1. /\ shared' = shared /\ ui.todo = "none"
          /\ ui'.painted = ui.painted /\ ui'.up = ui.up /\ ui'.props = ui.props
      BY <2>1 DEF FlipLock, Idle, UiType
    <3> QED BY <3>1 DEF NoMissedRepaint
  <2>2. ASSUME NEW m \in Modes, SetPollMode(m) PROVE NoMissedRepaint'
    <3>1. /\ Silent(shared') /\ ui.todo = "none"
          /\ ui'.painted = ui.painted /\ ui'.up = ui.up /\ ui'.props = ui.props
      BY <2>2, Silences, FrameOf DEF SetPollMode, Idle
    <3> QED BY <3>1 DEF NoMissedRepaint, Silent
  <2> QED BY <1>1, <1>2, <2>1, <2>2 DEF UserStep, EditState, EditProp, ToggleDisplay
<1>3. CASE Notify
  <2>1. /\ Silent(shared') /\ ui.todo = "notify"
        /\ ui'.painted = ui.painted /\ ui'.up = ui.up /\ ui'.props = ui.props
    BY <1>3, Silences DEF Notify, UiType
  <2> QED BY <2>1 DEF NoMissedRepaint, Silent
<1>4. CASE Paint
  <2>1. ASSUME NEW flag \in {"changed", "reach", "propsEdge", "extEdge"},
               NEW then, Consume(flag, then)
        PROVE  /\ ui.todo = "none" /\ ui'.todo = then
               /\ ui'.painted = ui.painted /\ ui'.up = ui.up /\ ui'.props = ui.props
               /\ shared'.received = shared.received /\ shared'.state = shared.state
               /\ shared'.sessionUp = shared.sessionUp /\ shared'.props = shared.props
               /\ flag # "changed" => shared'.changed = shared.changed
               /\ flag # "reach" => shared'.reach = shared.reach
               /\ flag # "propsEdge" => shared'.propsEdge = shared.propsEdge
    BY <2>1 DEF Consume, Idle, UiType, SharedType
  <2>2. CASE ConsumeStateChanged
    BY <2>1, <2>2 DEF ConsumeStateChanged, NoMissedRepaint
  <2>3. CASE ConsumeReachabilityEdge
    BY <2>1, <2>3 DEF ConsumeReachabilityEdge, NoMissedRepaint
  <2>4. CASE ConsumePropsEdge
    BY <2>1, <2>4 DEF ConsumePropsEdge, NoMissedRepaint
  <2>5. CASE ConsumeExtUpdate
    BY <2>1, <2>5 DEF ConsumeExtUpdate, NoMissedRepaint
  <2>6. CASE OnAcStateChanged
    <3>1. /\ shared' = shared /\ ui.todo = "paint"
          /\ ui'.painted = Shown(shared.state) /\ ui'.up = ui.up /\ ui'.props = ui.props
      BY <2>6 DEF OnAcStateChanged, Act, Drawn, UiType
    <3> QED BY <3>1 DEF NoMissedRepaint
  <2>7. CASE PaintLink
    <3>1. /\ shared' = shared /\ ui.todo = "paintLink"
          /\ ui'.painted = ui.painted /\ ui'.up = shared.sessionUp /\ ui'.props = ui.props
      BY <2>7 DEF PaintLink, Act, Drawn, UiType
    <3> QED BY <3>1 DEF NoMissedRepaint
  <2>8. CASE PaintProps
    <3>1. /\ shared' = shared /\ ui.todo = "paintProps"
          /\ ui'.painted = ui.painted /\ ui'.up = ui.up /\ ui'.props = shared.props
      BY <2>8 DEF PaintProps, Act, UiType
    <3> QED BY <3>1 DEF NoMissedRepaint
  <2>9. CASE PaintExt
    <3>1. /\ shared' = shared /\ ui.todo = "paintExt"
          /\ ui'.painted = ui.painted /\ ui'.up = ui.up /\ ui'.props = ui.props
      BY <2>9 DEF PaintExt, UiType
    <3> QED BY <3>1 DEF NoMissedRepaint
  <2>10. CASE Draw
    <3>1. /\ shared' = shared /\ ui.todo = "draw"
          /\ ui'.painted = ui.painted /\ ui'.up = ui.up /\ ui'.props = ui.props
      BY <2>10 DEF Draw, Act, Drawn, UiType
    <3> QED BY <3>1 DEF NoMissedRepaint
  <2> QED BY <1>4, <2>2, <2>3, <2>4, <2>5, <2>6, <2>7, <2>8, <2>9, <2>10 DEF Paint
<1> QED BY <1>2, <1>3, <1>4

LEMMA NextRepaints == IInv /\ NoMissedRepaint /\ [Next]_vars => NoMissedRepaint'
<1> SUFFICES ASSUME IInv, NoMissedRepaint, [Next]_vars PROVE NoMissedRepaint'
  OBVIOUS
<1>1. CASE UNCHANGED vars
  BY <1>1 DEF vars, NoMissedRepaint
<1>2. CASE ServiceStep
  BY <1>2, AtFacts, ServiceShares, SharesKeeps
<1>3. CASE \E timer \in Timers : Passes(timer)
  BY <1>3 DEF Passes, Do, NoMissedRepaint
<1>4. CASE UserStep \/ Notify \/ Paint
  BY <1>4, MainLoopKeeps
<1>5. CASE DeviceAnswers \/ Surroundings \/ WifiReturns
  <2>1. ui' = ui /\ shared' = shared
    BY <1>5 DEF DeviceAnswers, AnswerState, AnswerSet, AnswerToggle, AnswerCaps, AnswerProps,
       AnswerSetProps, AnswerGroup, Answers, Surroundings, DeviceIgnores, RemoteChange,
       ReadingChanges, Noise, WifiDrops, PeerDrops, AuthExpires, WifiReturns, SetLink
  <2> QED BY <2>1 DEF NoMissedRepaint
<1> QED BY <1>1, <1>2, <1>3, <1>4, <1>5 DEF Next, SessionNext

(* The screen never stays behind the service: what it shows is what the       *)
(* service knows, or an edge or a repaint is on its way, whatever the         *)
(* interleaving of the service task with the main loop's two-part consumption *)
(* of an edge.                                                                *)
THEOREM ScreenFollows == Spec => []NoMissedRepaint
<1>1. Init => NoMissedRepaint
  <2> SUFFICES ASSUME Init PROVE NoMissedRepaint
    OBVIOUS
  <2>1. /\ shared.received = FALSE /\ ui.up = FALSE /\ shared.sessionUp = FALSE
        /\ ui.props = Unknown /\ shared.props = Unknown
    BY DEF Init, Start
  <2> QED BY <2>1 DEF NoMissedRepaint
<1> QED BY <1>1, InitEstablishes, NextKeeps, NextRepaints, PTL DEF Spec

-----------------------------------------------------------------------------
(* The power reading.  The screens that do not ask for all groups poll one    *)
(* group at most.                                                             *)
OneReading == Len(PowerGroups) <= 1 /\ "all" \notin Modes

OwnRequest == {r \in Request : r.kind = "group" => r.group = Head(PowerGroups)}
OwnFrame == {f \in Frame : f.kind = "group" => f.group = Head(PowerGroups)}

Own(l) == l.requests \in Seq(OwnRequest) /\ l.inbound \in Seq(OwnFrame)

(* Only that group is asked for and answered. *)
OneGroup ==
  /\ shared.mode # "all" /\ task.mode # "all"
  /\ task.left \in {<<>>, PowerGroups}
  /\ Own(link)

Announced ==
  shared.mode = "power" =>
    \/ shared.extEdge \/ ui.todo \in {"paintExt", "draw"}
    \/ PowerOf(ui.ext) = PowerOf(shared.ext)
    \/ PowerOf(shared.ext) = ui.drawn

(* What moved since the last round ended is announced when this one does.     *)
ReadingInv ==
  /\ shared.ext = task.shown => Announced
  /\ shared.ext # task.shown => (At("group") /\ task.left = <<>>) \/ At("endRound")

LEMMA OneGroupLeft ==
  ASSUME OneReading, OneGroup, task.left # <<>>
  PROVE  Tail(task.left) = <<>> /\ Head(task.left) = Head(PowerGroups)
<1>1. task.left = PowerGroups /\ PowerGroups \in Seq(Nat)
  BY AcAssumption DEF OneGroup
<1>2. Len(PowerGroups) = 1
  <2>1. Len(PowerGroups) \in Nat \ {0}
    BY <1>1, EmptySeq
  <2>2. Len(PowerGroups) <= 1
    BY DEF OneReading
  <2>3. \A n \in Nat \ {0} : n <= 1 => n = 1
    OBVIOUS
  <2> QED BY <2>1, <2>2, <2>3, Zenon
<1>3. Tail(PowerGroups) \in Seq(Nat) /\ Len(Tail(PowerGroups)) = 0
  BY <1>1, <1>2, HeadTailProperties
<1> QED BY <1>1, <1>3, EmptySeq

LEMMA OneGroupRounds ==
  ASSUME OneGroup
  PROVE  Rounds \in {<<>>, PowerGroups}
<1>1. Polls # "all"
  BY DEF OneGroup, Polls
<1> QED BY <1>1 DEF Rounds

(* A value of the task that leaves the round alone. *)
Calm(t) == /\ DOMAIN t = DOMAIN task /\ t.left = task.left /\ t.shown = task.shown
           /\ t.mode \in {task.mode, shared.mode, "none"}

LEMMA CalmThrough ==
  ASSUME task \in TaskType, NEW t, Calm(t)
  PROVE  /\ \A p : Calm(Then(t, p))
         /\ Calm(Done(t)) /\ Calm(Finish(t))
         /\ Calm(Retry(t)) /\ Calm(Known(t)) /\ Calm(Window(t))
         /\ Calm(Booked(t)) /\ Calm(Navigated(t)) /\ Calm(LockRead(t))
         /\ \A v : /\ Calm(Armed(t, v))
                   /\ Calm([t EXCEPT !.work = v])
                   /\ Calm([t EXCEPT !.burst = v])
                   /\ Calm([t EXCEPT !.timeouts = v])
                   /\ Calm([t EXCEPT !.strikes = v])
                   /\ Calm([t EXCEPT !.poll = v])
                   /\ Calm([t EXCEPT !.fast = v])
                   /\ Calm([t EXCEPT !.revert = v])
                   /\ Calm([t EXCEPT !.set = v])
                   /\ Calm([t EXCEPT !.target = v])
                   /\ Calm([t EXCEPT !.toggle = v])
                   /\ Calm([t EXCEPT !.props = v])
<1>1. {"left", "shown", "mode"} \subseteq DOMAIN task
  BY DEF TaskType
<1>2. /\ {"left", "shown", "mode"} \subseteq DOMAIN t
      /\ DOMAIN t = DOMAIN task /\ t.left = task.left /\ t.shown = task.shown
      /\ t.mode \in {task.mode, shared.mode, "none"}
  BY <1>1 DEF Calm
<1>3. /\ \A p : Calm(Then(t, p))
      /\ Calm(Done(t)) /\ Calm(Finish(t))
  BY <1>2 DEF Calm, Then, Done, Finish
<1>4. /\ Calm(Retry(t)) /\ Calm(Known(t)) /\ Calm(Window(t)) /\ Calm(Booked(t))
      /\ Calm(Navigated(t)) /\ Calm(LockRead(t))
      /\ \A v : Calm(Armed(t, v))
  BY <1>2 DEF Calm, Retry, Known, Window, Booked, Navigated, LockRead, Armed
<1>5. \A v : /\ Calm([t EXCEPT !.work = v])
             /\ Calm([t EXCEPT !.burst = v])
             /\ Calm([t EXCEPT !.timeouts = v])
             /\ Calm([t EXCEPT !.strikes = v])
             /\ Calm([t EXCEPT !.poll = v])
             /\ Calm([t EXCEPT !.fast = v])
             /\ Calm([t EXCEPT !.revert = v])
             /\ Calm([t EXCEPT !.set = v])
             /\ Calm([t EXCEPT !.target = v])
             /\ Calm([t EXCEPT !.toggle = v])
             /\ Calm([t EXCEPT !.props = v])
  BY <1>2 DEF Calm
<1> QED BY <1>3, <1>4, <1>5

(* The steps that leave the round and the readings alone. *)
Unread(sh) == sh.ext = shared.ext /\ sh.extEdge = shared.extEdge /\ sh.mode = shared.mode
Aside == /\ Calm(task') /\ Unread(shared') /\ ui' = ui
         /\ ~At("group") /\ ~At("endRound")

LEMMA UnreadThrough ==
  ASSUME shared \in SharedType
  PROVE  /\ Unread(shared)
         /\ \A s : Unread(Published(shared, s))
         /\ \A on : Unread(Merged(shared, on))
         /\ \A v : /\ Unread([shared EXCEPT !.caps = v])
                   /\ Unread([shared EXCEPT !.resync = v])
         /\ \A v, e : Unread([shared EXCEPT !.sessionUp = v, !.reach = e])
BY DEF Unread, Published, Merged, SharedType

LEMMA AsideKeeps ==
  ASSUME ReadingInv, Aside
  PROVE  ReadingInv'
<1>1. shared.ext = task.shown /\ Announced
  BY DEF ReadingInv, Aside
<1>2. shared'.ext = task'.shown /\ Announced'
  BY <1>1 DEF Aside, Calm, Unread, Announced
<1> QED BY <1>2 DEF ReadingInv

LEMMA PassAside ==
  ASSUME IInv, Begin \/ LinkWithoutWifi \/ LinkWithWifi \/ Drained \/ DrainFrame
               \/ DrainFails \/ InBackoff \/ OpenFails \/ Open \/ CheckLink
  PROVE  Aside
<1> USE AtFacts, UnreadThrough
<1>0. Calm(task) /\ ui' = ui /\ ~At("group") /\ ~At("endRound")
  BY DEF Calm, Begin, LinkWithoutWifi, LinkWithWifi, Drained, DrainFrame, DrainFails,
         Draining, InBackoff, OpenFails, Open, CheckLink, At, Do
<1>1. CASE Begin
  <2>1. Calm(LockRead(Navigated(task)))
    BY <1>0, CalmThrough
  <2>2. Calm([LockRead(Navigated(task)) EXCEPT !.work = <<"link">>])
    BY <2>1, CalmThrough
  <2> QED BY <1>0, <1>1, <2>2 DEF Begin, Do, Aside
<1>2. CASE LinkWithoutWifi
  BY <1>0, <1>2, CalmThrough DEF LinkWithoutWifi, Do, Aside
<1>3. CASE LinkWithWifi
  <2> DEFINE t == IF shared.resync THEN [task EXCEPT !.fast = TRUE, !.poll = FALSE] ELSE task
  <2>1. Calm(t)
    <3>1. Calm([task EXCEPT !.fast = TRUE])
      BY <1>0, CalmThrough
    <3>2. Calm([[task EXCEPT !.fast = TRUE] EXCEPT !.poll = FALSE])
      BY <3>1, CalmThrough
    <3> QED BY <1>0, <3>2
  <2>2. /\ \/ task' = Finish(t)
           \/ \E p : task' = Then(t, p) \/ task' = [Then(t, p) EXCEPT !.burst = Burst]
        /\ shared' = [shared EXCEPT !.resync = FALSE]
    BY <1>3 DEF LinkWithWifi, Do
  <2> HIDE DEF t
  <2>3. Calm(Finish(t)) /\ \A p : Calm(Then(t, p))
    BY <2>1, CalmThrough
  <2>4. \A p : Calm([Then(t, p) EXCEPT !.burst = Burst])
    BY <2>3, CalmThrough
  <2> QED BY <1>0, <2>2, <2>3, <2>4 DEF Aside
<1>4. CASE Drained
  <2>1. Calm([task EXCEPT !.burst = 0])
    BY <1>0, CalmThrough
  <2> QED BY <1>0, <1>4, <2>1, CalmThrough DEF Drained, Do, Aside
<1>5. CASE DrainFrame
  <2> DEFINE t == [task EXCEPT !.burst = @ - 1]
  <2>1. Calm(t)
    BY <1>0, CalmThrough
  <2>2. /\ task' = t \/ \E s : task' = Armed(t, s)
        /\ shared' = shared \/ \E s : shared' = Published(shared, s)
    BY <1>5 DEF DrainFrame, Do
  <2> HIDE DEF t
  <2>3. \A s : Calm(Armed(t, s))
    BY <2>1, CalmThrough
  <2> QED BY <1>0, <2>1, <2>2, <2>3 DEF Aside
<1>6. CASE DrainFails
  <2>1. Calm(Finish(task))
    BY <1>0, CalmThrough
  <2>2. Calm([Finish(task) EXCEPT !.burst = 0])
    BY <2>1, CalmThrough
  <2>3. Calm(Retry([Finish(task) EXCEPT !.burst = 0]))
    BY <2>2, CalmThrough
  <2> QED BY <1>0, <1>6, <2>2, <2>3 DEF DrainFails, Do, Aside
<1>7. CASE InBackoff \/ Open \/ CheckLink
  <2>1. /\ task' = Finish(task) \/ (\E p : task' = Then(task, p)) \/ task' = Done(task)
        /\ shared' = shared
    BY <1>7 DEF InBackoff, Open, CheckLink, Do
  <2> QED BY <1>0, <2>1, CalmThrough DEF Aside
<1>8. CASE OpenFails
  <2>1. task' = Retry(Finish(task)) /\ shared' = shared /\ Calm(Finish(task))
    BY <1>0, <1>8, CalmThrough DEF OpenFails, Do, Retry
  <2> QED BY <1>0, <2>1, CalmThrough DEF Aside
<1> QED BY <1>1, <1>2, <1>3, <1>4, <1>5, <1>6, <1>7, <1>8

LEMMA CommandAside ==
  ASSUME IInv, Receive \/ DispatchCommands \/ DispatchOverride \/ DispatchPoll
               \/ SkipGetProps \/ GetProps \/ SetProps \/ SetState \/ ToggleSent
  PROVE  Aside
<1> USE AtFacts, UnreadThrough
<1>0. /\ Calm(task) /\ ui' = ui /\ ~At("group") /\ ~At("endRound") /\ shared' = shared
  BY DEF Calm, Receive, DispatchCommands, DispatchOverride, DispatchPoll, Dispatching,
         SkipGetProps, GetProps, SetProps, SetState, ToggleSent, Send, At, Do
<1>1. CASE Receive
  <2> DEFINE c == Head(queue)
  <2>1. c \in Command
    BY <1>1, HeadTailProperties DEF Receive, IInv, TypeOK
  <2>2. Calm(Accepted(c))
    <3>1. \A v : Calm([task EXCEPT !.set = v]) /\ Calm([task EXCEPT !.props = v])
      BY <1>0, CalmThrough
    <3>2. \A v : Calm([[task EXCEPT !.set = v] EXCEPT !.target = v])
      BY <3>1, CalmThrough
    <3>3. \A v : Calm([[[task EXCEPT !.set = v] EXCEPT !.target = v] EXCEPT !.strikes = 0])
      BY <3>2, CalmThrough
    <3>4. Calm([task EXCEPT !.toggle = TRUE])
      BY <1>0, CalmThrough
    <3> HIDE DEF c
    <3> QED BY <2>1, <3>1, <3>3, <3>4, CommandFields DEF Accepted
  <2>3. task' = [Accepted(c) EXCEPT !.work = <<"begin">>]
    BY <1>1 DEF Receive
  <2> QED BY <1>0, <2>2, <2>3, CalmThrough DEF Aside
<1>2. CASE DispatchCommands
  <2>1. Calm(Booked(task))
    BY <1>0, CalmThrough
  <2> QED BY <1>0, <1>2, <2>1, CalmThrough DEF DispatchCommands, Do, Aside
<1>3. CASE DispatchOverride
  <2>1. \A v : Calm([task EXCEPT !.strikes = v])
    BY <1>0, CalmThrough
  <2>2. \A v : Calm([[task EXCEPT !.strikes = v] EXCEPT !.revert = TRUE])
    BY <2>1, CalmThrough
  <2>3. \A v, s : Calm([[[task EXCEPT !.strikes = v] EXCEPT !.revert = TRUE] EXCEPT !.set = s])
    BY <2>2, CalmThrough
  <2>4. Calm(Struck)
    BY <2>3 DEF Struck
  <2>5. Calm(Booked(Struck))
    BY <2>4, CalmThrough
  <2> QED BY <1>0, <1>3, <2>5, CalmThrough DEF DispatchOverride, Do, Aside
<1>4. CASE DispatchPoll
  <2> DEFINE t == IF Converged THEN [task EXCEPT !.strikes = 0] ELSE task
             p == [t EXCEPT !.poll = TRUE]
  <2>1. Calm(t)
    BY <1>0, CalmThrough
  <2>2. task' = Done(t) \/ task' = Then(p, PollSteps)
    BY <1>4 DEF DispatchPoll, Do
  <2> HIDE DEF t
  <2>3. Calm(p)
    BY <2>1, CalmThrough
  <2> HIDE DEF p
  <2>4. Calm(Done(t)) /\ Calm(Then(p, PollSteps))
    BY <2>1, <2>3, CalmThrough
  <2> QED BY <1>0, <2>2, <2>4 DEF Aside
<1>5. CASE SkipGetProps \/ GetProps
  <2>1. task' = Done(task) \/ \E p : task' = Then(task, p)
    BY <1>5 DEF SkipGetProps, GetProps, Send, Do
  <2> QED BY <1>0, <2>1, CalmThrough DEF Aside
<1>6. CASE SetProps \/ SetState \/ ToggleSent
  <2>1. PICK t \in {[task EXCEPT !.props = Unknown], [task EXCEPT !.set = None],
                    [task EXCEPT !.toggle = FALSE]} :
          task' = Done(t) \/ \E p : task' = Then(Window(t), p)
    BY <1>6 DEF SetProps, SetState, ToggleSent, Send, Do
  <2>2. Calm(t)
    <3>1. /\ Calm([task EXCEPT !.props = Unknown]) /\ Calm([task EXCEPT !.set = None])
          /\ Calm([task EXCEPT !.toggle = FALSE])
      BY <1>0, CalmThrough
    <3> QED BY <3>1
  <2>3. Calm(Done(t)) /\ Calm(Window(t))
    BY <2>2, CalmThrough
  <2>4. \A p : Calm(Then(Window(t), p))
    BY <2>3, CalmThrough
  <2> QED BY <1>0, <2>1, <2>3, <2>4 DEF Aside
<1> QED BY <1>1, <1>2, <1>3, <1>4, <1>5, <1>6

LEMMA AnswerAside ==
  ASSUME IInv, \/ GetCaps("getCaps", "readCaps") \/ GetCaps("getMore", "readMore") \/ Pull
               \/ SkipFrame \/ ReadAck \/ ReadState \/ ReadProps \/ ReadPropsAck
               \/ ReadCaps \/ ReadMore
               \/ \E step \in Reads \ {"readGroup"} : \E r : Failed(step, r)
  PROVE  Aside
<1> USE AtFacts, UnreadThrough
<1>0. /\ Calm(task) /\ ui' = ui /\ ~At("group") /\ ~At("endRound")
  <2>1. CASE GetCaps("getCaps", "readCaps") \/ GetCaps("getMore", "readMore") \/ Pull
    BY <2>1 DEF Calm, GetCaps, Pull, PullEnds, At, Do
  <2>2. CASE \/ SkipFrame \/ ReadAck \/ ReadState \/ ReadProps \/ ReadPropsAck
             \/ ReadCaps \/ ReadMore
    BY <2>2 DEF Calm, SkipFrame, ReadAck, ReadState, ReadProps, ReadPropsAck, ReadCaps,
       ReadMore, Awaited, Arrived, Reading, Reads, At, Do
  <2>3. ASSUME NEW step \in Reads \ {"readGroup"}, NEW r, Failed(step, r)
        PROVE  Calm(task) /\ ui' = ui /\ ~At("group") /\ ~At("endRound")
    BY <2>3 DEF Calm, Failed, PullEnds, Reads, At, Do
  <2> QED BY <2>1, <2>2, <2>3
<1>1. /\ Calm(Done(task)) /\ \A p : Calm(Then(task, p))
  BY <1>0, CalmThrough
<1>2. /\ Calm(Retry(Done(task))) /\ Calm(Known(Done(task)))
      /\ \A v : Calm([Done(task) EXCEPT !.timeouts = v])
      /\ \A s : Calm(Armed(task, s))
  BY <1>0, <1>1, CalmThrough
<1>3. /\ Calm(Known(Retry(Done(task)))) /\ Calm(Retry(Known(Done(task))))
      /\ Calm(Retry([Done(task) EXCEPT !.timeouts = 0]))
      /\ \A s : Calm(Done(Armed(task, s)))
  BY <1>2, CalmThrough
<1>4. \A s : Calm([Done(Armed(task, s)) EXCEPT !.timeouts = 0])
  BY <1>3, CalmThrough
<1>5. ASSUME NEW r, PullEnds(r) PROVE Aside
  <2>1. shared' = shared /\ Calm(task')
    BY <1>2, <1>3, <1>5 DEF PullEnds, Do
  <2> QED BY <1>0, <2>1 DEF Aside
<1>6. CASE GetCaps("getCaps", "readCaps") \/ GetCaps("getMore", "readMore")
  <2>1. /\ \/ \E p : task' = Then(task, p)
           \/ task' = Retry(Done(task)) \/ task' = Retry(Known(Done(task)))
        /\ shared' = shared \/ shared' = [shared EXCEPT !.caps = "base"]
    BY <1>6 DEF GetCaps, Do, Known
  <2> QED BY <1>0, <1>1, <1>2, <1>3, <2>1 DEF Aside
<1>7. CASE Pull
  BY <1>0, <1>1, <1>5, <1>7 DEF Pull, Do, Aside
<1>8. CASE SkipFrame \/ ReadAck \/ ReadState
  <2>1. /\ \/ task' = task
           \/ \E s : \/ task' = Armed(task, s) \/ task' = Done(Armed(task, s))
                     \/ task' = [Done(Armed(task, s)) EXCEPT !.timeouts = 0]
        /\ shared' = shared \/ \E s : shared' = Published(shared, s)
    BY <1>8 DEF SkipFrame, ReadAck, ReadState, Do
  <2> QED BY <1>0, <1>2, <1>3, <1>4, <2>1 DEF Aside
<1>9. CASE ReadProps \/ ReadPropsAck \/ ReadCaps \/ ReadMore
  <2>1. /\ \/ \E p : task' = Then(task, p)
           \/ task' = Done(task) \/ task' = Known(Done(task))
        /\ \/ shared' = shared \/ (\E on : shared' = Merged(shared, on))
           \/ shared' = [shared EXCEPT !.caps = "full"]
    BY <1>9 DEF ReadProps, ReadPropsAck, ReadCaps, ReadMore, Do
  <2> QED BY <1>0, <1>1, <1>2, <2>1 DEF Aside
<1>10. ASSUME NEW step \in Reads \ {"readGroup"}, NEW r, Failed(step, r) PROVE Aside
  <2>1. \/ PullEnds(r)
        \/ /\ \/ task' = Done(task) \/ task' = Retry(Done(task))
              \/ task' = Known(Done(task)) \/ task' = Known(Retry(Done(task)))
           /\ shared' = shared \/ shared' = [shared EXCEPT !.caps = "base"]
    BY <1>10 DEF Failed, Reads, Do
  <2> QED BY <1>0, <1>1, <1>2, <1>3, <1>5, <2>1 DEF Aside
<1> QED BY <1>6, <1>7, <1>8, <1>9, <1>10

-----------------------------------------------------------------------------
(* The steps of a round. *)
LEMMA RoundKeeps ==
  ASSUME IInv, OneReading, OneGroup, ReadingInv,
         \/ Extras \/ Group \/ ReadGroup \/ EndRound
         \/ \E r : Failed("readGroup", r)
  PROVE  /\ ReadingInv'
         /\ task'.left \in {<<>>, PowerGroups}
         /\ task'.mode = task.mode /\ shared'.mode = shared.mode
<1> USE AtFacts
<1>0. /\ {"work", "left", "shown", "mode"} \subseteq DOMAIN task
      /\ {"ext", "extEdge", "mode"} \subseteq DOMAIN shared
  BY DEF TaskType, SharedType
<1>1. task.left # <<>> => Tail(task.left) = <<>> /\ Head(task.left) = Head(PowerGroups)
  BY OneGroupLeft
<1>2. task.left \in {<<>>, PowerGroups}
  BY DEF OneGroup
<1>3. ASSUME NEW s \in Step, NEW t, t.work = task.work, "work" \in DOMAIN t
      PROVE  Then(t, <<s>>).work # <<>> /\ Head(Then(t, <<s>>).work) = s
  <2>1. Tail(task.work) \in Seq(Step) /\ <<s>> \in Seq(Step) /\ <<s>> # <<>>
        /\ Head(<<s>>) = s
    <3>1. task.work \in Seq(Step) /\ task.work # <<>>
      BY DEF TaskType, Extras, Group, ReadGroup, EndRound, Awaited, Failed, At
    <3> QED BY <3>1, HeadTailProperties
  <2>2. <<s>> \o Tail(task.work) # <<>> /\ Head(<<s>> \o Tail(task.work)) = s
    BY <2>1, HeadTailOfJoin
  <2> QED BY <1>3, <2>2 DEF Then
<1> DEFINE drop == [task EXCEPT !.left = Tail(task.left)]
           none == [task EXCEPT !.left = <<>>]
<1>4. /\ drop.work = task.work /\ none.work = task.work
      /\ "work" \in DOMAIN drop /\ "work" \in DOMAIN none
      /\ drop.left = Tail(task.left) /\ none.left = <<>>
      /\ drop.shown = task.shown /\ none.shown = task.shown
      /\ drop.mode = task.mode /\ none.mode = task.mode
      /\ DOMAIN drop = DOMAIN task /\ DOMAIN none = DOMAIN task
  BY <1>0
<1>5. \A t, p : DOMAIN t = DOMAIN task
        => /\ Then(t, p).left = t.left /\ Then(t, p).shown = t.shown
           /\ Then(t, p).mode = t.mode
  BY <1>0 DEF Then
<1>6. {"group", "endRound", "readGroup"} \subseteq Step
  BY DEF Step, Reads
<1>7. CASE Extras
  <2> DEFINE t == [task EXCEPT !.left = Rounds]
  <2>1. /\ ui' = ui /\ shared' = shared /\ ~At("group") /\ ~At("endRound")
        /\ task' = Done(task) \/ task' = Then(t, <<"group">>)
    BY <1>7 DEF Extras, Do, At
  <2>2. /\ DOMAIN t = DOMAIN task /\ t.left = Rounds /\ t.shown = task.shown
        /\ t.mode = task.mode
    BY <1>0
  <2> HIDE DEF t
  <2>3. /\ task'.shown = task.shown /\ task'.mode = task.mode
        /\ task'.left \in {task.left, Rounds}
    BY <1>5, <2>1, <2>2 DEF Done
  <2>4. shared.ext = task.shown /\ Announced
    BY <2>1 DEF ReadingInv
  <2>5. shared'.ext = task'.shown /\ Announced'
    BY <2>1, <2>3, <2>4 DEF Announced
  <2> QED BY <1>2, <2>1, <2>3, <2>5, OneGroupRounds DEF ReadingInv
<1>8. CASE Group
  <2>1. ui' = ui /\ shared' = shared /\ At("group") /\ ~At("endRound")
    BY <1>8 DEF Group, Do, At
  <2>2. CASE task.left # <<>> /\ Alive
    <3>1. task' = Then(task, <<"readGroup">>)
      BY <1>8, <2>2 DEF Group, Do
    <3>2. task'.left = task.left /\ task'.shown = task.shown /\ task'.mode = task.mode
      BY <1>5, <3>1
    <3>3. shared.ext = task.shown /\ Announced
      BY <2>1, <2>2 DEF ReadingInv
    <3>4. shared'.ext = task'.shown /\ Announced'
      BY <2>1, <3>2, <3>3 DEF Announced
    <3> QED BY <1>2, <2>1, <3>2, <3>4 DEF ReadingInv
  <2>3. CASE ~(task.left # <<>> /\ Alive)
    <3>1. task' = Then(none, <<"endRound">>)
      BY <1>8, <2>3 DEF Group, Do
    <3>2. /\ task'.left = <<>> /\ task'.shown = task.shown /\ task'.mode = task.mode
          /\ task'.work # <<>> /\ Head(task'.work) = "endRound"
      BY <1>3, <1>4, <1>5, <1>6, <3>1
    <3>3. At("endRound")'
      BY <3>2 DEF At
    <3>4. shared'.ext = task'.shown => Announced'
      BY <2>1, <3>2 DEF ReadingInv, Announced
    <3> QED BY <2>1, <3>2, <3>3, <3>4 DEF ReadingInv
  <2> QED BY <2>2, <2>3
<1>9. CASE ReadGroup
  <2>1. /\ At("readGroup") /\ ~At("group") /\ ~At("endRound") /\ task.left # <<>>
        /\ ui' = ui /\ link.inbound # <<>> /\ Front.kind = "group"
    BY <1>9 DEF ReadGroup, Awaited, Arrived, Wanted, Do, At, Good
  <2>2. Front.group = Head(task.left)
    <3>1. Front \in OwnFrame
      BY <2>1, HeadTailProperties DEF OneGroup, Own, Front
    <3> QED BY <1>1, <2>1, <3>1 DEF OwnFrame
  <2>3. /\ task' = Then(drop, <<"group">>)
        /\ shared' = [shared EXCEPT !.ext[Front.group] = Front.on]
    BY <1>9, <2>2 DEF ReadGroup, Do
  <2>4. /\ task'.left = <<>> /\ task'.shown = task.shown /\ task'.mode = task.mode
        /\ task'.work # <<>> /\ Head(task'.work) = "group"
    BY <1>1, <1>3, <1>4, <1>5, <1>6, <2>1, <2>3
  <2>5. At("group")'
    BY <2>4 DEF At
  <2>6. shared'.extEdge = shared.extEdge /\ shared'.mode = shared.mode
    BY <1>0, <2>3
  <2>7. shared.ext = task.shown /\ Announced
    BY <2>1 DEF ReadingInv
  <2>8. shared'.ext = task'.shown => Announced'
    BY <2>1, <2>4, <2>6, <2>7 DEF Announced
  <2> QED BY <2>4, <2>5, <2>6, <2>8 DEF ReadingInv
<1>10. CASE EndRound
  <2> DEFINE t == [[task EXCEPT !.left = <<>>] EXCEPT !.shown = shared.ext]
  <2>1. /\ ui' = ui /\ task' = Then(t, <<>>)
        /\ shared' = [shared EXCEPT !.extEdge = @ \/ shared.ext # task.shown]
    BY <1>10 DEF EndRound, Done, Do
  <2>2. /\ DOMAIN t = DOMAIN task /\ t.left = <<>> /\ t.shown = shared.ext
        /\ t.mode = task.mode
    BY <1>0
  <2> HIDE DEF t
  <2>3. task'.left = <<>> /\ task'.shown = shared.ext /\ task'.mode = task.mode
    BY <1>5, <2>1, <2>2
  <2>4. /\ shared'.ext = shared.ext /\ shared'.mode = shared.mode
        /\ shared'.extEdge = (shared.extEdge \/ shared.ext # task.shown)
    BY <1>0, <2>1
  <2>5. shared'.ext = task'.shown /\ Announced'
    BY <2>1, <2>3, <2>4 DEF ReadingInv, Announced
  <2> QED BY <2>3, <2>4, <2>5 DEF ReadingInv
<1>11. ASSUME NEW r, Failed("readGroup", r)
       PROVE  /\ ReadingInv'
              /\ task'.left \in {<<>>, PowerGroups}
              /\ task'.mode = task.mode /\ shared'.mode = shared.mode
  <2>1. /\ At("readGroup") /\ ~At("group") /\ ~At("endRound") /\ task.left # <<>>
        /\ ui' = ui /\ shared' = shared
        /\ task' = Then(drop, <<"group">>) \/ task' = Then(task, <<"endRound">>)
    BY <1>11 DEF Failed, Do, At, Good
  <2> DEFINE a == Then(drop, <<"group">>)
             b == Then(task, <<"endRound">>)
  <2>a. a.left = <<>> /\ a.shown = task.shown /\ a.mode = task.mode
    BY <1>1, <1>4, <1>5, <2>1
  <2>b. b.left = task.left /\ b.shown = task.shown /\ b.mode = task.mode
    BY <1>5
  <2>c. task' = a \/ task' = b
    BY <2>1
  <2> HIDE DEF a, b
  <2>2. /\ task'.left \in {<<>>, task.left} /\ task'.shown = task.shown
        /\ task'.mode = task.mode
    BY <2>a, <2>b, <2>c
  <2>3. shared.ext = task.shown /\ Announced
    BY <2>1 DEF ReadingInv
  <2>4. shared'.ext = task'.shown /\ Announced'
    BY <2>1, <2>2, <2>3 DEF Announced
  <2> QED BY <1>2, <2>1, <2>2, <2>4 DEF ReadingInv
<1> QED BY <1>7, <1>8, <1>9, <1>10, <1>11

-----------------------------------------------------------------------------
(* What travels on the link. *)
LEMMA OwnRequests ==
  /\ [kind |-> "caps"] \in OwnRequest /\ [kind |-> "toggle"] \in OwnRequest
  /\ [kind |-> "getState"] \in OwnRequest
  /\ \A s \in AcState : [kind |-> "set", st |-> s] \in OwnRequest
  /\ \A ask \in SUBSET Kinds : [kind |-> "getProps", ask |-> ask] \in OwnRequest
  /\ \A on \in PropValues : [kind |-> "setProps", on |-> on] \in OwnRequest
  /\ Head(PowerGroups) \in Groups
       => [kind |-> "group", group |-> Head(PowerGroups)] \in OwnRequest
BY Requests DEF OwnRequest

LEMMA OwnFrames ==
  /\ \A s \in AcState : StateFrame(s) \in OwnFrame
  /\ \A on \in PropValues : [kind |-> "props", on |-> on] \in OwnFrame
  /\ \A k \in {"caps", "propsAck", "invalid", "corrupt"} : [kind |-> k] \in OwnFrame
  /\ \A on \in BOOLEAN : Head(PowerGroups) \in Groups
       => [kind |-> "group", group |-> Head(PowerGroups), on |-> on] \in OwnFrame
BY FrameTypes DEF OwnFrame, StateFrame

Reopened == [Closed EXCEPT !.open = TRUE, !.peer = TRUE]
Taken == [link EXCEPT !.requests = Tail(@)]

LEMMA OwnThrough ==
  ASSUME link \in LinkType, Own(link)
  PROVE  /\ Own(Closed) /\ Own(Reopened)
         /\ link.inbound # <<>> => Own(Behind)
         /\ link.requests # <<>> => Own(Taken)
         /\ \A r \in OwnRequest : Own(Sent(r))
         /\ \A f \in OwnFrame : Own(Put(f))
<1>0. {"requests", "inbound"} \subseteq DOMAIN link
  BY DEF LinkType
<1>1. link.requests \in Seq(OwnRequest) /\ link.inbound \in Seq(OwnFrame)
  BY DEF Own
<1>2. <<>> \in Seq(OwnRequest) /\ <<>> \in Seq(OwnFrame)
  OBVIOUS
<1>3. Own(Closed) /\ Own(Reopened)
  BY <1>2 DEF Own, Closed, Reopened, LinkType
<1>4. link.inbound # <<>> => Own(Behind)
  <2>1. link.inbound # <<>> => Tail(link.inbound) \in Seq(OwnFrame)
    BY <1>1, HeadTailProperties
  <2> QED BY <1>0, <1>1, <2>1 DEF Own, Behind
<1>5. link.requests # <<>> => Own(Taken)
  <2>1. link.requests # <<>> => Tail(link.requests) \in Seq(OwnRequest)
    BY <1>1, HeadTailProperties
  <2> QED BY <1>0, <1>1, <2>1 DEF Own, Taken
<1>6. ASSUME NEW r \in OwnRequest PROVE Own(Sent(r))
  <2>1. Append(link.requests, r) \in Seq(OwnRequest)
    BY <1>1
  <2> QED BY <1>0, <1>1, <2>1 DEF Own, Sent
<1>7. ASSUME NEW f \in OwnFrame PROVE Own(Put(f))
  <2>1. Append(link.inbound, f) \in Seq(OwnFrame)
    BY <1>1
  <2> QED BY <1>0, <1>1, <2>1 DEF Own, Put
<1> QED BY <1>3, <1>4, <1>5, <1>6, <1>7

(* Ways the task has of changing the link. *)
LinkChanges == \/ link' \in {link, Closed, Reopened}
               \/ link.inbound # <<>> /\ link' = Behind
               \/ \E r \in OwnRequest : link' = Sent(r)

LEMMA ServiceLink ==
  ASSUME IInv, OneReading, OneGroup, ServiceStep
  PROVE  Own(link')
<1> USE AtFacts
<1> SUFFICES LinkChanges
  BY OwnThrough DEF LinkChanges, OneGroup
<1>1. CASE Receive \/ Begin \/ LinkWithoutWifi \/ LinkWithWifi
  BY <1>1 DEF Receive, Begin, LinkWithoutWifi, LinkWithWifi, Do, LinkChanges
<1>2. CASE Drained \/ DrainFrame \/ DrainFails
  BY <1>2 DEF Drained, DrainFrame, DrainFails, Do, Behind, LinkChanges
<1>3. CASE DispatchCommands \/ DispatchOverride \/ DispatchPoll
  BY <1>3 DEF DispatchCommands, DispatchOverride, DispatchPoll, Do, LinkChanges
<1>4. CASE InBackoff \/ OpenFails \/ Open \/ CheckLink
  BY <1>4 DEF InBackoff, OpenFails, Open, CheckLink, Do, Reopened, LinkChanges
<1>5. CASE GetCaps("getCaps", "readCaps") \/ GetCaps("getMore", "readMore")
  BY <1>5, OwnRequests DEF GetCaps, Do, LinkChanges
<1>6. CASE SkipGetProps \/ GetProps
  BY <1>6, OwnRequests, OfferedType DEF SkipGetProps, GetProps, Send, Do, LinkChanges
<1>7. CASE SetProps
  <2> DEFINE on == [k \in Kinds |-> IF k \in Offered \cup {BeepKind} THEN task.props[k] ELSE None]
  <2>1. on \in PropValues
    BY DEF PropValues, TaskType
  <2>2. link' = link \/ link' = Sent([kind |-> "setProps", on |-> on])
    BY <1>7 DEF SetProps, Send, Do
  <2> HIDE DEF on
  <2> QED BY <2>1, <2>2, OwnRequests DEF LinkChanges
<1>8. CASE SetState
  <2>1. task.set \in AcState
    BY <1>8 DEF SetState, Send, At, Good, TaskType
  <2> QED BY <1>8, <2>1, OwnRequests DEF SetState, Send, Do, LinkChanges
<1>9. CASE ToggleSent \/ Pull
  BY <1>9, OwnRequests DEF ToggleSent, Send, Pull, PullEnds, Do, LinkChanges
<1>10. CASE \/ SkipFrame \/ ReadAck \/ ReadState \/ ReadProps \/ ReadPropsAck
            \/ ReadCaps \/ ReadMore \/ ReadGroup
  BY <1>10 DEF SkipFrame, ReadAck, ReadState, ReadProps, ReadPropsAck, ReadCaps, ReadMore,
     ReadGroup, Awaited, Arrived, Do, LinkChanges
<1>11. ASSUME NEW step \in Reads, NEW r, Failed(step, r) PROVE LinkChanges
  BY <1>11 DEF Failed, PullEnds, Reads, Do, LinkChanges
<1>12. CASE Extras \/ EndRound
  BY <1>12 DEF Extras, EndRound, Do, LinkChanges
<1>13. CASE Group
  <2>1. CASE task.left # <<>> /\ Alive
    <3>1. Head(task.left) = Head(PowerGroups) /\ Head(task.left) \in Groups
      <4>1. task.left \in Seq(Groups)
        BY DEF TaskType
      <4> QED BY <2>1, <4>1, OneGroupLeft, HeadTailProperties
    <3>2. link' = Sent([kind |-> "group", group |-> Head(PowerGroups)])
      BY <1>13, <2>1, <3>1 DEF Group, Do
    <3> QED BY <3>1, <3>2, OwnRequests DEF LinkChanges
  <2>2. CASE ~(task.left # <<>> /\ Alive)
    BY <1>13, <2>2 DEF Group, Do, LinkChanges
  <2> QED BY <2>1, <2>2
<1> QED BY <1>1, <1>2, <1>3, <1>4, <1>5, <1>6, <1>7, <1>8, <1>9, <1>10, <1>11, <1>12,
        <1>13 DEF ServiceStep

LEMMA SurroundingLink ==
  ASSUME IInv, OneGroup, DeviceAnswers \/ Surroundings \/ WifiReturns
  PROVE  Own(link')
<1> USE AtFacts, Types
<1>0. Own(link) /\ {"requests", "inbound"} \subseteq DOMAIN link
  BY DEF OneGroup, LinkType
<1>1. dev.state \in AcState /\ dev.reading \in BOOLEAN
  BY DEF DevType
<1>2. ASSUME NEW kind, Asks(kind), NEW frames \in Seq(OwnFrame), NEW new, Answers(new, frames)
      PROVE  Own(link')
  <2>1. Tail(link.requests) \in Seq(OwnRequest)
    BY <1>0, <1>2, HeadTailProperties DEF Own, Asks
  <2>2. link.inbound \o frames \in Seq(OwnFrame)
    BY <1>0, <1>2 DEF Own
  <2> DEFINE rq == Tail(link.requests)
             in == link.inbound \o frames
  <2>3. link' = [link EXCEPT !.requests = rq, !.inbound = in]
    BY <1>2 DEF Answers
  <2> HIDE DEF rq, in
  <2>4. link'.requests = rq /\ link'.inbound = in
    BY <1>0, <2>3
  <2> QED BY <2>1, <2>2, <2>4 DEF Own, rq, in
<1>3. \A f \in OwnFrame : <<f>> \in Seq(OwnFrame)
  OBVIOUS
<1>4. CASE AnswerState
  BY <1>1, <1>2, <1>3, <1>4, OwnFrames DEF AnswerState
<1>5. CASE AnswerSet
  <2>1. Asked.st \in AcState
    BY <1>5, AskedType, RequestFields DEF AnswerSet, Asks
  <2>2. Commanded(dev.state, Asked.st) \in AcState
    BY <1>1, <2>1 DEF Commanded, AcState
  <2> QED BY <1>1, <1>2, <1>3, <1>5, <2>2, OwnFrames DEF AnswerSet
<1>6. CASE AnswerToggle
  <2> DEFINE s == [dev.state EXCEPT !.display = ~@]
  <2>1. s \in AcState
    BY <1>1 DEF AcState
  <2>2. <<>> \in Seq(OwnFrame) /\ <<StateFrame(s)>> \in Seq(OwnFrame)
    BY <1>3, <2>1, OwnFrames
  <2>3. PICK frames \in {<<>>, <<StateFrame(s)>>} : Answers([dev EXCEPT !.state = s], frames)
    BY <1>6 DEF AnswerToggle
  <2>4. Asks("toggle") /\ frames \in Seq(OwnFrame)
    BY <1>6, <2>2 DEF AnswerToggle
  <2> QED BY <1>2, <2>3, <2>4
<1>7. CASE AnswerCaps
  BY <1>2, <1>3, <1>7, OwnFrames DEF AnswerCaps
<1>8. CASE AnswerProps
  <2> DEFINE on == [k \in Kinds |-> IF k \in Asked.ask THEN dev.props[k] ELSE None]
  <2>1. on \in PropValues
    BY DEF PropValues, DevType
  <2>2. Asks("getProps") /\ Answers(dev, <<[kind |-> "props", on |-> on]>>)
    BY <1>8 DEF AnswerProps
  <2> HIDE DEF on
  <2> QED BY <1>2, <1>3, <2>1, <2>2, OwnFrames
<1>9. CASE AnswerSetProps
  <2>1. PICK new : Asks("setProps") /\ Answers(new, <<[kind |-> "propsAck"]>>)
    BY <1>9 DEF AnswerSetProps
  <2> QED BY <1>2, <1>3, <2>1, OwnFrames
<1>10. CASE AnswerGroup
  <2>1. Asks("group") /\ Asked.group \in Groups
    BY <1>10, AskedType, RequestFields DEF AnswerGroup, Asks
  <2>2. Asked \in OwnRequest
    BY <1>0, <2>1, HeadTailProperties DEF Own, Asks, Asked
  <2>3. Asked.group = Head(PowerGroups)
    BY <2>1, <2>2 DEF OwnRequest, Asks
  <2>4. Answers(dev, <<[kind |-> "group", group |-> Head(PowerGroups), on |-> dev.reading]>>)
    BY <1>10, <2>3 DEF AnswerGroup
  <2> QED BY <1>1, <1>2, <1>3, <2>1, <2>3, <2>4, OwnFrames
<1>11. CASE DeviceIgnores
  BY <1>0, <1>11, OwnThrough DEF DeviceIgnores, Taken
<1>12. CASE RemoteChange
  <2>1. dev'.state \in AcState
    BY <1>12 DEF RemoteChange, DevType
  <2> QED BY <1>0, <1>12, <2>1, OwnFrames, OwnThrough DEF RemoteChange
<1>13. CASE Noise
  BY <1>0, <1>13, OwnFrames, OwnThrough DEF Noise
<1>14. CASE ReadingChanges
  BY <1>0, <1>14 DEF ReadingChanges
<1>15. CASE WifiDrops \/ AuthExpires \/ WifiReturns
  BY <1>0, <1>15 DEF WifiDrops, AuthExpires, WifiReturns, SetLink, Own
<1>16. CASE PeerDrops
  <2>1. <<>> \in Seq(OwnRequest)
    OBVIOUS
  <2> QED BY <1>0, <1>16, <2>1 DEF PeerDrops, SetLink, Own
<1> QED BY <1>4, <1>5, <1>6, <1>7, <1>8, <1>9, <1>10, <1>11, <1>12, <1>13, <1>14, <1>15,
        <1>16 DEF DeviceAnswers, Surroundings

-----------------------------------------------------------------------------
(* The main loop. *)
LEMMA MainLoopReads ==
  ASSUME IInv, OneReading, OneGroup, ReadingInv, UserStep \/ Notify \/ Paint
  PROVE  /\ ReadingInv' /\ shared'.mode # "all" /\ task' = task /\ link' = link
<1> USE Types
<1>0. /\ {"mode", "ext", "extEdge", "changed", "reach", "propsEdge", "resync"}
           \subseteq DOMAIN shared
      /\ {"todo", "ext", "drawn", "base", "lock", "painted", "up", "props"} \subseteq DOMAIN ui
  BY DEF SharedType, UiType
<1>1. ASSUME task' = task, shared'.ext = shared.ext, Announced => Announced'
      PROVE  ReadingInv'
  BY <1>1 DEF ReadingInv, At
<1>2. shared.mode # "all"
  BY DEF OneGroup
<1>3. ASSUME NEW c, NEW base, Submit(c, base)
      PROVE  /\ shared' = shared /\ task' = task /\ link' = link
             /\ Announced => Announced'
  <2>1. /\ shared' = shared /\ task' = task /\ link' = link
        /\ ui.todo = "none" /\ ui'.ext = ui.ext /\ ui'.drawn = ui.drawn
    BY <1>0, <1>3 DEF Submit, Idle
  <2> QED BY <2>1 DEF Announced
<1>4. CASE UserStep
  <2>1. CASE FlipLock
    <3>1. /\ shared' = shared /\ task' = task /\ link' = link
          /\ ui'.todo = ui.todo /\ ui'.ext = ui.ext /\ ui'.drawn = ui.drawn
      BY <1>0, <2>1 DEF FlipLock
    <3> QED BY <1>1, <1>2, <3>1 DEF Announced
  <2>2. ASSUME NEW m \in Modes, SetPollMode(m)
        PROVE  /\ ReadingInv' /\ shared'.mode # "all" /\ task' = task /\ link' = link
    <3>1. /\ task' = task /\ link' = link /\ shared'.mode = m
          /\ shared'.ext = shared.ext
          /\ m = "power" => ui'.ext = shared.ext
      BY <1>0, <2>2, FrameOf DEF SetPollMode
    <3>2. m # "all"
      BY DEF OneReading
    <3> QED BY <1>1, <3>1, <3>2 DEF Announced
  <2> QED BY <1>1, <1>2, <1>3, <1>4, <2>1, <2>2 DEF UserStep, EditState, EditProp, ToggleDisplay
<1>5. CASE Notify
  <2>1. /\ task' = task /\ link' = link /\ shared'.mode = shared.mode
        /\ shared'.ext = shared.ext /\ shared'.extEdge = shared.extEdge
        /\ ui.todo = "notify" /\ ui'.ext = ui.ext /\ ui'.drawn = ui.drawn
    BY <1>0, <1>5 DEF Notify
  <2> QED BY <1>1, <1>2, <2>1 DEF Announced
<1>6. CASE Paint
  <2>1. ASSUME NEW flag \in {"changed", "reach", "propsEdge", "extEdge"},
               NEW then, Consume(flag, then)
        PROVE  /\ task' = task /\ link' = link /\ shared'.mode = shared.mode
               /\ shared'.ext = shared.ext /\ ui.todo = "none" /\ ui'.todo = then
               /\ ui'.ext = ui.ext /\ ui'.drawn = ui.drawn
               /\ flag # "extEdge" => shared'.extEdge = shared.extEdge
    BY <1>0, <2>1 DEF Consume, Idle
  <2>2. CASE ConsumeExtUpdate
    BY <1>1, <1>2, <2>1, <2>2 DEF ConsumeExtUpdate, Announced
  <2>3. CASE ConsumeStateChanged
    BY <1>1, <1>2, <2>1, <2>3 DEF ConsumeStateChanged, Announced
  <2>4. CASE ConsumeReachabilityEdge
    BY <1>1, <1>2, <2>1, <2>4 DEF ConsumeReachabilityEdge, Announced
  <2>5. CASE ConsumePropsEdge
    BY <1>1, <1>2, <2>1, <2>5 DEF ConsumePropsEdge, Announced
  <2>6. CASE PaintExt
    <3>1. /\ shared' = shared /\ task' = task /\ link' = link
          /\ shared.mode = "power" =>
               \/ ui'.todo = "draw"
               \/ PowerOf(shared.ext) = ui.drawn /\ ui'.drawn = ui.drawn
      BY <1>0, <2>6 DEF PaintExt
    <3> QED BY <1>1, <1>2, <3>1 DEF Announced
  <2>7. CASE PaintProps
    <3>1. /\ shared' = shared /\ task' = task /\ link' = link
          /\ ui.todo = "paintProps" /\ ui'.ext = ui.ext /\ ui'.drawn = ui.drawn
      BY <1>0, <2>7 DEF PaintProps, Act
    <3> QED BY <1>1, <1>2, <3>1 DEF Announced
  <2>8. CASE OnAcStateChanged \/ PaintLink \/ Draw
    <3>1. /\ shared' = shared /\ task' = task /\ link' = link
          /\ shared.mode = "power" => ui'.ext = shared.ext
      BY <1>0, <2>8 DEF OnAcStateChanged, PaintLink, Draw, Act, Drawn
    <3> QED BY <1>1, <1>2, <3>1 DEF Announced
  <2> QED BY <1>6, <2>2, <2>3, <2>4, <2>5, <2>6, <2>7, <2>8 DEF Paint
<1> QED BY <1>4, <1>5, <1>6

LEMMA ServiceReads ==
  ASSUME IInv, OneReading, OneGroup, ReadingInv, ServiceStep
  PROVE  OneGroup' /\ ReadingInv'
<1>1. CASE Aside
  <2>1. shared'.mode = shared.mode /\ task'.left = task.left
        /\ task'.mode \in {task.mode, shared.mode, "none"}
    BY <1>1 DEF Aside, Unread, Calm
  <2>2. Own(link')
    BY ServiceLink
  <2> QED BY <1>1, <2>1, <2>2, AsideKeeps DEF OneGroup, Own
<1>2. CASE \/ Extras \/ Group \/ ReadGroup \/ EndRound
           \/ \E r : Failed("readGroup", r)
  <2>1. /\ ReadingInv' /\ task'.left \in {<<>>, PowerGroups}
        /\ task'.mode = task.mode /\ shared'.mode = shared.mode
    BY <1>2, RoundKeeps
  <2>2. Own(link')
    BY ServiceLink
  <2> QED BY <2>1, <2>2 DEF OneGroup, Own
<1>3. CASE \E step \in Reads, r \in {"timeout", "linkdown", "protocol"} : Failed(step, r)
  <2>1. PICK step \in Reads, r \in {"timeout", "linkdown", "protocol"} : Failed(step, r)
    BY <1>3
  <2>2. CASE step = "readGroup"
    BY <1>2, <2>1, <2>2
  <2>3. CASE step # "readGroup"
    BY <1>1, <2>1, <2>3, AnswerAside
  <2> QED BY <2>2, <2>3
<1> QED BY <1>1, <1>2, <1>3, PassAside, CommandAside, AnswerAside DEF ServiceStep

LEMMA NextReads ==
  ASSUME IInv, OneReading, OneGroup, ReadingInv, [Next]_vars
  PROVE  OneGroup' /\ ReadingInv'
<1> USE Types
<1>1. CASE UNCHANGED vars
  BY <1>1 DEF vars, OneGroup, Own, ReadingInv, Announced, At
<1>2. CASE ServiceStep
  BY <1>2, ServiceReads
<1>3. ASSUME NEW timer \in Timers, Passes(timer)
      PROVE  OneGroup' /\ ReadingInv'
  <2>1. /\ ui' = ui /\ shared' = shared /\ link' = link /\ task.work = <<>>
        /\ task'.left = task.left /\ task'.shown = task.shown
        /\ task'.mode = task.mode /\ task'.work = task.work
    BY <1>3 DEF Passes, Do, Timers, TaskType
  <2> QED BY <2>1 DEF OneGroup, Own, ReadingInv, Announced, At
<1>4. CASE UserStep \/ Notify \/ Paint
  <2>1. ReadingInv' /\ shared'.mode # "all" /\ task' = task /\ link' = link
    BY <1>4, MainLoopReads
  <2> QED BY <2>1 DEF OneGroup, Own
<1>5. CASE DeviceAnswers \/ Surroundings \/ WifiReturns
  <2>1. ui' = ui /\ shared' = shared /\ task' = task
    BY <1>5 DEF DeviceAnswers, AnswerState, AnswerSet, AnswerToggle, AnswerCaps, AnswerProps,
       AnswerSetProps, AnswerGroup, Answers, Surroundings, DeviceIgnores, RemoteChange,
       ReadingChanges, Noise, WifiDrops, PeerDrops, AuthExpires, WifiReturns, SetLink
  <2>2. Own(link')
    BY <1>5, SurroundingLink
  <2> QED BY <2>1, <2>2 DEF OneGroup, Own, ReadingInv, Announced, At
<1> QED BY <1>1, <1>2, <1>3, <1>4, <1>5 DEF Next, SessionNext

(* While the Dashboard shows, a power reading is painted, or announced when   *)
(* its round ends, or the very one the repaint gate remembers: whatever       *)
(* answers come late, are pushed or never come, whatever the main loop does   *)
(* between two steps of a round, and however often the Dashboard is left.     *)
THEOREM ReadingFollows ==
  ASSUME OneReading
  PROVE  Spec => []NoMissedReading
<1> DEFINE Inv == IInv /\ OneGroup /\ ReadingInv
<1>1. Init => Inv
  <2> SUFFICES ASSUME Init PROVE Inv
    OBVIOUS
  <2>1. /\ shared.mode = "none" /\ task.mode = "none" /\ task.left = <<>>
        /\ link.requests = <<>> /\ link.inbound = <<>>
        /\ shared.ext = task.shown /\ ui.ext = shared.ext
    BY DEF Init, Start
  <2>2. <<>> \in Seq(OwnRequest) /\ <<>> \in Seq(OwnFrame)
    OBVIOUS
  <2> QED BY <2>1, <2>2, InitEstablishes DEF OneGroup, Own, ReadingInv, Announced
<1>2. Inv /\ [Next]_vars => Inv'
  BY NextKeeps, NextReads
<1>3. Inv => NoMissedReading
  BY DEF ReadingInv, Announced, NoMissedReading
<1> QED BY <1>1, <1>2, <1>3, PTL DEF Spec
=============================================================================
