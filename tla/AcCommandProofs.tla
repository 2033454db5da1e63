--------------------------- MODULE AcCommandProofs ---------------------------
(* Proofs about what AcService sends of the user's commands: nothing twice,   *)
(* for every value of its constants.  A command is first in the queue, then   *)
(* in a pending slot of the task, then a step of a pass; the proof counts the *)
(* commands in the first two places and shows that a step that sends one is   *)
(* only planned while its slot is full.                                       *)
EXTENDS AcServiceProofs, FiniteSetTheorems

-----------------------------------------------------------------------------
(* Commands of a kind in the queue. *)
Positions(q, kind) == {i \in 1..Len(q) : q[i].kind = kind}
Count(q, kind) == Cardinality(Positions(q, kind))
One(condition) == IF condition THEN 1 ELSE 0

LEMMA PositionsFinite ==
  ASSUME NEW q \in Seq(Command), NEW kind
  PROVE  IsFiniteSet(Positions(q, kind)) /\ Count(q, kind) \in Nat
<1>1. IsFiniteSet(1..Len(q)) /\ Positions(q, kind) \in SUBSET (1..Len(q))
  BY FS_Interval DEF Positions
<1>2. IsFiniteSet(Positions(q, kind))
  BY <1>1, FS_Subset
<1> QED BY <1>2, FS_CardinalityType DEF Count

LEMMA CountNone ==
  ASSUME NEW kind
  PROVE  Count(<<>>, kind) = 0
<1>1. Positions(<<>>, kind) = {}
  BY DEF Positions
<1> QED BY <1>1, FS_EmptySet DEF Count

(* Queueing a command counts it. *)
LEMMA CountAppend ==
  ASSUME NEW q \in Seq(Command), NEW c \in Command, NEW kind
  PROVE  Count(Append(q, c), kind) = Count(q, kind) + One(c.kind = kind)
<1> DEFINE n == Len(q) + 1
<1>1. /\ Len(q) \in Nat /\ Len(Append(q, c)) = n
      /\ \A i \in 1..Len(q) : Append(q, c)[i] = q[i]
      /\ Append(q, c)[n] = c
  BY AppendProperties, LenProperties
<1>2. CASE c.kind = kind
  <2>1. Positions(Append(q, c), kind) = Positions(q, kind) \cup {n}
    BY <1>1, <1>2 DEF Positions
  <2>2. n \notin Positions(q, kind)
    BY <1>1 DEF Positions
  <2>3. Cardinality(Positions(q, kind) \cup {n}) = Cardinality(Positions(q, kind)) + 1
    BY <2>2, PositionsFinite, FS_AddElement
  <2> QED BY <1>2, <2>1, <2>3 DEF Count, One
<1>3. CASE c.kind # kind
  <2>1. Positions(Append(q, c), kind) = Positions(q, kind)
    BY <1>1, <1>3 DEF Positions
  <2> QED BY <1>3, <2>1, PositionsFinite DEF Count, One
<1> QED BY <1>2, <1>3

(* Taking the first command off the queue uncounts it. *)
LEMMA CountTail ==
  ASSUME NEW q \in Seq(Command), q # <<>>, NEW kind
  PROVE  Count(Tail(q), kind) + One(Head(q).kind = kind) <= Count(q, kind)
<1> DEFINE P == Positions(q, kind)
           T == Positions(Tail(q), kind)
           R == P \ {1}
<1>1. /\ Len(q) \in Nat /\ Len(q) > 0 /\ Head(q) = q[1]
      /\ Tail(q) \in Seq(Command) /\ Len(Tail(q)) = Len(q) - 1
      /\ \A i \in 1..Len(Tail(q)) : Tail(q)[i] = q[i + 1]
  BY HeadTailProperties, EmptySeq, LenProperties
<1>2. IsFiniteSet(P) /\ IsFiniteSet(T) /\ Cardinality(P) \in Nat /\ Cardinality(T) \in Nat
  BY <1>1, PositionsFinite DEF Count
<1>3. 1 \in P <=> Head(q).kind = kind
  BY <1>1 DEF Positions
<1>4. IsFiniteSet(R) /\ Cardinality(R) = IF 1 \in P THEN Cardinality(P) - 1 ELSE Cardinality(P)
  BY <1>2, FS_RemoveElement
<1>5. Cardinality(T) <= Cardinality(R)
  <2> DEFINE f == [i \in T |-> i + 1]
  <2>1. ASSUME NEW i \in T PROVE i \in Nat /\ i + 1 \in R
    BY <1>1 DEF Positions
  <2>2. f \in Injection(T, R)
    BY <2>1 DEF Injection, IsInjective
  <2> QED BY <1>4, <2>2, FS_Injection
<1> QED BY <1>2, <1>3, <1>4, <1>5 DEF Count, One

-----------------------------------------------------------------------------
(* What a pass plans.  The steps that open a branch of the pass, and the      *)
(* toggle, which comes last of the commands, only ever close a continuation:  *)
(* behind a toggle there is no second one, nor a step that plans one.         *)
Closing == {"link", "open", "dispatch", "first", "toggle"}

Closes(w) == \A i \in 1..Len(w) : w[i] \in Closing => i = Len(w)
Toggles(w) == \E i \in 1..Len(w) : w[i] = "toggle"

LEMMA ClosesNone == Closes(<<>>) /\ ~Toggles(<<>>)
BY DEF Closes, Toggles

LEMMA ClosesOpen ==
  ASSUME NEW w \in Seq(Step \ Closing)
  PROVE  Closes(w) /\ ~Toggles(w)
<1>1. \A i \in 1..Len(w) : w[i] \in Step \ Closing
  BY ElementOfSeq
<1> QED BY <1>1 DEF Closes, Toggles, Closing

LEMMA ClosesJoin ==
  ASSUME NEW a \in Seq(Step \ Closing), NEW b \in Seq(Step), Closes(b)
  PROVE  a \o b \in Seq(Step) /\ Closes(a \o b) /\ (Toggles(a \o b) => Toggles(b))
<1>1. a \in Seq(Step)
  OBVIOUS
<1>2. /\ Len(a) \in Nat /\ Len(b) \in Nat
      /\ a \o b \in Seq(Step) /\ Len(a \o b) = Len(a) + Len(b)
      /\ \A i \in 1..(Len(a) + Len(b)) :
           (a \o b)[i] = IF i <= Len(a) THEN a[i] ELSE b[i - Len(a)]
  BY <1>1, ConcatProperties, LenProperties
<1>3. ASSUME NEW i \in 1..Len(a \o b), (a \o b)[i] \in Closing
      PROVE  /\ i = Len(a \o b)
             /\ \E k \in 1..Len(b) : b[k] = (a \o b)[i]
  <2>1. CASE i <= Len(a)
    <3>1. i \in 1..Len(a) /\ (a \o b)[i] = a[i]
      BY <1>2, <2>1
    <3>2. a[i] \notin Closing
      BY <3>1, ElementOfSeq
    <3> QED BY <1>3, <3>1, <3>2
  <2>2. CASE ~(i <= Len(a))
    <3>1. i - Len(a) \in 1..Len(b) /\ (a \o b)[i] = b[i - Len(a)]
      BY <1>2, <2>2
    <3>2. i - Len(a) = Len(b)
      BY <1>3, <3>1 DEF Closes
    <3>3. i = Len(a \o b)
      BY <1>2, <3>2
    <3> QED BY <3>1, <3>3
  <2> QED BY <2>1, <2>2
<1>4. Closes(a \o b)
  BY <1>3 DEF Closes
<1>5. Toggles(a \o b) => Toggles(b)
  BY <1>3 DEF Toggles, Closing
<1> QED BY <1>2, <1>4, <1>5

LEMMA ClosesOne ==
  ASSUME NEW s \in Step
  PROVE  /\ <<s>> \in Seq(Step) /\ Closes(<<s>>)
         /\ s # "toggle" => ~Toggles(<<s>>)
BY DEF Closes, Toggles

LEMMA ClosesTwo ==
  ASSUME NEW s \in Step \ Closing, NEW l \in Step \ {"toggle"}
  PROVE  <<s, l>> \in Seq(Step) /\ Closes(<<s, l>>) /\ ~Toggles(<<s, l>>)
<1>1. /\ <<s, l>> \in Seq(Step) /\ Len(<<s, l>>) = 2
      /\ <<s, l>>[1] = s /\ <<s, l>>[2] = l
  OBVIOUS
<1>2. s # "toggle"
  BY DEF Closing
<1>3. \A i \in 1..2 : i = 1 \/ i = 2
  OBVIOUS
<1>4. PICK w \in Seq(Step) : w = <<s, l>>
  BY <1>1
<1>5. Len(w) = 2 /\ w[1] = s /\ w[2] = l
  BY <1>1, <1>4
<1>6. Closes(w) /\ ~Toggles(w)
  BY <1>2, <1>3, <1>5 DEF Closes, Toggles
<1> QED BY <1>4, <1>6

(* The step at hand is replaced by others: by closing ones only if it closes. *)
LEMMA ClosesThen ==
  ASSUME NEW w \in Seq(Step), w # <<>>, Closes(w),
         NEW steps \in Seq(Step), Closes(steps),
         Head(w) \in Closing \/ steps \in Seq(Step \ Closing)
  PROVE  /\ Closes(steps \o Tail(w))
         /\ Toggles(steps \o Tail(w)) =>
              \/ Toggles(steps)
              \/ Toggles(w) /\ Head(w) # "toggle"
<1>1. /\ Len(w) \in Nat /\ Len(w) > 0 /\ Head(w) = w[1]
      /\ Tail(w) \in Seq(Step) /\ Len(Tail(w)) = Len(w) - 1
      /\ \A i \in 1..Len(Tail(w)) : Tail(w)[i] = w[i + 1]
  BY HeadTailProperties, EmptySeq, LenProperties
<1>2. CASE Head(w) \in Closing
  <2>1. 1 \in 1..Len(w) /\ w[1] \in Closing
    <3>1. Len(w) \in Nat /\ Len(w) > 0
      BY <1>1
    <3>2. w[1] \in Closing
      BY <1>1, <1>2
    <3> QED BY <3>1, <3>2
  <2>2. Len(w) = 1
    <3>1. \A i \in 1..Len(w) : w[i] \in Closing => i = Len(w)
      BY DEF Closes
    <3> QED BY <2>1, <3>1
  <2>3. Tail(w) = <<>>
    <3>1. Tail(w) \in Seq(Step) /\ Len(Tail(w)) = 0
      BY <1>1, <2>2
    <3> QED BY <3>1, EmptySeq
  <2>4. steps \o Tail(w) = steps
    BY <2>3, ConcatEmptySeq
  <2> QED BY <2>4
<1>3. CASE Head(w) \notin Closing
  <2>1. ASSUME NEW i \in 1..Len(Tail(w))
        PROVE  i + 1 \in 1..Len(w) /\ Tail(w)[i] = w[i + 1]
    BY <1>1
  <2>2. ASSUME NEW i \in 1..Len(Tail(w)), Tail(w)[i] \in Closing
        PROVE  i = Len(Tail(w))
    <3>1. i + 1 = Len(w)
      BY <2>1, <2>2 DEF Closes
    <3>2. i \in Int /\ Len(w) \in Int /\ Len(Tail(w)) = Len(w) - 1
      BY <1>1
    <3> HIDE <2>2
    <3> QED BY <3>1, <3>2
  <2>3. Closes(Tail(w))
    BY <2>2 DEF Closes
  <2>4. Toggles(Tail(w)) => Toggles(w)
    BY <2>1 DEF Toggles
  <2> QED BY <1>1, <1>3, <2>3, <2>4, ClosesJoin DEF Closing
<1> QED BY <1>2, <1>3

-----------------------------------------------------------------------------
(* What the steps of the task put in the place of the step at hand.           *)
OpenPuts == {<<>>, <<"drainQuietly">>, <<"readCaps">>, <<"readMore">>, <<"getMore">>,
             <<"readProps">>, <<"readPropsAck", "getProps">>, <<"getProps">>,
             <<"readAck", "pull">>, <<"pull">>, <<"pull", "extras">>, <<"readState">>,
             <<"group">>, <<"readGroup">>, <<"endRound">>}

Opening == (IF task.capsKnown THEN <<>> ELSE <<"getCaps", "checkLink">>)
             \o <<"getProps", "first">>

ClosingPuts == {<<"open">>, <<"drain", "dispatch">>, Opening, Commands}

LEMMA OpenPutsOpen == OpenPuts \subseteq Seq(Step \ Closing)
<1>1. {"drainQuietly", "readCaps", "readMore", "getMore", "readProps", "readPropsAck",
       "getProps", "readAck", "pull", "extras", "readState", "group", "readGroup",
       "endRound"} \subseteq Step \ Closing
  BY DEF Step, Reads, Closing
<1>2. \A s \in Step \ Closing : <<s>> \in Seq(Step \ Closing)
  OBVIOUS
<1>3. \A s, l \in Step \ Closing : <<s, l>> \in Seq(Step \ Closing)
  OBVIOUS
<1>4. <<>> \in Seq(Step \ Closing)
  OBVIOUS
<1> QED BY <1>1, <1>2, <1>3, <1>4 DEF OpenPuts

LEMMA ClosingPutsClose ==
  ASSUME NEW p \in ClosingPuts
  PROVE  /\ p \in Seq(Step) /\ Closes(p)
         /\ Toggles(p) => task.toggle
<1>0. /\ {"open", "dispatch", "first"} \subseteq Step \ {"toggle"}
      /\ {"drain", "getProps", "getCaps", "checkLink", "set", "setProps"}
           \subseteq Step \ Closing
      /\ "toggle" \in Step
  BY DEF Step, Closing
<1>1. CASE p = <<"open">>
  BY <1>0, <1>1, ClosesOne
<1>2. CASE p = <<"drain", "dispatch">>
  BY <1>0, <1>2, ClosesTwo
<1>3. CASE p = Opening
  <2> DEFINE a == IF task.capsKnown THEN <<>> ELSE <<"getCaps", "checkLink">>
             b == <<"getProps", "first">>
  <2>1. a \in Seq(Step \ Closing)
    <3>1. <<>> \in Seq(Step \ Closing) /\ <<"getCaps", "checkLink">> \in Seq(Step \ Closing)
      BY <1>0
    <3> QED BY <3>1
  <2>2. b \in Seq(Step) /\ Closes(b) /\ ~Toggles(b)
    BY <1>0, ClosesTwo
  <2>3. Opening = a \o b
    BY DEF Opening
  <2> HIDE DEF a, b
  <2> QED BY <1>3, <2>1, <2>2, <2>3, ClosesJoin
<1>4. CASE p = Commands
  <2> DEFINE a == IF task.set # None THEN <<"set">> ELSE <<>>
             b == IF task.props # Unknown THEN <<"setProps">> ELSE <<>>
             c == IF task.toggle THEN <<"toggle">> ELSE <<>>
  <2>1. a \in Seq(Step \ Closing) /\ b \in Seq(Step \ Closing)
    <3>1. /\ <<>> \in Seq(Step \ Closing)
          /\ <<"set">> \in Seq(Step \ Closing) /\ <<"setProps">> \in Seq(Step \ Closing)
      BY <1>0
    <3> QED BY <3>1
  <2>2. c \in Seq(Step) /\ Closes(c) /\ (Toggles(c) => task.toggle)
    <3>1. CASE task.toggle
      BY <1>0, <3>1, ClosesOne
    <3>2. CASE ~task.toggle
      BY <3>2, ClosesNone
    <3> QED BY <3>1, <3>2
  <2>3. Commands = (a \o b) \o c
    BY DEF Commands
  <2> HIDE DEF a, b, c
  <2>4. a \o b \in Seq(Step \ Closing)
    BY <2>1
  <2> QED BY <1>4, <2>2, <2>3, <2>4, ClosesJoin
<1> QED BY <1>1, <1>2, <1>3, <1>4 DEF ClosingPuts

-----------------------------------------------------------------------------
(* A value of the task with the slots of now and the continuation w. *)
Slots(t, w) == /\ DOMAIN t = DOMAIN task /\ t.work = w
               /\ t.set = task.set /\ t.toggle = task.toggle

LEMMA SlotsThrough ==
  ASSUME task \in TaskType, NEW t, NEW w, Slots(t, w)
  PROVE  /\ \A p : Slots(Then(t, p), p \o Tail(w))
         /\ Slots(Done(t), <<>> \o Tail(w)) /\ Slots(Finish(t), <<>>)
         /\ Slots(Retry(t), w) /\ Slots(Known(t), w)
         /\ Slots(Booked(t), w) /\ Slots(Navigated(t), w) /\ Slots(LockRead(t), w)
         /\ \A v : /\ Slots(Armed(t, v), w)
                   /\ Slots([t EXCEPT !.work = v], v)
                   /\ Slots([t EXCEPT !.burst = v], w)
                   /\ Slots([t EXCEPT !.timeouts = v], w)
                   /\ Slots([t EXCEPT !.strikes = v], w)
                   /\ Slots([t EXCEPT !.poll = v], w)
                   /\ Slots([t EXCEPT !.left = v], w)
                   /\ Slots([t EXCEPT !.props = v], w)
                   /\ Slots([t EXCEPT !.shown = v], w)
                   /\ Slots([t EXCEPT !.fast = v], w)
<1>1. {"work", "set", "toggle"} \subseteq DOMAIN task
  BY DEF TaskType
<1>2. /\ {"work", "set", "toggle"} \subseteq DOMAIN t
      /\ DOMAIN t = DOMAIN task /\ t.work = w
      /\ t.set = task.set /\ t.toggle = task.toggle
  BY <1>1 DEF Slots
<1>3. /\ \A p : Slots(Then(t, p), p \o Tail(w))
      /\ Slots(Done(t), <<>> \o Tail(w)) /\ Slots(Finish(t), <<>>)
  BY <1>2 DEF Slots, Then, Done, Finish
<1>4. /\ Slots(Retry(t), w) /\ Slots(Known(t), w) /\ Slots(Booked(t), w)
      /\ Slots(Navigated(t), w) /\ Slots(LockRead(t), w)
      /\ \A v : Slots(Armed(t, v), w)
  BY <1>2 DEF Slots, Retry, Known, Booked, Navigated, LockRead, Armed
<1>5. \A v : /\ Slots([t EXCEPT !.work = v], v)
             /\ Slots([t EXCEPT !.burst = v], w)
             /\ Slots([t EXCEPT !.timeouts = v], w)
             /\ Slots([t EXCEPT !.strikes = v], w)
             /\ Slots([t EXCEPT !.poll = v], w)
             /\ Slots([t EXCEPT !.left = v], w)
             /\ Slots([t EXCEPT !.props = v], w)
             /\ Slots([t EXCEPT !.shown = v], w)
             /\ Slots([t EXCEPT !.fast = v], w)
  BY <1>2 DEF Slots
<1> QED BY <1>3, <1>4, <1>5

(* How a pass goes on. *)
GoesOn(w) ==
  \/ w \in {task.work, <<>>, <<"begin">>, <<"link">>}
  \/ /\ task.work # <<>>
     /\ \E p \in OpenPuts \cup (IF Head(task.work) \in Closing THEN ClosingPuts ELSE {}) :
          w = p \o Tail(task.work)

(* All but four steps of the task leave the commands where they are. *)
Moves == (\E w : Slots(task', w) /\ GoesOn(w)) /\ UNCHANGED <<queue, ghost>>

LEMMA MovesThen ==
  ASSUME task.work # <<>>, NEW p,
         p \in OpenPuts \/ (Head(task.work) \in Closing /\ p \in ClosingPuts),
         Slots(task', p \o Tail(task.work)), UNCHANGED <<queue, ghost>>
  PROVE  Moves
BY DEF Moves, GoesOn

LEMMA MovesEnd ==
  ASSUME Slots(task', <<>>) \/ Slots(task', task.work), UNCHANGED <<queue, ghost>>
  PROVE  Moves
BY DEF Moves, GoesOn

LEMMA NowSlots == Slots(task, task.work)
BY DEF Slots

LEMMA BeginMoves == IInv /\ Begin => Moves
<1> SUFFICES ASSUME IInv, Begin PROVE Moves
  OBVIOUS
<1>1. Slots(LockRead(Navigated(task)), task.work)
  BY AtFacts, NowSlots, SlotsThrough
<1>2. Slots([LockRead(Navigated(task)) EXCEPT !.work = <<"link">>], <<"link">>)
  BY <1>1, AtFacts, SlotsThrough
<1> QED BY <1>2 DEF Begin, Do, Plain, Moves, GoesOn

LEMMA LinkMoves ==
  ASSUME IInv, LinkWithoutWifi \/ LinkWithWifi
  PROVE  Moves
<1> USE AtFacts, NowSlots
<1>0. task.work # <<>> /\ UNCHANGED <<queue, ghost>>
  BY DEF At, LinkWithoutWifi, LinkWithWifi, Do, Plain
<1>1. CASE LinkWithoutWifi
  BY <1>0, <1>1, SlotsThrough, MovesEnd DEF LinkWithoutWifi, Do
<1>2. CASE LinkWithWifi
  <2> DEFINE t == IF shared.resync THEN [task EXCEPT !.fast = TRUE, !.poll = FALSE] ELSE task
  <2>1. Slots(t, task.work)
    <3>1. Slots([task EXCEPT !.fast = TRUE], task.work)
      BY SlotsThrough
    <3>2. Slots([[task EXCEPT !.fast = TRUE] EXCEPT !.poll = FALSE], task.work)
      BY <3>1, SlotsThrough
    <3> QED BY <3>2
  <2>2. /\ Head(task.work) \in Closing
        /\ task' \in {Finish(t), Then(t, <<"open">>),
                      [Then(t, <<"drain", "dispatch">>) EXCEPT !.burst = Burst],
                      [Then(t, <<"drainQuietly">>) EXCEPT !.burst = Burst]}
    BY <1>2 DEF LinkWithWifi, Do, At, Closing
  <2> HIDE DEF t
  <2>3. CASE task' = Finish(t)
    BY <1>0, <2>1, <2>3, SlotsThrough, MovesEnd
  <2>4. CASE task' = Then(t, <<"open">>)
    BY <1>0, <2>1, <2>2, <2>4, SlotsThrough, MovesThen DEF ClosingPuts
  <2>5. ASSUME NEW p, p \in OpenPuts \/ p \in ClosingPuts,
               task' = [Then(t, p) EXCEPT !.burst = Burst]
        PROVE  Moves
    <3>1. Slots(Then(t, p), p \o Tail(task.work))
      BY <2>1, SlotsThrough
    <3>2. Slots(task', p \o Tail(task.work))
      BY <2>5, <3>1, SlotsThrough
    <3> QED BY <1>0, <2>2, <2>5, <3>2, MovesThen
  <2>6. <<"drain", "dispatch">> \in ClosingPuts /\ <<"drainQuietly">> \in OpenPuts
    BY DEF ClosingPuts, OpenPuts
  <2> QED BY <2>2, <2>3, <2>4, <2>5, <2>6
<1> QED BY <1>1, <1>2

LEMMA DrainMoves ==
  ASSUME IInv, Drained \/ DrainFrame \/ DrainFails
  PROVE  Moves
<1> USE AtFacts, NowSlots
<1>0. task.work # <<>> /\ UNCHANGED <<queue, ghost>> /\ <<>> \in OpenPuts
  BY DEF At, Draining, Drained, DrainFrame, DrainFails, Do, Plain, OpenPuts
<1>1. CASE Drained
  <2>1. Slots([task EXCEPT !.burst = 0], task.work)
    BY SlotsThrough
  <2> QED BY <1>0, <1>1, <2>1, SlotsThrough, MovesThen DEF Drained, Do
<1>2. CASE DrainFrame
  <2> DEFINE t == [task EXCEPT !.burst = @ - 1]
  <2>1. Slots(t, task.work)
    BY SlotsThrough
  <2>2. task' = t \/ \E s : task' = Armed(t, s)
    BY <1>2 DEF DrainFrame, Do
  <2> HIDE DEF t
  <2>3. \A s : Slots(Armed(t, s), task.work)
    BY <2>1, SlotsThrough
  <2>4. Slots(task', task.work)
    BY <2>1, <2>2, <2>3
  <2> QED BY <1>0, <2>4, MovesEnd
<1>3. CASE DrainFails
  <2>1. Slots(Finish(task), <<>>)
    BY SlotsThrough
  <2>2. Slots([Finish(task) EXCEPT !.burst = 0], <<>>)
    BY <2>1, SlotsThrough
  <2>3. Slots(Retry([Finish(task) EXCEPT !.burst = 0]), <<>>)
    BY <2>2, SlotsThrough
  <2> QED BY <1>0, <1>3, <2>2, <2>3, MovesEnd DEF DrainFails, Do
<1> QED BY <1>1, <1>2, <1>3

LEMMA DispatchMoves ==
  ASSUME IInv, DispatchCommands \/ DispatchPoll
  PROVE  Moves
<1> USE AtFacts, NowSlots
<1>0. /\ task.work # <<>> /\ UNCHANGED <<queue, ghost>>
      /\ Head(task.work) \in Closing
  BY DEF At, Dispatching, DispatchCommands, DispatchPoll, Do, Plain, Closing
<1>1. CASE DispatchCommands
  <2>1. Slots(Booked(task), task.work) /\ Commands \in ClosingPuts
    BY SlotsThrough DEF ClosingPuts
  <2> QED BY <1>0, <1>1, <2>1, SlotsThrough, MovesThen DEF DispatchCommands, Do
<1>2. CASE DispatchPoll
  <2> DEFINE t == IF Converged THEN [task EXCEPT !.strikes = 0] ELSE task
             p == [t EXCEPT !.poll = TRUE]
  <2>1. Slots(t, task.work)
    BY SlotsThrough
  <2>2. task' = Done(t) \/ task' = Then(p, PollSteps)
    BY <1>2 DEF DispatchPoll, Do
  <2> HIDE DEF t
  <2>3. Slots(p, task.work)
    BY <2>1, SlotsThrough
  <2> HIDE DEF p
  <2>4. <<>> \in OpenPuts /\ PollSteps \in OpenPuts
    BY DEF PollSteps, OpenPuts
  <2>5. Slots(Done(t), <<>> \o Tail(task.work))
    BY <2>1, SlotsThrough
  <2>6. Slots(Then(p, PollSteps), PollSteps \o Tail(task.work))
    BY <2>3, SlotsThrough
  <2> QED BY <1>0, <2>2, <2>4, <2>5, <2>6, MovesThen
<1> QED BY <1>1, <1>2

LEMMA OpenMoves ==
  ASSUME IInv, InBackoff \/ OpenFails \/ Open \/ CheckLink
  PROVE  Moves
<1> USE AtFacts, NowSlots
<1>0. /\ task.work # <<>> /\ UNCHANGED <<queue, ghost>>
  BY DEF At, InBackoff, OpenFails, Open, CheckLink, Do, Plain
<1>1. CASE InBackoff
  BY <1>0, <1>1, SlotsThrough, MovesEnd DEF InBackoff, Do
<1>2. CASE OpenFails
  <2>1. Slots(Finish(task), <<>>) /\ task' = Retry(Finish(task))
    BY <1>2, SlotsThrough DEF OpenFails, Do, Retry
  <2> QED BY <1>0, <2>1, SlotsThrough, MovesEnd
<1>3. CASE Open
  <2>1. /\ task' = Then(task, Opening) /\ Opening \in ClosingPuts
        /\ Head(task.work) \in Closing
    BY <1>3 DEF Open, Do, Opening, ClosingPuts, At, Closing
  <2> QED BY <1>0, <2>1, SlotsThrough, MovesThen
<1>4. CASE CheckLink
  <2>1. <<>> \in OpenPuts
    BY DEF OpenPuts
  <2> QED BY <1>0, <1>4, <2>1, SlotsThrough, MovesThen, MovesEnd DEF CheckLink, Do
<1> QED BY <1>1, <1>2, <1>3, <1>4

(* What the remaining steps put is one of OpenPuts, whatever goes wrong. *)
LEMMA OpenThen ==
  ASSUME IInv, task.work # <<>>, UNCHANGED <<queue, ghost>>,
         NEW t, Slots(t, task.work), NEW p \in OpenPuts,
         task' = Then(t, p) \/ task' = Retry(Then(t, p)) \/ task' = Known(Then(t, p))
           \/ task' = Retry(Known(Then(t, p))) \/ task' = Known(Retry(Then(t, p)))
  PROVE  Moves
<1> USE AtFacts
<1>1. Slots(Then(t, p), p \o Tail(task.work))
  BY SlotsThrough
<1>2. /\ Slots(Retry(Then(t, p)), p \o Tail(task.work))
      /\ Slots(Known(Then(t, p)), p \o Tail(task.work))
  BY <1>1, SlotsThrough
<1>3. /\ Slots(Retry(Known(Then(t, p))), p \o Tail(task.work))
      /\ Slots(Known(Retry(Then(t, p))), p \o Tail(task.work))
  BY <1>2, SlotsThrough
<1> QED BY <1>1, <1>2, <1>3, MovesThen

(* The requests, the answers and the rounds. *)
LEMMA RequestMoves ==
  ASSUME IInv, \/ GetCaps("getCaps", "readCaps") \/ GetCaps("getMore", "readMore")
               \/ SkipGetProps \/ GetProps \/ SetProps
  PROVE  Moves
<1> USE AtFacts, NowSlots
<1>0. task.work # <<>> /\ UNCHANGED <<queue, ghost>>
  BY DEF At, GetCaps, SkipGetProps, GetProps, SetProps, Send, Do, Plain
<1>1. {<<>>, <<"readCaps">>, <<"readMore">>, <<"readProps">>,
       <<"readPropsAck", "getProps">>, <<"getProps">>} \subseteq OpenPuts
  BY DEF OpenPuts
<1>2. CASE GetCaps("getCaps", "readCaps") \/ GetCaps("getMore", "readMore")
  <2>1. \/ task' = Then(task, <<"readCaps">>) \/ task' = Then(task, <<"readMore">>)
        \/ task' = Retry(Then(task, <<>>)) \/ task' = Retry(Known(Then(task, <<>>)))
    BY <1>2 DEF GetCaps, Do, Done, Known
  <2> QED BY <1>0, <1>1, <2>1, OpenThen
<1>3. CASE SkipGetProps
  BY <1>0, <1>1, <1>3, OpenThen DEF SkipGetProps, Do, Done
<1>4. CASE GetProps
  <2>1. task' = Then(task, <<"readProps">>) \/ task' = Then(task, <<>>)
    BY <1>4 DEF GetProps, Send, Do
  <2> QED BY <1>0, <1>1, <2>1, OpenThen
<1>5. CASE SetProps
  <2> DEFINE t == [task EXCEPT !.props = Unknown]
  <2>1. Slots(t, task.work)
    BY SlotsThrough
  <2>2. \/ task' = Then(t, <<>>)
        \/ task' = Then(Window(t), <<"readPropsAck", "getProps">>)
        \/ task' = Then(Window(t), <<"getProps">>)
    BY <1>5 DEF SetProps, Send, Do, Done
  <2> HIDE DEF t
  <2>3. Slots([t EXCEPT !.fast = TRUE], task.work)
    BY <2>1, SlotsThrough
  <2>4. Slots([[t EXCEPT !.fast = TRUE] EXCEPT !.poll = TRUE], task.work)
    BY <2>3, SlotsThrough
  <2>5. Slots(Window(t), task.work)
    BY <2>4 DEF Window
  <2> QED BY <1>0, <1>1, <2>1, <2>2, <2>5, OpenThen
<1> QED BY <1>2, <1>3, <1>4, <1>5

LEMMA PullEndsMoves ==
  ASSUME IInv, task.work # <<>>, UNCHANGED <<queue, ghost>>, NEW r, PullEnds(r)
  PROVE  Moves
<1>1. Slots(Then(task, <<>>), <<>> \o Tail(task.work)) /\ <<>> \in OpenPuts
  BY AtFacts, NowSlots, SlotsThrough DEF OpenPuts
<1>2. \A v : Slots([Then(task, <<>>) EXCEPT !.timeouts = v], <<>> \o Tail(task.work))
  BY <1>1, AtFacts, SlotsThrough
<1>3. Slots(Retry([Then(task, <<>>) EXCEPT !.timeouts = 0]), <<>> \o Tail(task.work))
  BY <1>2, AtFacts, SlotsThrough
<1>4. \/ task' = Retry([Then(task, <<>>) EXCEPT !.timeouts = 0])
      \/ \E v : task' = [Then(task, <<>>) EXCEPT !.timeouts = v]
  BY DEF PullEnds, Do, Done
<1>5. Slots(task', <<>> \o Tail(task.work))
  BY <1>2, <1>3, <1>4
<1> QED BY <1>1, <1>5, MovesThen

LEMMA PullMoves ==
  ASSUME IInv, Pull
  PROVE  Moves
<1>1. /\ task.work # <<>> /\ UNCHANGED <<queue, ghost>>
      /\ task' = Then(task, <<"readState">>) \/ PullEnds("linkdown")
      /\ <<"readState">> \in OpenPuts
  BY DEF Pull, PullEnds, Do, Plain, At, OpenPuts
<1> QED BY <1>1, NowSlots, OpenThen, PullEndsMoves

LEMMA ReadMoves ==
  ASSUME IInv, \/ SkipFrame \/ ReadAck \/ ReadState \/ ReadProps \/ ReadPropsAck
               \/ ReadCaps \/ ReadMore
  PROVE  Moves
<1> USE AtFacts, NowSlots
<1>0. task.work # <<>> /\ UNCHANGED <<queue, ghost>>
  BY DEF SkipFrame, ReadAck, ReadState, ReadProps, ReadPropsAck, ReadCaps, ReadMore,
         Awaited, Arrived, Reading, Do, Plain
<1>1. <<>> \in OpenPuts /\ <<"getMore">> \in OpenPuts
  BY DEF OpenPuts
<1>2. \A s : Slots(Armed(task, s), task.work)
  BY SlotsThrough
<1>3. CASE SkipFrame
  <2>1. Slots(task', task.work)
    BY <1>2, <1>3 DEF SkipFrame, Do
  <2> QED BY <1>0, <2>1, MovesEnd
<1>4. CASE ReadAck
  <2>1. \E s : task' = Then(Armed(task, s), <<>>)
    BY <1>4 DEF ReadAck, Do, Done
  <2> QED BY <1>0, <1>1, <1>2, <2>1, OpenThen
<1>5. CASE ReadState
  <2>1. PICK s : task' = [Then(Armed(task, s), <<>>) EXCEPT !.timeouts = 0]
    BY <1>5 DEF ReadState, Do, Done
  <2>2. Slots(Then(Armed(task, s), <<>>), <<>> \o Tail(task.work))
    BY <1>2, SlotsThrough
  <2>3. Slots(task', <<>> \o Tail(task.work))
    BY <2>1, <2>2, SlotsThrough
  <2> QED BY <1>0, <1>1, <2>3, MovesThen
<1>6. CASE ReadProps \/ ReadPropsAck
  <2>1. task' = Then(task, <<>>)
    BY <1>6 DEF ReadProps, ReadPropsAck, Do, Done
  <2> QED BY <1>0, <1>1, <2>1, OpenThen
<1>7. CASE ReadCaps \/ ReadMore
  <2>1. task' = Then(task, <<"getMore">>) \/ task' = Known(Then(task, <<>>))
    BY <1>7 DEF ReadCaps, ReadMore, Do, Done
  <2> QED BY <1>0, <1>1, <2>1, OpenThen
<1> QED BY <1>3, <1>4, <1>5, <1>6, <1>7

LEMMA FailedMoves ==
  ASSUME IInv, NEW step \in Reads, NEW r, Failed(step, r)
  PROVE  Moves
<1> USE AtFacts, NowSlots
<1>1. task.work # <<>> /\ UNCHANGED <<queue, ghost>>
  BY DEF Failed, At, ReadFails, PullEnds, Do, Reads
<1>2. {<<>>, <<"group">>, <<"endRound">>} \subseteq OpenPuts
  BY DEF OpenPuts
<1>3. \/ PullEnds(r)
      \/ task' = Then(task, <<>>) \/ task' = Retry(Then(task, <<>>))
      \/ task' = Known(Then(task, <<>>)) \/ task' = Known(Retry(Then(task, <<>>)))
      \/ task' = Then(task, <<"endRound">>)
      \/ task' = Then([task EXCEPT !.left = Tail(task.left)], <<"group">>)
  BY DEF Failed, Reads, Do, Done
<1>4. Slots([task EXCEPT !.left = Tail(task.left)], task.work)
  BY SlotsThrough
<1> QED BY <1>1, <1>2, <1>3, <1>4, OpenThen, PullEndsMoves

LEMMA GroupMoves ==
  ASSUME IInv, Extras \/ Group \/ ReadGroup \/ EndRound
  PROVE  Moves
<1> USE AtFacts, NowSlots
<1>1. task.work # <<>> /\ UNCHANGED <<queue, ghost>>
  BY DEF Extras, Group, ReadGroup, EndRound, Awaited, At, Do, Plain
<1>2. {<<>>, <<"group">>, <<"readGroup">>, <<"endRound">>} \subseteq OpenPuts
  BY DEF OpenPuts
<1>3. \A v : Slots([task EXCEPT !.left = v], task.work)
  BY SlotsThrough
<1>4. CASE Extras \/ Group
  <2>1. \/ task' = Then(task, <<>>) \/ task' = Then(task, <<"readGroup">>)
        \/ \E v : \/ task' = Then([task EXCEPT !.left = v], <<"group">>)
                  \/ task' = Then([task EXCEPT !.left = v], <<"endRound">>)
    BY <1>4 DEF Extras, Group, Do, Done
  <2> QED BY <1>1, <1>2, <1>3, <2>1, OpenThen
<1>5. CASE ReadGroup
  <2>1. \/ task' = task
        \/ task' = Then([task EXCEPT !.left = Tail(task.left)], <<"group">>)
    BY <1>5 DEF ReadGroup, Do
  <2>2. task' = task => Slots(task', task.work)
    OBVIOUS
  <2> QED BY <1>1, <1>2, <1>3, <2>1, <2>2, OpenThen, MovesEnd
<1>6. CASE EndRound
  <2>1. Slots([[task EXCEPT !.left = <<>>] EXCEPT !.shown = shared.ext], task.work)
    BY <1>3, SlotsThrough
  <2>2. task' = Then([[task EXCEPT !.left = <<>>] EXCEPT !.shown = shared.ext], <<>>)
    BY <1>6 DEF EndRound, Do, Done
  <2> QED BY <1>1, <1>2, <2>1, <2>2, OpenThen
<1> QED BY <1>4, <1>5, <1>6

-----------------------------------------------------------------------------
(* A step that sends the toggle is planned once, and only while the toggle is *)
(* pending.                                                                   *)
Planned == Closes(task.work) /\ (Toggles(task.work) => task.toggle)

(* What is queued or pending was asked for, and not sent yet. *)
Counted ==
  /\ Count(queue, "toggle") + One(task.toggle) <= ghost.toggles
  /\ Count(queue, "set") + One(task.set # None) <= ghost.sets

(* The inductive invariant. *)
CInv == IInv /\ Planned /\ Counted

LEMMA CountedTypes ==
  ASSUME IInv
  PROVE  /\ queue \in Seq(Command) /\ task \in TaskType
         /\ ghost.toggles \in Int /\ ghost.sets \in Int
         /\ Count(queue, "toggle") \in Nat /\ Count(queue, "set") \in Nat
<1>1. queue \in Seq(Command) /\ task \in TaskType /\ ghost \in GhostType
  BY DEF IInv, TypeOK
<1> QED BY <1>1, PositionsFinite DEF GhostType

LEMMA CountedSame ==
  ASSUME Counted, queue' = queue, ghost' = ghost,
         task'.set = task.set, task'.toggle = task.toggle
  PROVE  Counted'
BY DEF Counted, Count, Positions

LEMMA MovesKeep ==
  ASSUME CInv, Moves
  PROVE  Planned' /\ Counted'
<1>1. PICK w : Slots(task', w) /\ GoesOn(w)
  BY DEF Moves
<1>2. task'.work = w /\ task'.set = task.set /\ task'.toggle = task.toggle
  BY <1>1 DEF Slots
<1>3. Counted'
  BY <1>2, CountedSame DEF CInv, Moves
<1>4. Closes(w) /\ (Toggles(w) => task.toggle)
  <2>1. CASE w = task.work
    BY <2>1 DEF CInv, Planned
  <2>2. CASE w \in {<<>>, <<"begin">>, <<"link">>}
    BY <2>2, ClosesNone, ClosesOne DEF Step
  <2>3. ASSUME task.work # <<>>,
               NEW p \in OpenPuts \cup (IF Head(task.work) \in Closing THEN ClosingPuts ELSE {}),
               w = p \o Tail(task.work)
        PROVE  Closes(w) /\ (Toggles(w) => task.toggle)
    <3>1. task.work \in Seq(Step)
      BY DEF CInv, IInv, TypeOK, TaskType
    <3>2. CASE p \in OpenPuts
      <4>1. p \in Seq(Step \ Closing) /\ p \in Seq(Step)
        BY <3>2, OpenPutsOpen
      <4>2. Closes(p) /\ ~Toggles(p)
        BY <4>1, ClosesOpen
      <4> QED BY <2>3, <3>1, <4>1, <4>2, ClosesThen DEF CInv, Planned
    <3>3. CASE p \notin OpenPuts
      <4>1. Head(task.work) \in Closing /\ p \in ClosingPuts
        BY <3>3
      <4>2. p \in Seq(Step) /\ Closes(p) /\ (Toggles(p) => task.toggle)
        BY <4>1, ClosingPutsClose
      <4> QED BY <2>3, <3>1, <4>1, <4>2, ClosesThen DEF CInv, Planned
    <3> QED BY <3>2, <3>3
  <2> QED BY <1>1, <2>1, <2>2, <2>3 DEF GoesOn
<1>5. Planned'
  BY <1>2, <1>4 DEF Planned
<1> QED BY <1>3, <1>5

(* A command leaves the queue for its slot, where it replaces what waits. *)
LEMMA ReceiveKeeps ==
  ASSUME CInv, Receive
  PROVE  Planned' /\ Counted'
<1> DEFINE c == Head(queue)
<1>1. queue \in Seq(Command) /\ queue # <<>> /\ queue' = Tail(queue) /\ ghost' = ghost
  BY CountedTypes DEF CInv, Receive
<1>2. c \in Command
  BY <1>1, HeadTailProperties
<1>3. /\ DOMAIN Accepted(c) = DOMAIN task
      /\ Accepted(c).toggle = (task.toggle \/ c.kind = "toggle")
      /\ Accepted(c).set # None => task.set # None \/ c.kind = "set"
  <2>1. task \in TaskType
    BY CountedTypes DEF CInv
  <2>2. {"set", "toggle"} \subseteq DOMAIN task /\ task.toggle \in BOOLEAN
    BY <2>1 DEF TaskType
  <2>3. c.kind \in {"set", "toggle", "prop"}
    BY <1>2, CommandFields
  <2> QED BY <2>2, <2>3 DEF Accepted
<1>4. task' = [Accepted(c) EXCEPT !.work = <<"begin">>] /\ "work" \in DOMAIN task
  BY CountedTypes DEF Receive, CInv, TaskType
<1>5. task'.work = <<"begin">> /\ task'.toggle = Accepted(c).toggle
      /\ task'.set = Accepted(c).set
  BY <1>3, <1>4
<1>6. Planned'
  BY <1>5, ClosesOne DEF Planned, Step
<1>7. /\ Count(Tail(queue), "toggle") + One(c.kind = "toggle") <= Count(queue, "toggle")
      /\ Count(Tail(queue), "set") + One(c.kind = "set") <= Count(queue, "set")
      /\ Count(Tail(queue), "toggle") \in Nat /\ Count(Tail(queue), "set") \in Nat
  BY <1>1, CountTail, PositionsFinite, HeadTailProperties
<1>8. Count(queue', "toggle") + One(task'.toggle) <= ghost'.toggles
  <2>1. Count(queue, "toggle") + One(task.toggle) <= ghost.toggles
    BY DEF CInv, Counted
  <2>2. One(task'.toggle) <= One(task.toggle) + One(c.kind = "toggle")
    <3>1. /\ One(task'.toggle) \in {0, 1} /\ One(task.toggle) \in {0, 1}
          /\ One(c.kind = "toggle") \in {0, 1}
      BY DEF One
    <3>2. CASE task.toggle
      <4>1. One(task.toggle) = 1
        BY <3>2 DEF One
      <4> QED BY <3>1, <4>1
    <3>3. CASE c.kind = "toggle"
      <4>1. One(c.kind = "toggle") = 1
        BY <3>3 DEF One
      <4> QED BY <3>1, <4>1
    <3>4. CASE ~task.toggle /\ c.kind # "toggle"
      <4>1. ~task'.toggle
        BY <1>3, <1>5, <3>4
      <4>2. One(task'.toggle) = 0
        BY <4>1 DEF One
      <4> QED BY <3>1, <4>2
    <3> QED BY <3>2, <3>3, <3>4
  <2>3. /\ One(task'.toggle) \in Nat /\ One(task.toggle) \in Nat
        /\ One(c.kind = "toggle") \in Nat
    BY DEF One
  <2>4. ghost.toggles \in Int /\ Count(queue, "toggle") \in Nat
    BY CountedTypes DEF CInv
  <2>5. Count(Tail(queue), "toggle") + One(task'.toggle) <= ghost.toggles
    BY <1>7, <2>1, <2>2, <2>3, <2>4
  <2> QED BY <1>1, <2>5
<1>9. Count(queue', "set") + One(task'.set # None) <= ghost'.sets
  <2>1. Count(queue, "set") + One(task.set # None) <= ghost.sets
    BY DEF CInv, Counted
  <2>2. One(task'.set # None) <= One(task.set # None) + One(c.kind = "set")
    BY <1>3, <1>5 DEF One
  <2>3. /\ One(task'.set # None) \in Nat /\ One(task.set # None) \in Nat
        /\ One(c.kind = "set") \in Nat
    BY DEF One
  <2>4. ghost.sets \in Int /\ Count(queue, "set") \in Nat
    BY CountedTypes DEF CInv
  <2>5. Count(Tail(queue), "set") + One(task'.set # None) <= ghost.sets
    BY <1>7, <2>1, <2>2, <2>3, <2>4
  <2> QED BY <1>1, <2>5
<1>10. Counted'
  BY <1>8, <1>9 DEF Counted, Count, Positions
<1> QED BY <1>6, <1>10

(* The lock's override fills an empty slot, and asks for what it puts there. *)
LEMMA OverrideKeeps ==
  ASSUME CInv, DispatchOverride
  PROVE  Planned' /\ Counted'
<1> USE AtFacts, CountedTypes DEF CInv
<1>1. task.work # <<>> /\ task.set = None /\ queue' = queue
      /\ ghost' = [ghost EXCEPT !.sets = @ + 1]
  BY DEF DispatchOverride, Dispatching, At, Pending, Do
<1>2. /\ {"work", "toggle"} \subseteq DOMAIN task
      /\ task' = Then(Booked(Struck), <<>>)
  BY DEF DispatchOverride, Do, Done, TaskType
<1>3. Struck.work = task.work /\ Struck.toggle = task.toggle /\ DOMAIN Struck = DOMAIN task
  BY <1>2 DEF Struck
<1>4. /\ Booked(Struck).work = task.work /\ Booked(Struck).toggle = task.toggle
      /\ DOMAIN Booked(Struck) = DOMAIN task
  BY <1>2, <1>3 DEF Booked
<1>5. task'.work = <<>> \o Tail(task.work) /\ task'.toggle = task.toggle
  BY <1>2, <1>4 DEF Then
<1>6. Planned'
  <2>1. <<>> \in Seq(Step) /\ <<>> \in Seq(Step \ Closing)
    OBVIOUS
  <2>2. task.work \in Seq(Step)
    BY DEF TaskType
  <2>3. /\ Closes(<<>> \o Tail(task.work))
        /\ Toggles(<<>> \o Tail(task.work)) => Toggles(task.work)
    BY <1>1, <2>1, <2>2, ClosesNone, ClosesThen DEF Planned
  <2> QED BY <1>5, <2>3 DEF Planned
<1>7. ghost'.toggles = ghost.toggles /\ ghost'.sets = ghost.sets + 1
  <2>1. ghost \in GhostType
    OBVIOUS
  <2> QED BY <1>1, <2>1 DEF GhostType
<1>8. Count(queue, "set") + One(task'.set # None) <= ghost'.sets
  <2>1. Count(queue, "set") + One(task.set # None) <= ghost.sets
    BY DEF Counted
  <2>2. One(task.set # None) \in {0, 1} /\ One(task'.set # None) \in {0, 1}
    BY DEF One
  <2>3. ghost.sets \in Int /\ Count(queue, "set") \in Nat
    OBVIOUS
  <2> HIDE AtFacts, CountedTypes
  <2> QED BY <1>7, <2>1, <2>2, <2>3
<1>9. Counted'
  BY <1>1, <1>5, <1>7, <1>8 DEF Counted, Count, Positions
<1> QED BY <1>6, <1>9

(* Sending empties the slot, whether the send fails or not. *)
LEMMA SentMoves ==
  ASSUME IInv, NEW step, NEW r, NEW t, NEW ok \in OpenPuts, NEW failed \in OpenPuts,
         Send(step, r, Window(t), ok, failed), DOMAIN t = DOMAIN task, t.work = task.work
  PROVE  /\ task.work # <<>> /\ Head(task.work) = step /\ queue' = queue
         /\ task'.set = t.set /\ task'.toggle = t.toggle
         /\ \E p \in OpenPuts : task'.work = p \o Tail(task.work)
<1>1. PICK p \in OpenPuts : task' = Then(Window(t), p)
  BY DEF Send, Do
<1>2. {"work", "set", "toggle"} \subseteq DOMAIN t
  BY AtFacts DEF TaskType
<1>3. /\ Window(t).work = task.work /\ Window(t).set = t.set
      /\ Window(t).toggle = t.toggle /\ DOMAIN Window(t) = DOMAIN t
  BY <1>2 DEF Window
<1>4. /\ task'.work = p \o Tail(task.work)
      /\ task'.set = t.set /\ task'.toggle = t.toggle
  BY <1>1, <1>2, <1>3 DEF Then
<1> QED BY <1>1, <1>4 DEF Send, At, Do

LEMMA SetStateKeeps ==
  ASSUME CInv, SetState
  PROVE  Planned' /\ Counted'
<1> DEFINE t == [task EXCEPT !.set = None]
<1>0. /\ task \in TaskType /\ ghost \in GhostType /\ Good(task)
      /\ task.work \in Seq(Step) /\ Planned /\ Counted
  BY AtFacts DEF CInv, TaskType
<1>1. /\ DOMAIN t = DOMAIN task /\ t.work = task.work /\ t.set = None
      /\ t.toggle = task.toggle
  BY <1>0 DEF TaskType
<1>2. /\ Send("set", [kind |-> "set", st |-> task.set], Window(t),
              <<"readAck", "pull">>, <<"pull">>)
      /\ ghost' = [ghost EXCEPT !.sets = @ - 1]
  BY DEF SetState
<1>3. <<"readAck", "pull">> \in OpenPuts /\ <<"pull">> \in OpenPuts
  BY DEF OpenPuts
<1> HIDE DEF t
<1>4. /\ task.work # <<>> /\ Head(task.work) = "set" /\ queue' = queue
      /\ task'.set = None /\ task'.toggle = task.toggle
      /\ \E p \in OpenPuts : task'.work = p \o Tail(task.work)
  BY <1>1, <1>2, <1>3, SentMoves DEF CInv
<1>5. Planned'
  <2>1. PICK p \in OpenPuts : task'.work = p \o Tail(task.work)
    BY <1>4
  <2>2. p \in Seq(Step \ Closing) /\ p \in Seq(Step)
    BY OpenPutsOpen
  <2>3. Closes(p) /\ ~Toggles(p)
    BY <2>2, ClosesOpen
  <2>4. /\ Closes(p \o Tail(task.work))
        /\ Toggles(p \o Tail(task.work)) => Toggles(task.work)
    BY <1>0, <1>4, <2>2, <2>3, ClosesThen DEF Planned
  <2> QED BY <1>0, <1>4, <2>1, <2>4 DEF Planned
<1>6. ghost'.toggles = ghost.toggles /\ ghost'.sets = ghost.sets - 1
  BY <1>0, <1>2 DEF GhostType
<1>7. Count(queue, "set") + One(task'.set # None) <= ghost'.sets
  <2>1. Count(queue, "set") + One(task.set # None) <= ghost.sets
    BY <1>0 DEF Counted
  <2>2. task.set # None
    BY <1>0, <1>4 DEF Good
  <2>3. One(task.set # None) = 1 /\ One(task'.set # None) = 0
    BY <1>4, <2>2 DEF One
  <2>4. ghost.sets \in Int /\ Count(queue, "set") \in Nat
    BY CountedTypes DEF CInv
  <2> QED BY <1>6, <2>1, <2>3, <2>4
<1>8. Counted'
  BY <1>0, <1>4, <1>6, <1>7 DEF Counted, Count, Positions
<1> QED BY <1>5, <1>8

LEMMA ToggleKeeps ==
  ASSUME CInv, ToggleSent
  PROVE  Planned' /\ Counted'
<1> DEFINE t == [task EXCEPT !.toggle = FALSE]
<1>0. /\ task \in TaskType /\ ghost \in GhostType
      /\ task.work \in Seq(Step) /\ Planned /\ Counted
  BY AtFacts DEF CInv, TaskType
<1>1. /\ DOMAIN t = DOMAIN task /\ t.work = task.work /\ t.set = task.set
      /\ t.toggle = FALSE
  BY <1>0 DEF TaskType
<1>2. /\ Send("toggle", [kind |-> "toggle"], Window(t), <<"pull">>, <<"pull">>)
      /\ ghost' = [ghost EXCEPT !.toggles = @ - 1]
  BY DEF ToggleSent
<1>3. <<"pull">> \in OpenPuts
  BY DEF OpenPuts
<1> HIDE DEF t
<1>4. /\ task.work # <<>> /\ Head(task.work) = "toggle" /\ queue' = queue
      /\ task'.set = task.set /\ task'.toggle = FALSE
      /\ \E p \in OpenPuts : task'.work = p \o Tail(task.work)
  BY <1>1, <1>2, <1>3, SentMoves DEF CInv
<1>5. task.toggle
  <2>1. Len(task.work) \in Nat \ {0} /\ Head(task.work) = task.work[1]
    BY <1>0, <1>4, EmptySeq
  <2>2. 1 \in 1..Len(task.work)
    BY <2>1
  <2> QED BY <1>0, <1>4, <2>1, <2>2 DEF Planned, Toggles
<1>6. Planned'
  <2>1. PICK p \in OpenPuts : task'.work = p \o Tail(task.work)
    BY <1>4
  <2>2. p \in Seq(Step \ Closing) /\ p \in Seq(Step)
    BY OpenPutsOpen
  <2>3. Closes(p) /\ ~Toggles(p)
    BY <2>2, ClosesOpen
  <2>4. Closes(p \o Tail(task.work)) /\ ~Toggles(p \o Tail(task.work))
    BY <1>0, <1>4, <2>2, <2>3, ClosesThen DEF Planned
  <2> QED BY <2>1, <2>4 DEF Planned
<1>7. ghost'.sets = ghost.sets /\ ghost'.toggles = ghost.toggles - 1
  BY <1>0, <1>2 DEF GhostType
<1>8. Count(queue, "toggle") + One(task'.toggle) <= ghost'.toggles
  <2>1. Count(queue, "toggle") + One(task.toggle) <= ghost.toggles
    BY <1>0 DEF Counted
  <2>2. One(task.toggle) = 1
    BY <1>5 DEF One
  <2>3. One(task'.toggle) = 0
    BY <1>4 DEF One
  <2>4. ghost.toggles \in Int /\ Count(queue, "toggle") \in Nat
    BY CountedTypes DEF CInv
  <2> QED BY <1>7, <2>1, <2>2, <2>3, <2>4
<1>9. Counted'
  BY <1>0, <1>4, <1>7, <1>8 DEF Counted, Count, Positions
<1> QED BY <1>6, <1>9

LEMMA ServiceKeeps ==
  ASSUME CInv, ServiceStep
  PROVE  Planned' /\ Counted'
<1>1. CASE Moves
  BY <1>1, MovesKeep
<1>2. CASE Receive
  BY <1>2, ReceiveKeeps
<1>3. CASE DispatchOverride
  BY <1>3, OverrideKeeps
<1>4. CASE SetState
  BY <1>4, SetStateKeeps
<1>5. CASE ToggleSent
  BY <1>5, ToggleKeeps
<1>6. ASSUME NEW step \in Reads, NEW r, Failed(step, r) PROVE Moves
  BY <1>6, FailedMoves DEF CInv
<1> QED BY <1>1, <1>2, <1>3, <1>4, <1>5, <1>6, BeginMoves, LinkMoves, DrainMoves,
        DispatchMoves, OpenMoves, RequestMoves, PullMoves, ReadMoves, GroupMoves
        DEF ServiceStep, CInv

(* A command the queue takes is counted with it, one it drops is not. *)
LEMMA SubmitKeeps ==
  ASSUME CInv, NEW c \in Command, NEW base, Submit(c, base)
  PROVE  Planned' /\ Counted'
<1>1. task' = task
  BY DEF Submit
<1>2. Planned'
  BY <1>1 DEF CInv, Planned
<1>3. CASE Len(queue) < QueueDepth
  <2> DEFINE n == IF c.kind = "toggle" THEN ghost.toggles + 1 ELSE ghost.toggles
             m == IF c.kind = "set" THEN ghost.sets + 1 ELSE ghost.sets
  <2>1. /\ queue' = Append(queue, c) /\ ghost'.toggles = n /\ ghost'.sets = m
    BY <1>3, AtFacts DEF CInv, Submit, GhostType
  <2>2. /\ n = ghost.toggles + One(c.kind = "toggle")
        /\ m = ghost.sets + One(c.kind = "set")
    <3>1. ghost.toggles \in Int /\ ghost.sets \in Int
      BY CountedTypes DEF CInv
    <3> QED BY <3>1 DEF One
  <2>3. /\ Count(Append(queue, c), "toggle") = Count(queue, "toggle") + One(c.kind = "toggle")
        /\ Count(Append(queue, c), "set") = Count(queue, "set") + One(c.kind = "set")
    BY CountedTypes, CountAppend DEF CInv
  <2> HIDE DEF n, m
  <2>4. /\ One(c.kind = "toggle") \in Nat /\ One(c.kind = "set") \in Nat
        /\ One(task.toggle) \in Nat /\ One(task.set # None) \in Nat
    BY DEF One
  <2>5. /\ ghost.toggles \in Int /\ ghost.sets \in Int
        /\ Count(queue, "toggle") \in Nat /\ Count(queue, "set") \in Nat
    BY CountedTypes DEF CInv
  <2>6. /\ Count(queue, "toggle") + One(task.toggle) <= ghost.toggles
        /\ Count(queue, "set") + One(task.set # None) <= ghost.sets
    BY DEF CInv, Counted
  <2>7. /\ Count(queue', "toggle") + One(task'.toggle) <= ghost'.toggles
        /\ Count(queue', "set") + One(task'.set # None) <= ghost'.sets
    <3>1. /\ Count(Append(queue, c), "toggle") + One(task.toggle) <= n
          /\ Count(Append(queue, c), "set") + One(task.set # None) <= m
      BY <2>2, <2>3, <2>4, <2>5, <2>6
    <3> QED BY <1>1, <2>1, <3>1
  <2> QED BY <1>2, <2>7 DEF Counted, Count, Positions
<1>4. CASE ~(Len(queue) < QueueDepth)
  <2>1. queue' = queue /\ ghost' = ghost
    BY <1>4 DEF Submit
  <2> QED BY <1>1, <1>2, <2>1, CountedSame DEF CInv
<1> QED BY <1>3, <1>4

LEMMA UserKeeps ==
  ASSUME CInv, UserStep
  PROVE  Planned' /\ Counted'
<1> USE DEF CInv
<1>1. ASSUME NEW f \in {"temp", "sleep"}, NEW v \in IF f = "temp" THEN Temps ELSE Sleeps,
             EditState(f, v)
      PROVE  Planned' /\ Counted'
  <2> DEFINE base == [ui.base EXCEPT ![f] = v]
  <2>1. base \in AcState
    BY Types DEF UiType, AcState
  <2>2. [kind |-> "set", st |-> base, field |-> f] \in Command
    BY <2>1 DEF Command
  <2> QED BY <1>1, <2>2, SubmitKeeps DEF EditState
<1>2. ASSUME NEW k \in Kinds, NEW on \in BOOLEAN, EditProp(k, on)
      PROVE  Planned' /\ Counted'
  <2>1. [kind |-> "prop", prop |-> k, on |-> on] \in Command
    BY DEF Command
  <2> QED BY <1>2, <2>1, SubmitKeeps DEF EditProp
<1>3. CASE ToggleDisplay
  <2>1. [kind |-> "toggle"] \in Command
    BY DEF Command
  <2> QED BY <1>3, <2>1, SubmitKeeps DEF ToggleDisplay
<1>4. CASE FlipLock
  <2>1. task' = task /\ queue' = queue
        /\ ghost'.toggles = ghost.toggles /\ ghost'.sets = ghost.sets
    BY <1>4, AtFacts DEF FlipLock, GhostType
  <2> QED BY <2>1 DEF Planned, Counted, Count, Positions
<1>5. ASSUME NEW m \in Modes, SetPollMode(m) PROVE Planned' /\ Counted'
  <2>1. task' = task /\ queue' = queue /\ ghost' = ghost
    BY <1>5 DEF SetPollMode
  <2> QED BY <2>1, CountedSame DEF Planned
<1>6. ASSUME NEW f \in {"temp", "sleep"}, NEW v \in Temps \cup Sleeps,
             v \in (IF f = "temp" THEN Temps ELSE Sleeps), EditState(f, v)
      PROVE  Planned' /\ Counted'
  BY <1>1, <1>6
<1> QED BY <1>2, <1>3, <1>4, <1>5, <1>6 DEF UserStep

LEMMA NextCounts == CInv /\ [Next]_vars => CInv'
<1> SUFFICES ASSUME CInv, [Next]_vars PROVE Planned' /\ Counted'
  BY NextKeeps DEF CInv
<1>1. CASE ServiceStep
  BY <1>1, ServiceKeeps
<1>2. ASSUME NEW timer \in Timers, Passes(timer) PROVE Planned' /\ Counted'
  <2>1. Slots(task', task.work)
    <3>1. task' = [task EXCEPT ![timer] = FALSE]
      BY <1>2 DEF Passes, Do
    <3>2. task \in TaskType /\ timer \notin {"work", "set", "toggle"}
      BY AtFacts DEF CInv, Timers
    <3> QED BY <3>1, <3>2 DEF Slots, TaskType
  <2>2. UNCHANGED <<queue, ghost>>
    BY <1>2 DEF Passes, Do, Plain
  <2> QED BY <2>1, <2>2, MovesEnd, MovesKeep
<1>3. CASE UserStep
  BY <1>3, UserKeeps
<1>4. CASE UNCHANGED vars \/ Notify \/ Paint \/ DeviceAnswers \/ Surroundings \/ WifiReturns
  <2>1. task' = task /\ queue' = queue /\ ghost' = ghost
    BY <1>4 DEF vars, Notify, Paint, ConsumeStateChanged, ConsumeReachabilityEdge,
       ConsumePropsEdge, ConsumeExtUpdate, Consume, OnAcStateChanged, PaintLink,
       PaintProps, PaintExt, Draw, Act, DeviceAnswers, AnswerState, AnswerSet, AnswerToggle,
       AnswerCaps, AnswerProps, AnswerSetProps, AnswerGroup, Answers, Surroundings,
       DeviceIgnores, RemoteChange, ReadingChanges, Noise, WifiDrops, PeerDrops,
       AuthExpires, WifiReturns, SetLink
  <2> QED BY <2>1, CountedSame DEF CInv, Planned
<1> QED BY <1>1, <1>2, <1>3, <1>4 DEF Next, SessionNext

LEMMA InitCounts == Init => CInv
<1> SUFFICES ASSUME Init PROVE CInv
  OBVIOUS
<1>1. /\ task.work = <<>> /\ task.set = None /\ ~task.toggle
      /\ queue = <<>> /\ ghost.toggles = 0 /\ ghost.sets = 0
  BY DEF Init, Start
<1>2. One(task.toggle) = 0 /\ One(task.set # None) = 0
  BY <1>1 DEF One
<1>3. Count(queue, "toggle") = 0 /\ Count(queue, "set") = 0
  BY <1>1, CountNone
<1>4. Counted
  BY <1>1, <1>2, <1>3 DEF Counted
<1> QED BY <1>1, <1>4, InitEstablishes, ClosesNone DEF CInv, Planned

(* Whatever fails, is retried, coalesced or dropped: the AC is never sent a   *)
(* toggle more often than the user asked for one, nor a SetState that neither *)
(* the user nor the lock asked for.                                           *)
THEOREM CommandsAtMostOnce == Spec => []AtMostOnce
<1>1. CInv => AtMostOnce
  <2> SUFFICES ASSUME CInv PROVE AtMostOnce
    OBVIOUS
  <2>1. /\ One(task.toggle) \in Nat /\ One(task.set # None) \in Nat
    BY DEF One
  <2>2. /\ ghost.toggles \in Int /\ ghost.sets \in Int
        /\ Count(queue, "toggle") \in Nat /\ Count(queue, "set") \in Nat
    BY CountedTypes DEF CInv
  <2>3. /\ Count(queue, "toggle") + One(task.toggle) <= ghost.toggles
        /\ Count(queue, "set") + One(task.set # None) <= ghost.sets
    BY DEF CInv, Counted
  <2> QED BY <2>1, <2>2, <2>3 DEF AtMostOnce
<1> QED BY <1>1, InitCounts, NextCounts, PTL DEF Spec
=============================================================================
