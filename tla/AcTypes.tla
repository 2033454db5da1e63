------------------------------- MODULE AcTypes -------------------------------
(* The data the AC service, the main loop and the AC exchange: constants,     *)
(* variables and their types, shared by the modules that model the three.     *)
(*                                                                            *)
(* Abstractions.  An AcState keeps one field of each class the code tells     *)
(* apart: temp is shown, commanded and locked; sleep is commanded and locked  *)
(* but raises no repaint; display is shown and never carried by a SetState.   *)
(* A deadline (retryAtMs_ and the like) is a flag that is TRUE while it lies  *)
(* ahead and falls at any time.  Frames arrive whole and in order, as         *)
(* FrameStream promises; a read that fails is a fault of the link.  Messages  *)
(* to the user (reportError()) are left out: see Toast.                       *)
EXTENDS Integers, Sequences

CONSTANTS
  None,             \* "no value"
  Temps, Sleeps,    \* values of two AcState fields
  Blank,            \* the AcState the code constructs by default
  BaseKinds,        \* properties on the first capabilities page
  MoreKinds,        \* and on the additional page; {} when there is none
  BeepKind,         \* the property that no capability gates
  Modes,            \* the poll modes the screens ask for
  PowerGroups,      \* data groups polled in mode "power"
  AllGroups,        \* and in mode "all"
  CapsSeeded,       \* init() found capabilities in the SD cache
  QueueDepth, Burst, MaxPollTimeouts, LockMaxStrikes,
  MaxInbound,       \* bound: frames waiting at the socket
  MaxEdits,         \* bound: commands the user gives
  MaxFlips,         \* bound: changes of screen and of the lock setting
  MaxRemote,        \* bound: changes made at the AC, and its pushes
  MaxFaults         \* bound: faults of link, device and stream

Kinds == BaseKinds \cup MoreKinds \cup {BeepKind}
Groups == {PowerGroups[i] : i \in DOMAIN PowerGroups}
            \cup {AllGroups[i] : i \in DOMAIN AllGroups}
PowerIds == {PowerGroups[i] : i \in DOMAIN PowerGroups}
PollModes == {"none", "state", "power", "all"}
AcState == [temp : Temps, sleep : Sleeps, display : BOOLEAN]

ASSUME AcAssumption ==
  /\ None \notin AcState /\ None \notin BOOLEAN /\ Blank \in AcState
  /\ Modes \subseteq PollModes /\ CapsSeeded \in BOOLEAN
  /\ PowerGroups \in Seq(Nat) /\ AllGroups \in Seq(Nat)
  /\ \A n \in {QueueDepth, Burst, MaxPollTimeouts, LockMaxStrikes} : n \in Nat \ {0}
  /\ \A n \in {MaxInbound, MaxEdits, MaxFlips, MaxRemote, MaxFaults} : n \in Nat

VARIABLES
  ui,      \* the main loop: Control's base state, the settings, what is painted
  queue,   \* commandQueue_
  shared,  \* the members under stateMutex_
  task,    \* the members only the task touches
  link,    \* WiFi, the socket, and what travels on it
  dev,     \* the AC
  spent,   \* how much of each bound has been used
  ghost    \* history, for the properties: toggles and SetStates asked for and
           \* not sent yet, and the last edit made since the lock was turned on

vars == <<ui, queue, shared, task, link, dev, spent, ghost>>

-----------------------------------------------------------------------------
(* The fields the UI shows, and those a SetState carries and a lock freezes.  *)
Shown(s) == [temp |-> s.temp, display |-> s.display]
Locked(s) == [temp |-> s.temp, sleep |-> s.sleep]
Commanded(s, d) == [s EXCEPT !.temp = d.temp, !.sleep = d.sleep]

PropValues == [Kinds -> BOOLEAN \cup {None}]
Unknown == [k \in Kinds |-> None]

(* What the main loop queues. "field" is history: the field this edit set.    *)
Command == [kind : {"set"}, st : AcState, field : {"temp", "sleep"}]
             \cup [kind : {"toggle"}]
             \cup [kind : {"prop"}, prop : Kinds, on : BOOLEAN]

(* What the service sends and the AC answers or pushes.  The codecs refuse an *)
(* "invalid" frame; the transport cannot read a "corrupt" one.                *)
Request == [kind : {"set"}, st : AcState]
             \cup [kind : {"getProps"}, ask : SUBSET Kinds]
             \cup [kind : {"setProps"}, on : PropValues]
             \cup [kind : {"group"}, group : Groups]
             \cup [kind : {"toggle", "getState", "caps"}]

Frame == [kind : {"state"}, st : AcState]
           \cup [kind : {"props"}, on : PropValues]
           \cup [kind : {"group"}, group : Groups, on : BOOLEAN]
           \cup [kind : {"caps", "propsAck", "invalid", "corrupt"}]

(* The steps of a pass; a read step waits for the frame it is named after. *)
Reads == {"readAck", "readState", "readProps", "readPropsAck", "readCaps",
          "readMore", "readGroup"}

Step == Reads \cup
        {"begin", "link", "drain", "drainQuietly", "dispatch", "open", "first",
         "getCaps", "getMore", "checkLink", "getProps", "set", "setProps",
         "toggle", "pull", "extras", "group", "endRound"}

Ext == [Groups -> BOOLEAN \cup {None}]

(* outdoorUnitPowerW(): the reading the Dashboard shows. *)
Power == [PowerIds -> BOOLEAN \cup {None}]
PowerOf(ext) == [g \in PowerIds |-> ext[g]]

UiType ==
  [base : AcState,                \* sControlDesired
   lock : BOOLEAN,                \* settings.ac.buttonLock
   painted : {None} \cup [temp : Temps, display : BOOLEAN],
   up : BOOLEAN,                  \* the stale indicator, as painted
   props : PropValues,            \* the property rows, as painted
   ext : Ext,                     \* the group values, as painted
   drawn : Power,                  \* lastDrawnPower
   todo : {"none", "notify", "paint", "paintLink", "paintProps", "paintExt", "draw"}]

SharedType ==
  [mode : PollModes,              \* pollMode_
   state : AcState, received : BOOLEAN, changed : BOOLEAN,
   sessionUp : BOOLEAN, reach : BOOLEAN,
   resync : BOOLEAN,
   caps : {"none", "base", "full"},
   props : PropValues, propsEdge : BOOLEAN,
   ext : Ext, extEdge : BOOLEAN]

TaskType ==
  [work : Seq(Step),              \* what is left of the pass
   mode : PollModes,              \* taskMode_
   lockOn : BOOLEAN, target : AcState \cup {None}, strikes : 0..LockMaxStrikes,
   set : AcState \cup {None},     \* pendingDesired_ while hasPendingSetState_
   props : PropValues,            \* pendingPropValue_ where pendingPropDirty_
   toggle : BOOLEAN,
   retry : BOOLEAN,               \* retryAtMs_ lies ahead
   poll : BOOLEAN,                \* nextPollAtMs_ lies ahead
   fast : BOOLEAN,                \* fastPollUntilMs_ lies ahead
   revert : BOOLEAN,              \* the last override is younger than the gap
   timeouts : 0..(MaxPollTimeouts - 1), \* pollTimeouts_
   capsKnown : BOOLEAN,
   burst : 0..Burst,              \* frames this pass may still drain
   left : Seq(Groups),            \* groups this round has still to ask
   shown : Ext]                   \* extShown_

LinkType ==
  [wifi : BOOLEAN, open : BOOLEAN, peer : BOOLEAN, expired : BOOLEAN,
   requests : Seq(Request), inbound : Seq(Frame)]

DevType == [state : AcState, props : [Kinds -> BOOLEAN], reading : BOOLEAN]

SpentType == [{"edits", "flips", "remote", "faults"} -> Nat]

GhostType == [toggles : Int, sets : Int, wish : AcState \cup {None}]

TypeOK ==
  /\ ui \in UiType /\ shared \in SharedType /\ task \in TaskType
  /\ link \in LinkType /\ dev \in DevType
  /\ queue \in Seq(Command) /\ Len(queue) <= QueueDepth
  /\ spent \in SpentType /\ ghost \in GhostType

-----------------------------------------------------------------------------
Start ==
  /\ ui = [base |-> Blank, lock |-> FALSE, painted |-> None, up |-> FALSE,
           props |-> Unknown, ext |-> [g \in Groups |-> None],
           drawn |-> [g \in PowerIds |-> None], todo |-> "none"]
  /\ queue = <<>>
  /\ shared = [mode |-> "none", state |-> Blank, received |-> FALSE,
               changed |-> FALSE, sessionUp |-> FALSE, reach |-> FALSE,
               resync |-> FALSE,
               caps |-> IF CapsSeeded THEN "full" ELSE "none",
               props |-> Unknown, propsEdge |-> FALSE,
               ext |-> [g \in Groups |-> None], extEdge |-> FALSE]
  /\ task = [work |-> <<>>, mode |-> "none",
             lockOn |-> FALSE, target |-> None, strikes |-> 0,
             set |-> None, props |-> Unknown, toggle |-> FALSE,
             retry |-> FALSE, poll |-> FALSE, fast |-> FALSE, revert |-> TRUE,
             timeouts |-> 0, capsKnown |-> CapsSeeded, burst |-> 0,
             left |-> <<>>, shown |-> [g \in Groups |-> None]]
  /\ link = [wifi |-> TRUE, open |-> FALSE, peer |-> FALSE, expired |-> FALSE,
             requests |-> <<>>, inbound |-> <<>>]
  /\ \E s \in AcState :
       dev = [state |-> s, props |-> [k \in Kinds |-> FALSE], reading |-> FALSE]
  /\ ghost = [toggles |-> 0, sets |-> 0, wish |-> None]
Init == Start /\ spent = [edits |-> 0, flips |-> 0, remote |-> 0, faults |-> 0]

Spend(what) == spent' = [spent EXCEPT ![what] = @ + 1]
Alive == link.open /\ link.peer
=============================================================================
