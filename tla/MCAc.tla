-------------------------------- MODULE MCAc --------------------------------
(* The values AcService's runs share: a default AC state, and one data group  *)
(* for the screens that ask for groups, or none.                              *)
EXTENDS AcService

MCBlank == [temp |-> 0, sleep |-> 0, display |-> FALSE]
MCNoGroups == <<>>
MCPowerGroups == <<7>>

(* What comes together in one behaviour of a run; the rest of the bounds is   *)
(* spent from the start.                                                      *)
Within(scenarios) ==
  \E s \in scenarios :
    spent = [edits |-> MaxEdits - s.edits, flips |-> MaxFlips - s.flips,
             remote |-> MaxRemote - s.remote, faults |-> MaxFaults - s.faults]

(* The screens' run: the Dashboard is entered and everything happens once; or *)
(* a reading moves and moves back; or the Dashboard is left and entered anew  *)
(* while a reading moves, or while the link fails.                            *)
Screens == {[edits |-> 0, flips |-> 1, remote |-> 1, faults |-> 1],
            [edits |-> 0, flips |-> 1, remote |-> 2, faults |-> 0],
            [edits |-> 0, flips |-> 3, remote |-> 1, faults |-> 0],
            [edits |-> 0, flips |-> 2, remote |-> 0, faults |-> 1]}
ScreensInit == Start /\ Within(Screens)
ScreensSpec == ScreensInit /\ [][Next]_vars

(* The task's run: a screen is entered and left, or the lock switched, while  *)
(* the link fails or while the remote is used; a command is given on a screen *)
(* that polls, or under the lock, while the link fails.                       *)
Scenarios == {[edits |-> 0, flips |-> 2, remote |-> 0, faults |-> 1],
              [edits |-> 0, flips |-> 2, remote |-> 1, faults |-> 0],
              [edits |-> 1, flips |-> 1, remote |-> 0, faults |-> 1]}
TasksInit == Start /\ Within(Scenarios) /\ dev.state.display = MCBlank.display
TasksSpec == TasksInit /\ [][SessionNext]_vars /\ Fairness
=============================================================================
