--------------------------- MODULE ControlScreen ----------------------------
(* The Control screen of src/src/ui/Screens.cpp: its rows, gated by what the  *)
(* AC can do, the quick adjustment and the dropdown that edit them, and the   *)
(* edits composed into a base state and queued for the AC service.            *)
EXTENDS UiTypes

AllRows == <<"mode", "target", "fan", "swing", "eco", "turbo", "ieco", "outSilent", "purifier",
             "freezeProtection", "sleep", "followMe", "selfClean", "breezeAway", "breezeless",
             "flash", "rateSelect", "cascade", "freshAir", "display", "beep", "lock">>
LookedAt == Selected(AllRows, Rows)

Supports(flag) == ac.caps = None \/ ac.caps.flag[flag] # "false"
Says(flag) == ac.caps # None /\ ac.caps.flag[flag] = "true"

(* controlRowAvailable(): property rows and the display need an explicit yes, *)
(* the others hide on an explicit no to every flag they depend on.            *)
Denied == [swing |-> {"swingHorizontal", "swingVertical"}, eco |-> {"eco"},
           turbo |-> {"turboHeat", "turboCool"}, purifier |-> {"anion"},
           freezeProtection |-> {"freezeProtection"}]
Allowing(row) == IF row = "rateSelect" THEN {"rateSelect2Level", "rateSelect5Level"} ELSE {row}
Available(row) ==
  CASE row \in Props -> ac.props[row] # -1 /\ \E f \in Allowing(row) : Says(f)
    [] row = "display" -> Says("displayControl")
    [] row \in DOMAIN Denied -> \E f \in Denied[row] : Supports(f)
    [] OTHER -> TRUE
Visible == Selected(LookedAt, {row \in Rows : Available(row)})
RowAt(slot) == IF slot < Len(Visible) THEN Visible[slot + 1] ELSE "mode"

PowerOff == ac.has /\ ~ac.state.power
Disabled(row) == PowerOff /\ row \in {"target", "fan", "swing"}
Setting(row) == row \in {"beep", "lock"}

-----------------------------------------------------------------------------
(* The options of a row, and the one it stands at.                            *)

Off == 255
Cool == 2
Heat == 4
ModeOptions == << <<Off, "any">>, <<1, "autoMode">>, <<Cool, "coolMode">>, <<3, "dryMode">>,
                  <<Heat, "heatMode">>, <<5, "any">> >>
FanOptions == << <<102, "fanAuto">>, <<20, "fanSilent">>, <<40, "fanLow">>, <<60, "fanMedium">>,
                 <<80, "fanHigh">> >>
Values(entries) == [i \in DOMAIN entries |-> entries[i][1]]
Kept(entries) == Values(Selected(entries, {e \in ToSet(entries) : e[2] = "any" \/ Supports(e[2])}))

Sound(range) == range[1] > 0 /\ range[2] > range[1]
TempRange ==
  LET r == ac.caps.ranges
      own == CASE ctl.desired.mode = Cool -> r.cool
               [] ctl.desired.mode = Heat -> r.heat
               [] OTHER -> IF Sound(r.auto) THEN r.auto ELSE r.cool
      lo == Max({TempMin, (own[1] + 1) \div 2})
      hi == Min({TempMax, (own[2] + 1) \div 2})
      whole == [lo |-> TempMin, hi |-> TempMax]
  IN IF ac.caps = None THEN whole
     ELSE IF r = <<>> \/ ~Sound(own) \/ lo > hi THEN whole ELSE [lo |-> lo, hi |-> hi]

MaxOptions == 16
Options(row) ==
  CASE row = "mode" -> Kept(ModeOptions)
    [] row = "target" -> LET t == TempRange
                         IN [i \in 1..Min({MaxOptions, t.hi - t.lo + 1}) |-> 2 * (t.lo + i - 1)]
    [] row = "fan" -> LET named == Kept(FanOptions)
                      IN (IF named = <<>> THEN Values(FanOptions) ELSE named)
                           \o (IF Supports("fanCustom") THEN <<100>> ELSE <<>>)
    [] row = "swing" -> LET vertical == Supports("swingVertical")
                            horizontal == Supports("swingHorizontal")
                        IN <<0>> \o (IF vertical THEN <<12>> ELSE <<>>)
                             \o (IF horizontal THEN <<3>> ELSE <<>>)
                             \o (IF vertical /\ horizontal THEN <<15>> ELSE <<>>)
    [] row = "rateSelect" -> IF Says("rateSelect5Level") THEN <<100, 1, 20, 40, 60, 80>>
                            ELSE IF Says("rateSelect2Level") THEN <<100, 50, 75>> ELSE <<100>>
    [] row = "cascade" -> <<0, 1, 2>>
    [] row = "freshAir" -> <<0, 40, 60, 80, 100>>
    [] OTHER -> <<0, 1>>

StateValue(st, row) ==
  CASE row = "mode" -> IF st.power THEN st.mode ELSE Off
    [] row \in {"target", "fan", "swing"} -> st[row]
    [] OTHER -> OnOff(st[row])
SettingOrProp(row) == IF Setting(row) THEN OnOff(set[row]) ELSE ac.props[row]
RawValue(row) ==   \* the base's value, ahead of the acknowledged one
  IF Setting(row) \/ row \in Props THEN SettingOrProp(row) ELSE StateValue(ctl.desired, row)

(* The value's place in the list, the first if it is not in it. *)
ValueIndex(row, options) ==
  LET same == {i \in DOMAIN options : options[i] = RawValue(row)}
  IN IF same = {} THEN 0 ELSE Min(same) - 1

-----------------------------------------------------------------------------
(* applyControlValue(): settings change here and now, everything else is      *)
(* queued; a full queue drops the command and the base keeps the edit.        *)

Queued(command) == queue' = IF Len(queue) < QueueDepth THEN Append(queue, command) ELSE queue
Edited(row, raw) ==
  CASE row = "mode" -> IF raw = Off THEN [ctl.desired EXCEPT !.power = FALSE]
                       ELSE [ctl.desired EXCEPT !.power = TRUE, !.mode = raw]
    [] row \in {"target", "fan", "swing"} -> [ctl.desired EXCEPT ![row] = raw]
    [] row = "display" -> [ctl.desired EXCEPT !.followMe = raw # 0]   \* the code's default
    [] OTHER -> [ctl.desired EXCEPT ![row] = raw # 0]

Applies(row, raw, c) ==   \* c: ctl as the press leaves it
  \/ /\ Setting(row) /\ OnOff(set[row]) # raw
     /\ set' = [set EXCEPT ![row] = raw # 0]
     /\ IF row = "beep" THEN Queued([kind |-> "beep"]) ELSE UNCHANGED queue
     /\ ctl' = c /\ Spend("edits", MaxEdits)
  \/ /\ ac.has /\ row \in Props /\ ~(row = "selfClean" /\ raw = 0)
     /\ Queued([kind |-> "prop", prop |-> row, value |-> raw])
     /\ ctl' = c /\ Spend("edits", MaxEdits) /\ UNCHANGED set
  \/ /\ ac.has /\ row \notin Props /\ ~Setting(row)
     /\ Queued([kind |-> "set", st |-> Edited(row, raw)])
     /\ ctl' = [c EXCEPT !.desired = Edited(row, raw)]
     /\ Spend("edits", MaxEdits) /\ UNCHANGED set
  \/ /\ \/ Setting(row) /\ OnOff(set[row]) = raw
        \/ ~Setting(row) /\ (~ac.has \/ (row = "selfClean" /\ raw = 0))
     /\ ctl' = c /\ UNCHANGED <<set, queue, spent>>

-----------------------------------------------------------------------------
(* controlButton().                                                           *)

Focus == IF ctl.focus >= Len(Visible) THEN 0 ELSE ctl.focus
Focused == [ctl EXCEPT !.focus = Focus]
FocusRow == RowAt(Focus)
Sel == IF ctl.sel >= Len(Options(FocusRow)) THEN 0 ELSE ctl.sel
NoEdit == UNCHANGED <<set, queue, spent>>

(* A step in the dropdown redraws the two boxes it touches in the held frame: *)
(* over a frame that does not show this dropdown they land on something else. *)
Boxed(sel) ==
  IF /\ panel.on = "Control" /\ panel.show.drop.row = FocusRow
     /\ panel.show.drop.options = Options(FocusRow)
     /\ panel.show.drop.lit = Sel \/ panel.show.drop.lit >= Len(Options(FocusRow))
  THEN [panel EXCEPT !.show.drop.lit = sel] ELSE [panel EXCEPT !.torn = TRUE]
(* Mutant of DropdownMoves: the step is not drawn. *)
DropdownMovesUnseen(b) ==
  /\ b \in {"up", "down"}
  /\ ctl' = [Focused EXCEPT !.sel = Cycled(Sel, Step(b), Len(Options(FocusRow)))]
  /\ NoEdit /\ UNCHANGED <<nav, panel, ghost>>
DropdownMoves(b) ==
  /\ b \in {"up", "down"}
  /\ LET sel == Cycled(Sel, Step(b), Len(Options(FocusRow)))
     IN /\ ctl' = [Focused EXCEPT !.sel = sel]
        /\ panel' = IF sel = Sel THEN panel ELSE Boxed(sel)
  /\ NoEdit /\ UNCHANGED <<nav, ghost>>
DropdownSaves(b) ==
  /\ b = "confirm"
  /\ LET value == Options(FocusRow)[Sel + 1]
     IN /\ Applies(FocusRow, value, [Focused EXCEPT !.sel = Sel, !.open = FALSE])
        /\ ghost' = <<FocusRow, value>>
  /\ nav' = Repainted(nav) /\ UNCHANGED panel
DropdownCancels(b) ==
  /\ b = "back" /\ ctl' = [Focused EXCEPT !.sel = Sel, !.open = FALSE]
  /\ nav' = Repainted(nav) /\ NoEdit /\ UNCHANGED <<panel, ghost>>
FocusMoves(b) ==
  /\ b \in {"up", "down"}
  /\ ctl' = [ctl EXCEPT !.focus = Cycled(Focus, Step(b), Len(Visible))]
  /\ nav' = Repainted(nav) /\ NoEdit

(* adjustControl(): half a degree within the range, any other row in a cycle. *)
Adjusted(b) ==
  LET delta == IF b = "left" THEN -1 ELSE 1
      t == TempRange
      Within(v) == Max({2 * t.lo, Min({2 * t.hi, v})})
      options == Options(FocusRow)
  IN IF FocusRow = "target"
     THEN [from |-> Within(ctl.desired.target), to |-> Within(Within(ctl.desired.target) + delta)]
     ELSE [from |-> RawValue(FocusRow),
           to |-> options[Cycled(ValueIndex(FocusRow, options), delta, Len(options)) + 1]]
Adjustable == /\ ~Disabled(FocusRow) /\ FocusRow \notin {"selfClean", "display"}
              /\ FocusRow = "beep" \/ ac.has
Adjusts(b) ==
  /\ b \in {"left", "right"}
  /\ IF Adjustable /\ Adjusted(b).to # Adjusted(b).from
     THEN Applies(FocusRow, Adjusted(b).to, Focused) /\ nav' = Repainted(nav)
     ELSE ctl' = Focused /\ NoEdit /\ UNCHANGED nav

(* Confirm: the self-clean and display rows act, any other opens its list. *)
Openable == ~Disabled(FocusRow) /\ (ac.has \/ Setting(FocusRow))
Acts ==
  \/ ~Openable /\ ctl' = Focused /\ NoEdit /\ UNCHANGED nav
  \/ /\ Openable /\ FocusRow = "selfClean" /\ UNCHANGED nav
     /\ IF ac.props["selfClean"] # 0 THEN ctl' = Focused /\ NoEdit
        ELSE Applies(FocusRow, 1, Focused)
  \/ /\ Openable /\ FocusRow = "display" /\ ctl' = Focused
     /\ Queued([kind |-> "toggle"]) /\ Spend("edits", MaxEdits) /\ UNCHANGED <<set, nav>>
  \/ /\ Openable /\ FocusRow \notin {"selfClean", "display"}
     /\ ctl' = [Focused EXCEPT !.open = TRUE, !.sel = ValueIndex(FocusRow, Options(FocusRow))]
     /\ nav' = Repainted(nav) /\ NoEdit

ControlButton(b) ==
  /\ IF ctl.open
     THEN DropdownMoves(b) \/ DropdownSaves(b) \/ DropdownCancels(b)
     ELSE /\ \/ FocusMoves(b) \/ Adjusts(b) \/ (b = "confirm" /\ Acts)
             \/ b = "back" /\ nav' = Popped(nav) /\ ctl' = Focused /\ NoEdit
          /\ UNCHANGED <<panel, ghost>>
  /\ UNCHANGED <<cur, devs, scan, store, ac, net>>

-----------------------------------------------------------------------------
(* renderControl(): the scroll follows the focus, the rows show the           *)
(* acknowledged values.                                                       *)

NoData == -1
Inert == 1000   \* in brackets: the row is disabled
RowValue(row) ==
  CASE Setting(row) \/ (ac.has /\ row \in Props) -> SettingOrProp(row)
    [] ~Setting(row) /\ ~ac.has -> NoData
    [] row = "target" /\ PowerOff -> Inert
    [] OTHER -> StateValue(ac.state, row) + (IF Disabled(row) THEN Inert ELSE 0)

ControlSpan == Min({RowSpan, Len(Visible)})
ControlClamped ==
  [Focused EXCEPT !.scroll = CASE Focus < @ -> Focus
                               [] Focus >= @ + ControlSpan -> Focus - ControlSpan + 1
                               [] OTHER -> @]
NoDrop == [row |-> "none", options |-> <<>>, lit |-> 0]
ControlShows(c) ==
  [stale |-> Stale, focus |-> c.focus,
   rows |-> [i \in 1..ControlSpan |-> LET row == RowAt(c.scroll + i - 1) IN <<row, RowValue(row)>>],
   drop |-> IF c.open THEN [row |-> RowAt(c.focus), options |-> Options(RowAt(c.focus)), lit |-> c.sel]
            ELSE NoDrop]
=============================================================================
