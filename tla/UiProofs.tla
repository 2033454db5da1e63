------------------------------ MODULE UiProofs ------------------------------
(* Proofs about Ui, for every value of its constants.  Four facts are kept by *)
(* every step: the back stack is a path down from its root (SInv), every      *)
(* variable stays in its range (TInv), nothing covers the page of the hotspot *)
(* (HotspotInv), and while no frame is asked for the panel matches (FrameInv).*)
EXTENDS UiDataProofs

(* Where a screen stands on the way down from its root.  The login prompt     *)
(* may come over any of them.                                                 *)
Level(screen) ==
  IF screen \in {"Home", "Hotspot"} THEN 1
  ELSE IF screen \in {"Dashboard", "Control", "Settings", "About"} THEN 2
  ELSE IF screen \in {"Details", "Devices", "Networks", "Licenses"} THEN 3
  ELSE 4

Prompt == "CaptiveLogin"
Pages == ScreenIds \ {Prompt}

Nested(stack) ==
  /\ stack \in Seq(ScreenIds) /\ stack # <<>>
  /\ \A i \in 1..Len(stack) :
       IF stack[i] = Prompt THEN i > 1 /\ i = Len(stack) ELSE i = Level(stack[i])

NavSound(n) == {"stack", "dirty"} \subseteq DOMAIN n /\ Nested(n.stack)

(* The inductive invariant: besides the stack, that what Confirm opens on     *)
(* Home is one of its targets and that the Devices screen is in one of its    *)
(* modes.                                                                     *)
DeviceModes == {"saved", "scanning", "results", "confirm", "confirmDelete"}
HomeSound(c) == "home" \in DOMAIN c /\ c.home \in 0..3
DevsSound(d) == "mode" \in DOMAIN d /\ d.mode \in DeviceModes
SInv == NavSound(nav) /\ HomeSound(cur) /\ DevsSound(devs)

-----------------------------------------------------------------------------
(* The operations of Navigation. *)

LEMMA PageLevels ==
  \A s \in Pages : Level(s) \in 1..4
BY DEF Level

LEMMA NestedTop ==
  ASSUME NEW stack, Nested(stack)
  PROVE  /\ Len(stack) \in 1..5 /\ stack[Len(stack)] \in ScreenIds
         /\ stack[Len(stack)] # Prompt => Len(stack) = Level(stack[Len(stack)])
         /\ stack[Len(stack)] = Prompt => Len(stack) > 1
<1>1. stack \in Seq(ScreenIds) /\ Len(stack) \in Nat \ {0}
  BY EmptySeq DEF Nested
<1> DEFINE n == Len(stack)
<1>2. stack[n] \in ScreenIds
  BY <1>1, ElementOfSeq
<1>3. /\ stack[n] # Prompt => n = Level(stack[n])
      /\ stack[n] = Prompt => n > 1
  BY <1>1 DEF Nested
<1>4. CASE stack[n] # Prompt
  <2>1. Level(stack[n]) \in 1..4
    BY <1>2, <1>4, PageLevels DEF Pages
  <2> HIDE DEF n
  <2>2. n \in 1..5
    BY <1>3, <1>4, <2>1
  <2> QED BY <1>2, <1>3, <1>4, <2>2 DEF n
<1>5. CASE stack[n] = Prompt
  <2>1. n - 1 \in 1..n /\ n - 1 # n
    BY <1>1, <1>3, <1>5
  <2>2. stack[n - 1] \in Pages /\ n - 1 = Level(stack[n - 1])
    <3>1. stack[n - 1] \in ScreenIds
      BY <1>1, <2>1, ElementOfSeq
    <3> QED BY <2>1, <3>1 DEF Nested, Pages
  <2>3. Level(stack[n - 1]) \in 1..4
    BY <2>2, PageLevels
  <2> HIDE DEF n
  <2>a. n - 1 \in 1..4
    BY <2>2, <2>3
  <2>4. n \in 1..5
    BY <1>1, <2>a
  <2> QED BY <1>2, <1>3, <1>5, <2>4 DEF n
<1> QED BY <1>4, <1>5

(* Nothing stands twice in a nested stack. *)
LEMMA NestedDistinct ==
  ASSUME NEW stack, Nested(stack)
  PROVE  \A i, j \in DOMAIN stack : stack[i] = stack[j] => i = j
<1>1. DOMAIN stack = 1..Len(stack)
  BY DEF Nested
<1> QED BY <1>1 DEF Nested

LEMMA NestedAppend ==
  ASSUME NEW stack, Nested(stack), stack[Len(stack)] # Prompt, NEW s \in ScreenIds,
         s = Prompt \/ Level(s) = Level(stack[Len(stack)]) + 1
  PROVE  Nested(Append(stack, s))
<1> DEFINE n == Len(stack)
           long == Append(stack, s)
<1>1. stack \in Seq(ScreenIds) /\ n \in Nat /\ n > 0 /\ n = Level(stack[n])
  BY NestedTop DEF Nested
<1>2. /\ long \in Seq(ScreenIds) /\ long # <<>> /\ Len(long) = n + 1 /\ long[n + 1] = s
      /\ \A i \in 1..n : long[i] = stack[i]
  BY <1>1, AppendProperties
<1>3. ASSUME NEW i \in 1..(n + 1)
      PROVE  IF long[i] = Prompt THEN i > 1 /\ i = n + 1 ELSE i = Level(long[i])
  <2>1. CASE i = n + 1
    BY <1>1, <1>2, <2>1
  <2>2. CASE i # n + 1
    <3>1. i \in 1..n /\ long[i] = stack[i]
      BY <1>1, <1>2, <2>2
    <3> QED BY <1>1, <3>1 DEF Nested
  <2> QED BY <2>1, <2>2
<1> QED BY <1>2, <1>3 DEF Nested

LEMMA NestedFront ==
  ASSUME NEW stack, Nested(stack), Len(stack) # 1
  PROVE  Nested(Front(stack))
<1> DEFINE n == Len(stack)
           short == Front(stack)
<1>1. stack \in Seq(ScreenIds) /\ n \in Nat /\ n > 1
  <2>1. n \in 1..5
    BY NestedTop
  <2> HIDE DEF n
  <2>2. n # 1 /\ stack \in Seq(ScreenIds)
    BY DEF n, Nested
  <2> QED BY <2>1, <2>2
<1>2. /\ short \in Seq(ScreenIds) /\ Len(short) = n - 1
      /\ \A i \in 1..(n - 1) : short[i] = stack[i]
  <2>1. short = SubSeq(stack, 1, n - 1)
    BY DEF Front
  <2>2. \A i \in 1..(n - 1) : stack[i] \in ScreenIds
    <3>1. \A i \in 1..(n - 1) : i \in 1..n
      BY <1>1
    <3> QED BY <1>1, <3>1, ElementOfSeq
  <2> HIDE DEF n, short
  <2>3. 1 \in Int /\ n - 1 \in Int /\ 1 <= n - 1
    BY <1>1
  <2>4. /\ short \in Seq(ScreenIds) /\ Len(short) = n - 1 - 1 + 1
        /\ \A i \in 1..(n - 1 - 1 + 1) : short[i] = stack[1 + i - 1]
    BY <2>1, <2>2, <2>3, SubSeqProperties
  <2>5. n - 1 - 1 + 1 = n - 1
    BY <1>1
  <2>6. ASSUME NEW i \in 1..(n - 1) PROVE short[i] = stack[i]
    <3>1. 1 + i - 1 = i
      OBVIOUS
    <3>2. short[i] = stack[1 + i - 1]
      BY <2>4, <2>5
    <3> QED BY <3>1, <3>2
  <2> QED BY <2>4, <2>5, <2>6
<1>3. short # <<>>
  BY <1>1, <1>2
<1> QED BY <1>1, <1>2, <1>3 DEF Nested

LEMMA Navigates ==
  ASSUME NEW n, NavSound(n)
  PROVE  /\ NavSound(Repainted(n)) /\ NavSound(Popped(n))
         /\ \A v : NavSound([n EXCEPT !.power = v]) /\ NavSound([n EXCEPT !.watts = v])
                   /\ NavSound([n EXCEPT !.dirty = v])
         /\ \A s \in ScreenIds :
              /\ n.stack[Len(n.stack)] # Prompt
              /\ s = Prompt \/ Level(s) = Level(n.stack[Len(n.stack)]) + 1
              => NavSound(Pushed(n, s))
<1>1. Nested(n.stack) /\ {"stack", "dirty"} \subseteq DOMAIN n
  BY DEF NavSound
<1>2. ASSUME NEW st, Nested(st)
      PROVE  NavSound(Repainted([n EXCEPT !.stack = st]))
  BY <1>1, <1>2 DEF NavSound, Repainted
<1>3. NavSound(Repainted(n)) /\ \A v : /\ NavSound([n EXCEPT !.power = v])
                                    /\ NavSound([n EXCEPT !.watts = v])
                                    /\ NavSound([n EXCEPT !.dirty = v])
  BY <1>1 DEF NavSound, Repainted
<1>4. NavSound(Popped(n))
  BY <1>1, <1>2, NestedFront DEF Popped
<1>5. ASSUME NEW s \in ScreenIds, n.stack[Len(n.stack)] # Prompt,
             s = Prompt \/ Level(s) = Level(n.stack[Len(n.stack)]) + 1
      PROVE  NavSound(Pushed(n, s))
  <2>1. Nested(Append(n.stack, s))
    BY <1>1, <1>5, NestedAppend
  <2> QED BY <1>2, <2>1 DEF Pushed
<1> QED BY <1>3, <1>4, <1>5

-----------------------------------------------------------------------------
(* What a step does to the stack, to the cursor of Home and to the mode of    *)
(* the Devices screen.                                                        *)
NavStep ==
  \/ nav' = nav \/ nav' = Repainted(nav) \/ nav' = Popped(nav)
  \/ \E s \in Pages : /\ Current # Prompt /\ Level(s) = Level(Current) + 1
                       /\ nav' = Pushed(nav, s)
DevsKept == DevsSound(devs')

LEMMA NavStepKeeps ==
  ASSUME NavSound(nav), NavStep
  PROVE  NavSound(nav')
BY Navigates DEF NavStep, Current, Pages

LEMMA StepKeeps ==
  ASSUME SInv, NavStep, HomeSound(cur'), DevsKept
  PROVE  SInv'
<1>1. NavSound(nav')
  BY NavStepKeeps DEF SInv
<1> QED BY <1>1 DEF SInv, NavSound, Nested, HomeSound, DevsSound, DevsKept

LEMMA Descends ==
  /\ \A s \in {"Dashboard", "Control", "Settings", "About"} :
       s \in Pages /\ Level(s) = Level("Home") + 1
  /\ "Details" \in Pages /\ Level("Details") = Level("Dashboard") + 1
  /\ "Licenses" \in Pages /\ Level("Licenses") = Level("About") + 1
  /\ "LicenseText" \in Pages /\ Level("LicenseText") = Level("Licenses") + 1
  /\ \A s \in {"Networks", "Devices"} : s \in Pages /\ Level(s) = Level("Settings") + 1
BY DEF Pages, ScreenIds, Level, Prompt

LEMMA HomeStep ==
  ASSUME SInv, Current = "Home", NEW b, HomeButton(b)
  PROVE  NavStep /\ HomeSound(cur')
<1>0. "home" \in DOMAIN cur /\ cur.home \in 0..3 /\ Len(HomeTargets) = 4
  BY DEF SInv, HomeSound, HomeTargets
<1>1. CASE b \in {"up", "down"}
  <2> DEFINE h == Cycled(cur.home, Step(b), 4)
  <2>1. h \in 0..3
    <3>1. Step(b) \in {-1, 1}
      BY DEF Step
    <3>2. CASE Step(b) = 1
      BY <1>0, <3>2 DEF Cycled
    <3>3. CASE Step(b) = -1
      BY <1>0, <3>3 DEF Cycled
    <3> QED BY <3>1, <3>2, <3>3
  <2>2. nav' = Repainted(nav) /\ cur' = [cur EXCEPT !.home = h]
    BY <1>0, <1>1 DEF HomeButton, Repaints, Cursor
  <2> HIDE DEF h
  <2> QED BY <1>0, <2>1, <2>2 DEF NavStep, HomeSound
<1>2. CASE b = "confirm"
  <2>1. HomeTargets[cur.home + 1] \in {"Dashboard", "Control", "Settings", "About"}
    <3>1. cur.home + 1 \in 1..4
      BY <1>0
    <3> QED BY <3>1 DEF HomeTargets
  <2>2. cur' = cur /\ nav' = Pushed(nav, HomeTargets[cur.home + 1])
    BY <1>2 DEF HomeButton, Still
  <2>3. "Home" # Prompt
    BY DEF Prompt
  <2> QED BY <1>0, <2>1, <2>2, <2>3, Descends DEF NavStep, HomeSound
<1>3. CASE b = "back"
  BY <1>0, <1>3 DEF HomeButton, Still, NavStep, HomeSound
<1> QED BY <1>1, <1>2, <1>3 DEF HomeButton

LEMMA PassiveStep ==
  ASSUME SInv, NEW b, Passive(b)
  PROVE  NavStep /\ HomeSound(cur')
<1>0. HomeSound(cur)
  BY DEF SInv
<1>1. CASE Current = "Home" /\ HomeButton(Aliased(b))
  BY <1>1, HomeStep
<1>2. CASE Current = "Dashboard" /\ DashboardButton(b)
  BY <1>0, <1>2, Descends DEF DashboardButton, Leaves, Still, NavStep, Prompt
<1>3. CASE Current = "About" /\ AboutButton(b)
  BY <1>0, <1>3, Descends DEF AboutButton, Leaves, Still, NavStep, Prompt
<1>4. ASSUME NEW c, DetailsButton(c)
      PROVE  NavStep /\ HomeSound(cur')
  BY <1>0, <1>4 DEF DetailsButton, Cursor, Repaints, Leaves, Still, NavStep, HomeSound
<1>5. ASSUME Current = "Licenses", NEW c, LicensesButton(c)
      PROVE  NavStep /\ HomeSound(cur')
  <2>1. "Licenses" # Prompt
    BY DEF Prompt
  <2>2. HomeSound(cur')
    BY <1>0, <1>5 DEF LicensesButton, Cursor, Still, HomeSound
  <2>3. nav' = Repainted(nav) \/ nav' = Popped(nav) \/ nav' = Pushed(nav, "LicenseText")
    BY <1>5 DEF LicensesButton, Repaints, Leaves
  <2> QED BY <1>5, <2>1, <2>2, <2>3, Descends DEF NavStep
<1>6. ASSUME NEW c, LicenseTextButton(c)
      PROVE  NavStep /\ HomeSound(cur')
  <2>1. cur' = cur \/ \E v : cur' = [cur EXCEPT !.line = v]
    BY <1>6 DEF LicenseTextButton, Cursor, Still
  <2>2. nav' = Repainted(nav) \/ nav' = Popped(nav)
    BY <1>6 DEF LicenseTextButton, Repaints, Leaves
  <2> QED BY <1>0, <2>1, <2>2 DEF NavStep, HomeSound
<1> QED BY <1>1, <1>2, <1>3, <1>4, <1>5, <1>6 DEF Passive

LEMMA SettingsStep ==
  ASSUME SInv, Current = "Settings", NEW b, SettingsButton(b)
  PROVE  NavStep /\ HomeSound(cur') /\ DevsKept
<1>0. HomeSound(cur) /\ DevsSound(devs)
  BY DEF SInv
<1>1. HomeSound(cur')
  <2>1. cur' = cur \/ \E v : cur' = [cur EXCEPT !.settings = v]
    BY DEF SettingsButton, Cursor, Still
  <2> QED BY <1>0, <2>1 DEF HomeSound
<1>2. DevsKept
  <2>1. devs' = devs \/ devs' = [devs EXCEPT !.mode = "saved", !.cursor = 0, !.note = ""]
    BY DEF SettingsButton
  <2> QED BY <1>0, <2>1 DEF DevsKept, DevsSound, DeviceModes
<1>3. NavStep
  <2>1. \/ nav' = nav \/ nav' = Repainted(nav) \/ nav' = Popped(nav)
        \/ nav' = Pushed(nav, "Networks") \/ nav' = Pushed(nav, "Devices")
    BY DEF SettingsButton, Repaints, Leaves
  <2>2. "Settings" # Prompt
    BY DEF Prompt
  <2> QED BY <2>1, <2>2, Descends DEF NavStep
<1> QED BY <1>1, <1>2, <1>3

LEMMA DevicesStep ==
  ASSUME SInv, NEW b, DevicesButton(b)
  PROVE  NavStep /\ DevsKept
<1>0. "mode" \in DOMAIN devs /\ devs.mode \in DeviceModes
  BY DEF SInv, DevsSound
<1>1. ASSUME NEW m \in DeviceModes, NEW note, Devs(m, note)
      PROVE  DevsKept
  BY <1>0, <1>1 DEF Devs, DevsKept, DevsSound
<1>2. ASSUME NEW count, NEW c, Moves(count, c)
      PROVE  DevsKept
  <2>1. \E v : devs' = [devs EXCEPT !.cursor = v]
    BY <1>2 DEF Moves
  <2> QED BY <1>0, <2>1 DEF DevsKept, DevsSound
<1>3. ASSUME devs' = devs PROVE DevsKept
  BY <1>0, <1>3 DEF DevsKept, DevsSound
<1>4. DeviceModes = {"saved", "scanning", "results", "confirm", "confirmDelete"}
  BY DEF DeviceModes
<1>5. ASSUME NEW c, SavedButton(c) PROVE NavStep /\ DevsKept
  BY <1>1, <1>2, <1>3, <1>4, <1>5 DEF SavedButton, NavStep
<1>6. ASSUME ConfirmDeleteButton(b) PROVE NavStep /\ DevsKept
  BY <1>1, <1>3, <1>4, <1>6 DEF ConfirmDeleteButton, NavStep
<1>7. ASSUME ScanningButton(b) PROVE NavStep /\ DevsKept
  BY <1>1, <1>4, <1>7 DEF ScanningButton, NavStep
<1>8. ASSUME NEW c, ResultsButton(c) PROVE NavStep /\ DevsKept
  BY <1>1, <1>2, <1>3, <1>4, <1>8 DEF ResultsButton, NavStep
<1>9. ASSUME ConfirmButton(b) PROVE NavStep /\ DevsKept
  BY <1>1, <1>4, <1>9 DEF ConfirmButton, NavStep
<1>10. \/ SavedButton(Aliased(b)) \/ ConfirmDeleteButton(b) \/ ScanningButton(b)
       \/ ResultsButton(Aliased(b)) \/ ConfirmButton(b)
  BY <1>0, <1>4 DEF DevicesButton
<1> QED BY <1>5, <1>6, <1>7, <1>8, <1>9, <1>10

-----------------------------------------------------------------------------
(* The steps of the loop. *)

LEMMA PressMoves ==
  ASSUME SInv, NEW b, Press(b)
  PROVE  NavStep /\ HomeSound(cur') /\ DevsKept
<1>0. HomeSound(cur) /\ DevsSound(devs)
  BY DEF SInv
<1>1. ASSUME cur' = cur PROVE HomeSound(cur')
  BY <1>0, <1>1 DEF HomeSound
<1>2. ASSUME devs' = devs PROVE DevsKept
  BY <1>0, <1>2 DEF DevsSound, DevsKept
<1>3. CASE Current = "Control" /\ ControlButton(b)
  <2>1. cur' = cur /\ devs' = devs
    BY <1>3 DEF ControlButton
  <2>2. nav' = nav \/ nav' = Repainted(nav) \/ nav' = Popped(nav)
    BY <1>3 DEF ControlButton, DropdownMoves, DropdownSaves, DropdownCancels, FocusMoves,
       Adjusts, Acts
  <2> QED BY <1>1, <1>2, <2>1, <2>2 DEF NavStep
<1>4. CASE Current = "Devices" /\ DevicesButton(b)
  <2>1. cur' = cur
    BY <1>4 DEF DevicesButton
  <2> QED BY <1>1, <1>4, <2>1, DevicesStep
<1>5. CASE Current = "Settings" /\ SettingsButton(Aliased(b))
  BY <1>5, SettingsStep
<1>6. CASE Current = "Networks" /\ NetworksButton(Aliased(b)) /\ UNCHANGED devs
  <2>1. cur' = cur \/ \E v : cur' = [cur EXCEPT !.networks = v]
    BY <1>6 DEF NetworksButton, Cursor, Still
  <2>2. HomeSound(cur')
    BY <1>0, <2>1 DEF HomeSound
  <2>3. nav' = Repainted(nav) \/ nav' = Popped(nav)
    BY <1>6 DEF NetworksButton, Repaints, Leaves
  <2> QED BY <1>2, <1>6, <2>2, <2>3 DEF NavStep
<1>7. CASE CaptiveLoginButton(b) /\ UNCHANGED uiState
  <2>1. nav' = Repainted(nav) \/ nav' = Popped(nav)
    BY <1>7 DEF CaptiveLoginButton, Repaints, Leaves
  <2> QED BY <1>1, <1>2, <1>7, <2>1 DEF NavStep, uiState
<1>8. CASE Passive(b) /\ UNCHANGED devs
  BY <1>2, <1>8, PassiveStep
<1>9. CASE UNCHANGED <<nav, uiState>>
  BY <1>1, <1>2, <1>9 DEF NavStep, uiState
<1> QED BY <1>3, <1>4, <1>5, <1>6, <1>7, <1>8, <1>9 DEF Press, Handles, uiState

LEMMA PressStep ==
  ASSUME SInv, NEW b, Press(b)
  PROVE  SInv'
BY PressMoves, StepKeeps

(* A frame moves scroll positions and ends a scan that is over. *)
LEMMA DrawStep ==
  ASSUME SInv, Draw
  PROVE  SInv'
<1>0. NavSound(nav) /\ HomeSound(cur) /\ DevsSound(devs)
  BY DEF SInv
<1>1. HomeSound(cur')
  <2>1. cur' \in {DetailsClamped, LicensesClamped, LicenseTextClamped, cur}
    <3>1. CurDrawn \in {DetailsClamped, LicensesClamped, LicenseTextClamped, cur}
      BY Zenon DEF CurDrawn
    <3> QED BY <3>1 DEF Draw
  <2>2. \A a, b, c : /\ HomeSound([cur EXCEPT !.detailsMax = a, !.details = b])
                      /\ HomeSound([cur EXCEPT !.line = a, !.lineMax = b, !.page = c])
                      /\ HomeSound([cur EXCEPT !.licenseTop = a])
    BY <1>0 DEF HomeSound
  <2>3. HomeSound(DetailsClamped) /\ HomeSound(LicensesClamped) /\ HomeSound(LicenseTextClamped)
    BY <2>2, Zenon DEF DetailsClamped, LicensesClamped, LicenseTextClamped
  <2> QED BY <1>0, <2>1, <2>3
<1>2. DevsKept
  <2>1. Mode \in DeviceModes /\ "saved" \in DeviceModes
    BY <1>0 DEF Mode, DevsSound, DeviceModes
  <2>2. \A m \in DeviceModes : \A v, c :
          DevsSound([devs EXCEPT !.mode = m, !.visible = v, !.cursor = c])
    BY <1>0 DEF DevsSound
  <2>3. (IF Gone THEN "saved" ELSE Mode) \in DeviceModes
    BY <2>1
  <2>4. DevsSound(DevicesClamped)
    BY <2>2, <2>3 DEF DevicesClamped
  <2> QED BY <1>0, <2>4 DEF Draw, DevsDrawn, DevsKept
<1>3. NavSound(nav')
  BY <1>0, Navigates DEF Draw
<1> QED BY <1>1, <1>2, <1>3 DEF SInv, NavSound, Nested, HomeSound, DevsSound, DevsKept

(* The login that ended pops the prompt, and only then a prompt comes up.     *)
LEMMA ServicesStep ==
  ASSUME SInv, Services
  PROVE  SInv'
<1>0. NavSound(nav) /\ HomeSound(cur) /\ DevsSound(devs)
  BY DEF SInv
<1> DEFINE n == AfterPrompt(AfterLogin)
<1>1. NavSound(AfterLogin)
  BY <1>0, Navigates DEF AfterLogin
<1>2. NavSound(n)
  <2>1. Last(AfterLogin.stack) = AfterLogin.stack[Len(AfterLogin.stack)]
    BY DEF Last
  <2>2. "CaptiveLogin" \in ScreenIds /\ "CaptiveLogin" = Prompt
    BY DEF ScreenIds, Prompt
  <2> QED BY <1>1, <2>1, <2>2, Navigates DEF AfterPrompt
<1>3. /\ cur' = cur /\ devs' = devs
      /\ nav' \in {Repainted([n EXCEPT !.watts = ac.ext.watts]), Repainted(n), n}
  <2>1. cur' = cur /\ devs' = devs
    BY DEF Services
  <2> DEFINE now == edges \cup (IF Polled(scan).edge THEN {"scan"} ELSE {})
  <2>2. nav' = CASE PowerMoved(n) -> Repainted([n EXCEPT !.watts = ac.ext.watts])
                 [] ~PowerMoved(n) /\ now \cap Wanted # {} -> Repainted(n)
                 [] OTHER -> n
    BY Zenon DEF Services
  <2> HIDE DEF n, now
  <2>3. nav' \in {Repainted([n EXCEPT !.watts = ac.ext.watts]), Repainted(n), n}
    BY <2>2, Zenon
  <2> QED BY <2>1, <2>3
<1> HIDE DEF n
<1>4. NavSound(nav')
  <2>1. NavSound([n EXCEPT !.watts = ac.ext.watts])
    BY <1>2, Navigates
  <2>2. NavSound(Repainted([n EXCEPT !.watts = ac.ext.watts])) /\ NavSound(Repainted(n))
    BY <1>2, <2>1, Navigates
  <2> QED BY <1>2, <1>3, <2>2
<1> QED BY <1>0, <1>3, <1>4 DEF SInv, NavSound, Nested, HomeSound, DevsSound

LEMMA Begins ==
  /\ Nested(<<"Home">>) /\ Nested(<<"Hotspot">>) /\ Nested(<<"Home", "About">>)
  /\ Nested(<<"Home", "Control">>) /\ Nested(<<"Home", "Settings">>)
  /\ Nested(<<"Home", "Settings", "Devices">>)
BY DEF Nested, Level, Prompt, ScreenIds

LEMMA Blanks ==
  /\ DevsSound(BlankDevs) /\ HomeSound(BlankCur)
  /\ \A h \in 0..3, v \in 0..1 : HomeSound([BlankCur EXCEPT !.home = h, !.settings = v])
<1>1. DevsSound(BlankDevs)
  BY DEF BlankDevs, DevsSound, DeviceModes
<1>2. HomeSound(BlankCur)
  BY DEF BlankCur, HomeSound
<1>3. \A h \in 0..3, v \in 0..1 : HomeSound([BlankCur EXCEPT !.home = h, !.settings = v])
  BY DEF BlankCur, HomeSound
<1> QED BY <1>1, <1>2, <1>3

LEMMA BootStep ==
  ASSUME Boot
  PROVE  SInv'
<1>1. NavSound(nav')
  BY Begins DEF Boot, NavSound
<1>2. cur' = BlankCur /\ devs' = BlankDevs
  BY DEF Boot
<1> QED BY <1>1, <1>2, Blanks DEF SInv, NavSound, Nested, HomeSound, DevsSound

(* Nothing outside of the loop touches the stack. *)
LEMMA WorldStep ==
  ASSUME World
  PROVE  UNCHANGED <<nav, cur, devs>>
<1>1. CASE StateArrives \/ PropsArrive \/ GroupArrives \/ SessionEnds \/ CapsArrive \/ Acknowledged
  BY <1>1 DEF StateArrives, PropsArrive, GroupArrives, SessionEnds, CapsArrive, Acknowledged,
     OnlyAc, uiState
<1>2. CASE LinkMoves \/ VerdictArrives \/ TunnelMoves \/ PromptDue \/ WeatherArrives
  BY <1>2 DEF LinkMoves, VerdictArrives, TunnelMoves, PromptDue, WeatherArrives, News, uiState
<1>3. CASE LoginEnds \/ TimePasses \/ ReplyArrives
  BY <1>3 DEF LoginEnds, TimePasses, ReplyArrives, uiState
<1> QED BY <1>1, <1>2, <1>3 DEF World

LEMMA NextNests == SInv /\ [Next]_vars => SInv'
<1> SUFFICES ASSUME SInv, [Next]_vars PROVE SInv'
  OBVIOUS
<1>0. NavSound(nav) /\ HomeSound(cur) /\ DevsSound(devs)
  BY DEF SInv
<1>1. ASSUME UNCHANGED <<cur, devs>>, NavSound(nav') PROVE SInv'
  BY <1>0, <1>1 DEF SInv, NavSound, Nested, HomeSound, DevsSound
<1>2. CASE UNCHANGED vars
  BY <1>0, <1>1, <1>2 DEF vars, uiState
<1>3. ASSUME NEW b \in Buttons, Press(b) PROVE SInv'
  BY <1>3, PressStep
<1>4. CASE PowerDown \/ PowerTap \/ IdleRefresh
  <2>1. NavSound([nav EXCEPT !.power = TRUE]) /\ NavSound([nav EXCEPT !.power = FALSE])
    BY <1>0, Navigates
  <2>2. NavSound(Repainted([nav EXCEPT !.power = FALSE])) /\ NavSound(Repainted(nav))
    BY <1>0, <2>1, Navigates
  <2> QED BY <1>1, <1>4, <2>1, <2>2 DEF PowerDown, PowerTap, IdleRefresh, NavOnly, uiState
<1>5. CASE PowerHeld \/ NoDraw
  BY <1>0, <1>1, <1>5 DEF PowerHeld, NoDraw, uiState
<1>6. CASE World
  BY <1>0, <1>1, <1>6, WorldStep
<1> QED BY <1>2, <1>3, <1>4, <1>5, <1>6, DrawStep, ServicesStep, BootStep
        DEF Next, Tick, EndTick

LEMMA InitNested == Init => SInv
<1> SUFFICES ASSUME Init PROVE SInv
  OBVIOUS
<1>1. Nested(nav.stack)
  <2>1. scene \in {"control", "devices", "settings", "home", "about", "cached"}
    BY DEF Init, Scenes
  <2> QED BY <2>1, Begins DEF Init, Scenes
<1>2. {"stack", "dirty"} \subseteq DOMAIN nav
  BY DEF Init
<1>3. HomeSound(cur)
  <2> DEFINE h == IF scene = "home" THEN 0
                  ELSE IF scene \in {"control", "cached"} THEN 1
                  ELSE IF scene = "about" THEN 3 ELSE 2
             v == IF scene = "devices" THEN 1 ELSE 0
  <2>1. h \in 0..3 /\ v \in 0..1
    OBVIOUS
  <2>2. cur = [BlankCur EXCEPT !.home = h, !.settings = v]
    BY Zenon DEF Init
  <2> HIDE DEF h, v
  <2> QED BY <2>1, <2>2, Blanks
<1>4. DevsSound(devs)
  BY Blanks DEF Init
<1> QED BY <1>1, <1>2, <1>3, <1>4 DEF SInv, NavSound

(* The back stack never holds a screen twice and never drops a push, however  *)
(* presses, prompts and logins that end interleave: it is a path down from a  *)
(* root, with the login prompt at most once, on top.                          *)
THEOREM StackIsPath == Spec => []StackSound
<1>1. Init => SInv
  BY InitNested
<1>2. SInv => StackSound
  <2> SUFFICES ASSUME SInv PROVE StackSound
    OBVIOUS
  <2>1. Nested(nav.stack)
    BY DEF SInv, NavSound
  <2>2. Len(nav.stack) < Capacity
    <3> DEFINE n == Len(nav.stack)
    <3>1. n \in 1..5
      BY <2>1, NestedTop
    <3> HIDE DEF n
    <3>2. n < Capacity
      BY <3>1, UiAssumption
    <3> QED BY <3>2 DEF n
  <2> QED BY <2>1, <2>2, NestedDistinct DEF StackSound
<1> QED BY <1>1, <1>2, NextNests, PTL DEF Spec

-----------------------------------------------------------------------------
(* What every variable ranges over: the inductive invariant of the types.     *)

FoundIds == {f.id : f \in Found}
DeviceLists == {l \in Seq(FoundIds) : Len(l) <= MaxDevices}
Orders == [kind : {"beep", "toggle"}] \cup [kind : {"set"}, st : AcStates]
          \cup [kind : {"prop"}, prop : Props, value : Nat]

CurTyped(c) ==
  /\ c \in [home : 0..3, settings : 0..5, networks : 0..(Networks - 1), details : Nat,
            detailsMax : Nat, license : 0..(LicenseCount - 1), licenseTop : Int,
            text : 0..(LicenseCount - 1), line : Nat, lineMax : Nat, page : Nat]
  /\ c.details <= c.detailsMax /\ c.licenseTop <= LicensesMax
CtlTyped(c) ==
  c \in [focus : 0..(Len(LookedAt) - 1), scroll : Nat, open : BOOLEAN, sel : 0..15, desired : AcStates]
Notes == {"", "no link", "scan failed", "remove failed", "already saved", "list full", "saved", "add failed"}
DevsTyped(d) ==
  d \in [mode : DeviceModes, cursor : 0..(DevSpan - 1), visible : 1..DevSpan, note : Notes]
ScanTyped(s) ==
  s \in [on : BOOLEAN, edge : {FALSE}, rounds : Nat, clock : Nat, found : Tables, rx : Seq(Datagrams)]
(* The results on the screen stay the ones of the scan that is over. *)
ResultsTyped(d, s) ==
  d.mode \in {"results", "confirm"} =>
    /\ ~s.on /\ (s.found # <<>> => d.cursor < Len(s.found))
    /\ d.mode = "confirm" => s.found # <<>>
StoreTyped(s) == s \in [list : DeviceLists, disk : DeviceLists]
SetTyped(s) ==
  s \in [beep : BOOLEAN, lock : BOOLEAN, wg : BOOLEAN, tunnel : BOOLEAN, portal : BOOLEAN,
         active : 1..Networks, verdicts : [1..Networks -> {"unknown", "open", "portal"}]]
QueueTyped(q) == q \in Seq(Orders) /\ Len(q) <= QueueDepth
AcTyped(a) ==
  /\ {"has", "up", "state", "caps", "props", "ext"} \subseteq DOMAIN a
  /\ a.has \in BOOLEAN /\ a.up \in BOOLEAN /\ a.state \in AcStates /\ a.caps \in CapAnswers \cup {None}
NetTyped(n) ==
  n \in [link : {"connected", "connecting", "lost", "disabled"}, tunnel : {"waiting", "up"},
         weather : Nat, login : BOOLEAN]
NavTyped(n) ==
  {"stack", "dirty", "power", "watts"} \subseteq DOMAIN n /\ n.dirty \in BOOLEAN /\ n.power \in BOOLEAN
PanelTyped(p) ==
  {"on", "show", "link", "torn"} \subseteq DOMAIN p /\ p.on \in ScreenIds \cup {"Off"} /\ p.torn \in BOOLEAN
SpentTyped(s, who) ==
  /\ s \in [edits : Nat, news : Nat] /\ s.edits <= MaxEdits[who] /\ s.news <= MaxNews[who]
LoopTyped(a, who, n) ==
  /\ a \in {"services", "nav", "boot", "provision", "off"} /\ who \in DOMAIN Scenes
  /\ n \in 0..MaxBurst[who]

TInv ==
  /\ LoopTyped(at, scene, burst) /\ NavTyped(nav) /\ PanelTyped(panel)
  /\ CurTyped(cur) /\ CtlTyped(ctl) /\ DevsTyped(devs) /\ ScanTyped(scan) /\ ResultsTyped(devs, scan)
  /\ StoreTyped(store) /\ SetTyped(set) /\ QueueTyped(queue) /\ AcTyped(ac) /\ NetTyped(net)
  /\ SpentTyped(spent, scene)

LEMMA Assembled ==
  ASSUME LoopTyped(at', scene', burst'), NavTyped(nav'), PanelTyped(panel'),
         CurTyped(cur'), CtlTyped(ctl'), DevsTyped(devs'), ScanTyped(scan'), ResultsTyped(devs', scan'),
         StoreTyped(store'), SetTyped(set'), QueueTyped(queue'), AcTyped(ac'), NetTyped(net'),
         SpentTyped(spent', scene')
  PROVE  TInv'
BY DEF TInv, LoopTyped, NavTyped, PanelTyped, CurTyped, CtlTyped, DevsTyped, ScanTyped, ResultsTyped,
   StoreTyped, SetTyped, QueueTyped, AcTyped, NetTyped, SpentTyped

LEMMA TypesKept ==
  ASSUME TInv, UNCHANGED vars
  PROVE  TInv'
BY Assembled DEF TInv, vars, uiState, world

-----------------------------------------------------------------------------
(* The Control screen. *)

LEMMA TInvCaps == TInv => CapsTyped
BY AnsweredRanges DEF TInv, AcTyped, CapsTyped

LEMMA SpendTyped ==
  ASSUME SpentTyped(spent, scene), LoopTyped(at, scene, burst)
  PROVE  /\ Spend("edits", MaxEdits) => SpentTyped(spent', scene)
         /\ Spend("news", MaxNews) => SpentTyped(spent', scene)
<1>1. MaxEdits[scene] \in Nat /\ MaxNews[scene] \in Nat
  <2>1. scene \in DOMAIN Scenes
    BY DEF LoopTyped
  <2> QED BY <2>1, SceneAssumption
<1>2. spent \in [edits : Nat, news : Nat] /\ spent.edits <= MaxEdits[scene] /\ spent.news <= MaxNews[scene]
  BY DEF SpentTyped
<1>3. ASSUME Spend("edits", MaxEdits) PROVE SpentTyped(spent', scene)
  <2>1. spent.edits < MaxEdits[scene] /\ spent' = [spent EXCEPT !.edits = spent.edits + 1]
    BY <1>3 DEF Spend
  <2> QED BY <1>1, <1>2, <2>1 DEF SpentTyped
<1>4. ASSUME Spend("news", MaxNews) PROVE SpentTyped(spent', scene)
  <2>1. spent.news < MaxNews[scene] /\ spent' = [spent EXCEPT !.news = spent.news + 1]
    BY <1>4 DEF Spend
  <2> QED BY <1>1, <1>2, <2>1 DEF SpentTyped
<1> QED BY <1>3, <1>4

LEMMA EditedTyped ==
  ASSUME ctl.desired \in AcStates, NEW row \in RowNames, row \notin Props, ~Setting(row),
         NEW raw \in RawOf(row)
  PROVE  Edited(row, raw) \in AcStates
<1>1. row \in {"mode", "target", "fan", "swing", "eco", "turbo", "purifier", "freezeProtection",
               "sleep", "followMe", "display"}
  BY DEF RowNames, Props, PropIds, Setting
<1> DEFINE d == ctl.desired
<1>2. d \in [power : BOOLEAN, target : Int, mode : 0..7, fan : Byte, swing : 0..15, eco : BOOLEAN,
             turbo : BOOLEAN, purifier : BOOLEAN, freezeProtection : BOOLEAN, sleep : BOOLEAN,
             followMe : BOOLEAN, display : BOOLEAN]
  BY DEF AcStates
<1> HIDE DEF d
<1>3. CASE row = "mode"
  <2>1. Edited(row, raw) = IF raw = Off THEN [d EXCEPT !.power = FALSE]
                           ELSE [d EXCEPT !.power = TRUE, !.mode = raw]
    BY <1>3, Zenon DEF Edited, d
  <2>2. raw = Off \/ raw \in 0..7
    BY <1>3 DEF RawOf
  <2> QED BY <1>2, <2>1, <2>2 DEF AcStates
<1>4. CASE row \in {"target", "fan", "swing"}
  <2>1. Edited(row, raw) = [d EXCEPT ![row] = raw]
    <3>1. row # "mode"
      BY <1>4
    <3> QED BY <1>4, <3>1, Zenon DEF Edited, d
  <2>2. /\ row = "target" => raw \in Int
        /\ row = "fan" => raw \in Byte
        /\ row = "swing" => raw \in 0..15
    BY DEF RawOf
  <2> QED BY <1>2, <1>4, <2>1, <2>2 DEF AcStates
<1>5. CASE row = "display"
  <2>1. Edited(row, raw) = [d EXCEPT !.followMe = raw # 0]
    BY <1>5, Zenon DEF Edited, d
  <2> QED BY <1>2, <2>1 DEF AcStates
<1>6. CASE row \in {"eco", "turbo", "purifier", "freezeProtection", "sleep", "followMe"}
  <2>1. Edited(row, raw) = [d EXCEPT ![row] = raw # 0]
    <3>1. row # "mode" /\ row \notin {"target", "fan", "swing"} /\ row # "display"
      BY <1>6
    <3> QED BY <3>1, Zenon DEF Edited, d
  <2> QED BY <1>2, <1>6, <2>1 DEF AcStates
<1> QED BY <1>1, <1>3, <1>4, <1>5, <1>6

LEMMA QueuedTyped ==
  ASSUME QueueTyped(queue), NEW command \in Orders, Queued(command)
  PROVE  QueueTyped(queue')
<1>1. QueueDepth \in Nat \ {0}
  BY UiAssumption
<1>2. queue \in Seq(Orders) /\ Len(queue) <= QueueDepth
  BY DEF QueueTyped
<1>3. CASE queue' = queue
  BY <1>2, <1>3 DEF QueueTyped
<1>4. CASE Len(queue) < QueueDepth /\ queue' = Append(queue, command)
  BY <1>1, <1>2, <1>4, AppendProperties DEF QueueTyped
<1> QED BY <1>3, <1>4 DEF Queued

LEMMA AppliesTyped ==
  ASSUME TInv, NEW row \in RowNames, NEW raw \in RawOf(row), NEW c, CtlTyped(c),
         c.desired = ctl.desired, Applies(row, raw, c)
  PROVE  CtlTyped(ctl') /\ SetTyped(set') /\ QueueTyped(queue') /\ SpentTyped(spent', scene)
<1>1. /\ SetTyped(set) /\ QueueTyped(queue) /\ SpentTyped(spent, scene) /\ LoopTyped(at, scene, burst)
      /\ CtlTyped(ctl)
  BY DEF TInv
<1>2. CASE /\ Setting(row) /\ set' = [set EXCEPT ![row] = raw # 0]
           /\ (IF row = "beep" THEN Queued([kind |-> "beep"]) ELSE UNCHANGED queue)
           /\ ctl' = c /\ Spend("edits", MaxEdits)
  <2>1. SetTyped(set')
    BY <1>1, <1>2 DEF SetTyped, Setting
  <2>2. QueueTyped(queue')
    <3>1. [kind |-> "beep"] \in Orders
      BY DEF Orders
    <3>2. CASE row = "beep"
      BY <1>1, <1>2, <3>1, <3>2, QueuedTyped
    <3>3. CASE row # "beep"
      BY <1>1, <1>2, <3>3 DEF QueueTyped
    <3> QED BY <3>2, <3>3
  <2> QED BY <1>1, <1>2, <2>1, <2>2, SpendTyped
<1>3. CASE /\ row \in Props /\ Queued([kind |-> "prop", prop |-> row, value |-> raw])
           /\ ctl' = c /\ Spend("edits", MaxEdits) /\ UNCHANGED set
  <2>1. raw \in Nat
    BY DEF RawOf, Off, Byte
  <2>2. [kind |-> "prop", prop |-> row, value |-> raw] \in Orders
    BY <1>3, <2>1 DEF Orders
  <2>3. SetTyped(set')
    BY <1>1, <1>3 DEF SetTyped
  <2> QED BY <1>1, <1>3, <2>2, <2>3, QueuedTyped, SpendTyped
<1>4. CASE /\ row \notin Props /\ ~Setting(row) /\ Queued([kind |-> "set", st |-> Edited(row, raw)])
           /\ ctl' = [c EXCEPT !.desired = Edited(row, raw)] /\ Spend("edits", MaxEdits) /\ UNCHANGED set
  <2>1. Edited(row, raw) \in AcStates
    BY <1>1, <1>4, EditedTyped DEF CtlTyped
  <2>2. [kind |-> "set", st |-> Edited(row, raw)] \in Orders
    BY <2>1 DEF Orders
  <2>3. CtlTyped(ctl')
    BY <1>4, <2>1 DEF CtlTyped
  <2>4. SetTyped(set')
    BY <1>1, <1>4 DEF SetTyped
  <2> QED BY <1>1, <1>4, <2>2, <2>3, <2>4, QueuedTyped, SpendTyped
<1>5. CASE ctl' = c /\ UNCHANGED <<set, queue, spent>>
  BY <1>1, <1>5 DEF SetTyped, QueueTyped, SpentTyped
<1> QED BY <1>2, <1>3, <1>4, <1>5 DEF Applies
LEMMA FocusTyped ==
  ASSUME TInv
  PROVE  /\ Focus \in 0..(Len(Visible) - 1) /\ CtlTyped(Focused) /\ Focused.desired = ctl.desired
         /\ FocusRow \in RowNames
         /\ Options(FocusRow) \in Seq(RawOf(FocusRow)) /\ Len(Options(FocusRow)) \in 1..16
         /\ Sel \in 0..(Len(Options(FocusRow)) - 1)
<1>1. CtlTyped(ctl) /\ CapsTyped
  BY TInvCaps DEF TInv
<1> DEFINE v == Len(Visible)
           l == Len(LookedAt)
<1>2. v \in Nat \ {0} /\ l \in Nat \ {0} /\ v <= l
  BY RowsTyped
<1>3. ctl.focus \in 0..(l - 1) /\ ctl.sel \in 0..15
  BY <1>1 DEF CtlTyped
<1>4. Focus = IF ctl.focus >= v THEN 0 ELSE ctl.focus
  BY DEF Focus
<1> HIDE DEF v, l
<1>5. Focus \in 0..(v - 1) /\ Focus \in 0..(l - 1) /\ Focus \in Nat
  BY <1>2, <1>3, <1>4
<1>6. CtlTyped(Focused) /\ Focused.desired = ctl.desired
  BY <1>1, <1>5 DEF CtlTyped, Focused, l
<1>7. FocusRow \in RowNames
  BY <1>5, RowsTyped DEF FocusRow
<1>8. Options(FocusRow) \in Seq(RawOf(FocusRow)) /\ Len(Options(FocusRow)) \in 1..16
  BY <1>1, <1>7, OptionsTyped
<1>9. Sel \in 0..(Len(Options(FocusRow)) - 1)
  <2> DEFINE o == Len(Options(FocusRow))
  <2>1. o \in 1..16 /\ Sel = IF ctl.sel >= o THEN 0 ELSE ctl.sel
    BY <1>8 DEF Sel
  <2> HIDE DEF o
  <2>2. Sel \in 0..(o - 1)
    BY <1>3, <2>1
  <2> QED BY <2>2 DEF o
<1> QED BY <1>5, <1>6, <1>7, <1>8, <1>9 DEF v

(* What a press leaves of the members and the rest of the program. *)
ControlTypes ==
  /\ CtlTyped(ctl') /\ SetTyped(set') /\ QueueTyped(queue') /\ SpentTyped(spent', scene)
  /\ NavTyped(nav') /\ PanelTyped(panel')

LEMMA NavStepTyped ==
  ASSUME NavTyped(nav), \/ nav' = nav \/ nav' = Repainted(nav) \/ nav' = Popped(nav)
                        \/ \E s : nav' = Pushed(nav, s)
  PROVE  NavTyped(nav')
<1>1. \A s : NavTyped(Repainted([nav EXCEPT !.stack = s])) /\ NavTyped(Repainted(nav))
  BY DEF NavTyped, Repainted
<1> QED BY <1>1 DEF Popped, Pushed

LEMMA AdjustedTyped ==
  ASSUME TInv, NEW b
  PROVE  Adjusted(b).to \in RawOf(FocusRow)
<1> DEFINE delta == IF b = "left" THEN -1 ELSE 1
           t == TempRange
           Within(v) == Max({2 * t.lo, Min({2 * t.hi, v})})
           o == Options(FocusRow)
           i == Cycled(ValueIndex(FocusRow, o), delta, Len(o))
<1>1. CASE FocusRow = "target"
  <2>1. t.lo \in Nat /\ t.hi \in Nat
    BY RangeTyped, TInvCaps
  <2> HIDE DEF t
  <2>2. ASSUME NEW v \in Int PROVE Within(v) \in Nat
    <3> DEFINE lo == 2 * t.lo
               hi == 2 * t.hi
               m == Min({hi, v})
    <3>1. lo \in Nat /\ hi \in Nat
      BY <2>1
    <3> HIDE DEF lo, hi
    <3>2. m = IF hi <= v THEN hi ELSE v
      BY <3>1, OfTwo
    <3>3. m \in Int
      BY <3>1, <3>2
    <3> HIDE DEF m
    <3>4. Max({lo, m}) = IF lo >= m THEN lo ELSE m
      BY <3>1, <3>3, OfTwo
    <3>5. Max({lo, m}) \in Nat
      BY <3>1, <3>3, <3>4
    <3> QED BY <3>5 DEF m, lo, hi
  <2>3. ctl.desired.target \in Int
    BY DEF TInv, CtlTyped, AcStates
  <2>4. Adjusted(b).to = Within(Within(ctl.desired.target) + delta)
    BY <1>1 DEF Adjusted, t
  <2> HIDE DEF Within
  <2>5. Within(ctl.desired.target) + delta \in Int
    BY <2>2, <2>3
  <2>6. RawOf(FocusRow) = Nat
    BY <1>1 DEF RawOf
  <2> QED BY <2>2, <2>4, <2>5, <2>6
<1>2. CASE FocusRow # "target"
  <2>1. o \in Seq(RawOf(FocusRow)) /\ Len(o) \in 1..16 /\ ValueIndex(FocusRow, o) \in 0..(Len(o) - 1)
    BY FocusTyped, IndexTyped, TInvCaps
  <2>2. Adjusted(b).to = o[i + 1]
    BY <1>2 DEF Adjusted
  <2> HIDE DEF o
  <2>3. i \in 0..(Len(o) - 1)
    <3> DEFINE n == Len(o)
               k == ValueIndex(FocusRow, o)
    <3>1. n \in Nat \ {0} /\ k \in Nat
      BY <2>1
    <3> HIDE DEF n, k
    <3>2. Cycled(k, delta, n) \in 0..(n - 1)
      BY <3>1, CycledTyped
    <3> QED BY <3>2 DEF n, k
  <2> HIDE DEF i
  <2>4. i + 1 \in 1..Len(o)
    BY <2>1, <2>3
  <2> QED BY <2>1, <2>2, <2>4, ElementOfSeq
<1> QED BY <1>1, <1>2

LEMMA ControlTyped ==
  ASSUME TInv, NEW b \in Buttons, ControlButton(b)
  PROVE  ControlTypes
<1>1. /\ CtlTyped(ctl) /\ SetTyped(set) /\ QueueTyped(queue) /\ SpentTyped(spent, scene)
      /\ NavTyped(nav) /\ PanelTyped(panel) /\ CapsTyped
  BY TInvCaps DEF TInv
<1>2. NavTyped(nav')
  <2>1. nav' = nav \/ nav' = Repainted(nav) \/ nav' = Popped(nav)
    BY DEF ControlButton, DropdownMoves, DropdownSaves, DropdownCancels, FocusMoves, Adjusts, Acts
  <2> QED BY <1>1, <2>1, NavStepTyped
<1>3. \A s \in 0..15, o \in BOOLEAN : CtlTyped([Focused EXCEPT !.sel = s, !.open = o])
                                      /\ CtlTyped([Focused EXCEPT !.sel = s])
  BY FocusTyped DEF CtlTyped
<1>4. Sel \in 0..15
  <2> DEFINE o == Len(Options(FocusRow))
  <2>1. o \in 1..16 /\ Sel \in 0..(o - 1)
    BY FocusTyped
  <2> HIDE DEF o
  <2> QED BY <2>1
<1>5. ASSUME UNCHANGED <<set, queue, spent>>
      PROVE  SetTyped(set') /\ QueueTyped(queue') /\ SpentTyped(spent', scene)
  BY <1>1, <1>5 DEF SetTyped, QueueTyped, SpentTyped
<1>6. ASSUME UNCHANGED panel PROVE PanelTyped(panel')
  BY <1>1, <1>6 DEF PanelTyped
<1>7. ASSUME DropdownMoves(b) PROVE ControlTypes
  <2> DEFINE o == Len(Options(FocusRow))
             sel == Cycled(Sel, Step(b), o)
  <2>1. b \in {"up", "down"} /\ ctl' = [Focused EXCEPT !.sel = sel] /\ NoEdit
        /\ (panel' = panel \/ panel' = Boxed(sel))
    BY <1>7 DEF DropdownMoves
  <2>2. o \in 1..16 /\ Sel \in 0..(o - 1)
    BY FocusTyped
  <2> HIDE DEF o
  <2>3. Step(b) \in {-1, 1}
    BY DEF Step
  <2>4. sel \in 0..(o - 1)
    BY <2>2, <2>3, CycledTyped
  <2> HIDE DEF sel
  <2>5. sel \in 0..15
    BY <2>2, <2>4
  <2>6. CtlTyped(ctl')
    BY <1>3, <2>1, <2>5
  <2>7. PanelTyped(Boxed(sel))
    BY <1>1 DEF Boxed, PanelTyped
  <2> QED BY <1>1, <1>2, <1>5, <1>6, <2>1, <2>6, <2>7 DEF ControlTypes, NoEdit
<1>8. ASSUME DropdownSaves(b) PROVE ControlTypes
  <2> DEFINE value == Options(FocusRow)[Sel + 1]
             c == [Focused EXCEPT !.sel = Sel, !.open = FALSE]
  <2>1. Applies(FocusRow, value, c) /\ UNCHANGED panel
    BY <1>8 DEF DropdownSaves
  <2>2. value \in RawOf(FocusRow)
    <3> DEFINE o == Len(Options(FocusRow))
    <3>1. o \in 1..16 /\ Sel \in 0..(o - 1)
      BY FocusTyped
    <3> HIDE DEF o
    <3>2. Sel + 1 \in 1..o
      BY <3>1
    <3> QED BY <3>2, FocusTyped, ElementOfSeq DEF o
  <2>3. CtlTyped(c)
    BY <1>3, <1>4
  <2>4. c.desired = ctl.desired
    BY FocusTyped DEF CtlTyped
  <2> HIDE DEF value, c
  <2> QED BY <1>2, <1>6, <2>1, <2>2, <2>3, <2>4, FocusTyped, AppliesTyped DEF ControlTypes
<1>9. ASSUME DropdownCancels(b) PROVE ControlTypes
  <2>1. ctl' = [Focused EXCEPT !.sel = Sel, !.open = FALSE] /\ NoEdit /\ UNCHANGED panel
    BY <1>9 DEF DropdownCancels
  <2> QED BY <1>2, <1>3, <1>4, <1>5, <1>6, <2>1 DEF ControlTypes, NoEdit
<1>10. ASSUME FocusMoves(b), UNCHANGED panel PROVE ControlTypes
  <2> DEFINE v == Len(Visible)
             l == Len(LookedAt)
             f == Cycled(Focus, Step(b), v)
  <2>1. ctl' = [ctl EXCEPT !.focus = f] /\ NoEdit /\ b \in {"up", "down"}
    BY <1>10 DEF FocusMoves
  <2>2. v \in Nat \ {0} /\ l \in Nat /\ v <= l /\ Focus \in Nat
    BY RowsTyped, FocusTyped
  <2> HIDE DEF v
  <2>3. Step(b) \in {-1, 1}
    BY DEF Step
  <2>4. f \in 0..(v - 1)
    BY <2>2, <2>3, CycledTyped
  <2> HIDE DEF f, l
  <2>5. f \in 0..(l - 1)
    BY <2>2, <2>4
  <2>6. CtlTyped(ctl')
    BY <1>1, <2>1, <2>5 DEF CtlTyped, l
  <2> QED BY <1>2, <1>5, <1>6, <1>10, <2>1, <2>6 DEF ControlTypes, NoEdit
<1>11. ASSUME ctl' = Focused, NoEdit, UNCHANGED panel PROVE ControlTypes
  BY <1>2, <1>5, <1>6, <1>11, FocusTyped DEF ControlTypes, NoEdit
<1>12. ASSUME Adjusts(b), UNCHANGED panel PROVE ControlTypes
  <2>1. CASE Applies(FocusRow, Adjusted(b).to, Focused)
    <3>1. Adjusted(b).to \in RawOf(FocusRow)
      BY AdjustedTyped
    <3> QED BY <1>2, <1>6, <1>12, <2>1, <3>1, FocusTyped, AppliesTyped DEF ControlTypes
  <2>2. CASE ctl' = Focused /\ NoEdit
    BY <1>11, <1>12, <2>2
  <2> QED BY <1>12, <2>1, <2>2 DEF Adjusts
<1>13. ASSUME Acts, UNCHANGED panel PROVE ControlTypes
  <2>1. CASE FocusRow = "selfClean" /\ Applies(FocusRow, 1, Focused)
    <3>1. 1 \in RawOf(FocusRow)
      BY <2>1 DEF RawOf
    <3> QED BY <1>2, <1>6, <1>13, <2>1, <3>1, FocusTyped, AppliesTyped DEF ControlTypes
  <2>2. CASE ctl' = Focused /\ NoEdit
    BY <1>11, <1>13, <2>2
  <2>3. CASE ctl' = Focused /\ Queued([kind |-> "toggle"]) /\ Spend("edits", MaxEdits) /\ UNCHANGED set
    <3>1. [kind |-> "toggle"] \in Orders
      BY DEF Orders
    <3>2. SetTyped(set')
      BY <1>1, <2>3 DEF SetTyped
    <3>3. SpentTyped(spent', scene)
      BY <1>1, <2>3, SpendTyped DEF TInv
    <3> QED BY <1>1, <1>2, <1>6, <1>13, <2>3, <3>1, <3>2, <3>3, FocusTyped, QueuedTyped DEF ControlTypes
  <2>4. CASE ctl' = [Focused EXCEPT !.open = TRUE, !.sel = ValueIndex(FocusRow, Options(FocusRow))] /\ NoEdit
    <3> DEFINE o == Len(Options(FocusRow))
               i == ValueIndex(FocusRow, Options(FocusRow))
    <3>1. o \in 1..16 /\ i \in 0..(o - 1)
      BY <1>1, FocusTyped, IndexTyped
    <3> HIDE DEF o, i
    <3>2. i \in 0..15
      BY <3>1
    <3>3. ctl' = [Focused EXCEPT !.sel = i, !.open = TRUE]
      BY <2>4 DEF i
    <3>4. CtlTyped(ctl')
      BY <1>3, <3>2, <3>3
    <3> QED BY <1>2, <1>5, <1>6, <1>13, <2>4, <3>4 DEF ControlTypes, NoEdit
  <2> QED BY <1>13, <2>1, <2>2, <2>3, <2>4 DEF Acts
<1>14. ASSUME nav' = Popped(nav), ctl' = Focused, NoEdit, UNCHANGED panel PROVE ControlTypes
  BY <1>11, <1>14
<1> QED BY <1>7, <1>8, <1>9, <1>10, <1>12, <1>13, <1>14 DEF ControlButton

-----------------------------------------------------------------------------
(* The Devices screen. *)

LEMMA MovesTyped ==
  ASSUME DevsTyped(devs), NEW n \in Nat \ {0}, NEW b, Moves(Shown(n), b)
  PROVE  DevsTyped(devs') /\ devs'.mode = devs.mode /\ devs'.cursor < n
<1> DEFINE count == Shown(n)
           c == Cycled(devs.cursor, Step(b), count)
           v == devs.visible
<1>1. DevSpan \in Nat \ {0}
  BY UiAssumption
<1>2. devs.cursor \in Nat /\ v \in 1..DevSpan
  BY <1>1 DEF DevsTyped
<1>3. count = IF n <= v THEN n ELSE v
  <2>1. count = Min({n, v})
    BY DEF Shown
  <2> HIDE DEF v, count
  <2>2. n \in Int /\ v \in Int
    BY <1>1, <1>2
  <2>3. Min({n, v}) = IF n <= v THEN n ELSE v
    BY <2>2, OfTwo
  <2> QED BY <2>1, <2>3
<1>4. devs' = [devs EXCEPT !.cursor = c]
  BY DEF Moves
<1> HIDE DEF count, v
<1>5. count \in 1..DevSpan /\ count <= n
  BY <1>1, <1>2, <1>3
<1>6. Step(b) \in {-1, 1}
  BY DEF Step
<1>7. c \in 0..(count - 1)
  <2>1. count \in Nat \ {0}
    BY <1>1, <1>5
  <2> QED BY <1>2, <1>6, <2>1, CycledTyped
<1> HIDE DEF c
<1>8. c \in 0..(DevSpan - 1) /\ c < n
  BY <1>1, <1>5, <1>7
<1> QED BY <1>4, <1>8 DEF DevsTyped

LEMMA SavesTyped ==
  ASSUME StoreTyped(store), NEW list \in DeviceLists, NEW ok, Saves(list, ok)
  PROVE  StoreTyped(store')
BY DEF Saves, StoreTyped

LEMMA RemovedTyped ==
  ASSUME StoreTyped(store), NEW keep
  PROVE  Selected(store.list, keep) \in DeviceLists
<1>1. store.list \in Seq(FoundIds) /\ Len(store.list) <= MaxDevices /\ MaxDevices \in Nat
  BY UiAssumption DEF StoreTyped, DeviceLists
<1> DEFINE sel == Selected(store.list, keep)
<1>2. SelectsFrom(sel, FoundIds, store.list, keep)
  BY <1>1, SelectedProps
<1> HIDE DEF sel
<1>3. sel \in Seq(FoundIds \cap keep) /\ Len(sel) <= Len(store.list)
  BY <1>2 DEF SelectsFrom
<1>4. Seq(FoundIds \cap keep) \subseteq Seq(FoundIds)
  OBVIOUS
<1>5. Len(store.list) \in Nat /\ Len(sel) \in Nat
  BY <1>1, <1>3
<1> QED BY <1>1, <1>3, <1>4, <1>5 DEF DeviceLists, sel

LEMMA ScanStops ==
  ASSUME ScanTyped(scan)
  PROVE  ScanTyped(Cancelled(scan)) /\ ScanTyped(Started(scan)) /\ Started(scan).on
<1>1. <<>> \in Seq(Datagrams) /\ <<>> \in Tables
  <2>1. <<>> \in Seq(Found) /\ Len(<<>>) = 0 /\ MaxResults \in Nat
    BY UiAssumption
  <2> QED BY <2>1 DEF Tables
<1> QED BY <1>1 DEF ScanTyped, Cancelled, Started, Ended, NoScan

DevicesTypes ==
  /\ DevsTyped(devs') /\ ScanTyped(scan') /\ ResultsTyped(devs', scan') /\ StoreTyped(store')
  /\ NavTyped(nav') /\ at' \in {at, "boot"}

LEMMA ChosenTyped ==
  ASSUME DevsTyped(devs), ScanTyped(scan), ResultsTyped(devs, scan), devs.mode = "confirm"
  PROVE  Chosen \in FoundIds
<1>1. scan.found \in Seq(Found) /\ devs.cursor \in Nat
  BY UiAssumption DEF ScanTyped, Tables, DevsTyped
<1>2. devs.cursor + 1 \in 1..Len(scan.found)
  BY <1>1 DEF ResultsTyped
<1>3. scan.found[devs.cursor + 1] \in Found
  BY <1>1, <1>2, ElementOfSeq
<1> QED BY <1>3 DEF Chosen, FoundIds

LEMMA DevicesTyped ==
  ASSUME TInv, NEW b, DevicesButton(b)
  PROVE  DevicesTypes
<1>1. /\ DevsTyped(devs) /\ ScanTyped(scan) /\ ResultsTyped(devs, scan) /\ StoreTyped(store)
      /\ NavTyped(nav)
  BY DEF TInv
<1>2. ASSUME \/ nav' = nav \/ nav' = Repainted(nav) \/ nav' = Popped(nav)
      PROVE  NavTyped(nav')
  BY <1>1, <1>2, NavStepTyped
<1>3. ASSUME UNCHANGED scan PROVE ScanTyped(scan')
  BY <1>1, <1>3 DEF ScanTyped
<1>4. ASSUME UNCHANGED store PROVE StoreTyped(store')
  BY <1>1, <1>4 DEF StoreTyped
<1>5. ASSUME UNCHANGED <<devs, scan>> PROVE DevsTyped(devs') /\ ResultsTyped(devs', scan')
  BY <1>1, <1>5 DEF DevsTyped, ResultsTyped
<1>6. ASSUME NEW m \in {"saved", "scanning", "confirmDelete"}, NEW note \in Notes, Devs(m, note)
      PROVE  DevsTyped(devs') /\ ResultsTyped(devs', scan')
  BY <1>1, <1>6 DEF Devs, DevsTyped, DeviceModes, ResultsTyped
<1>7. devs.note \in Notes
  BY <1>1 DEF DevsTyped
<1>8. ASSUME NEW c, SavedButton(c), devs.mode = "saved" PROVE DevicesTypes
  <2>1. CASE c \in {"up", "down"} /\ Moves(Shown(Len(store.list) + 1), c) /\ nav' = Repainted(nav) /\ Quiet
    <3>1. Len(store.list) + 1 \in Nat \ {0}
      BY <1>1 DEF StoreTyped, DeviceLists
    <3>2. DevsTyped(devs') /\ devs'.mode = devs.mode
      BY <1>1, <2>1, <3>1, MovesTyped
    <3>3. ResultsTyped(devs', scan')
      BY <1>8, <3>2 DEF ResultsTyped
    <3> QED BY <1>2, <1>3, <1>4, <2>1, <3>2, <3>3 DEF DevicesTypes, Quiet
  <2>2. CASE Devs("confirmDelete", devs.note) /\ nav' = Repainted(nav) /\ UNCHANGED <<at, store, scan>>
    BY <1>2, <1>3, <1>4, <1>6, <1>7, <2>2 DEF DevicesTypes
  <2>3. CASE \E note \in {"no link", "scan failed"} :
               Devs("saved", note) /\ nav' = Repainted(nav) /\ UNCHANGED <<at, store, scan>>
    BY <1>2, <1>3, <1>4, <1>6, <2>3 DEF DevicesTypes, Notes
  <2>4. CASE Devs("scanning", devs.note) /\ scan' = Started(scan) /\ nav' = Repainted(nav) /\ UNCHANGED <<at, store>>
    BY <1>1, <1>2, <1>4, <1>6, <1>7, <2>4, ScanStops DEF DevicesTypes
  <2>5. CASE nav' = Popped(nav) /\ Quiet /\ UNCHANGED devs
    BY <1>2, <1>3, <1>4, <1>5, <2>5 DEF DevicesTypes, Quiet
  <2> QED BY <1>8, <2>1, <2>2, <2>3, <2>4, <2>5 DEF SavedButton
<1>9. ASSUME ConfirmDeleteButton(b) PROVE DevicesTypes
  <2>1. CASE Devs("saved", devs.note) /\ nav' = Repainted(nav) /\ Quiet
    BY <1>2, <1>3, <1>4, <1>6, <1>7, <2>1 DEF DevicesTypes, Quiet
  <2>2. ASSUME NEW id, NEW ok, UNCHANGED scan, Saves(Selected(store.list, Ids(store.list) \ {id}), ok),
               IF ok THEN at' = "boot" /\ UNCHANGED <<nav, devs>>
               ELSE Devs("saved", "remove failed") /\ nav' = Repainted(nav) /\ UNCHANGED at
        PROVE  DevicesTypes
    <3>1. StoreTyped(store')
      BY <1>1, <2>2, RemovedTyped, SavesTyped
    <3>2. CASE at' = "boot" /\ UNCHANGED <<nav, devs>>
      BY <1>2, <1>3, <1>5, <2>2, <3>1, <3>2 DEF DevicesTypes
    <3>3. CASE Devs("saved", "remove failed") /\ nav' = Repainted(nav) /\ UNCHANGED at
      BY <1>2, <1>3, <1>6, <2>2, <3>1, <3>3 DEF DevicesTypes, Notes
    <3> QED BY <2>2, <3>2, <3>3
  <2>3. CASE Devs("saved", "remove failed") /\ nav' = Repainted(nav) /\ UNCHANGED <<at, store, scan>>
    BY <1>2, <1>3, <1>4, <1>6, <2>3 DEF DevicesTypes, Notes
  <2> QED BY <1>9, <2>1, <2>2, <2>3 DEF ConfirmDeleteButton
<1>10. ASSUME ScanningButton(b) PROVE DevicesTypes
  BY <1>1, <1>2, <1>4, <1>6, <1>7, <1>10, ScanStops DEF ScanningButton, DevicesTypes
<1>11. ASSUME NEW c, ResultsButton(c), devs.mode = "results" PROVE DevicesTypes
  <2>1. CASE nav' = Repainted(nav) /\ Quiet /\ UNCHANGED devs
    BY <1>2, <1>3, <1>4, <1>5, <2>1 DEF DevicesTypes, Quiet
  <2>2. CASE nav' = Repainted(nav) /\ Quiet /\ scan.found # <<>> /\ Moves(Shown(Len(scan.found)), c)
    <3>1. Len(scan.found) \in Nat \ {0}
      <4>1. scan.found \in Seq(Found)
        BY <1>1 DEF ScanTyped, Tables
      <4> QED BY <2>2, <4>1, EmptySeq
    <3>2. DevsTyped(devs') /\ devs'.mode = "results" /\ devs'.cursor < Len(scan.found)
      BY <1>1, <1>11, <2>2, <3>1, MovesTyped
    <3>3. ResultsTyped(devs', scan')
      BY <1>1, <1>11, <2>2, <3>2 DEF ResultsTyped, Quiet
    <3> QED BY <1>2, <1>3, <1>4, <2>2, <3>2, <3>3 DEF DevicesTypes, Quiet
  <2>3. CASE \E note \in {"already saved", devs.note} : Devs("saved", note) /\ nav' = Repainted(nav) /\ Quiet
    BY <1>2, <1>3, <1>4, <1>6, <1>7, <2>3 DEF DevicesTypes, Quiet, Notes
  <2>4. CASE Devs("confirm", devs.note) /\ scan.found # <<>> /\ nav' = Repainted(nav) /\ Quiet
    <3>1. DevsTyped(devs') /\ ResultsTyped(devs', scan')
      BY <1>1, <1>11, <2>4 DEF Devs, Quiet, DevsTyped, DeviceModes, ResultsTyped
    <3> QED BY <1>2, <1>3, <1>4, <2>4, <3>1 DEF DevicesTypes, Quiet
  <2> QED BY <1>11, <2>1, <2>2, <2>3, <2>4 DEF ResultsButton
<1>12. ASSUME ConfirmButton(b), devs.mode = "confirm" PROVE DevicesTypes
  <2>1. CASE Devs("results", devs.note) /\ nav' = Repainted(nav) /\ Quiet
    <3>1. DevsTyped(devs') /\ ResultsTyped(devs', scan')
      BY <1>1, <1>12, <2>1 DEF Devs, Quiet, DevsTyped, DeviceModes, ResultsTyped
    <3> QED BY <1>2, <1>3, <1>4, <2>1, <3>1 DEF DevicesTypes, Quiet
  <2>2. CASE \E note \in {"already saved", "list full"} :
               Devs("saved", note) /\ nav' = Repainted(nav) /\ UNCHANGED <<at, scan, store>>
    BY <1>2, <1>3, <1>4, <1>6, <2>2 DEF DevicesTypes, Notes
  <2>3. ASSUME NEW ok \in BOOLEAN, Len(store.list) < MaxDevices, Saves(Append(store.list, Chosen), ok),
               Devs("saved", IF ok THEN "saved" ELSE "add failed"), nav' = Repainted(nav), UNCHANGED <<at, scan>>
        PROVE  DevicesTypes
    <3>1. Append(store.list, Chosen) \in DeviceLists
      <4>1. store.list \in Seq(FoundIds) /\ MaxDevices \in Nat /\ Chosen \in FoundIds
        BY <1>1, <1>12, ChosenTyped, UiAssumption DEF StoreTyped, DeviceLists
      <4> DEFINE n == Len(store.list)
                 longer == Append(store.list, Chosen)
      <4>2. longer \in Seq(FoundIds) /\ Len(longer) = n + 1 /\ n \in Nat
        BY <4>1, AppendProperties
      <4> HIDE DEF n, longer
      <4>3. n < MaxDevices
        BY <2>3 DEF n
      <4>4. Len(longer) <= MaxDevices
        BY <4>1, <4>2, <4>3
      <4> QED BY <4>2, <4>4 DEF DeviceLists, longer
    <3>2. StoreTyped(store')
      BY <1>1, <2>3, <3>1, SavesTyped
    <3>3. (IF ok THEN "saved" ELSE "add failed") \in Notes
      BY DEF Notes
    <3> QED BY <1>2, <1>3, <1>6, <2>3, <3>2, <3>3 DEF DevicesTypes
  <2> QED BY <1>12, <2>1, <2>2, <2>3 DEF ConfirmButton
<1>13. \/ devs.mode = "saved" /\ SavedButton(Aliased(b))
       \/ ConfirmDeleteButton(b)
       \/ ScanningButton(b)
       \/ devs.mode = "results" /\ ResultsButton(Aliased(b))
       \/ devs.mode = "confirm" /\ ConfirmButton(b)
  <2>1. devs.mode \in {"saved", "scanning", "results", "confirm", "confirmDelete"}
    BY <1>1 DEF DevsTyped, DeviceModes
  <2>2. CASE devs.mode = "saved"
    BY <2>2 DEF DevicesButton
  <2>3. CASE devs.mode = "scanning"
    BY <2>3 DEF DevicesButton
  <2>4. CASE devs.mode = "results"
    BY <2>4 DEF DevicesButton
  <2>5. CASE devs.mode = "confirm"
    BY <2>5 DEF DevicesButton
  <2>6. CASE devs.mode = "confirmDelete"
    BY <2>6 DEF DevicesButton
  <2> QED BY <2>1, <2>2, <2>3, <2>4, <2>5, <2>6
<1> QED BY <1>8, <1>9, <1>10, <1>11, <1>12, <1>13

-----------------------------------------------------------------------------
(* The menus, the pages and the prompt. *)

LEMMA CursorTyped ==
  ASSUME NEW n \in Nat \ {0}, NEW c \in Nat, NEW b
  PROVE  Cycled(c, Step(b), n) \in 0..(n - 1)
<1>1. Step(b) \in {-1, 1}
  BY DEF Step
<1> QED BY <1>1, CycledTyped

LEMMA Texts == LicenseCount \in Nat \ {0} /\ TextLines \in Seq(Nat)
  /\ \A i \in 0..(LicenseCount - 1) : TextLines[i + 1] \in Nat
<1>1. TextLines \in Seq(Nat) /\ TextLines # <<>>
  BY UiAssumption
<1>2. LicenseCount \in Nat \ {0}
  BY <1>1, EmptySeq DEF LicenseCount
<1>3. ASSUME NEW i \in 0..(LicenseCount - 1) PROVE TextLines[i + 1] \in Nat
  <2>1. i + 1 \in 1..Len(TextLines)
    BY <1>2 DEF LicenseCount
  <2> QED BY <1>1, <2>1, ElementOfSeq
<1> QED BY <1>1, <1>2, <1>3

LEMMA CurMoved ==
  ASSUME CurTyped(cur)
  PROVE  /\ \A h \in 0..3 : CurTyped([cur EXCEPT !.home = h])
         /\ \A s \in 0..5 : CurTyped([cur EXCEPT !.settings = s])
         /\ \A n \in 0..(Networks - 1) : CurTyped([cur EXCEPT !.networks = n])
         /\ \A d \in Nat : d <= cur.detailsMax => CurTyped([cur EXCEPT !.details = d])
         /\ \A d \in Nat, m \in Nat : d <= m => CurTyped([cur EXCEPT !.detailsMax = m, !.details = d])
         /\ \A l \in 0..(LicenseCount - 1) : CurTyped([cur EXCEPT !.license = l])
         /\ \A t \in Int : t <= LicensesMax => CurTyped([cur EXCEPT !.licenseTop = t])
         /\ \A t \in 0..(LicenseCount - 1) : CurTyped([cur EXCEPT !.text = t, !.line = 0])
         /\ \A l \in Nat : CurTyped([cur EXCEPT !.line = l])
         /\ \A l \in Nat, m \in Nat, p \in Nat : CurTyped([cur EXCEPT !.line = l, !.lineMax = m, !.page = p])
BY DEF CurTyped

LEMMA HomeTyped ==
  ASSUME CurTyped(cur), NEW b, HomeButton(b)
  PROVE  CurTyped(cur')
<1>1. CASE cur' = cur
  BY <1>1
<1>2. CASE cur' = [cur EXCEPT !.home = Cycled(@, Step(b), Len(HomeTargets))]
  <2>1. cur.home \in Nat /\ Len(HomeTargets) = 4
    BY DEF CurTyped, HomeTargets
  <2>2. Cycled(cur.home, Step(b), 4) \in 0..3
    <3>1. 4 \in Nat \ {0} /\ 4 - 1 = 3
      OBVIOUS
    <3>2. Cycled(cur.home, Step(b), 4) \in 0..(4 - 1)
      BY <2>1, <3>1, CursorTyped
    <3> QED BY <3>1, <3>2
  <2> QED BY <1>2, <2>1, <2>2, CurMoved
<1> QED BY <1>1, <1>2 DEF HomeButton, Cursor, Still

LEMMA DetailsTyped ==
  ASSUME CurTyped(cur), NEW b, DetailsButton(b)
  PROVE  CurTyped(cur')
<1>1. cur.details \in Nat /\ cur.detailsMax \in Nat /\ cur.details <= cur.detailsMax
  BY DEF CurTyped
<1>2. CASE cur.details > 0 /\ cur' = [cur EXCEPT !.details = cur.details - 1]
  <2>1. cur.details - 1 \in Nat /\ cur.details - 1 <= cur.detailsMax
    BY <1>1, <1>2
  <2> QED BY <1>2, <2>1, CurMoved
<1>3. CASE cur.details < cur.detailsMax /\ cur' = [cur EXCEPT !.details = cur.details + 1]
  <2>1. cur.details + 1 \in Nat /\ cur.details + 1 <= cur.detailsMax
    BY <1>1, <1>3
  <2> QED BY <1>3, <2>1, CurMoved
<1>4. CASE cur' = cur
  BY <1>4
<1> QED BY <1>2, <1>3, <1>4 DEF DetailsButton, Cursor, Still

LEMMA LicensesTyped ==
  ASSUME CurTyped(cur), NEW b, LicensesButton(b)
  PROVE  CurTyped(cur')
<1> DEFINE n == LicenseCount
           l == cur.license
<1>1. l \in 0..(n - 1) /\ n \in Nat \ {0}
  BY Texts DEF CurTyped
<1>2. CASE l > 0 /\ cur' = [cur EXCEPT !.license = l - 1]
  <2> HIDE DEF n, l
  <2>1. l - 1 \in 0..(n - 1)
    BY <1>1, <1>2
  <2> QED BY <1>2, <2>1, CurMoved DEF n
<1>3. CASE l + 1 < n /\ cur' = [cur EXCEPT !.license = l + 1]
  <2> HIDE DEF n, l
  <2>1. l + 1 \in 0..(n - 1)
    BY <1>1, <1>3
  <2> QED BY <1>3, <2>1, CurMoved DEF n
<1>4. CASE cur' = [cur EXCEPT !.text = l, !.line = 0]
  BY <1>1, <1>4, CurMoved
<1>5. CASE cur' = cur
  BY <1>5
<1> QED BY <1>2, <1>3, <1>4, <1>5 DEF LicensesButton, Cursor, Still

LEMMA LicenseTextTyped ==
  ASSUME CurTyped(cur), NEW b, LicenseTextButton(b)
  PROVE  CurTyped(cur')
<1>1. cur.line \in Nat /\ cur.lineMax \in Nat /\ Page \in Nat
  BY DEF CurTyped, Page
<1>2. CASE cur' = [cur EXCEPT !.line = Max({0, cur.line - Page})]
  <2> DEFINE v == cur.line - Page
  <2>1. v \in Int
    BY <1>1
  <2> HIDE DEF v
  <2>2. Max({0, v}) = IF 0 >= v THEN 0 ELSE v
    BY <2>1, OfTwo
  <2>3. Max({0, v}) \in Nat
    BY <2>1, <2>2
  <2> QED BY <1>2, <2>3, CurMoved DEF v
<1>3. CASE cur' = [cur EXCEPT !.line = Min({cur.lineMax, cur.line + Page})]
  <2> DEFINE v == cur.line + Page
             m == cur.lineMax
  <2>1. v \in Nat /\ m \in Nat
    BY <1>1
  <2> HIDE DEF v, m
  <2>a. v \in Int /\ m \in Int
    BY <2>1
  <2>2. Min({m, v}) = IF m <= v THEN m ELSE v
    BY <2>a, OfTwo
  <2>3. Min({m, v}) \in Nat
    BY <2>1, <2>2
  <2> QED BY <1>3, <2>3, CurMoved DEF v, m
<1>4. CASE cur' = cur
  BY <1>4
<1> QED BY <1>2, <1>3, <1>4 DEF LicenseTextButton, Cursor, Still

LEMMA PassiveTyped ==
  ASSUME TInv, NEW b, Passive(b)
  PROVE  CurTyped(cur') /\ NavTyped(nav')
<1>1. CurTyped(cur) /\ NavTyped(nav)
  BY DEF TInv
<1>2. CurTyped(cur')
  <2>1. ASSUME cur' = cur PROVE CurTyped(cur')
    BY <1>1, <2>1
  <2> QED BY <1>1, <2>1, HomeTyped, DetailsTyped, LicensesTyped, LicenseTextTyped
          DEF Passive, DashboardButton, AboutButton, Still
<1>3. NavTyped(nav')
  <2>1. nav' = nav \/ nav' = Repainted(nav) \/ nav' = Popped(nav) \/ \E s : nav' = Pushed(nav, s)
    BY DEF Passive, HomeButton, DashboardButton, AboutButton, DetailsButton, LicensesButton,
       LicenseTextButton, Repaints, Leaves
  <2> QED BY <1>1, <2>1, NavStepTyped
<1> QED BY <1>2, <1>3

LEMMA SettingsTyped ==
  ASSUME TInv, NEW b, SettingsButton(b)
  PROVE  /\ CurTyped(cur') /\ NavTyped(nav') /\ SetTyped(set') /\ SpentTyped(spent', scene)
         /\ DevsTyped(devs') /\ ScanTyped(scan') /\ ResultsTyped(devs', scan')
         /\ at' \in {at, "provision"}
<1>1. /\ CurTyped(cur) /\ NavTyped(nav) /\ SetTyped(set) /\ SpentTyped(spent, scene)
      /\ DevsTyped(devs) /\ ScanTyped(scan) /\ ResultsTyped(devs, scan) /\ LoopTyped(at, scene, burst)
  BY DEF TInv
<1>2. CurTyped(cur')
  <2>1. cur.settings \in Nat /\ Len(SettingsRows) = 6
    BY <1>1 DEF CurTyped, SettingsRows
  <2>2. Cycled(cur.settings, Step(b), 6) \in 0..5
    <3>1. 6 \in Nat \ {0} /\ 6 - 1 = 5
      OBVIOUS
    <3>2. Cycled(cur.settings, Step(b), 6) \in 0..(6 - 1)
      BY <2>1, <3>1, CursorTyped
    <3> QED BY <3>1, <3>2
  <2>3. cur' = cur \/ cur' = [cur EXCEPT !.settings = Cycled(cur.settings, Step(b), 6)]
    BY <2>1 DEF SettingsButton, Cursor, Still
  <2> QED BY <1>1, <2>2, <2>3, CurMoved
<1>3. NavTyped(nav')
  <2>1. nav' = nav \/ nav' = Repainted(nav) \/ nav' = Popped(nav) \/ \E s : nav' = Pushed(nav, s)
    BY DEF SettingsButton, Repaints, Leaves
  <2> QED BY <1>1, <2>1, NavStepTyped
<1>4. SetTyped(set') /\ SpentTyped(spent', scene)
  <2>1. CASE NoEdits
    BY <1>1, <2>1 DEF NoEdits
  <2>2. CASE set' = [set EXCEPT !.portal = ~@] /\ UNCHANGED spent
    BY <1>1, <2>2 DEF SetTyped
  <2>3. CASE set' = [set EXCEPT !.wg = ~@] /\ Spend("edits", MaxEdits)
    <3>1. SetTyped(set')
      BY <1>1, <2>3 DEF SetTyped
    <3> QED BY <1>1, <2>3, <3>1, SpendTyped
  <2> QED BY <2>1, <2>2, <2>3 DEF SettingsButton, SettingsActs
<1>5. DevsTyped(devs') /\ ScanTyped(scan') /\ ResultsTyped(devs', scan')
  <2>1. CASE UNCHANGED <<devs, scan>>
    BY <1>1, <2>1
  <2>2. CASE scan' = Cancelled(scan) /\ devs' = [devs EXCEPT !.mode = "saved", !.cursor = 0, !.note = ""]
    <3>1. DevSpan \in Nat \ {0}
      BY UiAssumption
    <3>2. 0 \in 0..(DevSpan - 1)
      BY <3>1
    <3>3. DevsTyped(devs')
      BY <1>1, <2>2, <3>2 DEF DevsTyped, DeviceModes, Notes
    <3>4. devs'.mode = "saved"
      BY <1>1, <2>2 DEF DevsTyped
    <3> QED BY <1>1, <2>2, <3>3, <3>4, ScanStops DEF ResultsTyped
  <2> QED BY <2>1, <2>2 DEF SettingsButton
<1>6. at' \in {at, "provision"}
  BY DEF SettingsButton
<1> QED BY <1>2, <1>3, <1>4, <1>5, <1>6

LEMMA NetworksTyped ==
  ASSUME TInv, NEW b, NetworksButton(b)
  PROVE  CurTyped(cur') /\ NavTyped(nav') /\ SetTyped(set') /\ SpentTyped(spent', scene) /\ NetTyped(net')
<1>1. /\ CurTyped(cur) /\ NavTyped(nav) /\ SetTyped(set) /\ SpentTyped(spent, scene) /\ NetTyped(net)
      /\ LoopTyped(at, scene, burst)
  BY DEF TInv
<1>2. cur.networks \in 0..(Networks - 1) /\ Networks \in Nat \ {0}
  BY <1>1, UiAssumption DEF CurTyped
<1>3. NavTyped(nav')
  <2>1. nav' = Repainted(nav) \/ nav' = Popped(nav)
    BY DEF NetworksButton, Repaints, Leaves
  <2> QED BY <1>1, <2>1, NavStepTyped
<1>4. CASE cur' = [cur EXCEPT !.networks = Cycled(@, Step(b), Networks)] /\ NoEdits /\ UNCHANGED net
  <2>1. Cycled(cur.networks, Step(b), Networks) \in 0..(Networks - 1)
    BY <1>2, CursorTyped
  <2>2. CurTyped(cur')
    BY <1>1, <1>4, <2>1, CurMoved
  <2> QED BY <1>1, <1>3, <1>4, <2>2 DEF NoEdits
<1>5. CASE /\ set' = [set EXCEPT !.active = cur.networks + 1] /\ net' = [net EXCEPT !.link = "connecting"]
           /\ Spend("edits", MaxEdits) /\ Still
  <2>1. cur.networks + 1 \in 1..Networks
    BY <1>2
  <2>2. SetTyped(set')
    BY <1>1, <1>5, <2>1 DEF SetTyped
  <2>3. NetTyped(net')
    BY <1>1, <1>5 DEF NetTyped
  <2> QED BY <1>1, <1>3, <1>5, <2>2, <2>3, SpendTyped DEF Still
<1>6. CASE NoEdits /\ Still /\ UNCHANGED net
  BY <1>1, <1>3, <1>6 DEF NoEdits, Still
<1> QED BY <1>4, <1>5, <1>6 DEF NetworksButton, Cursor

LEMMA PromptTyped ==
  ASSUME TInv, NEW b, CaptiveLoginButton(b)
  PROVE  NavTyped(nav') /\ NetTyped(net')
<1>1. NavTyped(nav) /\ NetTyped(net)
  BY DEF TInv
<1>2. NavTyped(nav')
  <2>1. nav' = Repainted(nav) \/ nav' = Popped(nav)
    BY DEF CaptiveLoginButton, Repaints, Leaves
  <2> QED BY <1>1, <2>1, NavStepTyped
<1>3. NetTyped(net')
  BY <1>1 DEF CaptiveLoginButton, NetTyped
<1> QED BY <1>2, <1>3

-----------------------------------------------------------------------------
(* A frame clamps what it draws. *)

LEMMA Clamps ==
  /\ LicensesMax \in Nat /\ LicenseCount - LicenseSpan <= LicensesMax
  /\ DetailMax \in Nat
<1>1. LicenseCount - LicenseSpan \in Int
  BY Texts, UiAssumption
<1>2. LicensesMax \in Nat /\ LicenseCount - LicenseSpan <= LicensesMax
  <2> DEFINE v == LicenseCount - LicenseSpan
  <2>1. LicensesMax = Max({0, v}) /\ v \in Int /\ 0 \in Int
    BY <1>1 DEF LicensesMax
  <2> HIDE DEF v
  <2>2. Max({0, v}) = IF 0 >= v THEN 0 ELSE v
    BY <2>1, OfTwo
  <2>3. LicensesMax \in Nat /\ v <= LicensesMax
    BY <2>1, <2>2
  <2> QED BY <2>3 DEF v
<1>3. DetailMax \in Nat
  <2> DEFINE v == Len(DetailRows(NoExt)) - DetailVisible
  <2>1. DetailMax = Max({0, v})
    BY DEF DetailMax
  <2>2. Len(DetailRows(NoExt)) = 10
    BY DEF DetailRows
  <2>3. DetailVisible \in Int
    BY UiAssumption DEF DetailVisible
  <2>4. v \in Int /\ 0 \in Int
    BY <2>2, <2>3
  <2> HIDE DEF v
  <2>5. Max({0, v}) = IF 0 >= v THEN 0 ELSE v
    BY <2>4, OfTwo
  <2> QED BY <2>1, <2>4, <2>5
<1> QED BY <1>2, <1>3

LEMMA CurDrawnTyped ==
  ASSUME CurTyped(cur)
  PROVE  CurTyped(CurDrawn)
<1>1. CurTyped(DetailsClamped)
  <2> DEFINE d == cur.details
             m == DetailMax
  <2>1. d \in Int /\ m \in Int /\ d \in Nat /\ m \in Nat
    BY Clamps DEF CurTyped
  <2>2. DetailsClamped = [cur EXCEPT !.detailsMax = m, !.details = Min({d, m})]
    BY DEF DetailsClamped
  <2> HIDE DEF d, m
  <2>3. Min({d, m}) = IF d <= m THEN d ELSE m
    BY <2>1, OfTwo
  <2>4. Min({d, m}) \in Nat /\ Min({d, m}) <= m
    BY <2>1, <2>3
  <2> QED BY <2>1, <2>2, <2>4, CurMoved
<1>2. CurTyped(LicensesClamped)
  <2> DEFINE l == cur.license
             n == LicenseCount
             t == cur.licenseTop
             m == LicensesMax
             top == Min({t, m})
             drawn == CASE l < top -> l
                        [] l + 1 > top + LicenseSpan -> l + 1 - LicenseSpan
                        [] OTHER -> top
  <2>1. /\ n \in Nat \ {0} /\ l \in 0..(n - 1) /\ t \in Int /\ m \in Nat /\ m \in Int
        /\ n - LicenseSpan <= m /\ LicenseSpan \in Nat
    BY Texts, Clamps, UiAssumption DEF CurTyped
  <2>2. LicensesClamped = [cur EXCEPT !.licenseTop = drawn]
    BY Zenon DEF LicensesClamped
  <2> HIDE DEF l, n, t, m
  <2>3. top = IF t <= m THEN t ELSE m
    BY <2>1, OfTwo
  <2> HIDE DEF top
  <2>4. top \in Int /\ top <= m
    BY <2>1, <2>3
  <2>5. drawn \in {top, l, l + 1 - LicenseSpan} /\ (drawn = l => l < top \/ l \in {top, l + 1 - LicenseSpan})
    BY Zenon
  <2>6. drawn \in Int /\ drawn <= m
    <3> HIDE DEF drawn
    <3> QED BY <2>1, <2>4, <2>5
  <2> HIDE DEF drawn
  <2> QED BY <2>2, <2>6, CurMoved DEF m
<1>3. CurTyped(LicenseTextClamped)
  <2> DEFINE a == cur.line
             b == cur.lineMax
             v == TextLines[cur.text + 1] - PageLines
             m == LineMax
             c == DrawnLine
  <2>1. /\ a \in Nat /\ b \in Nat /\ a \in Int /\ b \in Int /\ PageLines \in Nat
        /\ cur.text \in 0..(LicenseCount - 1) /\ 0 \in Int
    BY UiAssumption DEF CurTyped
  <2>2. v \in Int
    BY <2>1, Texts
  <2>3. m = Max({0, v}) /\ c = Min({a, b})
    BY DEF LineMax, DrawnLine
  <2>4. LicenseTextClamped = [cur EXCEPT !.line = Min({c, m}), !.lineMax = m, !.page = PageLines]
    BY DEF LicenseTextClamped
  <2> HIDE DEF a, b, v, m, c
  <2>5. Max({0, v}) = IF 0 >= v THEN 0 ELSE v
    BY <2>1, <2>2, OfTwo
  <2>6. Min({a, b}) = IF a <= b THEN a ELSE b
    BY <2>1, OfTwo
  <2>7. m \in Nat /\ c \in Nat /\ m \in Int /\ c \in Int
    BY <2>1, <2>2, <2>3, <2>5, <2>6
  <2>8. Min({c, m}) = IF c <= m THEN c ELSE m
    BY <2>7, OfTwo
  <2>9. Min({c, m}) \in Nat
    BY <2>7, <2>8
  <2> QED BY <2>1, <2>4, <2>7, <2>9, CurMoved
<1>4. CurDrawn \in {DetailsClamped, LicensesClamped, LicenseTextClamped, cur}
  BY Zenon DEF CurDrawn
<1> QED BY <1>1, <1>2, <1>3, <1>4

LEMMA CtlDrawnTyped ==
  ASSUME TInv
  PROVE  CtlTyped(CtlDrawn)
<1>1. CtlTyped(ctl) /\ CtlTyped(Focused)
  BY FocusTyped DEF TInv
<1>2. ControlSpan \in Nat
  <2> DEFINE v == Len(Visible)
  <2>1. v \in Int /\ RowSpan \in Int /\ v \in Nat /\ RowSpan \in Nat
    <3>1. RowSpan \in Nat
      BY UiAssumption
    <3>2. v \in Nat
      BY RowsTyped
    <3> QED BY <3>1, <3>2
  <2>2. ControlSpan = Min({RowSpan, v})
    BY DEF ControlSpan
  <2> HIDE DEF v
  <2>3. Min({RowSpan, v}) = IF RowSpan <= v THEN RowSpan ELSE v
    BY <2>1, OfTwo
  <2> QED BY <2>1, <2>2, <2>3
<1>3. CtlTyped(ControlClamped)
  <2> DEFINE s == Focused.scroll
             drawn == CASE Focus < s -> Focus
                        [] Focus >= s + ControlSpan -> Focus - ControlSpan + 1
                        [] OTHER -> s
  <2>1. ControlClamped = [Focused EXCEPT !.scroll = drawn]
    BY Zenon DEF ControlClamped
  <2>3. s \in Nat /\ Focus \in Nat
    BY <1>1, FocusTyped DEF CtlTyped
  <2>2. drawn \in {Focus, s} \/ (Focus >= s + ControlSpan /\ drawn = Focus - ControlSpan + 1)
    <3>1. CASE Focus < s
      <4>1. ~(Focus >= s + ControlSpan)
        BY <1>2, <2>3, <3>1
      <4> QED BY <3>1, <4>1, Zenon
    <3>2. CASE ~(Focus < s) /\ Focus >= s + ControlSpan
      BY <3>2, Zenon
    <3>3. CASE ~(Focus < s) /\ ~(Focus >= s + ControlSpan)
      BY <3>3, Zenon
    <3> QED BY <3>1, <3>2, <3>3
  <2> HIDE DEF drawn
  <2>4. drawn \in Nat
    BY <1>2, <2>2, <2>3
  <2> QED BY <1>1, <2>1, <2>4 DEF CtlTyped
<1> QED BY <1>1, <1>3 DEF CtlDrawn

LEMMA DevsDrawnTyped ==
  ASSUME TInv
  PROVE  DevsTyped(DevsDrawn) /\ ResultsTyped(DevsDrawn, scan)
<1>1. DevsTyped(devs) /\ ScanTyped(scan) /\ ResultsTyped(devs, scan) /\ StoreTyped(store)
  BY DEF TInv
<1> DEFINE n == ListLen
           k == Min({n, DevSpan})
           c == devs.cursor
           at0 == IF Lists /\ c >= k THEN 0 ELSE c
           m == IF Gone THEN "saved" ELSE Mode
           v == IF Lists THEN DevSpan ELSE devs.visible
<1>2. DevicesClamped = [devs EXCEPT !.mode = m, !.visible = v, !.cursor = at0]
  BY DEF DevicesClamped
<1>3. DevSpan \in Nat \ {0} /\ c \in 0..(DevSpan - 1) /\ devs.visible \in 1..DevSpan
  BY <1>1, UiAssumption DEF DevsTyped
<1>4. scan.found \in Seq(Found) /\ store.list \in Seq(FoundIds)
  BY <1>1 DEF ScanTyped, Tables, StoreTyped, DeviceLists
<1>5. n \in Nat /\ n \in Int
  BY <1>4 DEF ListLen
<1>6. Mode \in DeviceModes
  BY <1>1 DEF Mode, DevsTyped, DeviceModes
<1>7. at0 \in 0..(DevSpan - 1) /\ v \in 1..DevSpan /\ m \in DeviceModes
  <2>1. 0 \in 0..(DevSpan - 1) /\ DevSpan \in 1..DevSpan
    BY <1>3
  <2> QED BY <1>3, <1>6, <2>1 DEF DeviceModes
<1>8. DevsTyped(DevicesClamped) /\ DevicesClamped.mode = m /\ DevicesClamped.cursor = at0
  <2> HIDE DEF m, v, at0
  <2> QED BY <1>1, <1>2, <1>7 DEF DevsTyped
<1>9. ASSUME m \in {"results", "confirm"}
      PROVE  ~scan.on /\ (scan.found # <<>> => at0 < Len(scan.found)) /\ (m = "confirm" => scan.found # <<>>)
  <2>1. m = Mode /\ ~Gone
    BY <1>9
  <2>2. ~scan.on
    BY <1>1, <1>9, <2>1 DEF Mode, ResultsTyped
  <2>3. CASE Mode = "results" /\ scan.found # <<>>
    <3>1. Lists /\ n = Len(scan.found)
      BY <2>3 DEF Lists, ListLen
    <3>2. n \in Nat \ {0}
      BY <1>4, <2>3, <3>1, EmptySeq
    <3> HIDE DEF n
    <3>a. DevSpan \in Int
      BY <1>3
    <3>3. k = IF n <= DevSpan THEN n ELSE DevSpan
      BY <1>5, <3>a, OfTwo
    <3> HIDE DEF k
    <3>4. at0 < n
      BY <1>3, <3>1, <3>2, <3>3
    <3> QED BY <2>1, <2>2, <2>3, <3>1, <3>4
  <2>4. CASE Mode = "results" /\ scan.found = <<>>
    BY <2>1, <2>2, <2>4
  <2>5. CASE Mode = "confirm"
    <3>1. devs.mode = "confirm" /\ ~Lists /\ scan.found # <<>>
      BY <2>1, <2>5 DEF Mode, Lists, Gone
    <3> QED BY <1>1, <2>1, <2>2, <3>1 DEF ResultsTyped
  <2> QED BY <1>9, <2>1, <2>3, <2>4, <2>5
<1>10. ResultsTyped(DevicesClamped, scan)
  <2> HIDE DEF m, at0
  <2> QED BY <1>8, <1>9 DEF ResultsTyped
<1> QED BY <1>1, <1>8, <1>10 DEF DevsDrawn

LEMMA DrawTyped ==
  ASSUME TInv, SInv, Draw
  PROVE  TInv'
<1>1. LoopTyped(at', scene', burst')
  <2>1. MaxBurst[scene] \in Nat
    <3>1. scene \in DOMAIN Scenes
      BY DEF TInv, LoopTyped
    <3> QED BY <3>1, SceneAssumption
  <2> QED BY <2>1 DEF TInv, LoopTyped, Draw
<1>2. NavTyped(nav')
  BY DEF TInv, NavTyped, Draw
<1>3. PanelTyped(panel')
  <2>1. Current \in ScreenIds
    BY NestedTop DEF SInv, NavSound, Current
  <2>2. panel' = [on |-> Current, show |-> Frame, link |-> net.link, torn |-> FALSE]
    BY DEF Draw
  <2> QED BY <2>1, <2>2 DEF PanelTyped
<1>4. CurTyped(cur') /\ CtlTyped(ctl') /\ DevsTyped(devs') /\ ResultsTyped(devs', scan)
  BY CurDrawnTyped, CtlDrawnTyped, DevsDrawnTyped DEF Draw, TInv
<1>5. UNCHANGED <<scene, scan, store, set, queue, ac, net, spent>>
  BY DEF Draw, world
<1>6. /\ ScanTyped(scan') /\ ResultsTyped(devs', scan') /\ StoreTyped(store') /\ SetTyped(set')
      /\ QueueTyped(queue') /\ AcTyped(ac') /\ NetTyped(net') /\ SpentTyped(spent', scene')
  BY <1>4, <1>5 DEF TInv
<1> QED BY <1>1, <1>2, <1>3, <1>4, <1>6, Assembled

-----------------------------------------------------------------------------
(* The loop. *)

LEMMA PressTyped ==
  ASSUME TInv, NEW b \in Buttons, Press(b)
  PROVE  TInv'
<1>0. /\ LoopTyped(at, scene, burst) /\ NavTyped(nav) /\ PanelTyped(panel) /\ CurTyped(cur)
      /\ CtlTyped(ctl) /\ DevsTyped(devs) /\ ScanTyped(scan) /\ ResultsTyped(devs, scan)
      /\ StoreTyped(store) /\ SetTyped(set) /\ QueueTyped(queue) /\ AcTyped(ac) /\ NetTyped(net)
      /\ SpentTyped(spent, scene)
  BY DEF TInv
<1>1. Handles(b) /\ burst < MaxBurst[scene] /\ burst' = burst + 1 /\ scene' = scene
  BY DEF Press
<1>2. ASSUME at' \in {at, "boot", "provision"} PROVE LoopTyped(at', scene', burst')
  <2>1. MaxBurst[scene] \in Nat
    <3>1. scene \in DOMAIN Scenes
      BY <1>0 DEF LoopTyped
    <3> QED BY <3>1, SceneAssumption
  <2> QED BY <1>0, <1>1, <1>2, <2>1 DEF LoopTyped
<1>3. CASE ControlButton(b) /\ UNCHANGED at
  <2>1. UNCHANGED <<scene, cur, devs, scan, store, ac, net>>
    BY <1>1, <1>3 DEF ControlButton
  <2>2. ControlTypes
    BY <1>3, ControlTyped
  <2>3. SpentTyped(spent', scene')
    BY <2>1, <2>2 DEF ControlTypes
  <2>4. LoopTyped(at', scene', burst')
    BY <1>2, <1>3
  <2>5. /\ CurTyped(cur') /\ DevsTyped(devs') /\ ScanTyped(scan') /\ ResultsTyped(devs', scan')
        /\ StoreTyped(store') /\ AcTyped(ac') /\ NetTyped(net')
    BY <1>0, <2>1
  <2> QED BY <2>2, <2>3, <2>4, <2>5, Assembled DEF ControlTypes
<1>4. CASE DevicesButton(b)
  <2>1. UNCHANGED <<scene, panel, cur, ctl, set, queue, ac, net, spent>>
    BY <1>1, <1>4 DEF DevicesButton
  <2>2. DevicesTypes
    BY <1>4, DevicesTyped
  <2>3. LoopTyped(at', scene', burst')
    BY <1>2, <2>2 DEF DevicesTypes
  <2>4. /\ PanelTyped(panel') /\ CurTyped(cur') /\ CtlTyped(ctl') /\ SetTyped(set')
        /\ QueueTyped(queue') /\ AcTyped(ac') /\ NetTyped(net') /\ SpentTyped(spent', scene')
    BY <1>0, <2>1
  <2> QED BY <2>2, <2>3, <2>4, Assembled DEF DevicesTypes
<1>5. CASE SettingsButton(Aliased(b)) /\ UNCHANGED <<panel, ctl, store, queue, ac, net, ghost>>
  <2>1. /\ CurTyped(cur') /\ NavTyped(nav') /\ SetTyped(set') /\ SpentTyped(spent', scene)
        /\ DevsTyped(devs') /\ ScanTyped(scan') /\ ResultsTyped(devs', scan')
        /\ at' \in {at, "provision"}
    BY <1>5, SettingsTyped
  <2>2. LoopTyped(at', scene', burst') /\ SpentTyped(spent', scene')
    BY <1>1, <1>2, <2>1
  <2>3. PanelTyped(panel') /\ CtlTyped(ctl') /\ StoreTyped(store') /\ QueueTyped(queue')
        /\ AcTyped(ac') /\ NetTyped(net')
    BY <1>0, <1>5
  <2> QED BY <2>1, <2>2, <2>3, Assembled
<1>6. CASE /\ NetworksButton(Aliased(b))
           /\ UNCHANGED <<at, panel, ctl, devs, scan, store, queue, ac, ghost>>
  <2>1. CurTyped(cur') /\ NavTyped(nav') /\ SetTyped(set') /\ SpentTyped(spent', scene) /\ NetTyped(net')
    BY <1>6, NetworksTyped
  <2>2. LoopTyped(at', scene', burst') /\ SpentTyped(spent', scene')
    BY <1>1, <1>2, <1>6, <2>1
  <2>3. /\ PanelTyped(panel') /\ CtlTyped(ctl') /\ DevsTyped(devs') /\ ScanTyped(scan')
        /\ ResultsTyped(devs', scan') /\ StoreTyped(store') /\ QueueTyped(queue') /\ AcTyped(ac')
    BY <1>0, <1>6
  <2> QED BY <2>1, <2>2, <2>3, Assembled
<1>7. CASE /\ CaptiveLoginButton(b)
           /\ UNCHANGED <<at, panel, uiState, scan, store, set, queue, ac, spent, ghost>>
  <2>1. NavTyped(nav') /\ NetTyped(net')
    BY <1>7, PromptTyped
  <2>2. LoopTyped(at', scene', burst')
    BY <1>2, <1>7
  <2>3. /\ PanelTyped(panel') /\ CurTyped(cur') /\ CtlTyped(ctl') /\ DevsTyped(devs') /\ ScanTyped(scan')
        /\ ResultsTyped(devs', scan') /\ StoreTyped(store') /\ SetTyped(set') /\ QueueTyped(queue')
        /\ AcTyped(ac') /\ SpentTyped(spent', scene')
    BY <1>0, <1>1, <1>7 DEF uiState
  <2> QED BY <2>1, <2>2, <2>3, Assembled
<1>8. CASE Passive(b) /\ UNCHANGED <<at, panel, ctl, devs, world, spent, ghost>>
  <2>1. CurTyped(cur') /\ NavTyped(nav')
    BY <1>8, PassiveTyped
  <2>2. LoopTyped(at', scene', burst')
    BY <1>2, <1>8
  <2>3. /\ PanelTyped(panel') /\ CtlTyped(ctl') /\ DevsTyped(devs') /\ ScanTyped(scan')
        /\ ResultsTyped(devs', scan') /\ StoreTyped(store') /\ SetTyped(set') /\ QueueTyped(queue')
        /\ AcTyped(ac') /\ NetTyped(net') /\ SpentTyped(spent', scene')
    BY <1>0, <1>1, <1>8 DEF world
  <2> QED BY <2>1, <2>2, <2>3, Assembled
<1>9. CASE at' = "boot" /\ UNCHANGED <<nav, panel, uiState, world, spent, ghost>>
  <2>1. LoopTyped(at', scene', burst')
    BY <1>2, <1>9
  <2>2. /\ NavTyped(nav') /\ PanelTyped(panel') /\ CurTyped(cur') /\ CtlTyped(ctl') /\ DevsTyped(devs')
        /\ ScanTyped(scan') /\ ResultsTyped(devs', scan') /\ StoreTyped(store') /\ SetTyped(set')
        /\ QueueTyped(queue') /\ AcTyped(ac') /\ NetTyped(net') /\ SpentTyped(spent', scene')
    BY <1>0, <1>1, <1>9 DEF world, uiState
  <2> QED BY <2>1, <2>2, Assembled
<1> QED BY <1>1, <1>3, <1>4, <1>5, <1>6, <1>7, <1>8, <1>9 DEF Handles

LEMMA PolledTyped ==
  ASSUME ScanTyped(scan)
  PROVE  ScanTyped([Polled(scan) EXCEPT !.edge = FALSE])
<1> DEFINE found == FoldLeft(Handled, scan.found, scan.rx)
           rounds == IF scan.rounds < ProbeRounds /\ scan.clock >= scan.rounds
                     THEN scan.rounds + 1 ELSE scan.rounds
           drained == [scan EXCEPT !.found = found, !.rx = <<>>, !.rounds = rounds]
<1>1. found \in Tables
  BY HandledAll DEF ScanTyped
<1>2. rounds \in Nat /\ <<>> \in Seq(Datagrams)
  BY DEF ScanTyped
<1>3. Polled(scan) = IF ~scan.on THEN scan ELSE IF scan.clock = Window THEN Ended(drained, TRUE) ELSE drained
  BY DEF Polled
<1> HIDE DEF found, rounds
<1>4. ScanTyped(drained)
  BY <1>1, <1>2 DEF ScanTyped
<1>5. \A edge \in BOOLEAN : \A s : ScanTyped(s) => ScanTyped([Ended(s, edge) EXCEPT !.edge = FALSE])
                                     /\ ScanTyped([s EXCEPT !.edge = FALSE])
  BY <1>2 DEF ScanTyped, Ended
<1> HIDE DEF drained
<1> QED BY <1>3, <1>4, <1>5

LEMMA ServicesTyped ==
  ASSUME TInv, Services
  PROVE  TInv'
<1>0. /\ LoopTyped(at, scene, burst) /\ NavTyped(nav) /\ PanelTyped(panel) /\ CurTyped(cur)
      /\ CtlTyped(ctl) /\ DevsTyped(devs) /\ ScanTyped(scan) /\ ResultsTyped(devs, scan)
      /\ StoreTyped(store) /\ SetTyped(set) /\ QueueTyped(queue) /\ AcTyped(ac) /\ NetTyped(net)
      /\ SpentTyped(spent, scene)
  BY DEF TInv
<1>1. LoopTyped(at', scene', burst')
  BY <1>0 DEF Services, LoopTyped
<1>2. NavTyped(nav')
  <2> DEFINE n == AfterPrompt(AfterLogin)
             now == edges \cup (IF Polled(scan).edge THEN {"scan"} ELSE {})
  <2>1. \A m : NavTyped(m) => /\ NavTyped(Repainted(m)) /\ NavTyped([m EXCEPT !.watts = ac.ext.watts])
                             /\ NavTyped(Popped(m)) /\ \A s : NavTyped(Pushed(m, s))
    BY DEF NavTyped, Repainted, Popped, Pushed
  <2>2. NavTyped(n)
    BY <1>0, <2>1 DEF AfterPrompt, AfterLogin
  <2>3. nav' = CASE PowerMoved(n) -> Repainted([n EXCEPT !.watts = ac.ext.watts])
                 [] ~PowerMoved(n) /\ now \cap Wanted # {} -> Repainted(n)
                 [] OTHER -> n
    BY Zenon DEF Services
  <2> HIDE DEF n, now
  <2>4. nav' \in {Repainted([n EXCEPT !.watts = ac.ext.watts]), Repainted(n), n}
    BY <2>3, Zenon
  <2> QED BY <2>1, <2>2, <2>4
<1>3. /\ scan' = [Polled(scan) EXCEPT !.edge = FALSE]
      /\ UNCHANGED <<scene, panel, cur, devs, store, set, queue, ac, net, spent>>
  BY DEF Services
<1>4. CtlTyped(ctl')
  <2>1. ac.state \in AcStates
    BY <1>0 DEF AcTyped
  <2>2. ctl' = ctl \/ ctl' = [ctl EXCEPT !.desired = ac.state]
    BY DEF Services
  <2> QED BY <1>0, <2>1, <2>2 DEF CtlTyped
<1>5. ScanTyped(scan')
  BY <1>0, <1>3, PolledTyped
<1>6. ResultsTyped(devs', scan')
  <2>1. ASSUME ~scan.on PROVE scan'.on = scan.on /\ scan'.found = scan.found
    BY <1>0, <1>3, <2>1 DEF Polled, ScanTyped
  <2> QED BY <1>0, <1>3, <2>1 DEF ResultsTyped
<1>7. /\ PanelTyped(panel') /\ CurTyped(cur') /\ DevsTyped(devs') /\ StoreTyped(store') /\ SetTyped(set')
      /\ QueueTyped(queue') /\ AcTyped(ac') /\ NetTyped(net') /\ SpentTyped(spent', scene')
  BY <1>0, <1>3
<1> QED BY <1>1, <1>2, <1>4, <1>5, <1>6, <1>7, Assembled

LEMMA BlankTypes ==
  /\ CtlTyped(BlankCtl) /\ DevsTyped(BlankDevs) /\ ScanTyped(NoScan) /\ QueueTyped(<<>>)
  /\ CurTyped(BlankCur) /\ AcTyped(BlankAc) /\ BlankDevs.mode = "saved"
  /\ \A c \in CapAnswers \cup {None} : AcTyped([BlankAc EXCEPT !.caps = c])
  /\ \A l \in {"connected", "connecting", "disabled"} : NetTyped(BlankNet(l))
  /\ \A h \in 0..3, v \in 0..1 : CurTyped([BlankCur EXCEPT !.home = h, !.settings = v])
<1>1. BlankState \in AcStates
  BY DEF BlankState, AcStates, Byte
<1>2. CtlTyped(BlankCtl)
  <2> DEFINE l == Len(LookedAt)
  <2>1. l \in Nat \ {0}
    BY RowsTyped
  <2> HIDE DEF l
  <2>2. 0 \in 0..(l - 1)
    BY <2>1
  <2> QED BY <1>1, <2>2 DEF CtlTyped, BlankCtl, l
<1>3. DevsTyped(BlankDevs) /\ BlankDevs.mode = "saved"
  <2>1. DevSpan \in Nat \ {0}
    BY UiAssumption
  <2>2. 0 \in 0..(DevSpan - 1) /\ 1 \in 1..DevSpan
    BY <2>1
  <2> QED BY <2>2 DEF DevsTyped, BlankDevs, DeviceModes, Notes
<1>4. ScanTyped(NoScan)
  <2>1. <<>> \in Seq(Datagrams) /\ <<>> \in Tables
    <3>1. <<>> \in Seq(Found) /\ Len(<<>>) = 0 /\ MaxResults \in Nat
      BY UiAssumption
    <3> QED BY <3>1 DEF Tables
  <2> QED BY <2>1 DEF ScanTyped, NoScan
<1>5. QueueTyped(<<>>)
  <2>1. QueueDepth \in Nat /\ Len(<<>>) = 0
    BY UiAssumption
  <2> QED BY <2>1 DEF QueueTyped
<1>6. CurTyped(BlankCur)
  <2>1. Networks \in Nat \ {0} /\ LicenseCount \in Nat \ {0} /\ LicensesMax \in Nat
    BY Texts, Clamps, UiAssumption
  <2>2. 0 \in 0..(Networks - 1) /\ 0 \in 0..(LicenseCount - 1) /\ 0 <= LicensesMax
    BY <2>1
  <2> QED BY <2>2 DEF CurTyped, BlankCur
<1>7. \A h \in 0..3, v \in 0..1 : CurTyped([BlankCur EXCEPT !.home = h, !.settings = v])
  <2> DEFINE c == BlankCur
  <2>1. CurTyped(c)
    BY <1>6
  <2> HIDE DEF c
  <2>2. ASSUME NEW h \in 0..3, NEW v \in 0..1 PROVE CurTyped([c EXCEPT !.home = h, !.settings = v])
    <3>1. v \in 0..5
      OBVIOUS
    <3> QED BY <2>1, <3>1 DEF CurTyped
  <2> QED BY <2>2 DEF c
<1>8. AcTyped(BlankAc) /\ \A c \in CapAnswers \cup {None} : AcTyped([BlankAc EXCEPT !.caps = c])
  BY <1>1 DEF AcTyped, BlankAc
<1>9. \A l \in {"connected", "connecting", "disabled"} : NetTyped(BlankNet(l))
  BY DEF NetTyped, BlankNet
<1> QED BY <1>2, <1>3, <1>4, <1>5, <1>6, <1>7, <1>8, <1>9

LEMMA BootTyped ==
  ASSUME TInv, Boot
  PROVE  TInv'
<1>0. /\ LoopTyped(at, scene, burst) /\ PanelTyped(panel) /\ StoreTyped(store) /\ SetTyped(set)
      /\ AcTyped(ac) /\ SpentTyped(spent, scene)
  BY DEF TInv
<1>1. LoopTyped(at', scene', burst')
  <2>1. MaxBurst[scene] \in Nat
    <3>1. scene \in DOMAIN Scenes
      BY <1>0 DEF LoopTyped
    <3> QED BY <3>1, SceneAssumption
  <2> QED BY <1>0, <2>1 DEF Boot, LoopTyped
<1>2. NavTyped(nav')
  BY DEF Boot, NavTyped
<1>3. StoreTyped(store')
  BY <1>0 DEF Boot, StoreTyped
<1>4. SetTyped(set')
  <2>1. (at = "provision") \in BOOLEAN
    OBVIOUS
  <2> QED BY <1>0, <2>1 DEF Boot, SetTyped
<1>5. AcTyped(ac')
  <2>1. ac.caps \in CapAnswers \cup {None}
    BY <1>0 DEF AcTyped
  <2>3. ac' \in {BlankAc, [BlankAc EXCEPT !.caps = ac.caps]}
    BY DEF Boot
  <2> QED BY <2>1, <2>3, BlankTypes
<1>6. NetTyped(net')
  <2>1. net' = BlankNet("connecting") \/ net' = BlankNet("disabled")
    BY DEF Boot
  <2> QED BY <2>1, BlankTypes
<1>7. /\ cur' = BlankCur /\ ctl' = BlankCtl /\ devs' = BlankDevs /\ scan' = NoScan /\ queue' = <<>>
      /\ UNCHANGED <<scene, panel, spent>>
  BY DEF Boot
<1>8. /\ CurTyped(cur') /\ CtlTyped(ctl') /\ DevsTyped(devs') /\ ScanTyped(scan') /\ QueueTyped(queue')
      /\ ResultsTyped(devs', scan')
  BY <1>7, BlankTypes DEF ResultsTyped
<1>9. PanelTyped(panel') /\ SpentTyped(spent', scene')
  BY <1>0, <1>7
<1> QED BY <1>1, <1>2, <1>3, <1>4, <1>5, <1>6, <1>8, <1>9, Assembled

-----------------------------------------------------------------------------
(* The services and the network. *)

LEMMA PublishTyped ==
  ASSUME AcTyped(ac)
  PROVE  /\ \A st \in AcStates : Publish(st) => AcTyped(ac')
         /\ \A values : PublishProps(values) => AcTyped(ac')
<1>1. ASSUME NEW st \in AcStates, Publish(st) PROVE AcTyped(ac')
  BY <1>1 DEF Publish, AcTyped
<1>2. ASSUME NEW values, PublishProps(values) PROVE AcTyped(ac')
  <2>1. ac' = [ac EXCEPT !.props = ApplyProperties(ac.props, values)]
    BY <1>2 DEF PublishProps
  <2> QED BY <2>1 DEF AcTyped
<1> QED BY <1>1, <1>2

LEMMA StatesTyped == \A st \in States : st \in AcStates
BY ParsedState, PayloadAssumption DEF States

LEMMA AnswersTyped ==
  ASSUME AcTyped(ac), QueueTyped(queue), Acknowledged
  PROVE  AcTyped(ac') /\ QueueTyped(queue')
<1> DEFINE c == Head(queue)
<1>1. queue \in Seq(Orders) /\ queue # <<>> /\ queue' = Tail(queue) /\ Len(queue) <= QueueDepth
  BY DEF Acknowledged, QueueTyped
<1>2. c \in Orders
  BY <1>1, HeadTailProperties
<1>3. QueueTyped(queue')
  <2>1. Tail(queue) \in Seq(Orders) /\ Len(Tail(queue)) = Len(queue) - 1 /\ Len(queue) \in Nat
    BY <1>1, HeadTailProperties
  <2>2. QueueDepth \in Nat
    BY UiAssumption
  <2> QED BY <1>1, <2>1, <2>2 DEF QueueTyped
<1>4. ac.state \in AcStates
  BY DEF AcTyped
<1> HIDE DEF c
<1>5. CASE c.kind = "set"
  <2>1. Publish(DeviceReads(SetState(c.st, set.beep), ac.state.display))
    BY <1>5, Zenon DEF Acknowledged, c
  <2>2. c.st \in AcStates
    BY <1>2, <1>5 DEF Orders
  <2>3. ac.state.display \in BOOLEAN
    BY <1>4 DEF AcStates
  <2>4. DeviceReads(SetState(c.st, set.beep), ac.state.display) \in AcStates
    BY <2>2, <2>3, DeviceRead
  <2> QED BY <1>3, <2>1, <2>4, PublishTyped
<1>6. CASE c.kind = "toggle"
  <2>1. Publish([ac.state EXCEPT !.display = ~@])
    BY <1>6 DEF Acknowledged, c
  <2>2. [ac.state EXCEPT !.display = ~@] \in AcStates
    BY <1>4 DEF AcStates
  <2> QED BY <1>3, <2>1, <2>2, PublishTyped
<1>7. CASE c.kind = "prop"
  <2>1. PublishProps(ParseProperties(DeviceAnswers(SetProperty(c.prop, c.value))))
    BY <1>7 DEF Acknowledged, c
  <2> QED BY <1>3, <2>1, PublishTyped
<1>8. CASE c.kind = "beep"
  <2>1. ac' = ac
    BY <1>8 DEF Acknowledged, c
  <2> QED BY <1>3, <2>1 DEF AcTyped
<1>9. c.kind \in {"set", "toggle", "prop", "beep"}
  BY <1>2 DEF Orders
<1> QED BY <1>5, <1>6, <1>7, <1>8, <1>9

LEMMA AcNewsTyped ==
  ASSUME TInv, StateArrives \/ PropsArrive \/ GroupArrives \/ SessionEnds \/ CapsArrive \/ Acknowledged
  PROVE  TInv'
<1>0. /\ LoopTyped(at, scene, burst) /\ NavTyped(nav) /\ PanelTyped(panel) /\ CurTyped(cur)
      /\ CtlTyped(ctl) /\ DevsTyped(devs) /\ ScanTyped(scan) /\ ResultsTyped(devs, scan)
      /\ StoreTyped(store) /\ SetTyped(set) /\ QueueTyped(queue) /\ AcTyped(ac) /\ NetTyped(net)
      /\ SpentTyped(spent, scene)
  BY DEF TInv
<1>1. ASSUME OnlyAc, AcTyped(ac'), QueueTyped(queue'), SpentTyped(spent', scene) PROVE TInv'
  <2>1. UNCHANGED <<at, scene, nav, burst, panel, cur, ctl, devs, scan, store, set, net>>
    BY <1>1 DEF OnlyAc, uiState
  <2>2. SpentTyped(spent', scene')
    BY <1>1, <2>1
  <2> HIDE DEF OnlyAc
  <2>3. /\ LoopTyped(at', scene', burst') /\ NavTyped(nav') /\ PanelTyped(panel') /\ CurTyped(cur')
        /\ CtlTyped(ctl') /\ DevsTyped(devs') /\ ScanTyped(scan') /\ ResultsTyped(devs', scan')
        /\ StoreTyped(store') /\ SetTyped(set') /\ NetTyped(net')
    BY <1>0, <2>1
  <2> QED BY <1>1, <2>2, <2>3, Assembled
<1>2. ASSUME OnlyAc, AcTyped(ac'), UNCHANGED queue, Spend("news", MaxNews) PROVE TInv'
  <2>1. SpentTyped(spent', scene)
    BY <1>0, <1>2, SpendTyped
  <2>2. QueueTyped(queue')
    BY <1>0, <1>2
  <2> QED BY <1>1, <1>2, <2>1, <2>2
<1>3. CASE StateArrives
  <2>1. PICK st \in States : Publish(st) /\ OnlyAc /\ UNCHANGED queue /\ Spend("news", MaxNews)
    BY <1>3 DEF StateArrives
  <2>2. AcTyped(ac')
    BY <1>0, <2>1, StatesTyped, PublishTyped
  <2> QED BY <1>2, <2>1, <2>2
<1>4. CASE PropsArrive
  <2>1. PICK values : PublishProps(values) /\ OnlyAc /\ UNCHANGED queue /\ Spend("news", MaxNews)
    BY <1>4 DEF PropsArrive
  <2>2. AcTyped(ac')
    BY <1>0, <2>1, PublishTyped
  <2> QED BY <1>2, <2>1, <2>2
<1>5. CASE GroupArrives
  <2>1. PICK ext : ac' = [ac EXCEPT !.ext = ext] /\ OnlyAc /\ UNCHANGED queue /\ Spend("news", MaxNews)
    BY <1>5 DEF GroupArrives
  <2>2. AcTyped(ac')
    BY <1>0, <2>1 DEF AcTyped
  <2> QED BY <1>2, <2>1, <2>2
<1>6. CASE SessionEnds
  <2>1. ac' = [ac EXCEPT !.up = FALSE] /\ OnlyAc /\ UNCHANGED queue /\ Spend("news", MaxNews)
    BY <1>6 DEF SessionEnds
  <2>2. AcTyped(ac')
    BY <1>0, <2>1 DEF AcTyped
  <2> QED BY <1>2, <2>1, <2>2
<1>7. CASE CapsArrive
  <2>1. PICK caps \in CapAnswers : /\ ac' = [ac EXCEPT !.caps = caps] /\ OnlyAc /\ UNCHANGED queue
                                   /\ Spend("news", MaxNews)
    BY <1>7 DEF CapsArrive
  <2>2. AcTyped(ac')
    BY <1>0, <2>1 DEF AcTyped
  <2> QED BY <1>2, <2>1, <2>2
<1>8. CASE Acknowledged
  <2>1. OnlyAc /\ UNCHANGED spent
    BY <1>8 DEF Acknowledged
  <2>2. AcTyped(ac') /\ QueueTyped(queue')
    BY <1>0, <1>8, AnswersTyped
  <2>3. SpentTyped(spent', scene)
    BY <1>0, <2>1
  <2> QED BY <1>1, <2>1, <2>2, <2>3
<1> QED BY <1>3, <1>4, <1>5, <1>6, <1>7, <1>8

LEMMA NetNewsTyped ==
  ASSUME TInv, LinkMoves \/ VerdictArrives \/ TunnelMoves \/ PromptDue \/ WeatherArrives \/ LoginEnds
  PROVE  TInv'
<1>0. /\ LoopTyped(at, scene, burst) /\ NavTyped(nav) /\ PanelTyped(panel) /\ CurTyped(cur)
      /\ CtlTyped(ctl) /\ DevsTyped(devs) /\ ScanTyped(scan) /\ ResultsTyped(devs, scan)
      /\ StoreTyped(store) /\ SetTyped(set) /\ QueueTyped(queue) /\ AcTyped(ac) /\ NetTyped(net)
      /\ SpentTyped(spent, scene)
  BY DEF TInv
<1>1. ASSUME UNCHANGED <<at, scene, nav, burst, panel, uiState, scan, store, queue, ac>>,
             NetTyped(net'), SetTyped(set'), SpentTyped(spent', scene)
      PROVE  TInv'
  <2>1. /\ LoopTyped(at', scene', burst') /\ NavTyped(nav') /\ PanelTyped(panel') /\ CurTyped(cur')
        /\ CtlTyped(ctl') /\ DevsTyped(devs') /\ ScanTyped(scan') /\ ResultsTyped(devs', scan')
        /\ StoreTyped(store') /\ QueueTyped(queue') /\ AcTyped(ac') /\ SpentTyped(spent', scene')
    BY <1>0, <1>1 DEF uiState
  <2> QED BY <1>1, <2>1, Assembled
<1>2. ASSUME NEW where, NEW scenes, NEW edge, NEW n, NEW s, News(where, scenes, edge, n, s),
             NetTyped(n), SetTyped(s)
      PROVE  TInv'
  <2>1. SpentTyped(spent', scene)
    BY <1>0, <1>2, SpendTyped DEF News
  <2> QED BY <1>1, <1>2, <2>1 DEF News
<1>3. CASE LinkMoves
  <2>1. PICK link \in {"connected", "connecting", "lost"} :
          News(Ticked, {"home", "settings", "devices", "about"}, "link", [net EXCEPT !.link = link], set)
    BY <1>3 DEF LinkMoves
  <2>2. NetTyped([net EXCEPT !.link = link])
    BY <1>0 DEF NetTyped
  <2> QED BY <1>0, <1>2, <2>1, <2>2
<1>4. CASE VerdictArrives
  <2>1. PICK verdict \in {"open", "portal"} :
          News(Ticked, {"settings"}, "verdict", net, [set EXCEPT !.verdicts[set.active] = verdict])
    BY <1>4 DEF VerdictArrives
  <2>2. SetTyped([set EXCEPT !.verdicts[set.active] = verdict])
    BY <1>0 DEF SetTyped
  <2> QED BY <1>0, <1>2, <2>1, <2>2
<1>5. CASE TunnelMoves
  <2>1. PICK tunnel \in {"waiting", "up"} :
          News(Ticked, {"settings"}, "wg", [net EXCEPT !.tunnel = tunnel], set)
    BY <1>5 DEF TunnelMoves
  <2>2. NetTyped([net EXCEPT !.tunnel = tunnel])
    BY <1>0 DEF NetTyped
  <2> QED BY <1>0, <1>2, <2>1, <2>2
<1>6. CASE PromptDue
  BY <1>0, <1>2, <1>6 DEF PromptDue
<1>7. CASE WeatherArrives
  <2>1. NetTyped([net EXCEPT !.weather = @ + 1])
    BY <1>0 DEF NetTyped
  <2> QED BY <1>0, <1>2, <1>7, <2>1 DEF WeatherArrives
<1>8. CASE LoginEnds
  <2>1. NetTyped(net')
    BY <1>0, <1>8 DEF LoginEnds, NetTyped
  <2>2. SetTyped(set') /\ SpentTyped(spent', scene)
    BY <1>0, <1>8 DEF LoginEnds
  <2> QED BY <1>1, <1>8, <2>1, <2>2 DEF LoginEnds
<1> QED BY <1>3, <1>4, <1>5, <1>6, <1>7, <1>8

LEMMA ScanNewsTyped ==
  ASSUME TInv, TimePasses \/ ReplyArrives
  PROVE  TInv'
<1>0. /\ LoopTyped(at, scene, burst) /\ NavTyped(nav) /\ PanelTyped(panel) /\ CurTyped(cur)
      /\ CtlTyped(ctl) /\ DevsTyped(devs) /\ ScanTyped(scan) /\ ResultsTyped(devs, scan)
      /\ StoreTyped(store) /\ SetTyped(set) /\ QueueTyped(queue) /\ AcTyped(ac) /\ NetTyped(net)
      /\ SpentTyped(spent, scene)
  BY DEF TInv
<1>1. UNCHANGED <<at, scene, nav, burst, panel, uiState, store, set, queue, ac, net>>
  BY DEF TimePasses, ReplyArrives
<1>2. SpentTyped(spent', scene)
  BY <1>0, SpendTyped DEF TimePasses, ReplyArrives
<1>3. ScanTyped(scan') /\ ResultsTyped(devs', scan')
  <2>1. CASE TimePasses
    <3>1. scan' = [scan EXCEPT !.clock = scan.clock + 1] /\ scan.on /\ devs' = devs
      BY <2>1 DEF TimePasses, uiState
    <3>2. scan.clock + 1 \in Nat
      BY <1>0 DEF ScanTyped
    <3>3. ScanTyped(scan')
      BY <1>0, <3>1, <3>2 DEF ScanTyped
    <3> QED BY <1>0, <3>1, <3>3 DEF ResultsTyped
  <2>2. CASE ReplyArrives
    <3>1. PICK d \in Datagrams : scan' = [scan EXCEPT !.rx = Append(scan.rx, d)] /\ scan.on /\ devs' = devs
      BY <2>2 DEF ReplyArrives, uiState
    <3>2. Append(scan.rx, d) \in Seq(Datagrams)
      BY <1>0, AppendProperties DEF ScanTyped
    <3> QED BY <1>0, <3>1, <3>2 DEF ScanTyped, ResultsTyped
  <2> QED BY <2>1, <2>2
<1>4. /\ LoopTyped(at', scene', burst') /\ NavTyped(nav') /\ PanelTyped(panel') /\ CurTyped(cur')
      /\ CtlTyped(ctl') /\ DevsTyped(devs') /\ StoreTyped(store') /\ SetTyped(set')
      /\ QueueTyped(queue') /\ AcTyped(ac') /\ NetTyped(net') /\ SpentTyped(spent', scene')
  BY <1>0, <1>1, <1>2 DEF uiState
<1> QED BY <1>3, <1>4, Assembled

LEMMA NavOnlyTyped ==
  ASSUME TInv, PowerDown \/ PowerTap \/ IdleRefresh \/ PowerHeld \/ NoDraw
  PROVE  TInv'
<1>0. /\ LoopTyped(at, scene, burst) /\ NavTyped(nav) /\ PanelTyped(panel) /\ CurTyped(cur)
      /\ CtlTyped(ctl) /\ DevsTyped(devs) /\ ScanTyped(scan) /\ ResultsTyped(devs, scan)
      /\ StoreTyped(store) /\ SetTyped(set) /\ QueueTyped(queue) /\ AcTyped(ac) /\ NetTyped(net)
      /\ SpentTyped(spent, scene)
  BY DEF TInv
<1>1. UNCHANGED <<scene, cur, ctl, devs, scan, store, set, queue, ac, net, spent>>
  BY DEF PowerDown, PowerTap, IdleRefresh, PowerHeld, NoDraw, NavOnly, uiState, world
<1>2. NavTyped(nav')
  <2>1. nav' \in {nav, [nav EXCEPT !.power = TRUE], Repainted([nav EXCEPT !.power = FALSE]), Repainted(nav)}
    BY DEF PowerDown, PowerTap, IdleRefresh, PowerHeld, NoDraw, NavOnly
  <2> QED BY <1>0, <2>1 DEF NavTyped, Repainted
<1>3. PanelTyped(panel')
  <2>1. panel' = panel \/ panel' = [panel EXCEPT !.on = "Off", !.show = [off |-> TRUE]]
    BY DEF PowerDown, PowerTap, IdleRefresh, PowerHeld, NoDraw, NavOnly
  <2> QED BY <1>0, <2>1 DEF PanelTyped
<1>4. LoopTyped(at', scene', burst')
  <2>1. MaxBurst[scene] \in Nat
    <3>1. scene \in DOMAIN Scenes
      BY <1>0 DEF LoopTyped
    <3> QED BY <3>1, SceneAssumption
  <2>2. at' \in {at, "off", "services"} /\ burst' \in {burst, 0} /\ scene' = scene
    BY DEF PowerDown, PowerTap, IdleRefresh, PowerHeld, NoDraw, NavOnly
  <2> QED BY <1>0, <2>1, <2>2 DEF LoopTyped
<1>5. /\ CurTyped(cur') /\ CtlTyped(ctl') /\ DevsTyped(devs') /\ ScanTyped(scan')
      /\ ResultsTyped(devs', scan') /\ StoreTyped(store') /\ SetTyped(set') /\ QueueTyped(queue')
      /\ AcTyped(ac') /\ NetTyped(net') /\ SpentTyped(spent', scene')
  BY <1>0, <1>1
<1> QED BY <1>2, <1>3, <1>4, <1>5, Assembled

LEMMA NextTyped == TInv /\ SInv /\ [Next]_vars => TInv'
<1> SUFFICES ASSUME TInv, SInv, [Next]_vars PROVE TInv'
  OBVIOUS
<1>1. CASE UNCHANGED vars
  BY <1>1, TypesKept
<1>2. ASSUME NEW b \in Buttons, Press(b) PROVE TInv'
  BY <1>2, PressTyped
<1>3. CASE World
  BY <1>3, AcNewsTyped, NetNewsTyped, ScanNewsTyped DEF World
<1> QED BY <1>1, <1>2, <1>3, NavOnlyTyped, DrawTyped, ServicesTyped, BootTyped
        DEF Next, Tick, EndTick

-----------------------------------------------------------------------------
(* Every step and the first state. *)

LEMMA InitTyped == Init => TInv
<1> SUFFICES ASSUME Init PROVE TInv
  OBVIOUS
<1>1. scene \in {"control", "devices", "settings", "home", "about", "cached"} /\ scene \in DOMAIN Scenes
  BY DEF Init, Scenes
<1>2. \A b \in {MaxBurst, MaxEdits, MaxNews} : b[scene] \in Nat
  BY <1>1, SceneAssumption
<1>3. LoopTyped(at, scene, burst)
  BY <1>1, <1>2 DEF Init, LoopTyped
<1>4. NavTyped(nav) /\ PanelTyped(panel)
  BY DEF Init, NavTyped, PanelTyped, ScreenIds
<1>5. CurTyped(cur)
  <2> DEFINE h == IF scene = "home" THEN 0
                  ELSE IF scene \in {"control", "cached"} THEN 1
                  ELSE IF scene = "about" THEN 3 ELSE 2
             v == IF scene = "devices" THEN 1 ELSE 0
  <2>1. h \in 0..3 /\ v \in 0..1
    OBVIOUS
  <2>2. cur = [BlankCur EXCEPT !.home = h, !.settings = v]
    BY Zenon DEF Init
  <2> HIDE DEF h, v
  <2> QED BY <2>1, <2>2, BlankTypes
<1>6. CtlTyped(ctl) /\ DevsTyped(devs) /\ ScanTyped(scan) /\ ResultsTyped(devs, scan) /\ QueueTyped(queue)
  <2>1. ctl = BlankCtl /\ devs = BlankDevs /\ scan = NoScan /\ queue = <<>>
    BY DEF Init
  <2> QED BY <2>1, BlankTypes DEF ResultsTyped
<1>7. StoreTyped(store)
  <2>1. <<>> \in Seq(FoundIds) /\ Len(<<>>) = 0 /\ MaxDevices \in Nat
    BY UiAssumption
  <2> QED BY <2>1 DEF Init, StoreTyped, DeviceLists
<1>8. SetTyped(set)
  <2>1. 1 \in 1..Networks
    BY UiAssumption
  <2> QED BY <2>1 DEF Init, SetTyped
<1>9. AcTyped(ac)
  <2>1. ac = BlankAc \/ \E c \in CapAnswers : ac = [BlankAc EXCEPT !.caps = c]
    BY DEF Init
  <2> QED BY <2>1, BlankTypes
<1>10. NetTyped(net)
  <2>1. net = BlankNet("connected")
    BY DEF Init
  <2> QED BY <2>1, BlankTypes
<1>11. SpentTyped(spent, scene)
  BY <1>2 DEF Init, SpentTyped
<1> QED BY <1>3, <1>4, <1>5, <1>6, <1>7, <1>8, <1>9, <1>10, <1>11 DEF TInv

LEMMA TypedIsOK == TInv /\ SInv => TypeOK
<1> SUFFICES ASSUME TInv, SInv PROVE TypeOK
  OBVIOUS
<1>1. nav.stack \in Seq(ScreenIds) /\ Len(nav.stack) \in 1..Capacity
  <2> DEFINE n == Len(nav.stack)
  <2>1. n \in 1..5 /\ nav.stack \in Seq(ScreenIds)
    BY NestedTop DEF SInv, NavSound, Nested
  <2>2. Capacity \in Nat /\ Capacity > 5
    BY UiAssumption
  <2> HIDE DEF n
  <2>3. n \in 1..Capacity
    BY <2>1, <2>2
  <2> QED BY <2>1, <2>3 DEF n
<1>2. /\ at \in {"services", "nav", "boot", "provision", "off"} /\ scene \in DOMAIN Scenes
      /\ nav.dirty \in BOOLEAN /\ nav.power \in BOOLEAN /\ burst \in 0..MaxBurst[scene]
      /\ panel.on \in ScreenIds \cup {"Off"} /\ panel.torn \in BOOLEAN
      /\ spent.edits <= MaxEdits[scene] /\ spent.news <= MaxNews[scene]
  BY DEF TInv, LoopTyped, NavTyped, PanelTyped, SpentTyped
<1>3. /\ cur.home < Len(HomeTargets) /\ cur.settings < Len(SettingsRows) /\ cur.networks < Networks
      /\ cur.license < LicenseCount /\ cur.licenseTop <= LicensesMax /\ cur.details <= cur.detailsMax
  <2>1. Len(HomeTargets) = 4 /\ Len(SettingsRows) = 6
    BY DEF HomeTargets, SettingsRows
  <2>2. Networks \in Nat /\ LicenseCount \in Nat
    BY Texts, UiAssumption
  <2> QED BY <2>1, <2>2 DEF TInv, CurTyped
<1>4. ctl.focus < Len(LookedAt) /\ ctl.sel < MaxOptions
  <2> DEFINE l == Len(LookedAt)
  <2>1. l \in Nat /\ ctl.focus \in 0..(l - 1) /\ ctl.sel \in 0..15
    BY RowsTyped DEF TInv, CtlTyped
  <2> HIDE DEF l
  <2>2. ctl.focus < l /\ ctl.sel < 16
    BY <2>1
  <2> QED BY <2>2 DEF l, MaxOptions
<1>5. devs.mode \in DeviceModes /\ devs.cursor < DevSpan
  <2>1. DevSpan \in Nat
    BY UiAssumption
  <2> QED BY <2>1 DEF TInv, DevsTyped
<1>6. Len(scan.found) <= MaxResults /\ Len(store.list) <= MaxDevices /\ Len(store.disk) <= MaxDevices
  BY DEF TInv, ScanTyped, Tables, StoreTyped, DeviceLists
<1>7. Len(queue) <= QueueDepth
  BY DEF TInv, QueueTyped
<1> QED BY <1>1, <1>2, <1>3, <1>4, <1>5, <1>6, <1>7 DEF TypeOK, DeviceModes

(* Cursors stay on their lists, lists and queues in their arrays, however     *)
(* answers, replies, reboots and saves that fail shrink or grow what is       *)
(* beneath them.                                                              *)
THEOREM ScreensTypeCorrect == Spec => []TypeOK
<1>1. Init => SInv
  BY InitNested
<1> QED BY <1>1, InitTyped, NextTyped, NextNests, TypedIsOK, PTL DEF Spec

(* The codec carries every command: what the AC reads from a SetState is the  *)
(* state that was composed, for every half degree that the protocol can       *)
(* express, whichever commands are queued.                                    *)
THEOREM CommandsCarryChoices == Spec => []SentAsChosen
<1>1. TInv => SentAsChosen
  <2> SUFFICES ASSUME TInv, NEW i \in DOMAIN queue, queue[i].kind = "set", queue[i].st.target \in 26..86
               PROVE  DeviceReads(SetState(queue[i].st, set.beep), queue[i].st.display) = queue[i].st
    BY DEF SentAsChosen
  <2> DEFINE st == queue[i].st
  <2>1. queue[i] \in Orders
    BY ElementOfSeq DEF TInv, QueueTyped
  <2>2. st \in AcStates
    BY <2>1 DEF Orders
  <2>3. st.display \in BOOLEAN /\ [st EXCEPT !.display = st.display] = st
    <3> HIDE DEF st
    <3> QED BY <2>2 DEF AcStates
  <2>4. DeviceReads(SetState(st, set.beep), st.display) = [st EXCEPT !.display = st.display]
    <3>1. st.target \in 26..86
      OBVIOUS
    <3> HIDE DEF st
    <3> QED BY <2>2, <2>3, <3>1, DeviceRead
  <2> QED BY <2>3, <2>4
<1>2. Init => SInv
  BY InitNested
<1> QED BY <1>1, <1>2, InitTyped, NextTyped, NextNests, PTL DEF Spec

-----------------------------------------------------------------------------
(* What the panel shows against what a new frame would show. *)

(* Two frames of one screen that differ at most in what Told leaves out. *)
Alike(on, s, f) ==
  IF on = "Dashboard" THEN [s EXCEPT !.watts = 0] = [f EXCEPT !.watts = 0]
  ELSE IF on = "Control"
  THEN /\ s = [stale |-> f.stale, focus |-> f.focus, rows |-> s.rows,
               drop |-> [row |-> f.drop.row, options |-> f.drop.options, lit |-> s.drop.lit]]
       /\ DOMAIN s.rows = DOMAIN f.rows
       /\ \A i \in DOMAIN f.rows : \/ s.rows[i] = f.rows[i]
                                   \/ s.rows[i][1] = f.rows[i][1] /\ f.rows[i][1] \in Unannounced
       /\ s.drop.lit \in Nat
       /\ s.drop.lit = f.drop.lit \/ Len(f.drop.options) = 1
  ELSE s = f

(* While no frame is asked for and no edge waits that would ask for one, the  *)
(* panel matches; a device that a dialog would remove is still there.         *)
Matches ==
  /\ panel.on = Current /\ panel.link = net.link /\ ~panel.torn
  /\ Overrun \/ (Blank /\ devs.mode = "saved") \/ Alike(Current, panel.show, Frame)
  /\ Current = "Devices" /\ devs.mode = "confirmDelete" => devs.cursor < Len(store.list)
Held == at \in {"nav", "services"} /\ ~nav.dirty /\ edges \cap Wanted = {}
FrameInv == Held => Matches

(* Nothing covers the hotspot's page, and the link that does not exist does   *)
(* not move.                                                                  *)
HotspotInv ==
  nav.stack[1] = "Hotspot" => Len(nav.stack) = 1 /\ net.link = "disabled" /\ "prompt" \notin edges

Pictured(f) ==
  f = [stale |-> f.stale, focus |-> f.focus, rows |-> f.rows,
       drop |-> [row |-> f.drop.row, options |-> f.drop.options, lit |-> f.drop.lit]]

LEMMA DropOf ==
  ASSUME NEW p, NEW q, NEW l, NEW x \in [row : {p}, options : {q}, lit : {l}]
  PROVE  x = [row |-> p, options |-> q, lit |-> l]
OBVIOUS

LEMMA PictureOf ==
  ASSUME NEW a, NEW b, NEW r, NEW e, NEW x \in [stale : {a}, focus : {b}, rows : {r}, drop : {e}]
  PROVE  x = [stale |-> a, focus |-> b, rows |-> r, drop |-> e]
OBVIOUS

Redrawn(x, rows, lit) == [x EXCEPT !.rows = rows, !.drop.lit = lit]

LEMMA Painted ==
  ASSUME NEW x, NEW a, NEW b, NEW c, NEW p, NEW q, NEW t, NEW r, NEW l,
         x = [stale |-> a, focus |-> b, rows |-> c, drop |-> [row |-> p, options |-> q, lit |-> t]]
  PROVE  Redrawn(x, r, l)
         = [stale |-> a, focus |-> b, rows |-> r, drop |-> [row |-> p, options |-> q, lit |-> l]]
<1> DEFINE d == [row |-> p, options |-> q, lit |-> t]
           e == [row |-> p, options |-> q, lit |-> l]
<1>1. [d EXCEPT !.lit = l] = e
  <2>1. [d EXCEPT !.lit = l] \in [row : {p}, options : {q}, lit : {l}]
    OBVIOUS
  <2> HIDE DEF d
  <2> QED BY <2>1, DropOf
<1>2. x.drop = d
  OBVIOUS
<1> HIDE DEF d, e
<1> DEFINE y == [stale |-> a, focus |-> b, rows |-> c, drop |-> d]
<1>3. x = y
  BY DEF d
<1>4. [x EXCEPT !.rows = r, !.drop = e] = [stale |-> a, focus |-> b, rows |-> r, drop |-> e]
  <2>1. [y EXCEPT !.rows = r, !.drop = e] \in [stale : {a}, focus : {b}, rows : {r}, drop : {e}]
    OBVIOUS
  <2> HIDE DEF y
  <2>2. [y EXCEPT !.rows = r, !.drop = e] = [stale |-> a, focus |-> b, rows |-> r, drop |-> e]
    BY <2>1, PictureOf
  <2> QED BY <1>3, <2>2
<1>5. [x EXCEPT !.rows = r, !.drop.lit = l] = [x EXCEPT !.rows = r, !.drop = [x.drop EXCEPT !.lit = l]]
  OBVIOUS
<1> QED BY <1>1, <1>2, <1>4, <1>5 DEF e, Redrawn

LEMMA AlikeTold ==
  ASSUME NEW s, NEW f, Alike(panel.on, s, f), panel.on = "Control" => Pictured(f)
  PROVE  Told(s) = Told(f)
<1>1. CASE panel.on = "Dashboard"
  BY <1>1, Zenon DEF Alike, Told
<1>2. CASE panel.on = "Control"
  <2> DEFINE rows(r) == [i \in DOMAIN r |-> IF r[i][1] \in Unannounced THEN <<r[i][1]>> ELSE r[i]]
             lit(d) == IF Len(d.options) = 1 THEN 0 ELSE d.lit
  <2>1. panel.on # "Dashboard"
    BY <1>2
  <2>2. \A x : Told(x) = Redrawn(x, rows(x.rows), lit(x.drop))
    BY <1>2, <2>1, Zenon DEF Told, Redrawn
  <2>3. ASSUME NEW x, Pictured(x)
        PROVE  Told(x) = [stale |-> x.stale, focus |-> x.focus, rows |-> rows(x.rows),
                          drop |-> [row |-> x.drop.row, options |-> x.drop.options, lit |-> lit(x.drop)]]
    <3> DEFINE r == rows(x.rows)
               l == lit(x.drop)
    <3>1. Told(x) = Redrawn(x, r, l)
      BY <2>2
    <3> HIDE DEF r, l
    <3>2. Redrawn(x, r, l) =
            [stale |-> x.stale, focus |-> x.focus, rows |-> r,
             drop |-> [row |-> x.drop.row, options |-> x.drop.options, lit |-> l]]
      <4> DEFINE a == x.stale
                 b == x.focus
                 c == x.rows
                 p == x.drop.row
                 q == x.drop.options
                 t == x.drop.lit
      <4>1. x = [stale |-> a, focus |-> b, rows |-> c, drop |-> [row |-> p, options |-> q, lit |-> t]]
        BY <2>3 DEF Pictured
      <4> HIDE DEF a, b, c, p, q, t
      <4>2. Redrawn(x, r, l) =
              [stale |-> a, focus |-> b, rows |-> r, drop |-> [row |-> p, options |-> q, lit |-> l]]
        BY <4>1, Painted
      <4> QED BY <4>2, Zenon DEF a, b, p, q
    <3> QED BY <3>1, <3>2 DEF r, l
  <2>4. Pictured(s) /\ Pictured(f)
    BY <1>2, <2>1 DEF Alike, Pictured
  <2>5. s.stale = f.stale /\ s.focus = f.focus /\ s.drop.row = f.drop.row /\ s.drop.options = f.drop.options
    BY <1>2, <2>1 DEF Alike
  <2>6. rows(s.rows) = rows(f.rows)
    BY <1>2, <2>1 DEF Alike
  <2>7. lit(s.drop) = lit(f.drop)
    BY <1>2, <2>1, <2>5 DEF Alike
  <2> HIDE DEF rows, lit
  <2> QED BY <2>3, <2>4, <2>5, <2>6, <2>7
<1>3. CASE panel.on \notin {"Dashboard", "Control"}
  BY <1>3 DEF Alike
<1> QED BY <1>1, <1>2, <1>3

LEMMA AlikeTrans ==
  ASSUME NEW on, NEW s, NEW f, NEW g, Alike(on, s, f), Alike(on, f, g)
  PROVE  Alike(on, s, g)
<1>1. CASE on = "Dashboard"
  BY <1>1 DEF Alike
<1>2. CASE on = "Control"
  <2>1. s.drop.row = f.drop.row /\ s.drop.options = f.drop.options /\ f.stale = g.stale /\ f.focus = g.focus
        /\ f.drop.row = g.drop.row /\ f.drop.options = g.drop.options
    BY <1>2 DEF Alike
  <2>2. DOMAIN s.rows = DOMAIN g.rows /\ s.drop.lit \in Nat
    BY <1>2 DEF Alike
  <2>3. \A i \in DOMAIN g.rows : \/ s.rows[i] = g.rows[i]
                                 \/ s.rows[i][1] = g.rows[i][1] /\ g.rows[i][1] \in Unannounced
    BY <1>2 DEF Alike
  <2>4. s.drop.lit = g.drop.lit \/ Len(g.drop.options) = 1
    BY <1>2, <2>1 DEF Alike
  <2>5. s = [stale |-> f.stale, focus |-> f.focus, rows |-> s.rows,
             drop |-> [row |-> f.drop.row, options |-> f.drop.options, lit |-> s.drop.lit]]
    BY <1>2 DEF Alike
  <2>6. s = [stale |-> g.stale, focus |-> g.focus, rows |-> s.rows,
             drop |-> [row |-> g.drop.row, options |-> g.drop.options, lit |-> s.drop.lit]]
    BY <2>1, <2>5
  <2>7. on # "Dashboard"
    BY <1>2
  <2> QED BY <1>2, <2>2, <2>3, <2>4, <2>6, <2>7, Zenon DEF Alike
<1>3. CASE on \notin {"Dashboard", "Control"}
  BY <1>3 DEF Alike
<1> QED BY <1>1, <1>2, <1>3

(* The frame of each screen. *)
FrameOf ==
  /\ Current = "Home" => Frame = HomeShows
  /\ Current = "Dashboard" => Frame = DashboardShows
  /\ Current = "Details" => Frame = DetailsShows(DetailsClamped)
  /\ Current = "Control" => Frame = ControlShows(ControlClamped)
  /\ Current = "Devices" => Frame = DevicesShows(DevicesClamped)
  /\ Current = "Settings" => Frame = SettingsShows
  /\ Current = "Networks" => Frame = NetworksShows
  /\ Current = "CaptiveLogin" => Frame = CaptiveLoginShows
  /\ Current = "Licenses" => Frame = LicensesShows(LicensesClamped)
  /\ Current = "LicenseText" => Frame = LicenseTextShows(DrawnLine)
  /\ Current \in {"About", "Hotspot"} => Frame = [page |-> Current]

LEMMA FrameIs == FrameOf
<1>1. CASE Current = "Home"
  <2>1. Current \notin {"Dashboard", "Details", "Control", "Devices", "Settings", "Networks", "CaptiveLogin",
                        "Licenses", "LicenseText", "About", "Hotspot"}
    BY <1>1
  <2>2. Frame = HomeShows
    BY <1>1, Zenon DEF Frame, Shows
  <2> QED BY <1>1, <2>1, <2>2 DEF FrameOf
<1>2. CASE Current = "Dashboard"
  <2>1. Current \notin {"Home", "Details", "Control", "Devices", "Settings", "Networks", "CaptiveLogin",
                        "Licenses", "LicenseText", "About", "Hotspot"}
    BY <1>2
  <2>2. Frame = DashboardShows
    BY <1>2, <2>1, Zenon DEF Frame, Shows
  <2> QED BY <1>2, <2>1, <2>2 DEF FrameOf
<1>3. CASE Current = "Details"
  <2>1. Current \notin {"Home", "Dashboard", "Control", "Devices", "Settings", "Networks", "CaptiveLogin",
                        "Licenses", "LicenseText", "About", "Hotspot"}
    BY <1>3
  <2>2. CurDrawn = DetailsClamped
    BY <1>3, Zenon DEF CurDrawn
  <2>3. Frame = DetailsShows(DetailsClamped)
    BY <1>3, <2>1, <2>2, Zenon DEF Frame, Shows
  <2> QED BY <1>3, <2>1, <2>3 DEF FrameOf
<1>4. CASE Current = "Control"
  <2>1. Current \notin {"Home", "Dashboard", "Details", "Devices", "Settings", "Networks", "CaptiveLogin",
                        "Licenses", "LicenseText", "About", "Hotspot"}
    BY <1>4
  <2>2. CtlDrawn = ControlClamped
    BY <1>4 DEF CtlDrawn
  <2>3. Frame = ControlShows(ControlClamped)
    BY <1>4, <2>1, <2>2, Zenon DEF Frame, Shows
  <2> QED BY <1>4, <2>1, <2>3 DEF FrameOf
<1>5. CASE Current = "Devices"
  <2>1. Current \notin {"Home", "Dashboard", "Details", "Control", "Settings", "Networks", "CaptiveLogin",
                        "Licenses", "LicenseText", "About", "Hotspot"}
    BY <1>5
  <2>2. DevsDrawn = DevicesClamped
    BY <1>5 DEF DevsDrawn
  <2>3. Frame = DevicesShows(DevicesClamped)
    BY <1>5, <2>1, <2>2, Zenon DEF Frame, Shows
  <2> QED BY <1>5, <2>1, <2>3 DEF FrameOf
<1>6. CASE Current = "Settings"
  <2>1. Current \notin {"Home", "Dashboard", "Details", "Control", "Devices", "Networks", "CaptiveLogin",
                        "Licenses", "LicenseText", "About", "Hotspot"}
    BY <1>6
  <2>2. Frame = SettingsShows
    BY <1>6, <2>1, Zenon DEF Frame, Shows
  <2> QED BY <1>6, <2>1, <2>2 DEF FrameOf
<1>7. CASE Current = "Networks"
  <2>1. Current \notin {"Home", "Dashboard", "Details", "Control", "Devices", "Settings", "CaptiveLogin",
                        "Licenses", "LicenseText", "About", "Hotspot"}
    BY <1>7
  <2>2. Frame = NetworksShows
    BY <1>7, <2>1, Zenon DEF Frame, Shows
  <2> QED BY <1>7, <2>1, <2>2 DEF FrameOf
<1>8. CASE Current = "CaptiveLogin"
  <2>1. Current \notin {"Home", "Dashboard", "Details", "Control", "Devices", "Settings", "Networks",
                        "Licenses", "LicenseText", "About", "Hotspot"}
    BY <1>8
  <2>2. Frame = CaptiveLoginShows
    BY <1>8, <2>1, Zenon DEF Frame, Shows
  <2> QED BY <1>8, <2>1, <2>2 DEF FrameOf
<1>9. CASE Current = "Licenses"
  <2>1. Current \notin {"Home", "Dashboard", "Details", "Control", "Devices", "Settings", "Networks",
                        "CaptiveLogin", "LicenseText", "About", "Hotspot"}
    BY <1>9
  <2>2. CurDrawn = LicensesClamped
    BY <1>9, <2>1, Zenon DEF CurDrawn
  <2>3. Frame = LicensesShows(LicensesClamped)
    BY <1>9, <2>1, <2>2, Zenon DEF Frame, Shows
  <2> QED BY <1>9, <2>1, <2>3 DEF FrameOf
<1>10. CASE Current = "LicenseText"
  <2>1. Current \notin {"Home", "Dashboard", "Details", "Control", "Devices", "Settings", "Networks",
                        "CaptiveLogin", "Licenses", "About", "Hotspot"}
    BY <1>10
  <2>2. Frame = LicenseTextShows(DrawnLine)
    BY <1>10, <2>1, Zenon DEF Frame, Shows
  <2> QED BY <1>10, <2>1, <2>2 DEF FrameOf
<1>11. CASE Current \in {"About", "Hotspot"}
  <2>1. Current \notin {"Home", "Dashboard", "Details", "Control", "Devices", "Settings", "Networks",
                        "CaptiveLogin", "Licenses", "LicenseText"}
    BY <1>11
  <2>2. Frame = [page |-> Current]
    BY <2>1, Zenon DEF Frame, Shows
  <2> QED BY <2>1, <2>2 DEF FrameOf
<1> QED BY <1>1, <1>2, <1>3, <1>4, <1>5, <1>6, <1>7, <1>8, <1>9, <1>10, <1>11 DEF FrameOf

LEMMA FrameIsNext == FrameOf'
BY FrameIs, PTL

-----------------------------------------------------------------------------
(* The frame of the Control screen stays the same while what it shows does.   *)

LEMMA ControlPictured == \A c : Pictured(ControlShows(c))
<1> TAKE c
<1> DEFINE d == IF c.open THEN [row |-> RowAt(c.focus), options |-> Options(RowAt(c.focus)), lit |-> c.sel]
                ELSE NoDrop
           r == [i \in 1..ControlSpan |-> LET row == RowAt(c.scroll + i - 1) IN <<row, RowValue(row)>>]
<1>1. d = [row |-> d.row, options |-> d.options, lit |-> d.lit]
  BY DEF NoDrop
<1>2. ControlShows(c) = [stale |-> Stale, focus |-> c.focus, rows |-> r, drop |-> d]
  BY DEF ControlShows
<1> HIDE DEF d, r
<1> QED BY <1>1, <1>2 DEF Pictured

LEMMA OptionsKept ==
  ASSUME ac'.caps = ac.caps, ctl'.desired = ctl.desired
  PROVE  \A row : Options(row)' = Options(row)
<1>1. TempRange' = TempRange
  BY DEF TempRange
<1>2. \A e : Kept(e)' = Kept(e)
  BY DEF Kept, Supports
<1>3. \A e : Supports(e)' <=> Supports(e)
  BY DEF Supports
<1>4. \A e : Says(e)' <=> Says(e)
  BY DEF Says
<1>5. Options("mode")' = Options("mode")
  BY <1>2, Zenon DEF Options
<1>6. Options("target")' = Options("target")
  BY <1>1, Zenon DEF Options
<1>7. Options("fan")' = Options("fan")
  BY <1>2, <1>3, Zenon DEF Options
<1>8. Options("swing")' = Options("swing")
  BY <1>3, Zenon DEF Options
<1>9. Options("rateSelect")' = Options("rateSelect")
  BY <1>4, Zenon DEF Options
<1>10. ASSUME NEW row, row \notin {"mode", "target", "fan", "swing", "rateSelect"}
       PROVE  Options(row)' = Options(row)
  BY <1>10, Zenon DEF Options
<1> QED BY <1>5, <1>6, <1>7, <1>8, <1>9, <1>10

LEMMA RowsKept ==
  ASSUME ac'.caps = ac.caps, ac'.props = ac.props
  PROVE  Visible' = Visible /\ (\A slot : RowAt(slot)' = RowAt(slot)) /\ ControlSpan' = ControlSpan
<1>1. \A e : (Supports(e)' <=> Supports(e)) /\ (Says(e)' <=> Says(e))
  BY DEF Supports, Says
<1>2. \A row : Available(row)' <=> Available(row)
  <2> TAKE row
  <2>0. /\ "display" \notin Props /\ "display" \notin DOMAIN Denied
        /\ \A p \in Props : p # "display" /\ p \notin DOMAIN Denied
    BY DEF Props, PropIds, Denied
  <2>1. CASE row \in Props
    <3> DEFINE known == ac.props[row] # -1
    <3>1. /\ Available(row) <=> known /\ \E f \in Allowing(row) : Says(f)
          /\ Available(row)' <=> known' /\ (\E f \in Allowing(row) : Says(f))'
      BY <2>0, <2>1, Zenon DEF Available
    <3>2. known' <=> known
      OBVIOUS
    <3>3. (\E f \in Allowing(row) : Says(f))' <=> \E f \in Allowing(row) : Says(f)
      BY <1>1
    <3> HIDE DEF known
    <3> QED BY <3>1, <3>2, <3>3
  <2>2. CASE row \notin Props /\ row = "display"
    <3>2. Available("display") <=> Says("displayControl")
      BY <2>0, Zenon DEF Available
    <3>3. Available("display")' <=> Says("displayControl")'
      BY <2>0, Zenon DEF Available
    <3> QED BY <1>1, <2>2, <3>2, <3>3
  <2>3. CASE row \notin Props /\ row # "display" /\ row \in DOMAIN Denied
    <3>1. Available(row) <=> \E f \in Denied[row] : Supports(f)
      BY <2>3, Zenon DEF Available
    <3>2. Available(row)' <=> (\E f \in Denied[row] : Supports(f))'
      BY <2>3, Zenon DEF Available
    <3> QED BY <1>1, <3>1, <3>2
  <2>4. CASE row \notin Props /\ row # "display" /\ row \notin DOMAIN Denied
    <3>1. Available(row)
      BY <2>4, Zenon DEF Available
    <3>2. Available(row)'
      BY <2>4, Zenon DEF Available
    <3> QED BY <3>1, <3>2
  <2> QED BY <2>1, <2>2, <2>3, <2>4
<1>3. Visible' = Visible
  <2>1. {row \in Rows : Available(row)}' = {row \in Rows : Available(row)}
    BY <1>2
  <2> QED BY <2>1 DEF Visible
<1> QED BY <1>3 DEF RowAt, ControlSpan

SetSeen == set'.beep = set.beep /\ set'.lock = set.lock

LEMMA ValueKept ==
  ASSUME ac'.has = ac.has, \A f \in Compared : ac'.state[f] = ac.state[f], ac'.props = ac.props, SetSeen,
         NEW row \in RowNames \ Unannounced
  PROVE  RowValue(row)' = RowValue(row)
<1> DEFINE own == row \in Props \/ Setting(row)
<1>1. SettingOrProp(row)' = SettingOrProp(row)
  <2>1. Setting(row) => set'[row] = set[row]
    <3>1. set'["beep"] = set["beep"] /\ set'["lock"] = set["lock"]
      BY DEF SetSeen
    <3> QED BY <3>1 DEF Setting
  <2> QED BY <2>1 DEF SettingOrProp, Setting
<1>2. PowerOff' <=> PowerOff
  BY DEF PowerOff, Compared
<1>3. Disabled(row)' <=> Disabled(row)
  BY <1>2 DEF Disabled
<1>4. ~own => StateValue(ac'.state, row) = StateValue(ac.state, row)
  <2>1. ~own => row \in Compared \cup {"mode"}
    BY DEF RowNames, Unannounced, Compared, Props, PropIds, Setting
  <2>2. ac'.state["power"] = ac.state["power"] /\ ac'.state["mode"] = ac.state["mode"]
    BY DEF Compared
  <2>3. row \in Compared => ac'.state[row] = ac.state[row]
    OBVIOUS
  <2> QED BY <2>1, <2>2, <2>3 DEF StateValue
<1>a. Setting(row) => row # "target"
  BY DEF Setting
<1>b. row \in Props => row # "target"
  BY DEF Props, PropIds
<1>5. CASE Setting(row) \/ (ac.has /\ row \in Props)
  <2>1. RowValue(row) = SettingOrProp(row)
    BY <1>a, <1>b, <1>5, Zenon DEF RowValue
  <2>2. RowValue(row)' = SettingOrProp(row)'
    BY <1>a, <1>b, <1>5, Zenon DEF RowValue, Setting
  <2> QED BY <1>1, <2>1, <2>2
<1>p. PowerOff => ac.has
  BY DEF PowerOff
<1>7. CASE ~Setting(row) /\ ~ac.has
  <2>1. RowValue(row) = NoData
    BY <1>7, <1>p, Zenon DEF RowValue
  <2>2. RowValue(row)' = NoData
    BY <1>2, <1>7, <1>p, Zenon DEF RowValue, Setting
  <2> QED BY <2>1, <2>2
<1>8. CASE ~Setting(row) /\ row \notin Props /\ ac.has /\ row = "target" /\ PowerOff
  <2>1. RowValue(row) = Inert
    BY <1>8, Zenon DEF RowValue
  <2>2. RowValue(row)' = Inert
    BY <1>2, <1>8, Zenon DEF RowValue, Setting
  <2> QED BY <2>1, <2>2
<1>9. CASE ~Setting(row) /\ row \notin Props /\ ac.has /\ ~(row = "target" /\ PowerOff)
  <2> DEFINE more == IF Disabled(row) THEN Inert ELSE 0
  <2>1. RowValue(row) = StateValue(ac.state, row) + more
    BY <1>9, Zenon DEF RowValue
  <2>2. RowValue(row)' = StateValue(ac'.state, row) + more'
    BY <1>2, <1>9, Zenon DEF RowValue, Setting
  <2>3. more' = more
    BY <1>3
  <2> HIDE DEF more
  <2> QED BY <1>4, <1>9, <2>1, <2>2, <2>3
<1> QED BY <1>5, <1>7, <1>8, <1>9, Zenon

(* Where the frame scrolls to. *)
ScrollTo(f, s) == IF f < s THEN f ELSE IF f >= s + ControlSpan THEN f - ControlSpan + 1 ELSE s
Clamped ==
  /\ ControlSpan \in Nat \ {0} /\ Focus \in Nat /\ Focus < Len(Visible) /\ ctl.scroll \in Nat
  /\ ctl.sel \in Nat /\ Len(Visible) \in Nat
  /\ \A c \in {Focused, ControlClamped} : c.focus = Focus /\ c.open = ctl.open /\ c.sel = ctl.sel
                                          /\ c.desired = ctl.desired
  /\ Focused.scroll = ctl.scroll /\ ControlClamped.scroll = ScrollTo(Focus, ctl.scroll)

LEMMA ClampOf == TInv => Clamped
<1> SUFFICES ASSUME TInv PROVE Clamped
  OBVIOUS
<1>1. CtlTyped(ctl) /\ CtlTyped(Focused) /\ Focus \in 0..(Len(Visible) - 1)
  BY FocusTyped DEF TInv
<1>2. Len(Visible) \in Nat \ {0}
  BY RowsTyped
<1>3. ControlSpan \in Nat \ {0}
  <2> DEFINE v == Len(Visible)
  <2>a. RowSpan \in Nat \ {0}
    BY UiAssumption
  <2>b. v \in Nat \ {0}
    BY <1>2
  <2>1. v \in Int /\ RowSpan \in Int /\ v \in Nat \ {0} /\ RowSpan \in Nat \ {0}
    BY <2>a, <2>b
  <2>2. ControlSpan = Min({RowSpan, v})
    BY DEF ControlSpan
  <2> HIDE DEF v
  <2>3. Min({RowSpan, v}) = IF RowSpan <= v THEN RowSpan ELSE v
    BY <2>1, OfTwo
  <2> QED BY <2>1, <2>2, <2>3
<1>4. Focus \in Nat /\ Focus < Len(Visible) /\ ctl.scroll \in Nat /\ ctl.sel \in Nat
  <2> DEFINE v == Len(Visible)
  <2>1. v \in Nat /\ Focus \in 0..(v - 1)
    BY <1>1, <1>2
  <2> HIDE DEF v
  <2>2. Focus \in Nat /\ Focus < v
    BY <2>1
  <2> QED BY <1>1, <2>2 DEF v, CtlTyped
<1> DEFINE s == Focused.scroll
           d == CASE Focus < s -> Focus
                  [] Focus >= s + ControlSpan -> Focus - ControlSpan + 1
                  [] OTHER -> s
<1>5. ControlClamped = [Focused EXCEPT !.scroll = d]
  BY Zenon DEF ControlClamped
<1>6. s = ctl.scroll
  BY <1>1 DEF Focused, CtlTyped
<1>7. d = ScrollTo(Focus, ctl.scroll)
  <2>1. CASE Focus < s
    <3>1. ~(Focus >= s + ControlSpan)
      BY <1>3, <1>4, <1>6, <2>1
    <3>2. d = Focus
      BY <2>1, <3>1, Zenon
    <3> QED BY <1>6, <2>1, <3>2 DEF ScrollTo
  <2>2. CASE ~(Focus < s)
    <3>1. d = IF Focus >= s + ControlSpan THEN Focus - ControlSpan + 1 ELSE s
      BY <2>2, Zenon
    <3> HIDE DEF d
    <3> QED BY <1>6, <2>2, <3>1 DEF ScrollTo
  <2> QED BY <2>1, <2>2
<1> HIDE DEF d
<1>8. \A c \in {Focused, ControlClamped} : c.focus = Focus /\ c.open = ctl.open /\ c.sel = ctl.sel
                                           /\ c.desired = ctl.desired
  <2>1. Focused.focus = Focus /\ Focused.open = ctl.open /\ Focused.sel = ctl.sel /\ Focused.desired = ctl.desired
    BY <1>1 DEF Focused, CtlTyped
  <2>2. /\ ControlClamped.focus = Focused.focus /\ ControlClamped.open = Focused.open
        /\ ControlClamped.sel = Focused.sel /\ ControlClamped.desired = Focused.desired
    BY <1>1, <1>5 DEF CtlTyped
  <2> QED BY <2>1, <2>2
<1>9. ControlClamped.scroll = d
  BY <1>1, <1>5 DEF CtlTyped
<1> QED BY <1>2, <1>3, <1>4, <1>6, <1>7, <1>8, <1>9 DEF Clamped

LEMMA ClampNext == TInv' => Clamped'
BY ClampOf, PTL

(* Drawing, or a press that leaves the highlight, does not move the band.     *)
LEMMA ClampedAgain ==
  ASSUME TInv, TInv', Visible' = Visible, ControlSpan' = ControlSpan,
         ctl'.focus \in {ctl.focus, Focus}, ctl'.scroll \in {ctl.scroll, ScrollTo(Focus, ctl.scroll)}
  PROVE  Focus' = Focus /\ ControlClamped'.scroll = ControlClamped.scroll
<1>1. Clamped /\ Clamped'
  BY ClampOf, ClampNext
<1>2. Focus' = Focus
  BY <1>1 DEF Focus, Clamped
<1> DEFINE f == Focus
           n == ControlSpan
           s == ctl.scroll
           t == ctl'.scroll
<1>3. /\ ControlClamped'.scroll = IF f < t THEN f ELSE IF f >= t + n THEN f - n + 1 ELSE t
      /\ ControlClamped.scroll = IF f < s THEN f ELSE IF f >= s + n THEN f - n + 1 ELSE s
      /\ t = s \/ t = IF f < s THEN f ELSE IF f >= s + n THEN f - n + 1 ELSE s
  BY <1>1, <1>2 DEF Clamped, ScrollTo
<1>4. f \in Nat /\ n \in Nat \ {0} /\ s \in Nat
  BY <1>1 DEF Clamped
<1> HIDE DEF f, n, s, t
<1>5. ControlClamped'.scroll = ControlClamped.scroll
  BY <1>3, <1>4
<1> QED BY <1>2, <1>5

(* The frame of the Control screen while what is announced stays as it is.    *)
BandRows == [i \in 1..ControlSpan |-> LET row == RowAt(ControlClamped.scroll + i - 1) IN <<row, RowValue(row)>>]
ControlFrame ==
  LET f == ControlShows(ControlClamped)
  IN /\ f.stale = Stale /\ f.focus = Focus /\ f.rows = BandRows
     /\ ctl.open => f.drop = [row |-> FocusRow, options |-> Options(FocusRow), lit |-> ctl.sel]
     /\ ~ctl.open => f.drop = NoDrop

LEMMA ControlFrameIs == Clamped => ControlFrame
BY DEF Clamped, ControlFrame, ControlShows, BandRows, FocusRow

LEMMA ControlFrameNext == Clamped' => ControlFrame'
BY ControlFrameIs, PTL

(* What the screen shows apart from the option that is lit.                   *)
AcSeen ==
  /\ ac'.has = ac.has /\ ac'.up = ac.up /\ ac'.caps = ac.caps /\ ac'.props = ac.props
  /\ \A f \in Compared : ac'.state[f] = ac.state[f]
BandKept ==
  /\ ctl'.open = ctl.open /\ ctl'.desired = ctl.desired
  /\ ctl'.focus \in {ctl.focus, Focus} /\ ctl'.scroll \in {ctl.scroll, ScrollTo(Focus, ctl.scroll)}
SamePicture(f, g) ==
  /\ g.stale = f.stale /\ g.focus = f.focus /\ g.drop.row = f.drop.row /\ g.drop.options = f.drop.options
  /\ DOMAIN g.rows = DOMAIN f.rows
  /\ \A i \in DOMAIN g.rows : \/ f.rows[i] = g.rows[i]
                              \/ f.rows[i][1] = g.rows[i][1] /\ g.rows[i][1] \in Unannounced

LEMMA BandAgain ==
  ASSUME TInv, TInv', AcSeen, SetSeen, BandKept
  PROVE  /\ SamePicture(ControlShows(ControlClamped), ControlShows(ControlClamped)')
         /\ Visible' = Visible /\ Focus' = Focus /\ FocusRow' = FocusRow
         /\ Options(FocusRow)' = Options(FocusRow)
<1> DEFINE f == ControlShows(ControlClamped)
<1>1. Clamped /\ Clamped' /\ ControlFrame /\ ControlFrame'
  BY ClampOf, ClampNext, ControlFrameIs, ControlFrameNext
<1>2. Visible' = Visible /\ (\A slot : RowAt(slot)' = RowAt(slot)) /\ ControlSpan' = ControlSpan
  BY RowsKept DEF AcSeen
<1>3. Focus' = Focus /\ ControlClamped'.scroll = ControlClamped.scroll
  BY <1>2, ClampedAgain DEF BandKept
<1>4. FocusRow' = FocusRow
  <2>1. RowAt(Focus)' = RowAt(Focus)
    BY <1>2, <1>3 DEF RowAt
  <2> QED BY <2>1 DEF FocusRow
<1>5. Options(FocusRow)' = Options(FocusRow)
  <2>1. \A row : Options(row)' = Options(row)
    BY OptionsKept DEF AcSeen, BandKept
  <2> QED BY <1>4, <2>1
<1>6. f'.stale = f.stale /\ f'.focus = f.focus
  BY <1>1, <1>3 DEF ControlFrame, Stale, AcSeen
<1>7. f'.drop.row = f.drop.row /\ f'.drop.options = f.drop.options
  BY <1>1, <1>4, <1>5 DEF ControlFrame, BandKept, NoDrop
<1>8. ASSUME NEW i \in 1..ControlSpan
      PROVE  \/ BandRows[i] = BandRows'[i]
             \/ BandRows[i][1] = BandRows'[i][1] /\ BandRows'[i][1] \in Unannounced
  <2> DEFINE slot == ControlClamped.scroll + i - 1
             row == RowAt(slot)
  <2>1. BandRows[i] = <<row, RowValue(row)>>
    BY DEF BandRows
  <2>3. row \in RowNames
    <3>1. ControlClamped.scroll \in Nat
      <4> DEFINE f0 == Focus
                 n == ControlSpan
                 s == ctl.scroll
      <4>1. f0 \in Nat /\ n \in Nat \ {0} /\ s \in Nat
        BY <1>1 DEF Clamped
      <4>2. ControlClamped.scroll = IF f0 < s THEN f0 ELSE IF f0 >= s + n THEN f0 - n + 1 ELSE s
        BY <1>1 DEF Clamped, ScrollTo
      <4> HIDE DEF f0, n, s
      <4> QED BY <4>1, <4>2
    <3>2. i \in Nat \ {0}
      BY <1>1 DEF Clamped
    <3>3. slot \in Nat
      BY <3>1, <3>2
    <3> HIDE DEF slot
    <3> QED BY <3>3, RowsTyped
  <2>4. PICK r \in RowNames : r = row
    BY <2>3
  <2>5. BandRows[i] = <<r, RowValue(r)>>
    BY <2>1, <2>4
  <2>6. BandRows'[i] = <<r, RowValue(r)'>>
    <3>1. r = RowAt(ControlClamped.scroll + i - 1)'
      BY <1>2, <1>3, <2>4
    <3> QED BY <1>2, <3>1 DEF BandRows
  <2> HIDE DEF row
  <2>7. CASE r \in Unannounced
    BY <2>5, <2>6, <2>7
  <2>8. CASE r \notin Unannounced
    <3>1. RowValue(r)' = RowValue(r)
      BY <2>8, ValueKept DEF AcSeen
    <3> QED BY <2>5, <2>6, <3>1
  <2> QED BY <2>7, <2>8
<1>9. f.rows = BandRows /\ f'.rows = BandRows' /\ DOMAIN BandRows = 1..ControlSpan
      /\ DOMAIN BandRows' = 1..ControlSpan
  BY <1>1, <1>2 DEF ControlFrame, BandRows
<1> HIDE DEF f
<1>10. SamePicture(f, f')
  BY <1>6, <1>7, <1>8, <1>9 DEF SamePicture
<1> QED BY <1>2, <1>3, <1>4, <1>5, <1>10 DEF f

LEMMA BandAlike ==
  ASSUME TInv, TInv', AcSeen, SetSeen, BandKept, ctl'.sel = ctl.sel
  PROVE  Alike("Control", ControlShows(ControlClamped), ControlShows(ControlClamped)')
<1> DEFINE f == ControlShows(ControlClamped)
<1>1. Clamped /\ Clamped' /\ ControlFrame /\ ControlFrame'
  BY ClampOf, ClampNext, ControlFrameIs, ControlFrameNext
<1>2. f.drop.lit \in Nat /\ f'.drop.lit = f.drop.lit
  <2>1. ctl.sel \in Nat
    BY <1>1 DEF Clamped
  <2>2. CASE ctl.open
    BY <1>1, <2>1, <2>2 DEF ControlFrame, BandKept
  <2>3. CASE ~ctl.open
    BY <1>1, <2>3 DEF ControlFrame, BandKept, NoDrop
  <2> QED BY <2>2, <2>3
<1>3. SamePicture(f, f') /\ Pictured(f)
  BY BandAgain, ControlPictured
<1> HIDE DEF f
<1>4. f = [stale |-> f'.stale, focus |-> f'.focus, rows |-> f.rows,
           drop |-> [row |-> f'.drop.row, options |-> f'.drop.options, lit |-> f.drop.lit]]
  BY <1>3 DEF SamePicture, Pictured
<1>5. Alike("Control", f, f')
  BY <1>2, <1>3, <1>4, Zenon DEF Alike, SamePicture
<1> QED BY <1>5 DEF f

(* In an open list the light moves. *)
LEMMA BandLit ==
  ASSUME TInv, TInv', AcSeen, SetSeen, BandKept, ctl.open,
         NEW s, Alike("Control", s, ControlShows(ControlClamped)),
         NEW t, Pictured(t), t.stale = s.stale, t.focus = s.focus, t.rows = s.rows,
         t.drop.row = s.drop.row, t.drop.options = s.drop.options, t.drop.lit \in Nat,
         t.drop.lit = ctl'.sel \/ Len(Options(FocusRow)) = 1
  PROVE  Alike("Control", t, ControlShows(ControlClamped)')
<1> DEFINE f == ControlShows(ControlClamped)
<1>1. Clamped /\ Clamped' /\ ControlFrame /\ ControlFrame'
  BY ClampOf, ClampNext, ControlFrameIs, ControlFrameNext
<1>2. SamePicture(f, f') /\ Options(FocusRow)' = Options(FocusRow)
  BY BandAgain
<1>3. f'.drop.lit = ctl'.sel /\ f'.drop.options = Options(FocusRow)
  BY <1>1, <1>2 DEF ControlFrame, BandKept
<1> HIDE DEF f
<1>4. /\ s = [stale |-> f.stale, focus |-> f.focus, rows |-> s.rows,
              drop |-> [row |-> f.drop.row, options |-> f.drop.options, lit |-> s.drop.lit]]
      /\ DOMAIN s.rows = DOMAIN f.rows
      /\ \A i \in DOMAIN f.rows : \/ s.rows[i] = f.rows[i]
                                  \/ s.rows[i][1] = f.rows[i][1] /\ f.rows[i][1] \in Unannounced
  BY Zenon DEF Alike, f
<1>5. t = [stale |-> f'.stale, focus |-> f'.focus, rows |-> t.rows,
           drop |-> [row |-> f'.drop.row, options |-> f'.drop.options, lit |-> t.drop.lit]]
  <2>1. s.stale = f.stale /\ s.focus = f.focus /\ s.drop.row = f.drop.row /\ s.drop.options = f.drop.options
    BY <1>4
  <2>2. t = [stale |-> t.stale, focus |-> t.focus, rows |-> t.rows,
             drop |-> [row |-> t.drop.row, options |-> t.drop.options, lit |-> t.drop.lit]]
    BY DEF Pictured
  <2>3. /\ t.stale = f'.stale /\ t.focus = f'.focus /\ t.drop.row = f'.drop.row
        /\ t.drop.options = f'.drop.options
    BY <1>2, <2>1 DEF SamePicture
  <2> QED BY <2>2, <2>3
<1>6. DOMAIN t.rows = DOMAIN f'.rows
  BY <1>2, <1>4 DEF SamePicture
<1>7. \A i \in DOMAIN f'.rows : \/ t.rows[i] = f'.rows[i]
                                \/ t.rows[i][1] = f'.rows[i][1] /\ f'.rows[i][1] \in Unannounced
  <2> TAKE i \in DOMAIN f'.rows
  <2>1. i \in DOMAIN f.rows
    BY <1>2 DEF SamePicture
  <2>2. \/ s.rows[i] = f.rows[i]
        \/ s.rows[i][1] = f.rows[i][1] /\ f.rows[i][1] \in Unannounced
    BY <1>4, <2>1
  <2>3. \/ f.rows[i] = f'.rows[i]
        \/ f.rows[i][1] = f'.rows[i][1] /\ f'.rows[i][1] \in Unannounced
    BY <1>2 DEF SamePicture
  <2> QED BY <2>2, <2>3
<1>8. t.drop.lit = f'.drop.lit \/ Len(f'.drop.options) = 1
  BY <1>3
<1>9. Alike("Control", t, f')
  <2>1. "Control" # "Dashboard"
    OBVIOUS
  <2> QED BY <1>5, <1>6, <1>7, <1>8, <2>1, Zenon DEF Alike
<1> QED BY <1>9 DEF f

-----------------------------------------------------------------------------
(* The frame of the Devices screen. *)

DevicesFrame ==
  LET d == DevicesClamped
      f == DevicesShows(d)
  IN /\ d.mode = (IF Gone THEN "saved" ELSE Mode) /\ d.note = devs.note
     /\ d.cursor = (IF Lists /\ devs.cursor >= Min({ListLen, DevSpan}) THEN 0 ELSE devs.cursor)
     /\ d.mode \in DeviceModes
     /\ Gone => f = [mode |-> "blank"]
     /\ ~Gone /\ Mode = "saved"
        => f = [mode |-> "saved", cursor |-> d.cursor, note |-> d.note, saved |-> store.list]
     /\ ~Gone /\ Mode = "scanning" => f = [mode |-> "scanning"]
     /\ ~Gone /\ Mode = "results"
        => f = [mode |-> "results", cursor |-> d.cursor,
                found |-> [i \in DOMAIN scan.found |-> <<scan.found[i], Stored(scan.found[i].id)>>]]
     /\ ~Gone /\ Mode = "confirm" => f = [mode |-> "confirm", add |-> scan.found[d.cursor + 1]]
     /\ ~Gone /\ Mode = "confirmDelete"
        => f = [mode |-> "confirmDelete", remove |-> store.list[d.cursor + 1]]

LEMMA DevicesFrameIs == TInv => DevicesFrame
<1> SUFFICES ASSUME TInv PROVE DevicesFrame
  OBVIOUS
<1> DEFINE d == DevicesClamped
           f == DevicesShows(d)
<1>1. DevsTyped(devs)
  BY DEF TInv
<1>2. /\ d.mode = (IF Gone THEN "saved" ELSE Mode) /\ d.note = devs.note
      /\ d.cursor = (IF Lists /\ devs.cursor >= Min({ListLen, DevSpan}) THEN 0 ELSE devs.cursor)
  BY <1>1 DEF DevicesClamped, DevsTyped
<1>3. d.mode \in DeviceModes
  BY <1>1, <1>2 DEF Mode, DevsTyped, DeviceModes
<1> HIDE DEF d
<1>4. Gone => f = [mode |-> "blank"]
  <2> SUFFICES ASSUME Gone PROVE f = [mode |-> "blank"]
    OBVIOUS
  <2>1. d.mode = "saved"
    BY <1>2
  <2>2. d.mode # "scanning" /\ d.mode # "results" /\ d.mode # "confirm" /\ d.mode # "confirmDelete"
    BY <2>1
  <2> QED BY <2>2, Zenon DEF DevicesShows
<1>5. ASSUME ~Gone PROVE d.mode = Mode
  BY <1>2, <1>5
<1>6. ASSUME ~Gone, Mode = "saved"
      PROVE  f = [mode |-> "saved", cursor |-> d.cursor, note |-> d.note, saved |-> store.list]
  <2>1. d.mode = "saved" /\ d.mode # "scanning" /\ d.mode # "results" /\ d.mode # "confirm"
        /\ d.mode # "confirmDelete"
    BY <1>5, <1>6
  <2> QED BY <1>6, <2>1, Zenon DEF DevicesShows
<1>7. ASSUME ~Gone, Mode = "scanning"
      PROVE  f = [mode |-> "scanning"]
  <2>1. d.mode = "scanning" /\ d.mode # "saved" /\ d.mode # "results" /\ d.mode # "confirm"
        /\ d.mode # "confirmDelete"
    BY <1>5, <1>7
  <2> QED BY <1>7, <2>1, Zenon DEF DevicesShows
<1>8. ASSUME ~Gone, Mode = "results"
      PROVE  f = [mode |-> "results", cursor |-> d.cursor,
                  found |-> [i \in DOMAIN scan.found |-> <<scan.found[i], Stored(scan.found[i].id)>>]]
  <2>1. d.mode = "results" /\ d.mode # "saved" /\ d.mode # "scanning" /\ d.mode # "confirm"
        /\ d.mode # "confirmDelete"
    BY <1>5, <1>8
  <2> QED BY <1>8, <2>1, Zenon DEF DevicesShows
<1>9. ASSUME ~Gone, Mode = "confirm"
      PROVE  f = [mode |-> "confirm", add |-> scan.found[d.cursor + 1]]
  <2>1. d.mode = "confirm" /\ d.mode # "saved" /\ d.mode # "scanning" /\ d.mode # "results"
        /\ d.mode # "confirmDelete"
    BY <1>5, <1>9
  <2> QED BY <1>9, <2>1, Zenon DEF DevicesShows
<1>10. ASSUME ~Gone, Mode = "confirmDelete"
       PROVE  f = [mode |-> "confirmDelete", remove |-> store.list[d.cursor + 1]]
  <2>1. d.mode = "confirmDelete" /\ d.mode # "saved" /\ d.mode # "scanning" /\ d.mode # "results"
        /\ d.mode # "confirm"
    BY <1>5, <1>10
  <2> QED BY <1>10, <2>1, Zenon DEF DevicesShows
<1> QED BY <1>2, <1>3, <1>4, <1>6, <1>7, <1>8, <1>9, <1>10 DEF DevicesFrame, d

LEMMA DevicesFrameNext == TInv' => DevicesFrame'
BY DevicesFrameIs, PTL

(* While a scan runs the screen shows no results. *)
LEMMA DevicesAlike ==
  ASSUME TInv, TInv', UNCHANGED <<devs, store>>, scan'.on = scan.on, ~scan.on => scan'.found = scan.found
  PROVE  DevicesShows(DevicesClamped)' = DevicesShows(DevicesClamped)
<1> DEFINE d == DevicesClamped
           f == DevicesShows(DevicesClamped)
<1>1. DevicesFrame /\ DevicesFrame' /\ DevsTyped(devs) /\ ResultsTyped(devs, scan)
  BY DevicesFrameIs, DevicesFrameNext DEF TInv
<1>2. Mode' = Mode /\ Mode \in DeviceModes
  BY <1>1 DEF Mode, DevsTyped, DeviceModes
<1>3. CASE Mode \in {"saved", "confirmDelete"}
  <2>1. (Gone' <=> Gone) /\ (Lists' <=> Lists) /\ (Lists => ListLen' = ListLen)
    BY <1>2, <1>3 DEF Gone, Lists, ListLen
  <2>2. d'.cursor = d.cursor /\ d'.note = d.note
    BY <1>1, <2>1 DEF DevicesFrame
  <2> QED BY <1>1, <1>2, <1>3, <2>1, <2>2 DEF DevicesFrame
<1>4. CASE Mode = "scanning"
  <2>1. ~Gone /\ ~Gone'
    BY <1>2, <1>4 DEF Gone
  <2> QED BY <1>1, <1>2, <1>4, <2>1 DEF DevicesFrame
<1>5. CASE Mode \in {"results", "confirm"}
  <2>1. scan'.found = scan.found
    BY <1>1, <1>5 DEF Mode, ResultsTyped
  <2>2. (Gone' <=> Gone) /\ (Lists' <=> Lists) /\ ListLen' = ListLen
    BY <1>2, <2>1 DEF Gone, Lists, ListLen
  <2>3. d'.cursor = d.cursor /\ d'.note = d.note
    BY <1>1, <2>2 DEF DevicesFrame
  <2>4. [i \in DOMAIN scan.found |-> <<scan.found[i], Stored(scan.found[i].id)>>]'
        = [i \in DOMAIN scan.found |-> <<scan.found[i], Stored(scan.found[i].id)>>]
    BY <2>1 DEF Stored
  <2> QED BY <1>1, <1>2, <1>5, <2>1, <2>2, <2>3, <2>4 DEF DevicesFrame
<1> QED BY <1>2, <1>3, <1>4, <1>5 DEF DeviceModes

-----------------------------------------------------------------------------
(* What the current screen shows stays as it is. *)
Unseen ==
  /\ Current = "Control" => ctl' = ctl /\ AcSeen /\ SetSeen
  /\ Current = "Dashboard" => /\ ac'.has = ac.has /\ ac'.up = ac.up /\ net'.weather = net.weather
                              /\ \A f \in Compared : ac'.state[f] = ac.state[f]
  /\ Current = "Details" => ac'.ext = ac.ext /\ ac'.up = ac.up
  /\ Current = "Devices" => scan'.on = scan.on /\ (~scan.on => scan'.found = scan.found)
  /\ Current = "Settings" => set' = set /\ net'.link = net.link /\ net'.weather = net.weather
                             /\ net'.tunnel = net.tunnel
  /\ Current = "Networks" => set' = set
  /\ Current = "CaptiveLogin" => net'.login = net.login /\ set'.active = set.active

LEMMA Alone ==
  ASSUME NEW f, Current \notin {"Dashboard", "Control"}
  PROVE  Alike(Current, f, f)
BY DEF Alike

LEMMA FrameAlike ==
  ASSUME TInv, TInv', SInv, Current' = Current, UNCHANGED <<cur, devs, store>>, Unseen
  PROVE  Alike(Current, Frame, Frame')
<1>1. Current \in ScreenIds /\ FrameOf /\ FrameOf'
  BY FrameIs, FrameIsNext, NestedTop DEF SInv, NavSound, Current
<1>2. CASE Current = "Dashboard"
  <2>1. Frame = DashboardShows /\ Frame' = DashboardShows'
    BY <1>1, <1>2 DEF FrameOf
  <2>2. \A f \in {"power", "mode", "target", "fan"} : ac'.state[f] = ac.state[f]
    BY <1>2 DEF Unseen, Compared
  <2>3. [DashboardShows EXCEPT !.watts = 0] = [DashboardShows' EXCEPT !.watts = 0]
    BY <1>2, <2>2 DEF DashboardShows, Unseen, Stale
  <2> QED BY <1>2, <2>1, <2>3 DEF Alike
<1>3. CASE Current = "Control"
  <2>1. BandKept /\ ctl'.sel = ctl.sel
    BY <1>3 DEF Unseen, BandKept
  <2>2. Alike("Control", ControlShows(ControlClamped), ControlShows(ControlClamped)')
    BY <1>3, <2>1, BandAlike DEF Unseen
  <2> QED BY <1>1, <1>3, <2>2 DEF FrameOf
<1>4. CASE Current = "Details"
  <2>1. DetailsShows(DetailsClamped)' = DetailsShows(DetailsClamped)
    BY <1>4 DEF Unseen, DetailsShows, DetailsClamped, DetailMax, DetailVisible, Aged
  <2> QED BY <1>1, <1>4, <2>1, Alone DEF FrameOf
<1>5. CASE Current = "Devices"
  <2>1. DevicesShows(DevicesClamped)' = DevicesShows(DevicesClamped)
    BY <1>5, DevicesAlike DEF Unseen
  <2> QED BY <1>1, <1>5, <2>1, Alone DEF FrameOf
<1>6. CASE Current = "Settings"
  <2>1. SettingsShows' = SettingsShows
    BY <1>6 DEF Unseen, SettingsShows
  <2> QED BY <1>1, <1>6, <2>1, Alone DEF FrameOf
<1>7. CASE Current = "Networks"
  <2>1. NetworksShows' = NetworksShows
    BY <1>7 DEF Unseen, NetworksShows
  <2> QED BY <1>1, <1>7, <2>1, Alone DEF FrameOf
<1>8. CASE Current = "CaptiveLogin"
  <2>1. CaptiveLoginShows' = CaptiveLoginShows
    BY <1>8 DEF Unseen, CaptiveLoginShows
  <2> QED BY <1>1, <1>8, <2>1, Alone DEF FrameOf
<1>9. CASE Current \in {"Home", "Licenses", "LicenseText", "About", "Hotspot"}
  <2>1. HomeShows' = HomeShows /\ LicensesShows(LicensesClamped)' = LicensesShows(LicensesClamped)
    BY DEF HomeShows, LicensesShows, LicensesClamped
  <2>2. LicenseTextShows(DrawnLine)' = LicenseTextShows(DrawnLine)
    BY DEF LicenseTextShows, DrawnLine
  <2>3. Frame' = Frame
    BY <1>1, <1>9, <2>1, <2>2 DEF FrameOf
  <2> QED BY <1>9, <2>3, Alone
<1> QED BY <1>1, <1>2, <1>3, <1>4, <1>5, <1>6, <1>7, <1>8, <1>9 DEF ScreenIds

LEMMA MatchesKept ==
  ASSUME Matches, TInv, TInv', SInv, Current' = Current, UNCHANGED <<panel, cur, devs, store>>,
         net'.link = net.link, Unseen
  PROVE  Matches'
<1>1. Alike(Current, Frame, Frame')
  BY FrameAlike
<1>2. (Overrun' <=> Overrun) /\ (Blank' <=> Blank)
  BY DEF Overrun, Blank
<1>3. Alike(Current, panel.show, Frame) => Alike(Current, panel.show, Frame')
  BY <1>1, AlikeTrans
<1>4. Alike(Current, panel.show, Frame)' <=> Alike(Current, panel.show, Frame')
  BY DEF Alike
<1> QED BY <1>2, <1>3, <1>4 DEF Matches

-----------------------------------------------------------------------------
(* What a screen wants is announced, whatever the world does to it. *)
WantedBy ==
  /\ "login" \in Wanted
  /\ Current # "Hotspot" => "link" \in Wanted
  /\ Current \in AcScreens => "state" \in Wanted /\ "reach" \in Wanted
  /\ Current \in {"Dashboard", "Settings"} => "weather" \in Wanted
  /\ Current = "Settings" => "verdict" \in Wanted /\ "wg" \in Wanted
  /\ Current = "Networks" => "verdict" \in Wanted
  /\ Current = "Control" => "caps" \in Wanted /\ "props" \in Wanted
  /\ Current = "Details" => "ext" \in Wanted
  /\ Current = "Devices" => "scan" \in Wanted

LEMMA WantedIs == WantedBy
<1> DEFINE own == CASE Current = "Settings" -> {"verdict", "wg"} [] Current = "Networks" -> {"verdict"}
                    [] Current = "Control" -> {"caps", "props"} [] Current = "Details" -> {"ext"}
                    [] Current = "Devices" -> {"scan"} [] OTHER -> {}
<1>1. Wanted = {"login"} \cup (IF Current = "Hotspot" THEN {} ELSE {"link"})
               \cup (IF Current \in AcScreens THEN {"state", "reach"} ELSE {})
               \cup (IF Current \in {"Dashboard", "Settings"} THEN {"weather"} ELSE {}) \cup own
  BY DEF Wanted
<1>2. CASE Current = "Settings"
  <2>1. Current # "Networks" /\ Current # "Control" /\ Current # "Details" /\ Current # "Devices"
    BY <1>2
  <2>2. own = {"verdict", "wg"}
    BY <1>2, <2>1, Zenon
  <2> HIDE DEF own
  <2> QED BY <1>1, <1>2, <2>2 DEF WantedBy, AcScreens
<1>3. CASE Current = "Networks"
  <2>1. Current # "Settings" /\ Current # "Control" /\ Current # "Details" /\ Current # "Devices"
    BY <1>3
  <2>2. own = {"verdict"}
    BY <1>3, <2>1, Zenon
  <2> HIDE DEF own
  <2> QED BY <1>1, <1>3, <2>2 DEF WantedBy, AcScreens
<1>4. CASE Current = "Control"
  <2>1. Current # "Settings" /\ Current # "Networks" /\ Current # "Details" /\ Current # "Devices"
    BY <1>4
  <2>2. own = {"caps", "props"}
    BY <1>4, <2>1, Zenon
  <2> HIDE DEF own
  <2> QED BY <1>1, <1>4, <2>2 DEF WantedBy, AcScreens
<1>5. CASE Current = "Details"
  <2>1. Current # "Settings" /\ Current # "Networks" /\ Current # "Control" /\ Current # "Devices"
    BY <1>5
  <2>2. own = {"ext"}
    BY <1>5, <2>1, Zenon
  <2> HIDE DEF own
  <2> QED BY <1>1, <1>5, <2>2 DEF WantedBy, AcScreens
<1>6. CASE Current = "Devices"
  <2>1. Current # "Settings" /\ Current # "Networks" /\ Current # "Control" /\ Current # "Details"
    BY <1>6
  <2>2. own = {"scan"}
    BY <1>6, <2>1, Zenon
  <2> HIDE DEF own
  <2> QED BY <1>1, <1>6, <2>2 DEF WantedBy, AcScreens
<1>7. CASE Current \notin {"Settings", "Networks", "Control", "Details", "Devices"}
  <2> HIDE DEF own
  <2> QED BY <1>1, <1>7 DEF WantedBy, AcScreens
<1> QED BY <1>2, <1>3, <1>4, <1>5, <1>6, <1>7

LEMMA WantedSame ==
  ASSUME Current' = Current
  PROVE  Wanted' = Wanted
BY Zenon DEF Wanted

Quietly == \A e \in edges' : e \notin Wanted

LEMMA HeldBefore ==
  ASSUME Held', nav' = nav, at' = at, edges \subseteq edges'
  PROVE  Held /\ Quietly /\ Current' = Current
<1>1. Current' = Current
  BY DEF Current
<1>2. Wanted' = Wanted
  BY <1>1, WantedSame
<1> QED BY <1>1, <1>2 DEF Held, Quietly

LEMMA PublishUnseen ==
  ASSUME TInv, NEW st, Publish(st), OnlyAc, Quietly
  PROVE  Unseen
<1>1. AcTyped(ac)
  BY DEF TInv
<1>2. ac'.caps = ac.caps /\ ac'.props = ac.props /\ ac'.ext = ac.ext /\ ac'.has /\ ac'.up /\ ac'.state = st
  BY <1>1 DEF Publish, AcTyped
<1>3. /\ ~ac.up => "reach" \in edges'
      /\ ~ac.has \/ (\E f \in Compared : st[f] # ac.state[f]) => "state" \in edges'
  BY DEF Publish
<1>4. Current \in AcScreens => ac.up /\ ac.has /\ \A f \in Compared : st[f] = ac.state[f]
  BY <1>3, WantedIs DEF WantedBy, Quietly
<1>5. Current \in AcScreens => ac'.has = ac.has /\ ac'.up = ac.up /\ \A f \in Compared : ac'.state[f] = ac.state[f]
  <2>1. ac.has \in BOOLEAN /\ ac.up \in BOOLEAN /\ ac'.has = TRUE /\ ac'.up = TRUE
    BY <1>1 DEF Publish, AcTyped
  <2> QED BY <1>2, <1>4, <2>1
<1> QED BY <1>2, <1>5 DEF OnlyAc, uiState, Unseen, AcSeen, SetSeen, AcScreens

LEMMA PropsUnseen ==
  ASSUME TInv, NEW values, PublishProps(values), OnlyAc, Quietly
  PROVE  Unseen
<1>1. AcTyped(ac)
  BY DEF TInv
<1>2. /\ ac'.has = ac.has /\ ac'.up = ac.up /\ ac'.state = ac.state /\ ac'.caps = ac.caps /\ ac'.ext = ac.ext
  BY <1>1 DEF PublishProps, AcTyped
<1>3. ac'.props = ac.props \/ "props" \in edges'
  BY <1>1 DEF PublishProps, AcTyped
<1>4. Current = "Control" => ac'.props = ac.props
  BY <1>3, WantedIs DEF WantedBy, Quietly
<1> QED BY <1>2, <1>4 DEF OnlyAc, uiState, Unseen, AcSeen, SetSeen

LEMMA Acknowledges ==
  ASSUME TInv, Acknowledged
  PROVE  (\E st : Publish(st)) \/ (\E values : PublishProps(values)) \/ UNCHANGED <<ac, edges>>
<1> DEFINE c == Head(queue)
<1>1. queue \in Seq(Orders) /\ queue # <<>>
  BY DEF Acknowledged, TInv, QueueTyped
<1>2. c.kind \in {"set", "toggle", "prop", "beep"}
  <2>1. c \in Orders
    BY <1>1, HeadTailProperties
  <2> HIDE DEF c
  <2> QED BY <2>1 DEF Orders
<1> HIDE DEF c
<1>3. CASE c.kind = "set"
  <2>1. Publish(DeviceReads(SetState(c.st, set.beep), ac.state.display))
    BY <1>3, Zenon DEF Acknowledged, c
  <2> QED BY <2>1
<1>4. CASE c.kind = "toggle"
  <2>1. Publish([ac.state EXCEPT !.display = ~@])
    BY <1>4 DEF Acknowledged, c
  <2> QED BY <2>1
<1>5. CASE c.kind = "prop"
  <2>1. PublishProps(ParseProperties(DeviceAnswers(SetProperty(c.prop, c.value))))
    BY <1>5 DEF Acknowledged, c
  <2> QED BY <2>1
<1>6. CASE c.kind = "beep"
  BY <1>6 DEF Acknowledged, c
<1> QED BY <1>2, <1>3, <1>4, <1>5, <1>6

LEMMA WorldMatches ==
  ASSUME TInv, TInv', SInv, HotspotInv, FrameInv, World
  PROVE  FrameInv'
<1> SUFFICES ASSUME Held' PROVE Matches'
  BY DEF FrameInv
<1>0. AcTyped(ac) /\ NetTyped(net) /\ ScanTyped(scan) /\ SetTyped(set) /\ Nested(nav.stack)
  BY DEF TInv, SInv, NavSound
<1>1. /\ nav' = nav /\ at' = at /\ panel' = panel /\ cur' = cur /\ ctl' = ctl /\ devs' = devs
      /\ store' = store
  BY DEF World, StateArrives, PropsArrive, GroupArrives, SessionEnds, CapsArrive, Acknowledged, LinkMoves,
     VerdictArrives, TunnelMoves, PromptDue, WeatherArrives, LoginEnds, TimePasses, ReplyArrives, OnlyAc, News, uiState
<1>2. edges \subseteq edges'
  <2>1. (\A st : Publish(st) => edges \subseteq edges') /\ \A v : PublishProps(v) => edges \subseteq edges'
    BY DEF Publish, PublishProps
  <2>2. CASE StateArrives \/ PropsArrive
    BY <2>1, <2>2 DEF StateArrives, PropsArrive
  <2>3. CASE Acknowledged
    BY <2>1, <2>3, Acknowledges
  <2>4. CASE GroupArrives \/ SessionEnds \/ CapsArrive
    BY <2>4 DEF GroupArrives, SessionEnds, CapsArrive, Raised
  <2>5. CASE LinkMoves \/ VerdictArrives \/ TunnelMoves \/ PromptDue \/ WeatherArrives \/ LoginEnds
    BY <2>5 DEF LinkMoves, VerdictArrives, TunnelMoves, PromptDue, WeatherArrives, LoginEnds, News, Raised
  <2>6. CASE TimePasses \/ ReplyArrives
    BY <2>6 DEF TimePasses, ReplyArrives
  <2> QED BY <2>2, <2>3, <2>4, <2>5, <2>6 DEF World
<1>3. Held /\ Quietly /\ Current' = Current /\ Matches
  BY <1>1, <1>2, HeldBefore DEF FrameInv
<1> SUFFICES net'.link = net.link /\ Unseen
  BY <1>1, <1>3, MatchesKept
<1>4. CASE StateArrives
  <2>1. net' = net /\ OnlyAc /\ \E st : Publish(st)
    BY <1>4 DEF StateArrives, OnlyAc
  <2> QED BY <1>3, <2>1, PublishUnseen
<1>5. CASE PropsArrive
  <2>1. net' = net /\ OnlyAc /\ \E values : PublishProps(values)
    BY <1>5 DEF PropsArrive, OnlyAc
  <2> QED BY <1>3, <2>1, PropsUnseen
<1>6. CASE Acknowledged
  <2>1. net' = net /\ OnlyAc
    BY <1>6 DEF Acknowledged, OnlyAc
  <2>2. \/ \E st : Publish(st)
        \/ \E values : PublishProps(values)
        \/ UNCHANGED <<ac, edges>>
    BY <1>6, Acknowledges
  <2>3. CASE UNCHANGED <<ac, edges>>
    BY <2>1, <2>3 DEF OnlyAc, uiState, Unseen, AcSeen, SetSeen
  <2> QED BY <1>3, <2>1, <2>2, <2>3, PublishUnseen, PropsUnseen
<1>7. CASE GroupArrives
  <2>1. net' = net /\ UNCHANGED <<set, scan>> /\ ac'.has = ac.has /\ ac'.up = ac.up /\ ac'.state = ac.state
        /\ ac'.caps = ac.caps /\ ac'.props = ac.props /\ (ac'.ext = ac.ext \/ "ext" \in edges')
    BY <1>0, <1>7 DEF GroupArrives, OnlyAc, AcTyped
  <2>2. Current = "Details" => ac'.ext = ac.ext
    BY <1>3, <2>1, WantedIs DEF WantedBy, Quietly
  <2> QED BY <1>1, <2>1, <2>2 DEF Unseen, AcSeen, SetSeen
<1>8. CASE SessionEnds
  <2>1. net' = net /\ UNCHANGED <<set, scan>> /\ "reach" \in edges'
    BY <1>8 DEF SessionEnds, OnlyAc, Raised
  <2>2. Current \notin AcScreens
    BY <1>3, <2>1, WantedIs DEF WantedBy, Quietly
  <2> QED BY <1>1, <2>1, <2>2 DEF Unseen, AcScreens, SetSeen
<1>9. CASE CapsArrive
  <2>1. net' = net /\ UNCHANGED <<set, scan>> /\ ac'.has = ac.has /\ ac'.up = ac.up /\ ac'.state = ac.state
        /\ ac'.ext = ac.ext /\ "caps" \in edges'
    BY <1>0, <1>9 DEF CapsArrive, OnlyAc, AcTyped, Raised
  <2>2. Current # "Control"
    BY <1>3, <2>1, WantedIs DEF WantedBy, Quietly
  <2> QED BY <1>1, <2>1, <2>2 DEF Unseen, AcSeen, SetSeen
<1>10. CASE LinkMoves
  <2>1. net.link # "disabled" /\ "link" \in edges'
    BY <1>10 DEF LinkMoves, News, Raised
  <2>2. Current = "Hotspot"
    BY <1>3, <2>1, WantedIs DEF WantedBy, Quietly
  <2>3. nav.stack[1] = "Hotspot"
    BY <1>0, <2>2, NestedTop DEF Current, Level, Prompt
  <2> QED BY <2>1, <2>3 DEF HotspotInv
<1>11. CASE VerdictArrives
  <2>1. net' = net /\ UNCHANGED <<ac, scan>> /\ set'.active = set.active /\ SetSeen /\ "verdict" \in edges'
    BY <1>0, <1>11 DEF VerdictArrives, News, Raised, SetTyped, SetSeen
  <2>2. Current \notin {"Settings", "Networks"}
    BY <1>3, <2>1, WantedIs DEF WantedBy, Quietly
  <2> QED BY <1>1, <2>1, <2>2 DEF Unseen, AcSeen, SetSeen
<1>12. CASE TunnelMoves
  <2>1. UNCHANGED <<ac, scan, set>> /\ net'.link = net.link /\ net'.weather = net.weather
        /\ net'.login = net.login /\ "wg" \in edges'
    BY <1>0, <1>12 DEF TunnelMoves, News, Raised, NetTyped
  <2>2. Current # "Settings"
    BY <1>3, <2>1, WantedIs DEF WantedBy, Quietly
  <2> QED BY <1>1, <2>1, <2>2 DEF Unseen, AcSeen, SetSeen
<1>13. CASE PromptDue
  BY <1>1, <1>13 DEF PromptDue, News, Unseen, AcSeen, SetSeen
<1>14. CASE WeatherArrives
  <2>1. UNCHANGED <<ac, scan, set>> /\ net'.link = net.link /\ net'.tunnel = net.tunnel
        /\ net'.login = net.login /\ "weather" \in edges'
    BY <1>0, <1>14 DEF WeatherArrives, News, Raised, NetTyped
  <2>2. Current \notin {"Dashboard", "Settings"}
    BY <1>3, <2>1, WantedIs DEF WantedBy, Quietly
  <2> QED BY <1>1, <2>1, <2>2 DEF Unseen, AcSeen, SetSeen
<1>15. CASE LoginEnds
  <2>1. "login" \in edges'
    BY <1>15 DEF LoginEnds, Raised
  <2> QED BY <1>3, <2>1, WantedIs DEF WantedBy, Quietly
<1>16. CASE TimePasses \/ ReplyArrives
  <2>1. UNCHANGED <<ac, set, net>> /\ scan'.on = scan.on /\ scan'.found = scan.found
    BY <1>0, <1>16 DEF TimePasses, ReplyArrives, ScanTyped
  <2> QED BY <1>1, <2>1 DEF Unseen, AcSeen, SetSeen
<1> QED BY <1>4, <1>5, <1>6, <1>7, <1>8, <1>9, <1>10, <1>11, <1>12, <1>13, <1>14, <1>15, <1>16 DEF World

-----------------------------------------------------------------------------
(* A frame drawn again is the same frame. *)

DetailsAt == DetailsClamped.details = (IF cur.details <= DetailMax THEN cur.details ELSE DetailMax)
             /\ cur.details \in Nat /\ DetailMax \in Nat
LEMMA DetailsAtIs == TInv => DetailsAt
<1> SUFFICES ASSUME TInv PROVE DetailsAt
  OBVIOUS
<1> DEFINE d == cur.details
           m == DetailMax
<1>1. CurTyped(cur) /\ d \in Nat /\ m \in Nat /\ d \in Int /\ m \in Int
  BY Clamps DEF TInv, CurTyped
<1>2. DetailsClamped.details = Min({d, m})
  BY <1>1 DEF DetailsClamped, CurTyped
<1> HIDE DEF d, m
<1>3. Min({d, m}) = IF d <= m THEN d ELSE m
  BY <1>1, OfTwo
<1> QED BY <1>1, <1>2, <1>3 DEF DetailsAt, d, m

LicenseTop == IF cur.licenseTop <= LicensesMax THEN cur.licenseTop ELSE LicensesMax
LicensesAt ==
  /\ LicensesClamped.license = cur.license /\ cur.license \in Nat /\ cur.licenseTop \in Int
  /\ LicensesMax \in Nat /\ LicenseSpan \in Nat \ {0}
  /\ LicensesClamped.licenseTop =
       IF cur.license < LicenseTop THEN cur.license
       ELSE IF cur.license + 1 > LicenseTop + LicenseSpan THEN cur.license + 1 - LicenseSpan ELSE LicenseTop
LEMMA LicensesAtIs == TInv => LicensesAt
<1> SUFFICES ASSUME TInv PROVE LicensesAt
  OBVIOUS
<1> DEFINE l == cur.license
           t == cur.licenseTop
           m == LicensesMax
           top == Min({t, m})
           drawn == CASE l < top -> l
                      [] l + 1 > top + LicenseSpan -> l + 1 - LicenseSpan
                      [] OTHER -> top
<1>1. CurTyped(cur) /\ LicenseSpan \in Nat \ {0}
  BY UiAssumption DEF TInv
<1>2. l \in Nat /\ t \in Int /\ m \in Nat /\ m \in Int
  <2>1. LicenseCount \in Nat \ {0} /\ l \in 0..(LicenseCount - 1)
    BY <1>1, Texts DEF CurTyped
  <2> QED BY <1>1, <2>1, Clamps DEF CurTyped
<1>3. LicensesClamped = [cur EXCEPT !.licenseTop = drawn]
  BY Zenon DEF LicensesClamped
<1>4. LicensesClamped.licenseTop = drawn /\ LicensesClamped.license = l
  <2> HIDE DEF drawn
  <2> QED BY <1>1, <1>3 DEF CurTyped
<1> HIDE DEF l, t, m
<1>5. top = IF t <= m THEN t ELSE m
  BY <1>2, OfTwo
<1> HIDE DEF top
<1>6. top \in Int
  BY <1>2, <1>5
<1>7. drawn = IF l < top THEN l ELSE IF l + 1 > top + LicenseSpan THEN l + 1 - LicenseSpan ELSE top
  <2>1. CASE l < top
    <3>1. ~(l + 1 > top + LicenseSpan)
      BY <1>1, <1>2, <1>6, <2>1
    <3> QED BY <2>1, <3>1, Zenon
  <2>2. CASE ~(l < top)
    BY <2>2, Zenon
  <2> QED BY <2>1, <2>2
<1> HIDE DEF drawn
<1>8. top = LicenseTop
  BY <1>5 DEF LicenseTop, t, m
<1> QED BY <1>1, <1>2, <1>4, <1>7, <1>8 DEF LicensesAt, l, t, m

TextAt ==
  /\ LineMax \in Nat /\ cur.line \in Nat /\ cur.lineMax \in Nat
  /\ DrawnLine = IF cur.line <= cur.lineMax THEN cur.line ELSE cur.lineMax
  /\ LicenseTextClamped.text = cur.text /\ LicenseTextClamped.lineMax = LineMax
  /\ LicenseTextClamped.line = IF DrawnLine <= LineMax THEN DrawnLine ELSE LineMax
LEMMA TextAtIs == TInv => TextAt
<1> SUFFICES ASSUME TInv PROVE TextAt
  OBVIOUS
<1> DEFINE a == cur.line
           b == cur.lineMax
           v == TextLines[cur.text + 1] - PageLines
           m == LineMax
           c == DrawnLine
<1>1. /\ CurTyped(cur) /\ a \in Nat /\ b \in Nat /\ a \in Int /\ b \in Int /\ PageLines \in Nat
      /\ cur.text \in 0..(LicenseCount - 1) /\ 0 \in Int
  BY UiAssumption DEF TInv, CurTyped
<1>2. v \in Int
  BY <1>1, Texts
<1>3. m = Max({0, v}) /\ c = Min({a, b})
  BY DEF LineMax, DrawnLine
<1>4. /\ LicenseTextClamped.text = cur.text /\ LicenseTextClamped.lineMax = m
      /\ LicenseTextClamped.line = Min({c, m})
  BY <1>1 DEF LicenseTextClamped, CurTyped
<1> HIDE DEF a, b, v, m, c
<1>5. Max({0, v}) = IF 0 >= v THEN 0 ELSE v
  BY <1>1, <1>2, OfTwo
<1>6. Min({a, b}) = IF a <= b THEN a ELSE b
  BY <1>1, OfTwo
<1>7. m \in Nat /\ c \in Nat /\ m \in Int /\ c \in Int
  BY <1>1, <1>2, <1>3, <1>5, <1>6
<1>8. Min({c, m}) = IF c <= m THEN c ELSE m
  BY <1>7, OfTwo
<1> QED BY <1>1, <1>3, <1>4, <1>6, <1>7, <1>8 DEF TextAt, a, b, m, c

LEMMA ScrollsNext == TInv' => DetailsAt' /\ LicensesAt' /\ TextAt'
BY DetailsAtIs, LicensesAtIs, TextAtIs, PTL

LEMMA DevicesAgain ==
  ASSUME TInv, TInv', devs' = DevicesClamped, UNCHANGED <<scan, store>>
  PROVE  /\ Gone => devs'.mode = "saved" /\ DevicesShows(DevicesClamped).mode = "blank"
         /\ ~Gone => DevicesShows(DevicesClamped)' = DevicesShows(DevicesClamped)
         /\ devs'.mode = "confirmDelete" => devs'.cursor < Len(store.list)
<1> DEFINE d == DevicesClamped
<1>1. DevicesFrame /\ DevicesFrame' /\ DevsTyped(devs)
  BY DevicesFrameIs, DevicesFrameNext DEF TInv
<1>2. CASE Gone
  BY <1>1, <1>2 DEF DevicesFrame
<1>3. CASE ~Gone
  <2>1. devs'.mode = Mode /\ devs'.note = devs.note /\ Mode \in DeviceModes
    BY <1>1, <1>3 DEF DevicesFrame
  <2>2. Mode' = Mode
    BY <2>1 DEF Mode
  <2>3. (Lists' <=> Lists) /\ ListLen' = ListLen
    BY <2>2 DEF Lists, ListLen
  <2>4. ~Lists => devs'.cursor = devs.cursor
    BY <1>1 DEF DevicesFrame
  <2>5. ~Gone'
    BY <1>3, <2>2, <2>4 DEF Gone, Lists
  <2>6. d'.cursor = devs'.cursor /\ d'.note = d.note
    BY <1>1, <2>1, <2>3 DEF DevicesFrame
  <2>7. [i \in DOMAIN scan.found |-> <<scan.found[i], Stored(scan.found[i].id)>>]'
        = [i \in DOMAIN scan.found |-> <<scan.found[i], Stored(scan.found[i].id)>>]
    BY DEF Stored
  <2>8. DevicesShows(DevicesClamped)' = DevicesShows(DevicesClamped)
    BY <1>1, <1>3, <2>1, <2>2, <2>5, <2>6, <2>7 DEF DevicesFrame, DeviceModes
  <2>9. devs'.mode = "confirmDelete" => devs'.cursor < Len(store.list)
    <3>1. devs.cursor \in Int /\ Len(store.list) \in Nat
      BY <1>1, UiAssumption DEF TInv, DevsTyped, StoreTyped, DeviceLists
    <3> DEFINE n == Len(store.list)
               c == devs.cursor
    <3>2. Mode = "confirmDelete" => ~(c >= n) /\ devs'.cursor = c
      BY <1>3, <2>4 DEF Gone, Lists
    <3> HIDE DEF n, c
    <3>3. ~(c >= n) => c < n
      BY <3>1 DEF n, c
    <3> QED BY <2>1, <3>2, <3>3 DEF n, c
  <2> QED BY <1>3, <2>8, <2>9
<1> QED BY <1>2, <1>3

LEMMA DrawMatches ==
  ASSUME TInv, TInv', SInv, Draw
  PROVE  Matches'
<1>1. /\ panel' = [on |-> Current, show |-> Frame, link |-> net.link, torn |-> FALSE]
      /\ cur' = CurDrawn /\ ctl' = CtlDrawn /\ devs' = DevsDrawn
      /\ UNCHANGED <<scan, store, set, ac, net>> /\ Current' = Current
  BY DEF Draw, world, Current, TInv, NavTyped
<1>2. Current \in ScreenIds /\ FrameOf /\ FrameOf'
  BY FrameIs, FrameIsNext, NestedTop DEF SInv, NavSound, Current
<1>3. /\ panel'.on = Current /\ panel'.show = Frame /\ panel'.link = net'.link /\ ~panel'.torn
  BY <1>1
<1> SUFFICES /\ Overrun' \/ (Blank' /\ devs'.mode = "saved") \/ Alike(Current, Frame, Frame')
             /\ Current = "Devices" /\ devs'.mode = "confirmDelete" => devs'.cursor < Len(store.list)
  <2>1. Alike(Current, panel.show, Frame)' <=> Alike(Current, Frame, Frame')
    BY <1>1, <1>3 DEF Alike
  <2> QED BY <1>1, <1>3, <2>1 DEF Matches
<1>4. CASE Current = "Control"
  <2>1. ctl' = ControlClamped
    BY <1>1, <1>4 DEF CtlDrawn
  <2>2. Clamped
    BY ClampOf
  <2>3. BandKept /\ ctl'.sel = ctl.sel
    BY <2>1, <2>2 DEF BandKept, Clamped
  <2>4. AcSeen /\ SetSeen
    BY <1>1 DEF AcSeen, SetSeen
  <2>5. Alike("Control", ControlShows(ControlClamped), ControlShows(ControlClamped)')
    BY <2>3, <2>4, BandAlike
  <2> QED BY <1>1, <1>2, <1>4, <2>5 DEF FrameOf
<1>5. CASE Current = "Dashboard"
  <2>1. DashboardShows' = DashboardShows
    BY <1>1 DEF DashboardShows, Stale
  <2> QED BY <1>1, <1>2, <1>5, <2>1 DEF FrameOf, Alike
<1>6. CASE Current = "Details"
  <2>1. cur' = DetailsClamped
    BY <1>1, <1>6, Zenon DEF CurDrawn
  <2>2. DetailsAt /\ DetailsAt'
    BY DetailsAtIs, ScrollsNext
  <2>3. DetailMax' = DetailMax /\ DetailVisible' = DetailVisible /\ Aged' = Aged
    BY <1>1 DEF DetailMax, DetailVisible, Aged
  <2>4. DetailsClamped'.details = DetailsClamped.details
    <3> DEFINE c == cur.details
               m == DetailMax
               e == DetailsClamped.details
               g == DetailsClamped'.details
    <3>1. c \in Nat /\ m \in Nat /\ e = (IF c <= m THEN c ELSE m) /\ g = (IF e <= m THEN e ELSE m)
      BY <2>1, <2>2, <2>3 DEF DetailsAt
    <3> HIDE DEF c, m, e, g
    <3>2. g = e
      BY <3>1
    <3> QED BY <3>2 DEF e, g
  <2>5. DetailsShows(DetailsClamped)' = DetailsShows(DetailsClamped)
    BY <1>1, <2>3, <2>4 DEF DetailsShows
  <2> QED BY <1>1, <1>2, <1>6, <2>5, Alone DEF FrameOf
<1>7. CASE Current = "Licenses"
  <2>0. Current # "Details" /\ Current # "LicenseText"
    BY <1>7
  <2>1. cur' = LicensesClamped
    BY <1>1, <1>7, <2>0, Zenon DEF CurDrawn
  <2>2. LicensesAt /\ LicensesAt' /\ CurTyped(cur')
    BY LicensesAtIs, ScrollsNext DEF TInv
  <2>3. LicensesClamped'.license = cur.license /\ LicensesClamped'.licenseTop = LicensesClamped.licenseTop
    <3> DEFINE l == cur.license
               t == cur.licenseTop
               m == LicensesMax
               n == LicenseSpan
               top == IF t <= m THEN t ELSE m
               e == LicensesClamped.licenseTop
               top2 == IF e <= m THEN e ELSE m
               g == LicensesClamped'.licenseTop
    <3>1. /\ l \in Nat /\ t \in Int /\ m \in Nat /\ n \in Nat \ {0} /\ e \in Int /\ e <= m
          /\ e = (IF l < top THEN l ELSE IF l + 1 > top + n THEN l + 1 - n ELSE top)
          /\ g = (IF l < top2 THEN l ELSE IF l + 1 > top2 + n THEN l + 1 - n ELSE top2)
      BY <2>1, <2>2 DEF LicensesAt, LicenseTop, CurTyped
    <3> HIDE DEF l, t, m, n, e, g
    <3>2. g = e
      BY <3>1
    <3> QED BY <2>1, <2>2, <3>2 DEF e, g, LicensesAt
  <2>4. LicensesShows(LicensesClamped)' = LicensesShows(LicensesClamped)
    BY <2>2, <2>3 DEF LicensesShows, LicensesAt
  <2> QED BY <1>1, <1>2, <1>7, <2>4, Alone DEF FrameOf
<1>8. CASE Current = "LicenseText"
  <2>0. Current # "Details" /\ Current # "Licenses"
    BY <1>8
  <2>1. cur' = LicenseTextClamped
    BY <1>1, <1>8, <2>0, Zenon DEF CurDrawn
  <2>2. TextAt /\ TextAt'
    BY TextAtIs, ScrollsNext
  <2>3. LineMax' = LineMax /\ cur'.text = cur.text /\ cur'.lineMax = LineMax
    BY <2>1, <2>2 DEF TextAt, LineMax
  <2>4. Frame = [text |-> cur.text, line |-> DrawnLine] /\ Frame' = [text |-> cur.text, line |-> DrawnLine']
    BY <1>1, <1>2, <1>8, <2>3 DEF FrameOf, LicenseTextShows
  <2>5. DrawnLine > LineMax \/ DrawnLine' = DrawnLine
    <3> DEFINE a == cur.line
               b == cur.lineMax
               m == LineMax
               c == DrawnLine
               c2 == DrawnLine'
               e == cur'.line
    <3>1. /\ a \in Nat /\ b \in Nat /\ m \in Nat /\ c = (IF a <= b THEN a ELSE b)
          /\ e = (IF c <= m THEN c ELSE m) /\ c2 = (IF e <= m THEN e ELSE m)
      BY <2>1, <2>2, <2>3 DEF TextAt
    <3> HIDE DEF a, b, m, c, c2, e
    <3>2. c > m \/ c2 = c
      BY <3>1
    <3> QED BY <3>2 DEF c, c2, m
  <2>6. DrawnLine > LineMax => Overrun'
    BY <1>3, <1>8, <2>3, <2>4 DEF Overrun
  <2> QED BY <1>1, <1>2, <1>8, <2>4, <2>5, <2>6, Alone
<1>9. CASE Current = "Devices"
  <2>1. devs' = DevicesClamped
    BY <1>1, <1>9 DEF DevsDrawn
  <2>2. /\ Gone => devs'.mode = "saved" /\ DevicesShows(DevicesClamped).mode = "blank"
        /\ ~Gone => DevicesShows(DevicesClamped)' = DevicesShows(DevicesClamped)
        /\ devs'.mode = "confirmDelete" => devs'.cursor < Len(store.list)
    BY <1>1, <2>1, DevicesAgain
  <2>3. Gone => Blank'
    BY <1>2, <1>3, <1>9, <2>2 DEF FrameOf, Blank
  <2> QED BY <1>1, <1>2, <1>9, <2>2, <2>3, Alone DEF FrameOf
<1>10. CASE Current \in {"Home", "Settings", "Networks", "CaptiveLogin", "About", "Hotspot"}
  <2>1. Current # "Details" /\ Current # "Licenses" /\ Current # "LicenseText"
    BY <1>10
  <2>2. cur' = cur
    BY <1>1, <2>1, Zenon DEF CurDrawn
  <2>3. HomeShows' = HomeShows /\ SettingsShows' = SettingsShows /\ NetworksShows' = NetworksShows
        /\ CaptiveLoginShows' = CaptiveLoginShows
    BY <1>1, <2>2 DEF HomeShows, SettingsShows, NetworksShows, CaptiveLoginShows
  <2>4. Frame' = Frame
    BY <1>1, <1>2, <1>10, <2>3 DEF FrameOf
  <2> QED BY <1>10, <2>4, Alone
<1> QED BY <1>2, <1>4, <1>5, <1>6, <1>7, <1>8, <1>9, <1>10 DEF ScreenIds

-----------------------------------------------------------------------------
(* A press that asks for no frame changes nothing the panel shows, except in  *)
(* the open list of the Control screen, where it draws the boxes itself.      *)

LEMMA Dirties ==
  ASSUME TInv, SInv
  PROVE  Repainted(nav).dirty /\ (\A s : Pushed(nav, s).dirty) /\ (Popped(nav).dirty \/ Popped(nav) = nav)
<1>1. NavTyped(nav) /\ Nested(nav.stack)
  BY DEF TInv, SInv, NavSound
<1>2. \A st : Repainted([nav EXCEPT !.stack = st]).dirty
  BY <1>1 DEF Repainted, NavTyped
<1>3. Repainted(nav).dirty
  BY <1>1 DEF Repainted, NavTyped
<1>4. ~(Len(nav.stack) >= Capacity)
  <2>1. Len(nav.stack) \in 1..5
    BY <1>1, NestedTop
  <2>2. Capacity \in Nat /\ Capacity > 5
    BY UiAssumption
  <2> DEFINE n == Len(nav.stack)
  <2>3. n \in 1..5
    BY <2>1
  <2> HIDE DEF n
  <2>4. ~(n >= Capacity)
    BY <2>2, <2>3
  <2> QED BY <2>4 DEF n
<1> QED BY <1>2, <1>3, <1>4 DEF Pushed, Popped

LEMMA QuietDevices ==
  ASSUME TInv, SInv, NEW b, DevicesButton(b), ~nav'.dirty, at' # "boot"
  PROVE  UNCHANGED <<at, nav, devs, scan, store>>
<1>1. Repainted(nav).dirty /\ (Popped(nav).dirty \/ Popped(nav) = nav)
  BY Dirties
<1>2. \A c : SavedButton(c) => UNCHANGED <<at, nav, devs, scan, store>>
  BY <1>1 DEF SavedButton, Quiet
<1>3. \A c : ~ResultsButton(c)
  BY <1>1 DEF ResultsButton
<1>4. ~ConfirmDeleteButton(b) /\ ~ScanningButton(b) /\ ~ConfirmButton(b)
  BY <1>1 DEF ConfirmDeleteButton, ScanningButton, ConfirmButton
<1>5. devs.mode \in {"saved", "scanning", "results", "confirm", "confirmDelete"}
  BY DEF SInv, DevsSound, DeviceModes
<1>6. \/ SavedButton(Aliased(b)) \/ ConfirmDeleteButton(b) \/ ScanningButton(b)
      \/ ResultsButton(Aliased(b)) \/ ConfirmButton(b)
  BY <1>5 DEF DevicesButton
<1> QED BY <1>2, <1>3, <1>4, <1>6

LEMMA QuietPassive ==
  ASSUME TInv, SInv, NEW b, Passive(b), ~nav'.dirty
  PROVE  UNCHANGED <<nav, cur>>
<1>1. Repainted(nav).dirty /\ (\A s : Pushed(nav, s).dirty) /\ (Popped(nav).dirty \/ Popped(nav) = nav)
  BY Dirties
<1>2. ASSUME NEW c, HomeButton(c) PROVE UNCHANGED <<nav, cur>>
  BY <1>1, <1>2 DEF HomeButton, Repaints, Still
<1>3. ASSUME DashboardButton(b) PROVE UNCHANGED <<nav, cur>>
  BY <1>1, <1>3 DEF DashboardButton, Leaves, Still
<1>4. ASSUME NEW c, DetailsButton(c) PROVE UNCHANGED <<nav, cur>>
  BY <1>1, <1>4 DEF DetailsButton, Repaints, Leaves, Still
<1>5. ASSUME AboutButton(b) PROVE UNCHANGED <<nav, cur>>
  BY <1>1, <1>5 DEF AboutButton, Leaves, Still
<1>6. ASSUME NEW c, LicensesButton(c) PROVE UNCHANGED <<nav, cur>>
  BY <1>1, <1>6 DEF LicensesButton, Repaints, Leaves, Still
<1>7. ASSUME NEW c, LicenseTextButton(c) PROVE UNCHANGED <<nav, cur>>
  BY <1>1, <1>7 DEF LicenseTextButton, Repaints, Leaves, Still
<1> DEFINE a == Aliased(b)
<1>8. \/ HomeButton(a) \/ DashboardButton(b) \/ DetailsButton(a) \/ AboutButton(b) \/ LicensesButton(a)
      \/ LicenseTextButton(a)
  BY Zenon DEF Passive
<1> HIDE DEF a
<1> QED BY <1>2, <1>3, <1>4, <1>5, <1>6, <1>7, <1>8

LEMMA QuietPress ==
  ASSUME TInv, SInv, NEW b, Handles(b), ~nav'.dirty, at' \in {"nav", "services"}, Current # "Control"
  PROVE  UNCHANGED <<at, nav, panel, cur, ctl, devs, scan, store, set, ac, net>>
<1>1. Repainted(nav).dirty /\ (\A s : Pushed(nav, s).dirty) /\ (Popped(nav).dirty \/ Popped(nav) = nav)
  BY Dirties
<1>2. CASE DevicesButton(b)
  <2>1. UNCHANGED <<panel, cur, ctl, set, ac, net>>
    BY <1>2 DEF DevicesButton
  <2> QED BY <1>2, <2>1, QuietDevices
<1>3. CASE SettingsButton(Aliased(b)) /\ UNCHANGED <<panel, ctl, store, queue, ac, net, ghost>>
  <2>1. UNCHANGED <<at, nav, cur, devs, scan, set>>
    BY <1>1, <1>3 DEF SettingsButton, Repaints, Leaves, Still, NoEdits
  <2> QED BY <1>3, <2>1
<1>4. CASE NetworksButton(Aliased(b)) /\ UNCHANGED <<at, panel, ctl, devs, scan, store, queue, ac, ghost>>
  <2>1. UNCHANGED <<nav, cur, set, net>>
    BY <1>1, <1>4 DEF NetworksButton, Repaints, Leaves, Still, NoEdits
  <2> QED BY <1>4, <2>1
<1>5. CASE CaptiveLoginButton(b) /\ UNCHANGED <<at, panel, uiState, scan, store, set, queue, ac, spent, ghost>>
  <2>1. UNCHANGED <<nav, net>>
    BY <1>1, <1>5 DEF CaptiveLoginButton, Repaints, Leaves
  <2> QED BY <1>5, <2>1 DEF uiState
<1>6. CASE Passive(b) /\ UNCHANGED <<at, panel, ctl, devs, world, spent, ghost>>
  <2>1. UNCHANGED <<nav, cur>>
    BY <1>6, QuietPassive
  <2> QED BY <1>6, <2>1 DEF world
<1> QED BY <1>2, <1>3, <1>4, <1>5, <1>6 DEF Handles

LEMMA Lighted ==
  ASSUME NEW x, NEW a, NEW b, NEW r, NEW p, NEW q, NEW t, NEW l,
         x = [stale |-> a, focus |-> b, rows |-> r, drop |-> [row |-> p, options |-> q, lit |-> t]]
  PROVE  [x EXCEPT !.drop.lit = l]
         = [stale |-> a, focus |-> b, rows |-> r, drop |-> [row |-> p, options |-> q, lit |-> l]]
<1> DEFINE d == [row |-> p, options |-> q, lit |-> t]
           e == [row |-> p, options |-> q, lit |-> l]
<1>1. [d EXCEPT !.lit = l] = e
  <2>1. [d EXCEPT !.lit = l] \in [row : {p}, options : {q}, lit : {l}]
    OBVIOUS
  <2> HIDE DEF d
  <2> QED BY <2>1, DropOf
<1>2. x.drop = d
  OBVIOUS
<1> HIDE DEF d, e
<1> DEFINE y == [stale |-> a, focus |-> b, rows |-> r, drop |-> d]
<1>3. x = y
  BY DEF d
<1>4. [x EXCEPT !.drop = e] = [stale |-> a, focus |-> b, rows |-> r, drop |-> e]
  <2>1. [y EXCEPT !.drop = e] \in [stale : {a}, focus : {b}, rows : {r}, drop : {e}]
    OBVIOUS
  <2> HIDE DEF y
  <2>2. [y EXCEPT !.drop = e] = [stale |-> a, focus |-> b, rows |-> r, drop |-> e]
    BY <2>1, PictureOf
  <2> QED BY <1>3, <2>2
<1>5. [x EXCEPT !.drop.lit = l] = [x EXCEPT !.drop = [x.drop EXCEPT !.lit = l]]
  OBVIOUS
<1> QED BY <1>1, <1>2, <1>4, <1>5 DEF e

(* A press in the closed list that asks for no frame changes no row. *)
LEMMA QuietRows ==
  ASSUME TInv, SInv, NEW b, ControlButton(b), ~ctl.open, ~nav'.dirty
  PROVE  UNCHANGED <<panel, nav, ac>> /\ SetSeen /\ BandKept /\ ctl'.sel = ctl.sel
<1>1. Repainted(nav).dirty /\ (Popped(nav).dirty \/ Popped(nav) = nav)
  BY Dirties
<1>2. UNCHANGED <<panel, ac>>
  BY DEF ControlButton
<1>3. CtlTyped(ctl) /\ Focused.focus = Focus /\ Focused.scroll = ctl.scroll /\ Focused.open = ctl.open
      /\ Focused.sel = ctl.sel /\ Focused.desired = ctl.desired
  BY DEF TInv, CtlTyped, Focused
<1>4. \/ FocusMoves(b) \/ Adjusts(b) \/ (b = "confirm" /\ Acts)
      \/ b = "back" /\ nav' = Popped(nav) /\ ctl' = Focused /\ NoEdit
  BY DEF ControlButton
<1>5. ctl' = Focused /\ UNCHANGED <<set, nav>>
  <2>1. ~FocusMoves(b)
    BY <1>1 DEF FocusMoves
  <2>2. CASE Adjusts(b)
    BY <1>1, <2>2 DEF Adjusts, NoEdit
  <2>3. CASE b = "confirm" /\ Acts
    <3>1. Applies("selfClean", 1, Focused) => ctl' = Focused /\ UNCHANGED set
      <4>1. "selfClean" \in Props /\ ~Setting("selfClean")
        BY DEF Props, PropIds, Setting
      <4> QED BY <4>1 DEF Applies
    <3> QED BY <1>1, <2>3, <3>1 DEF Acts, NoEdit
  <2>4. CASE b = "back" /\ nav' = Popped(nav) /\ ctl' = Focused /\ NoEdit
    BY <1>1, <2>4 DEF NoEdit
  <2> QED BY <1>4, <2>1, <2>2, <2>3, <2>4
<1> QED BY <1>2, <1>3, <1>5 DEF SetSeen, BandKept

(* In the open list only the light moves. *)
LEMMA QuietList ==
  ASSUME TInv, SInv, NEW b, ControlButton(b), ctl.open, ~nav'.dirty
  PROVE  /\ UNCHANGED <<nav, set, ac>> /\ BandKept
         /\ \/ ctl'.sel = Sel /\ panel' = panel
            \/ ctl'.sel # Sel /\ panel' = Boxed(ctl'.sel)
         /\ \E delta \in {-1, 1} : ctl'.sel = Cycled(Sel, delta, Len(Options(FocusRow)))
<1>1. Repainted(nav).dirty
  BY Dirties
<1>2. DropdownMoves(b)
  BY <1>1 DEF ControlButton, DropdownSaves, DropdownCancels
<1>3. CtlTyped(ctl) /\ CtlTyped(Focused)
  BY FocusTyped DEF TInv
<1> DEFINE s == Cycled(Sel, Step(b), Len(Options(FocusRow)))
<1>4. ctl' = [Focused EXCEPT !.sel = s] /\ panel' = (IF s = Sel THEN panel ELSE Boxed(s))
  BY <1>2 DEF DropdownMoves
<1>5. Step(b) \in {-1, 1}
  BY DEF Step
<1> HIDE DEF s
<1>6. ctl'.sel = s /\ ctl'.focus = Focused.focus /\ ctl'.scroll = Focused.scroll /\ ctl'.open = Focused.open
      /\ ctl'.desired = Focused.desired
  BY <1>3, <1>4 DEF CtlTyped
<1>7. BandKept
  BY <1>3, <1>6 DEF BandKept, Focused, CtlTyped
<1>8. UNCHANGED <<nav, set, ac>>
  BY <1>2 DEF DropdownMoves, NoEdit, ControlButton
<1>9. \E delta \in {-1, 1} : ctl'.sel = Cycled(Sel, delta, Len(Options(FocusRow)))
  BY <1>5, <1>6 DEF s
<1> QED BY <1>4, <1>6, <1>7, <1>8, <1>9

LEMMA ControlMatches ==
  ASSUME TInv, TInv', SInv, Matches, Current = "Control", NEW b, ControlButton(b), ~nav'.dirty
  PROVE  Matches'
<1> DEFINE f == ControlShows(ControlClamped)
<1>1. UNCHANGED <<nav, net, devs, store>> /\ BandKept /\ AcSeen /\ SetSeen
  <2>1. UNCHANGED <<nav, ac>> /\ BandKept /\ SetSeen
    <3>1. CASE ctl.open
      BY <3>1, QuietList DEF SetSeen
    <3>2. CASE ~ctl.open
      BY <3>2, QuietRows
    <3> QED BY <3>1, <3>2
  <2> QED BY <2>1 DEF ControlButton, AcSeen
<1>2. Current' = "Control" /\ Frame = f /\ Frame' = f'
  <2>1. Current' = "Control"
    BY <1>1 DEF Current
  <2> QED BY <2>1, FrameIs, FrameIsNext DEF FrameOf
<1>3. panel.on = "Control" /\ panel.link = net.link /\ ~panel.torn /\ Alike("Control", panel.show, f)
  BY <1>2 DEF Matches, Overrun, Blank
<1> HIDE DEF f
<1>4. SUFFICES /\ panel'.on = "Control" /\ panel'.link = net.link /\ ~panel'.torn
               /\ Alike("Control", panel'.show, f')
  <2>1. Alike("Control", panel'.show, f') <=> Alike(Current, panel.show, Frame)'
    BY <1>2 DEF Alike
  <2> QED BY <1>1, <1>2, <2>1 DEF Matches
<1>5. CASE ~ctl.open
  <2>1. panel' = panel /\ ctl'.sel = ctl.sel
    BY <1>5, QuietRows
  <2>2. Alike("Control", f, f')
    BY <1>1, <2>1, BandAlike DEF f
  <2>3. Alike("Control", panel.show, f')
    BY <1>3, <2>2, AlikeTrans
  <2> QED BY <1>3, <2>1, <2>3
<1>6. CASE ctl.open
  <2> DEFINE o == Options(FocusRow)
             l == ctl'.sel
             s == panel.show
  <2>1. CtlTyped(ctl') /\ CtlTyped(ctl) /\ Clamped /\ ControlFrame
    BY ClampOf, ControlFrameIs DEF TInv
  <2>2. f.drop.row = FocusRow /\ f.drop.options = o /\ f.drop.lit = ctl.sel
    BY <1>6, <2>1 DEF ControlFrame, f
  <2>3. /\ s = [stale |-> f.stale, focus |-> f.focus, rows |-> s.rows,
                drop |-> [row |-> f.drop.row, options |-> f.drop.options, lit |-> s.drop.lit]]
        /\ s.drop.lit \in Nat /\ (s.drop.lit = f.drop.lit \/ Len(o) = 1)
    BY <1>3, <2>2, Zenon DEF Alike
  <2>4. l \in Nat
    BY <2>1 DEF CtlTyped
  <2>5. \/ l = Sel /\ panel' = panel
        \/ l # Sel /\ panel' = Boxed(l)
    BY <1>6, QuietList
  <2>6. Len(o) = 1 \/ (l # Sel /\ s.drop.lit = ctl.sel)
    <3>1. Len(o) \in 1..16 /\ Sel \in 0..(Len(o) - 1)
      BY FocusTyped
    <3>2. PICK delta \in {-1, 1} : l = Cycled(Sel, delta, Len(o))
      BY <1>6, QuietList
    <3> DEFINE n == Len(o)
               k == Sel
    <3>3. n \in 1..16 /\ k \in 0..(n - 1) /\ l = (k + delta + n) % n
      BY <3>1, <3>2 DEF Cycled
    <3> HIDE DEF n, k, l
    <3>4. n = 1 \/ l # k
      BY <3>3
    <3> QED BY <2>2, <2>3, <3>4 DEF n, k
  <2>7. CASE l = Sel /\ panel' = panel
    <3>1. Len(o) = 1
      BY <2>6, <2>7
    <3>2. Pictured(s)
      BY <2>3 DEF Pictured
    <3>3. Alike("Control", s, f')
      <4> HIDE DEF s
      <4> QED BY <1>1, <1>3, <1>6, <2>3, <3>1, <3>2, BandLit DEF f, s
    <3> QED BY <1>3, <2>7, <3>3
  <2>8. CASE l # Sel /\ panel' = Boxed(l)
    <3>1. s.drop.row = FocusRow /\ s.drop.options = o
      BY <2>2, <2>3
    <3>2. s.drop.lit = Sel \/ s.drop.lit >= Len(o)
      <4>a. Len(o) \in 1..16 /\ Sel \in 0..(Len(o) - 1)
        BY FocusTyped
      <4>b. ctl.sel \in Nat
        BY <2>1 DEF Clamped
      <4>1. Len(o) \in 1..16 /\ Sel \in 0..(Len(o) - 1) /\ ctl.sel \in Nat
        BY <4>a, <4>b
      <4> DEFINE n == Len(o)
                 k == Sel
                 m == s.drop.lit
                 c == ctl.sel
      <4>2. n \in 1..16 /\ k \in 0..(n - 1) /\ c \in Nat /\ m \in Nat /\ (n = 1 \/ m = c)
            /\ k = (IF c >= n THEN 0 ELSE c)
        BY <2>3, <2>6, <4>1 DEF Sel
      <4> HIDE DEF n, k, m, c
      <4>3. m = k \/ m >= n
        BY <4>2
      <4> QED BY <4>3 DEF n, k, m
    <3>3. panel' = [panel EXCEPT !.show.drop.lit = l]
      BY <1>3, <2>8, <3>1, <3>2 DEF Boxed
    <3>4. PanelTyped(panel)
      BY DEF TInv
    <3>5. panel'.on = panel.on /\ panel'.link = panel.link /\ panel'.torn = panel.torn
      BY <3>3, <3>4 DEF PanelTyped
    <3>6. panel'.show = [s EXCEPT !.drop.lit = l]
      BY <3>3, <3>4 DEF PanelTyped
    <3> DEFINE t == panel'.show
    <3>7. t = [stale |-> s.stale, focus |-> s.focus, rows |-> s.rows,
               drop |-> [row |-> s.drop.row, options |-> s.drop.options, lit |-> l]]
      <4>1. Pictured(s)
        BY <2>3 DEF Pictured
      <4> HIDE DEF s, l, t
      <4>2. [s EXCEPT !.drop.lit = l]
            = [stale |-> s.stale, focus |-> s.focus, rows |-> s.rows,
               drop |-> [row |-> s.drop.row, options |-> s.drop.options, lit |-> l]]
        BY <4>1, Lighted DEF Pictured
      <4> QED BY <3>6, <4>2 DEF t
    <3>8. Alike("Control", t, f')
      <4> HIDE DEF s, t
      <4>1. Pictured(t) /\ t.stale = s.stale /\ t.focus = s.focus /\ t.rows = s.rows
            /\ t.drop.row = s.drop.row /\ t.drop.options = s.drop.options /\ t.drop.lit = l
        BY <3>7 DEF Pictured
      <4>2. Alike("Control", s, f)
        BY <1>3 DEF s
      <4> HIDE DEF o
      <4> QED BY <1>1, <1>6, <2>4, <4>1, <4>2, BandLit DEF f
    <3> QED BY <1>3, <3>5, <3>8
  <2> QED BY <2>5, <2>7, <2>8
<1> QED BY <1>5, <1>6

(* A press. *)
LEMMA PressMatches ==
  ASSUME TInv, TInv', SInv, FrameInv, NEW b, Press(b)
  PROVE  FrameInv'
<1> SUFFICES ASSUME Held' PROVE Matches'
  BY DEF FrameInv
<1>1. Handles(b) /\ at = "nav" /\ edges' = edges
  BY DEF Press
<1>2. ~nav'.dirty /\ at' \in {"nav", "services"}
  BY DEF Held
<1>3. UNCHANGED <<at, nav, edges>> /\ (Current = "Control" => ControlButton(b))
      /\ (Current # "Control" => UNCHANGED <<panel, cur, ctl, devs, scan, store, set, ac, net>>)
  <2>1. CASE Current = "Control"
    <3>1. ControlButton(b) /\ UNCHANGED at
      BY <1>1, <2>1 DEF Handles, Passive
    <3>2. UNCHANGED nav
      BY <1>2, <3>1, QuietList, QuietRows
    <3> QED BY <1>1, <2>1, <3>1, <3>2
  <2>2. CASE Current # "Control"
    BY <1>1, <1>2, <2>2, QuietPress
  <2> QED BY <2>1, <2>2
<1>4. Held /\ Current' = Current
  BY <1>3, HeldBefore
<1>5. Matches
  BY <1>4 DEF FrameInv
<1>6. CASE Current = "Control"
  BY <1>2, <1>3, <1>5, <1>6, ControlMatches
<1>7. CASE Current # "Control"
  <2>1. Unseen
    BY <1>3, <1>7 DEF Unseen
  <2> QED BY <1>3, <1>4, <1>5, <1>7, <2>1, MatchesKept
<1> QED BY <1>6, <1>7

(* The services. *)
LEMMA QuietServices ==
  ASSUME TInv, SInv, Services, ~nav'.dirty
  PROVE  nav' = nav /\ edges \cap Wanted = {} /\ ("scan" \in Wanted => ~Polled(scan).edge)
<1> DEFINE m == AfterLogin
           n == AfterPrompt(m)
           now == edges \cup (IF Polled(scan).edge THEN {"scan"} ELSE {})
<1>1. NavTyped(nav) /\ (\A s : Pushed(nav, s).dirty) /\ (Popped(nav).dirty \/ Popped(nav) = nav)
  BY Dirties DEF TInv
<1>2. \A k : NavTyped(k) => /\ NavTyped(Popped(k)) /\ Repainted(k).dirty
                            /\ Repainted([k EXCEPT !.watts = ac.ext.watts]).dirty
  BY DEF NavTyped, Repainted, Popped
<1>3. \A k, s : NavTyped(k) => NavTyped(Pushed(k, s)) /\ (k.dirty => Pushed(k, s).dirty)
  BY DEF NavTyped, Repainted, Pushed
<1>4. NavTyped(m) /\ (m = nav \/ m.dirty)
  BY <1>1, <1>2 DEF AfterLogin
<1> HIDE DEF m
<1>5. NavTyped(n) /\ (n = nav \/ n.dirty)
  BY <1>1, <1>3, <1>4 DEF AfterPrompt
<1>6. nav' = CASE PowerMoved(n) -> Repainted([n EXCEPT !.watts = ac.ext.watts])
               [] ~PowerMoved(n) /\ now \cap Wanted # {} -> Repainted(n)
               [] OTHER -> n
  BY Zenon DEF Services, m
<1> HIDE DEF n, now
<1>7. ~PowerMoved(n)
  BY <1>2, <1>5, <1>6
<1>8. now \cap Wanted = {}
  <2>1. now \cap Wanted # {} => nav' = Repainted(n)
    BY <1>6, <1>7, Zenon
  <2> QED BY <1>2, <1>5, <2>1
<1>9. nav' = n
  BY <1>6, <1>7, <1>8, Zenon
<1>10. nav' = nav
  BY <1>5, <1>9
<1> QED BY <1>8, <1>10 DEF now

LEMMA ServicesMatches ==
  ASSUME TInv, TInv', SInv, FrameInv, Services
  PROVE  FrameInv'
<1> SUFFICES ASSUME Held' PROVE Matches'
  BY DEF FrameInv
<1>1. nav' = nav /\ edges \cap Wanted = {} /\ ("scan" \in Wanted => ~Polled(scan).edge)
  BY QuietServices DEF Held
<1>2. Held /\ Current' = Current
  BY <1>1 DEF Held, Services, Current
<1>3. UNCHANGED <<panel, cur, devs, store, set, ac, net>>
  BY DEF Services
<1>4. Current = "Control" => ctl' = ctl
  <2>1. Current = "Control" => "state" \in Wanted
    BY WantedIs DEF WantedBy, AcScreens
  <2> QED BY <1>1, <2>1 DEF Services, Published
<1>5. Current = "Devices" => scan'.on = scan.on /\ (~scan.on => scan'.found = scan.found)
  <2>1. ScanTyped(scan) /\ scan' = [Polled(scan) EXCEPT !.edge = FALSE]
    BY DEF Services, TInv
  <2>2. CASE ~scan.on
    BY <2>1, <2>2 DEF Polled, ScanTyped
  <2>3. CASE scan.on /\ ~Polled(scan).edge
    <3> DEFINE found == FoldLeft(Handled, scan.found, scan.rx)
               rounds == IF scan.rounds < ProbeRounds /\ scan.clock >= scan.rounds
                         THEN scan.rounds + 1 ELSE scan.rounds
               drained == [scan EXCEPT !.found = found, !.rx = <<>>, !.rounds = rounds]
    <3>1. Polled(scan) = IF scan.clock = Window THEN Ended(drained, TRUE) ELSE drained
      BY <2>3 DEF Polled
    <3> HIDE DEF found, rounds
    <3>2. drained.on = scan.on /\ DOMAIN drained = DOMAIN scan
      BY <2>1 DEF ScanTyped
    <3>3. Ended(drained, TRUE).edge
      BY <2>1 DEF ScanTyped, Ended
    <3> HIDE DEF drained
    <3>4. Polled(scan) = drained
      BY <2>3, <3>1, <3>3
    <3> QED BY <2>1, <2>3, <3>2, <3>4 DEF ScanTyped
  <2> QED BY <1>1, <2>2, <2>3, WantedIs DEF WantedBy
<1>6. Unseen
  BY <1>3, <1>4, <1>5 DEF Unseen, AcSeen, SetSeen
<1>7. Matches
  BY <1>2 DEF FrameInv
<1> QED BY <1>2, <1>3, <1>6, <1>7, MatchesKept

(* Steps of the loop that draw nothing. *)
LEMMA IdleMatches ==
  ASSUME TInv, TInv', SInv, FrameInv, PowerDown \/ PowerTap \/ IdleRefresh \/ PowerHeld \/ NoDraw
  PROVE  FrameInv'
<1> SUFFICES ASSUME Held' PROVE Matches'
  BY DEF FrameInv
<1>0. NavTyped(nav)
  BY DEF TInv
<1>1. CASE PowerTap \/ IdleRefresh
  <2>1. nav' = Repainted([nav EXCEPT !.power = FALSE]) \/ nav' = Repainted(nav)
    BY <1>1 DEF PowerTap, IdleRefresh, NavOnly
  <2>2. nav'.dirty
    BY <1>0, <2>1 DEF NavTyped, Repainted
  <2> QED BY <2>2 DEF Held
<1>2. CASE PowerHeld
  BY <1>2 DEF PowerHeld, Held
<1>3. CASE PowerDown \/ NoDraw
  <2>1. /\ nav'.stack = nav.stack /\ nav'.dirty = nav.dirty /\ at \in {"nav", "services"}
        /\ UNCHANGED <<panel, uiState, world, edges>>
    BY <1>0, <1>3 DEF PowerDown, NoDraw, NavOnly, NavTyped
  <2>2. Current' = Current
    BY <2>1 DEF Current
  <2>3. Held
    BY <2>1, <2>2, WantedSame DEF Held
  <2>4. Unseen
    BY <2>1 DEF Unseen, AcSeen, SetSeen, uiState, world
  <2> QED BY <2>1, <2>2, <2>3, <2>4, MatchesKept DEF FrameInv, uiState, world
<1> QED BY <1>1, <1>2, <1>3

-----------------------------------------------------------------------------
(* The page of the hotspot stays alone. *)
LEMMA Bases ==
  ASSUME SInv, HotspotInv
  PROVE  /\ Len(nav.stack) \in 1..5 /\ "stack" \in DOMAIN nav
         /\ nav.stack[1] = "Hotspot" => Current = "Hotspot" /\ Popped(nav) = nav
         /\ nav.stack[1] # "Hotspot" => /\ Popped(nav).stack[1] # "Hotspot"
                                        /\ \A s : Pushed(nav, s).stack[1] # "Hotspot"
                                        /\ \A s : Pushed(Popped(nav), s).stack[1] # "Hotspot"
<1>1. Nested(nav.stack) /\ "stack" \in DOMAIN nav
  BY DEF SInv, NavSound
<1>2. Len(nav.stack) \in 1..5
  BY <1>1, NestedTop
<1>3. nav.stack[1] = "Hotspot" => Current = "Hotspot" /\ Popped(nav) = nav
  BY DEF HotspotInv, Current, Popped
<1>4. ASSUME NEW k, Nested(k.stack), "stack" \in DOMAIN k, k.stack[1] # "Hotspot"
      PROVE  /\ Popped(k).stack[1] # "Hotspot" /\ \A s : Pushed(k, s).stack[1] # "Hotspot"
             /\ Nested(Popped(k).stack) /\ "stack" \in DOMAIN Popped(k)
  <2> DEFINE q == k.stack
             n == Len(q)
  <2>1. Nested(q) /\ q \in Seq(ScreenIds) /\ n \in 1..5
    BY <1>4, NestedTop DEF Nested
  <2>2. \A s : Append(q, s)[1] = q[1]
    <3>1. q # <<>> /\ q \in Seq(ScreenIds)
      BY <2>1 DEF Nested
    <3> HIDE DEF q
    <3> QED BY <3>1
  <2>3. n # 1 => Front(q)[1] = q[1] /\ Nested(Front(q))
    <3>1. ASSUME n # 1 PROVE Front(q)[1] = q[1]
      <4>1. n \in 2..5
        BY <2>1, <3>1
      <4>2. Front(q) = [i \in 1..(n - 1) |-> q[i]]
        <5>1. Front(q) = SubSeq(q, 1, n - 1)
          BY DEF Front
        <5> HIDE DEF q, n
        <5> QED BY <2>1, <4>1, <5>1
      <4> HIDE DEF q, n
      <4> QED BY <4>1, <4>2
    <3> QED BY <2>1, <3>1, NestedFront
  <2> HIDE DEF q
  <2>4. \A st : Repainted([k EXCEPT !.stack = st]).stack = st /\ "stack" \in DOMAIN Repainted([k EXCEPT !.stack = st])
    BY <1>4 DEF Repainted
  <2>5. q = k.stack /\ q[1] # "Hotspot"
    BY <1>4 DEF q
  <2> QED BY <1>4, <2>1, <2>2, <2>3, <2>4, <2>5 DEF Pushed, Popped
<1> QED BY <1>1, <1>2, <1>3, <1>4

LEMMA HotspotKept ==
  ASSUME SInv, HotspotInv, TInv, [Next]_vars
  PROVE  HotspotInv'
<1>1. ASSUME nav'.stack = nav.stack, net'.link = net.link, "prompt" \in edges' => "prompt" \in edges
      PROVE  HotspotInv'
  BY <1>1 DEF HotspotInv
<1>2. ASSUME nav'.stack[1] # "Hotspot" PROVE HotspotInv'
  BY <1>2 DEF HotspotInv
<1>3. ASSUME NEW b, Press(b) PROVE HotspotInv'
  <2>1. CASE nav.stack[1] = "Hotspot"
    <3>1. Current = "Hotspot"
      BY <2>1, Bases
    <3>2. Current \notin {"Home", "Dashboard", "Details", "Control", "Devices", "Settings", "Networks",
                          "CaptiveLogin", "About", "Licenses", "LicenseText"}
      BY <3>1
    <3>3. UNCHANGED <<nav, net, edges>>
      <4>1. edges' = edges /\ Handles(b)
        BY <1>3 DEF Press
      <4> QED BY <3>2, <4>1 DEF Handles, Passive, world
    <3> QED BY <1>1, <3>3
  <2>2. CASE nav.stack[1] # "Hotspot"
    <3>1. NavStep
      BY <1>3, PressMoves
    <3>2. nav'.stack[1] # "Hotspot"
      BY <2>2, <3>1, Bases DEF NavStep, Repainted
    <3> QED BY <1>2, <3>2
  <2> QED BY <2>1, <2>2
<1>4. CASE Services
  <2>1. net' = net /\ edges' = {}
    BY <1>4 DEF Services
  <2> DEFINE n == AfterPrompt(AfterLogin)
             now == edges \cup (IF Polled(scan).edge THEN {"scan"} ELSE {})
  <2>2. nav' = CASE PowerMoved(n) -> Repainted([n EXCEPT !.watts = ac.ext.watts])
                 [] ~PowerMoved(n) /\ now \cap Wanted # {} -> Repainted(n)
                 [] OTHER -> n
    BY <1>4, Zenon DEF Services
  <2>3. IF nav.stack[1] = "Hotspot" THEN n = nav ELSE n.stack[1] # "Hotspot"
    <3>1. CASE nav.stack[1] = "Hotspot"
      <4>1. AfterLogin = nav /\ ~Published("prompt")
        BY <3>1, Bases DEF AfterLogin, HotspotInv, Published
      <4> QED BY <3>1, <4>1 DEF AfterPrompt
    <3>2. CASE nav.stack[1] # "Hotspot"
      <4>1. AfterLogin = nav \/ AfterLogin = Popped(nav)
        BY DEF AfterLogin
      <4> QED BY <3>2, <4>1, Bases DEF AfterPrompt
    <3> QED BY <3>1, <3>2
  <2>a. NavTyped(n)
    <3>1. \A m : NavTyped(m) => NavTyped(Popped(m)) /\ \A s : NavTyped(Pushed(m, s))
      BY DEF NavTyped, Repainted, Popped, Pushed
    <3> QED BY <3>1 DEF AfterPrompt, AfterLogin, TInv
  <2> HIDE DEF n, now
  <2>4. nav' \in {Repainted([n EXCEPT !.watts = ac.ext.watts]), Repainted(n), n}
    BY <2>2, Zenon
  <2>5. nav'.stack = n.stack
    BY <2>4, <2>a DEF Repainted, NavTyped
  <2> QED BY <1>1, <1>2, <2>1, <2>3, <2>5
<1>5. CASE Boot
  BY <1>5 DEF Boot, HotspotInv, BlankNet
<1>6. CASE Draw \/ PowerDown \/ PowerTap \/ IdleRefresh \/ PowerHeld \/ NoDraw \/ UNCHANGED vars
  <2>1. nav'.stack = nav.stack /\ net' = net /\ edges' = edges
    BY <1>6 DEF Draw, PowerDown, PowerTap, IdleRefresh, PowerHeld, NoDraw, NavOnly, Repainted, vars, world,
       TInv, NavTyped
  <2> QED BY <1>1, <2>1
<1>7. CASE World
  <2>1. nav' = nav
    BY <1>7, WorldStep
  <2>2. CASE LinkMoves \/ VerdictArrives \/ TunnelMoves \/ PromptDue \/ WeatherArrives
    <3>1. net.link # "disabled"
      BY <2>2 DEF LinkMoves, VerdictArrives, TunnelMoves, PromptDue, WeatherArrives, News
    <3> QED BY <2>1, <3>1 DEF HotspotInv
  <2>3. CASE StateArrives \/ PropsArrive \/ GroupArrives \/ SessionEnds \/ CapsArrive \/ Acknowledged
    <3>1. net' = net
      BY <2>3 DEF StateArrives, PropsArrive, GroupArrives, SessionEnds, CapsArrive, Acknowledged, OnlyAc
    <3>2. "prompt" \in edges' => "prompt" \in edges
      <4>1. \A st : Publish(st) => ("prompt" \in edges' => "prompt" \in edges)
        BY DEF Publish
      <4>2. \A v : PublishProps(v) => ("prompt" \in edges' => "prompt" \in edges)
        BY DEF PublishProps
      <4> QED BY <2>3, <4>1, <4>2, Acknowledges
              DEF StateArrives, PropsArrive, GroupArrives, SessionEnds, CapsArrive, Raised
    <3> QED BY <1>1, <2>1, <3>1, <3>2
  <2>4. CASE LoginEnds \/ TimePasses \/ ReplyArrives
    <3>1. ("prompt" \in edges' => "prompt" \in edges) /\ net'.link = net.link
      BY <2>4 DEF LoginEnds, TimePasses, ReplyArrives, Raised, TInv, NetTyped
    <3> QED BY <1>1, <2>1, <3>1
  <2> QED BY <1>7, <2>2, <2>3, <2>4 DEF World
<1> QED BY <1>3, <1>4, <1>5, <1>6, <1>7 DEF Next, Tick, EndTick

LEMMA NextMatches == TInv /\ TInv' /\ SInv /\ HotspotInv /\ FrameInv /\ [Next]_vars => FrameInv'
<1> SUFFICES ASSUME TInv, TInv', SInv, HotspotInv, FrameInv, [Next]_vars PROVE FrameInv'
  OBVIOUS
<1>1. CASE UNCHANGED vars
  <2>1. UNCHANGED <<at, nav, panel, uiState, world, edges>>
    BY <1>1 DEF vars
  <2>2. Current' = Current /\ Wanted' = Wanted
    BY <2>1, WantedSame DEF Current
  <2>3. Unseen
    BY <2>1 DEF Unseen, AcSeen, SetSeen, uiState, world
  <2>4. Held' => Held
    BY <2>1, <2>2 DEF Held
  <2> QED BY <2>1, <2>2, <2>3, <2>4, MatchesKept DEF FrameInv, uiState, world
<1>2. ASSUME NEW b \in Buttons, Press(b) PROVE FrameInv'
  BY <1>2, PressMatches
<1>3. CASE Draw
  BY <1>3, DrawMatches DEF FrameInv
<1>4. CASE Boot
  <2>1. nav'.dirty
    BY <1>4 DEF Boot
  <2> QED BY <2>1 DEF FrameInv, Held
<1>5. CASE World
  BY <1>5, WorldMatches
<1> QED BY <1>1, <1>2, <1>3, <1>4, <1>5, ServicesMatches, IdleMatches DEF Next, Tick, EndTick

LEMMA InitMatches == Init => HotspotInv /\ FrameInv
<1> SUFFICES ASSUME Init PROVE HotspotInv /\ FrameInv
  OBVIOUS
<1>1. nav.dirty
  BY DEF Init
<1>2. nav.stack[1] # "Hotspot"
  <2>1. scene \in {"control", "devices", "settings", "home", "about", "cached"}
    BY DEF Init, Scenes
  <2> QED BY <2>1 DEF Init, Scenes
<1> QED BY <1>1, <1>2 DEF HotspotInv, FrameInv, Held

(* After a pass with nothing left to consume the panel shows the screen that  *)
(* is current with the values that are published, whatever edges, presses,    *)
(* prompts and boxes drawn into the held frame came before.                   *)
THEOREM FrameIsCurrent == Spec => []FrameCurrent
<1>1. FrameInv => FrameCurrent
  <2> SUFFICES ASSUME FrameInv, Rest, ~Overrun, ~Blank
               PROVE  /\ panel.on = Current /\ panel.link = net.link /\ ~panel.torn
                      /\ Told(panel.show) = Told(Frame)
    BY DEF FrameCurrent
  <2>1. Matches
    BY DEF FrameInv, Held, Rest
  <2>2. panel.on = Current /\ Alike(panel.on, panel.show, Frame)
    BY <2>1 DEF Matches
  <2>3. panel.on = "Control" => Pictured(Frame)
    BY <2>2, FrameIs, ControlPictured DEF FrameOf
  <2>4. Told(panel.show) = Told(Frame)
    BY <2>2, <2>3, AlikeTold
  <2> QED BY <2>1, <2>4 DEF Matches
<1>2. Init => SInv
  BY InitNested
<1> QED BY <1>1, <1>2, InitTyped, InitMatches, NextTyped, NextNests, NextMatches, HotspotKept, PTL DEF Spec

-----------------------------------------------------------------------------
(* The dialogs. *)

LEMMA SavesAsShown ==
  ASSUME TInv, Matches, Current = "Control", NEW b, ControlButton(b), ghost' # ghost, ~NoneLit
  PROVE  ghost' = OnPanel
<1> DEFINE o == Options(FocusRow)
           s == panel.show
           f == ControlShows(ControlClamped)
<1>1. ctl.open /\ ghost' = <<FocusRow, o[Sel + 1]>>
  <2>1. ctl.open /\ DropdownSaves(b)
    BY DEF ControlButton, DropdownMoves, DropdownCancels
  <2> QED BY <2>1 DEF DropdownSaves
<1>2. Clamped /\ ControlFrame /\ ctl.sel \in Nat
  BY ClampOf, ControlFrameIs DEF Clamped
<1>3. panel.on = "Control" /\ Alike("Control", s, f)
  BY FrameIs DEF FrameOf, Matches, Overrun, Blank
<1>4. f.drop.row = FocusRow /\ f.drop.options = o /\ f.drop.lit = ctl.sel
  BY <1>1, <1>2 DEF ControlFrame
<1> HIDE DEF f
<1>5. /\ s = [stale |-> f.stale, focus |-> f.focus, rows |-> s.rows,
              drop |-> [row |-> f.drop.row, options |-> f.drop.options, lit |-> s.drop.lit]]
      /\ s.drop.lit \in Nat /\ (s.drop.lit = ctl.sel \/ Len(o) = 1)
  BY <1>3, <1>4, Zenon DEF Alike
<1>6. s.drop.row = FocusRow /\ s.drop.options = o
  BY <1>4, <1>5
<1>7. FocusRow \in RowNames /\ Len(o) \in 1..16 /\ Sel \in 0..(Len(o) - 1)
  BY FocusTyped
<1>8. s.drop # NoDrop
  BY <1>6, <1>7 DEF NoDrop, RowNames
<1>9. s.drop.lit = Sel
  <2> DEFINE n == Len(o)
             k == Sel
             m == s.drop.lit
             c == ctl.sel
  <2>1. n \in 1..16 /\ k \in 0..(n - 1) /\ c \in Nat /\ m \in Nat /\ (m = c \/ n = 1)
        /\ k = (IF c >= n THEN 0 ELSE c)
    BY <1>2, <1>5, <1>7 DEF Sel
  <2>2. ~(m >= n)
    BY <1>3, <1>6 DEF NoneLit
  <2> HIDE DEF n, k, m, c
  <2>3. m = k
    BY <2>1, <2>2
  <2> QED BY <2>3 DEF m, k
<1>10. OnPanel = <<s.drop.row, s.drop.options[s.drop.lit + 1]>>
  <2>1. panel.on # "Devices"
    BY <1>3
  <2> QED BY <1>3, <1>8, <2>1, Zenon DEF OnPanel
<1> HIDE DEF s, o
<1> QED BY <1>1, <1>6, <1>9, <1>10

LEMMA AsksAsShown ==
  ASSUME TInv, Matches, Current = "Devices", NEW b, DevicesButton(b), ghost' # ghost
  PROVE  ghost' = OnPanel
<1>1. DevicesFrame /\ ResultsTyped(devs, scan)
  BY DevicesFrameIs DEF TInv
<1>2. b = "confirm" /\ devs.mode \in {"confirm", "confirmDelete"} /\ ghost' = Dialog(b)
  <2>1. ghost' = Dialog(b)
    BY DEF DevicesButton
  <2>2. ~(b = "confirm" /\ devs.mode = "confirm") /\ ~(b = "confirm" /\ devs.mode = "confirmDelete")
        => Dialog(b) = ghost
    BY Zenon DEF Dialog
  <2> QED BY <2>1, <2>2
<1>3. Mode = devs.mode /\ ~Lists
  BY <1>2 DEF Mode, Lists
<1>4. panel.on = "Devices" /\ panel.show = DevicesShows(DevicesClamped) /\ ~Gone
  <2>1. ~Gone
    BY <1>1, <1>2, <1>3 DEF Gone, ResultsTyped, Matches, TInv, DevsTyped
  <2>2. panel.on = "Devices" /\ Alike("Devices", panel.show, DevicesShows(DevicesClamped))
    BY <1>2, FrameIs DEF FrameOf, Matches, Overrun, Blank
  <2> QED BY <2>1, <2>2 DEF Alike
<1>5. DevicesClamped.cursor = devs.cursor
  BY <1>1, <1>3 DEF DevicesFrame
<1>6. CASE devs.mode = "confirm"
  <2>1. panel.show = [mode |-> "confirm", add |-> scan.found[devs.cursor + 1]]
    BY <1>1, <1>3, <1>4, <1>5, <1>6 DEF DevicesFrame
  <2>2. panel.show.mode = "confirm" /\ panel.show.add.id = Chosen
    BY <2>1 DEF Chosen
  <2>3. Dialog(b) = <<"add", Chosen>>
    <3>1. devs.mode # "confirmDelete"
      BY <1>6
    <3> QED BY <1>2, <1>6, <3>1, Zenon DEF Dialog
  <2>4. OnPanel = <<"add", panel.show.add.id>>
    <3>1. panel.on # "Control" /\ panel.show.mode # "confirmDelete"
      BY <1>4, <2>2
    <3> QED BY <1>4, <2>2, <3>1, Zenon DEF OnPanel
  <2> QED BY <1>2, <2>2, <2>3, <2>4
<1>7. CASE devs.mode = "confirmDelete"
  <2>1. panel.show = [mode |-> "confirmDelete", remove |-> store.list[devs.cursor + 1]]
    BY <1>1, <1>3, <1>4, <1>5, <1>7 DEF DevicesFrame
  <2>2. panel.show.mode = "confirmDelete" /\ panel.show.remove = store.list[devs.cursor + 1]
    BY <2>1
  <2>3. Dialog(b) = <<"remove", store.list[devs.cursor + 1]>>
    <3>1. devs.mode # "confirm" /\ devs.cursor < Len(store.list)
      BY <1>7 DEF Matches
    <3> QED BY <1>2, <1>7, <3>1, Zenon DEF Dialog
  <2>4. OnPanel = <<"remove", panel.show.remove>>
    <3>1. panel.on # "Control" /\ panel.show.mode # "confirm"
      BY <1>4, <2>2
    <3> QED BY <1>4, <2>2, <3>1, Zenon DEF OnPanel
  <2> QED BY <1>2, <2>2, <2>3, <2>4
<1> QED BY <1>2, <1>6, <1>7

LEMMA DialogsKept ==
  TInv /\ FrameInv /\ [Next]_vars
  => [(ghost' \notin {<<>>, ghost} /\ ~nav.dirty /\ edges = {} /\ ~NoneLit) => ghost' = OnPanel]_vars
<1> SUFFICES ASSUME TInv, FrameInv, Next, ghost' \notin {<<>>, ghost}, ~nav.dirty, edges = {}, ~NoneLit
             PROVE  ghost' = OnPanel
  OBVIOUS
<1>1. PICK b \in Buttons : Press(b)
  <2>1. ~World
    BY DEF World, StateArrives, PropsArrive, GroupArrives, SessionEnds, CapsArrive, Acknowledged, LinkMoves,
       VerdictArrives, TunnelMoves, PromptDue, WeatherArrives, LoginEnds, TimePasses, ReplyArrives, OnlyAc, News
  <2>2. ~Services /\ ~Boot /\ ~Draw /\ ~NoDraw /\ ~PowerDown /\ ~PowerTap /\ ~PowerHeld /\ ~IdleRefresh
    BY DEF Services, Boot, Draw, NoDraw, PowerDown, PowerTap, PowerHeld, IdleRefresh, NavOnly
  <2> QED BY <2>1, <2>2 DEF Next, Tick, EndTick
<1>2. Matches /\ Handles(b)
  BY <1>1 DEF FrameInv, Held, Press
<1>3. \/ Current = "Control" /\ ControlButton(b)
      \/ Current = "Devices" /\ DevicesButton(b)
  BY <1>2 DEF Handles
<1> QED BY <1>2, <1>3, SavesAsShown, AsksAsShown

(* While the panel is up to date, Confirm in a dialog does what the panel     *)
(* says: it saves the option that is lit in the row that is named, it adds or *)
(* removes the device that is asked about, whatever moved the rows, options   *)
(* and devices that the handlers look up by position.                         *)
THEOREM DialogsDoWhatTheyShow == Spec => ActsAsShown
<1>1. Init => SInv
  BY InitNested
<1> QED BY <1>1, InitTyped, InitMatches, NextTyped, NextNests, NextMatches, HotspotKept, DialogsKept, PTL
        DEF Spec, ActsAsShown
=============================================================================
