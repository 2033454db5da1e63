# Freedea, specified

TLA+ models of the Freedea firmware (a wall controller for Midea air
conditioners on an ESP32-C3 with an e-ink panel), the TLC runs that check them on
small instances, and TLAPS proofs of the results that hold for every size. Paths
below are relative to the repository; `AcService.cpp:416` means
`src/service/AcService.cpp`, line 416.

How to run, from this directory: `tlc -config X.cfg Module` for a row of the table
under *Runs*, `tlapm AcServiceProofs.tla` (and the other modules named
`*Proofs`) for the proofs. `PROJECT.json` lists the components, the runs, the source lines behind every
definition, the findings, the hazards and, for each checked property, a mutated
definition under which the property fails.

## The system

The firmware is one Arduino `loop()` and a handful of FreeRTOS tasks. The main loop
owns the screens, the input, the settings and the supervision of WiFi; a long-lived
task owns the session to the air conditioner; short-lived tasks do what would block
(a probe, a login, a tunnel's bring-up). They share memory under mutexes, a command
queue of four entries, and *edges*: one-bit flags that a service raises when
something changed and that the main loop consumes to repaint.

| component | state it keeps | operations | talks to | what is hard |
| --- | --- | --- | --- | --- |
| **AC service** `service/AcService` | published state, capabilities, properties, telemetry; edges; pending commands; deadlines; lock target and strikes | command queue, session open, drain, poll, SetState, properties, display toggle, lock override, backoff | main loop (mutex, queue, edges), LAN transport | pushes arrive anywhere in a pass; every request may fail, be slow or go unanswered; commands coalesce; the UI reads between any two steps |
| **LAN transport** `service/LanTransport` | socket, wire buffer, V3 key and its age | open, handshake, send, read, close | TCP, codecs | packets cut anywhere; timeouts keep half a packet; one static buffer for both directions |
| **Main loop** `main.cpp` | CPU policy, last AC generation | poll mode by screen, edges to repaints, toasts, power off | everything | consume an edge, then read the data: two critical sections |
| **Screens** `ui/Screens` | Control's base state, dropdowns, text buffers, toast | draw and handle input of each screen | AC service, stores | an edit is composed from a base that is replaced by published states |
| **Configuration stores** `ConfigFile`, `SettingsStore`, `DeviceStore` | live contents, dirty flag, two slots each on the card | init, save, debounce, repair, import | SD card | power cuts, a card that fails, half of a pair written |
| **Vault, payloads** `lib/Vault`, `lib/Settings`, `lib/Devices` | none | encode, decode, validate | | pure |
| **Capabilities cache** `CapabilitiesStore` | one slot per device | load, save | SD card | a stale cache of another device |
| **WiFi service** `WifiService` | link, attempt, backoff | tick, restart | radio, settings | one shared backoff, a restart mid-attempt |
| **WiFi hotspot** `WifiHotspot` | running flag | start, stop | radio | |
| **Captive probe** `CaptiveProbeService` | probe slot and name, running/ready flags | tick, task, consume result | WiFi, settings | a probe outlives its link session |
| **Portal login** `PortalLoginService` | prompted, running, result, edge | prompt, start, task, dismissal | HTTP, screens | task and main loop share flags without a lock |
| **WireGuard service** `WireGuardService` | status, attempt, cancel flag, outcome | tick, bring-up task | WiFi, vendored tunnel | a cancel while the bring-up runs |
| **WireGuard library** `lib/WireGuard` | three keypairs, handshake, cookie, replay window | packets, timer, connect and disconnect | UDP, lwIP | two sides rekey at once over a network that loses, repeats and reorders |
| **Weather service** `WeatherService` | snapshot, schedule, error | task, refresh | HTTP | a refresh requested during a fetch |
| **Device discovery** `DeviceDiscovery` | results, deadlines | start, poll, cancel | UDP | repeated and late replies, a full table |
| **Web portal** `WebPortal` | session, pending reboot | pages, forms | stores, WiFi | a failed save and no reboot: memory and card differ |
| **Navigation** `ui/Navigation` | back stack, dirty, held frame, refresh ladder | push, pop, tick, render | screens, panel | prompts push while the user navigates |
| **Midea codecs** `lib/MideaAC` | none | payloads of commands, parsers of answers | | half degrees, extended temperatures, tables cut short |
| **Vault, QR code, HTML and weather parsers** | none | pure functions | | |

What makes each correct:

* AC service: no edge lost; the published state becomes the AC's; each command sent
  at most once and none forgotten; the lock wins or gives up; silence when nobody
  looks.
* Transport: a FIFO of frames per session, nothing lost by a timeout or behind
  another frame.
* Screens, navigation and main loop: after a pass with nothing left to consume the panel
  shows the current screen as it is; Confirm does what the panel says; a SetState carries
  what was composed; no push is dropped; a toast stays as long as it says.
* Stores: no fault of the power or of the card loses what was reported as saved; a
  plaintext import is committed before its file goes; a changed setting gets to the card.
* Network services: a link session is probed and prompted at most once, and probed when it
  should be; what is shown is the verdict of the last attempt; every service comes back
  from every failure.
* Tunnel: packets are handed on once, keys are agreed before they are used, a rekey does
  not cut the traffic, a tunnel without a key gets one.

## Modules

```
FrameStream  <--- LanTransport <--- MCLanTransport
  (abstract)        (refines it) <-- LanTransportProofs

AcTypes <-- AcMainLoop --+
        <-- AcDevice ----+--> AcService <-- MCAc
                                        <-- AcServiceProofs <-- AcCommandProofs

NetTypes <-- WifiService, CaptiveProbe, PortalLogin, WireGuardService, WeatherService
         <-- Network (all five under loop()) <-- MCNetwork
                                             <-- NetworkProofs

ReplayWindow <-- WireGuardPeer <-- WireGuardTunnel <-- MCWireGuard
                                                     <-- WireGuardProofs

Responses <-- Commands <-- UiTypes <-- ControlScreen, DeviceDiscovery <- DevicesScreen, MenuScreens
                                   <-- Ui (all screens under loop()) <-- MCUi
                                                                     <-- UiDataProofs <-- UiProofs

ConfigStore <-- ConfigStoreProofs       Toast
```

**FrameStream** is the promise of a LAN session: frames are received exactly once and
in order while the session is up, and what was not received goes with the session.

**LanTransport** is `LanTransport.cpp` down to the cells of the stream. `buf` is
`sWireBuf[0..wireLen_)`, `pipe` what TCP holds. A read is a loop: `StartRead`, any
number of `ReadMore` (one `client_.read()` of any length), and one of the ends
`ReadFrame`, `ReadHandshake`, `ReadRejected`, `ReadBadSize`, `ReadLinkDown`,
`ReadTimeout`. `SendFrame` encodes where the code does: over the wire buffer in V3
(`sWireBuf` is the staging area), apart from it in V2. Cells stand for bytes; the first
of a packet is the magic, the second carries size and type.

**AcTypes** declares the constants, the variables and their types, shared by the next
three. **AcMainLoop** is the UI's side: a command is composed and queued (`Submit`), and
each edge is consumed in one step and its data read in the next (`ui.todo`), so that the
task publishes in between. The edge of the readings takes a step more: `PaintExt` asks for a
frame, of the Dashboard only when the power is another than `lastDrawnPower`
(`main.cpp:456-468`), and `Draw` draws it. The screen is told by its poll mode (`shared.mode`):
`power` is the Dashboard, `all` Details; every frame of these shows the readings (`Drawn`),
that of entering the screen too. **AcDevice** is the AC and the link, which are not in this
repository: answers in order, late or never; a remote; noise; lost WiFi; a peer that
hangs up; a key that expires.

**AcService** is the task. A pass of `serviceSession()` is a continuation: `task.work`
holds the steps left to do, an action performs the first one and puts in its place what
follows. `Receive` and `Begin` start a pass, `LinkWithWifi` branches as
`AcService.cpp:377-404` does, `Drain*` is `drainPushes()`, `Dispatch*` the choice between
commands, the lock's override and a poll, `Open` … `CheckLink` the opening, and each
request has a send action (`SetState`, `SetProps`, `ToggleSent`, `Pull`, `GetCaps`,
`GetProps`, `Group`) and its reads (`ReadAck`, `ReadState`, …, `Failed`). A frame other
than the awaited one is published or skipped (`SkipFrame`), as in every read loop of the
code. The interleaving of the UI, the AC and the link with each of these steps is what
the mutex and the task switches allow.

Decisions in AcService a reader should know:

* A deadline (`retryAtMs_`, `nextPollAtMs_`, `fastPollUntilMs_`, the gap between
  overrides) is a flag that is TRUE while the deadline lies ahead. It falls between two
  passes (`Passes`), at any time: a pass reads each deadline once. Where the code sets a
  deadline again after the last answer of a command, the model sets it with the first
  request. Periods and the arithmetic of `millis()` are abstracted.
* `Begin` is the idle tick or the step after a command, with `takePollMode()`,
  `updateSessionFlags()` and `updateButtonLockMode()` in it: only the task reads what
  they write before the next step, but for the reachability edge, which is set at once.
* An AcState has one field per class of fields the code tells apart: `temp` (shown,
  commanded, locked), `sleep` (commanded and locked, never shown by the repaint test) and
  `display` (shown, and not carried by a SetState).
* Frames are `state`, `props`, `group`, `caps`, `propsAck`, `invalid` (a codec refuses it)
  and `corrupt` (the transport cannot read it: it stays or, of an impossible size, goes).
  FrameStream justifies treating them as a sequence, with the exception recorded by the
  finding on `sendFrame()`: what that does to the service is a `corrupt` frame.
* `reportError()` and its toasts, the capabilities edge and the SD cache of capabilities
  (but for `CapsSeeded`) are left out.

**ConfigStore** is `ConfigFile.cpp` and its two users. `store` says which of the two it
is: they share the code that is modelled and differ in what a failed save leaves and in
what a new card gets. A save is `OpenSlot`/`OpenFails`, `WriteSlot`/`WriteFails` for the
primary, the same for the backup, and `EndSave`; a boot (`Boot`) reads both slots, any of
which may fail to be read, and loads, repairs, imports or starts afresh. `PowerOff` is a
restart between writes, `PowerCut` one that interrupts them, which may leave the slot
written, empty or torn. An interrupted write is free to leave any of these because
`openFileForWrite()` truncates and nothing orders the card's sectors.

**Toast** is the error toast, on a clock that wraps.

**NetTypes** declares what the network services share: the settings as far as they read
them, the radio, and `at`, the service whose turn it is in `loop()`. A service that reads
something a task may change in between has a turn per read (`finished`, `clear`, `toast` of
the login; `wgDone` … `wgSpawn` of the tunnel). **WifiService** is `tick()` and
`restart()`; `wifi.waiting` is TRUE while `retryAtMs_` lies ahead. **CaptiveProbe**,
**PortalLogin**, **WireGuardService** and **WeatherService** each have the tick's steps and
the task's (`ProbeRun`, `LoginRun`, `WgRun`, `WxRun`), which interleave with the loop at
each place where a flag without a lock is read or written. **Network** puts them under one
loop with the user: the portal's forms, the Networks screen, the login prompt. After a
successful save the portal reboots (an initial state again, so not a step of its own); the
steps here are those of a save that failed, after which the device goes on.

**ReplayWindow** is `wireguard_check_replay()`: a counter and a bitmap
of 32 marks, of which the code, taking `sizeof` for the number of bits, uses 4. **WireGuardPeer** is the peer's state and what
each message, packet and run of the timer does to it (`curr`, `prev`, `next` keypairs;
`add_new_keypair()`, `keypair_update()`, the purges and the three rekey conditions).
**WireGuardTunnel** runs it against a server over a network: `net` holds what arrives in
time, `late` what was lost, delayed or repeated and may still turn up. A key is the name of
the handshake it came from: messages under another key are ones the code cannot look up or
decrypt. The server is not in this repository.

**Responses** and **Commands** are the codecs at the level of bytes: a state, the
capability records, properties and group data in one direction, SetState and SetProperties
in the other; `DeviceReads` is what an AC makes of a SetState, by the parser's own offsets.
**UiTypes** declares the screens' state; **ControlScreen**, **DevicesScreen** (over
**DeviceDiscovery**) and **MenuScreens** have one button handler per screen and one `Shows`
per screen, the frame as a record of what it tells. **Ui** is `loop()`: `Services` consumes
every edge at once, `Press` drains a burst into the current screen, `Draw` or `NoDraw` ends
the pass, and the services publish at any time in between. A reboot keeps what is on the
card. `panel.show` is the last frame; a handler that draws into the held frame (the
dropdown) changes it at once.

Decisions in these modules a reader should know:

* In Network a household (`Init`) has a network or two with or without a login page, or a
  tunnel, or the forecast: the services meet only in the link and in the settings, so that
  a household runs the ones it has over the same link.
* The weather's and the login's tasks publish at any time; the other services change only
  in the main loop, so that their news come at `at = "services"` of Ui.
* In WireGuardPeer times are counted in steps. Two of the three ages at which a new key is
  asked for are computed from the keepalive setting, which the settings allow up to 300 s
  (`Settings.h:73`): 180 - k - 5 (`wireguardif.c:314`) and 180 - k (`:822`), so that their order
  with the third, 120, changes with the setting, and for settings above 175 and 180 s the
  unsigned difference is some 50 days (`RejectLess`, `Never`). A setting of 0 means no
  keepalive (`:785`, `:833`), although `WebPortal.cpp:142` and `WireGuard-ESP32.h:14` say that
  it keeps the default of 10 s. The limits on the number of messages under a key (2^60) are
  left out.
* In Ui the user keeps to a scene: Control (from a fresh boot or with cached capabilities),
  Devices, Settings with Networks and the login, Home with Dashboard and Details, or About
  with the licences. A scene bounds what is pressed and which news come, not what a handler
  does with them.
* `PublishProps`, `Publish` and the edges of Ui are those of the functions of AcService that
  AcService.tla leaves at "published"; the session below them is AcService.tla.

## Runs

| run | module, cfg | what it asks | states | time |
| --- | --- | --- | --- | --- |
| `lan` | MCLanTransport | refinement of FrameStream, the buffer's limit, order, drained frames | 88 k | 18 s |
| `lan_send` | MCLanTransportSend | **violated**: a request leaves the read stream untouched | | |
| `ac_screens` | MCAcScreens | no edge is lost between task and screen | 4.2 M | 140 s |
| `ac_tasks` | MCAcTasks | at most once, nothing left behind, fresh while polled, silent when not, the lock settles | 0.3 M | 160 s |
| `ac_lost_edit` | MCAcLostEdit | **violated**: a later edit carries an earlier one along | | |
| `ac_lock_race` | MCAcLockRace | **violated**: the lock's target is the user's last choice | | |
| `toast` | MCToast | **violated**: a toast stays for its time | | |
| `store` | MCConfigStore | one fault loses nothing, imports are committed, changes reach the card | 0.8 M | 42 s |
| `network` | MCNetwork | probed and prompted once, the last verdict shown, every service comes back | 0.2 M | 60 s |
| `wireguard` | MCWireGuard | once, agreed, never cut, recovered | 0.3 M | 60 s |
| `ui` | MCUi | the panel shows what is, Confirm does what it says, commands carry what was chosen | 0.9 M | 110 s |
| `ui_edit` | MCUiEdit | **violated**: an acknowledged edit is seen | | |

### Bounds, and why they are enough

* `lan`: a buffer of 4 cells, headers of 2, packets of 2 or 3, three packets in a
  session. A packet can then be cut at each of its places, two fit together, one and a
  half do not, and the buffer can hold garbage before a packet. Sessions repeat without
  bound. `Fates` has every kind of packet the decoder tells apart.
* `ac_*`: each run gives the constants of its question two values and the others one, so
  that the state space holds every order of a few events rather than few orders of many.
  `MaxInbound` 1 or 2 frames at the socket (2 wherever a frame has to stand before the
  awaited one), `MaxFaults` 1 (each kind of fault at each step), `MaxEdits` up to 2,
  `MaxFlips` changes of screen or lock up to 3, `MaxRemote` 1 or 2. `QueueDepth` is 1 or 2 for
  the code's 4, `LockMaxStrikes` and `MaxPollTimeouts` 1 or 2 for its 3: the guards compare
  with the limit alone and both sides of each comparison are reached. `Burst` bounds the
  frames a pass may drain. `ac_screens` starts with part of the bounds spent (`Screens` of
  `MCAc`): the Dashboard is entered and everything happens once; or a reading moves and moves
  back, which is what it takes to stay unpainted behind `lastDrawnPower`; or the Dashboard is
  left and entered anew while a reading moves, or while the link fails. `ac_tasks` does too
  (`Scenarios`), so that three kinds of behaviour are looked at: a screen entered and left, or
  the lock, while the link fails; the same while the remote is used; a command given on a
  screen that polls, or under the lock, while the link fails.
* `store`: three contents (saved before, being saved, the default), two cuts and two
  faults in any order over any number of boots and saves; `DropJson` and restarts between
  writes are unbounded.
* `toast`: a clock of 32 ticks for 2^32 ms and a toast of 4: only the half of the circle
  matters, and the toast must be shorter than that, as 15 s is.
* `network`: two slots, two names, two tunnel configurations of which one does not parse;
  one lost link, one failure and one change by the user in each household, at any step of
  any service, one redirect of the login page. A second session, the retry after each
  failure and a change in the middle of each task are then all reached; the services keep
  nothing that a third round would find different but the length of the backoff.
* `wireguard`: journeys (`MCWireGuard`), each long in what it is about: keys that age
  and are replaced from both sides, with every keepalive setting from none to one above the
  life of a key; packets lost, delayed and repeated; failing handshakes,
  with a server under load or not; a tunnel begun anew while messages of the last one are
  on their way. Three handshakes of the device and one of the server fill the three slots.
* `ui`: bursts of up to three presses, one edit, up to three news in each scene; menus have
  the code's rows, Control four of them (a mode with dropdown, the target, a property, a
  local setting; of the state's rows those of fields that `publishState()` compares, see the
  finding on `ui_edit`).
  `RowSpan`, `DevSpan`, `PageLines` are below the number of rows, so that each list scrolls;
  `MaxDevices` and `MaxResults` are 1 with three datagrams of two devices, so that both
  tables are full. `Capacity` is 6 for the code's 8: the stack stays clear of the smaller
  limit already.

The faults are bounded by counters, which makes liveness properties say: when the faults
stop, the system gets where it should. That is the strongest the code can offer.

### Fairness

* `WF(ServiceStep)`: `run()` never ends and each call returns by its deadline; the queue
  receive times out after `kTickMs`.
* `WF(Notify)`: it is the statement after the queue send.
* `WF(DeviceAnswers)`: an AC that is reached answers; requests it ignores are faults.
* `WF(WifiReturns)`: `WifiService::tick()` retries forever.
* `SF(Passes(t))` for each timer: a deadline that was set passes. Strong, because the
  action is enabled only between two passes and the flag may be set again in a pass.
* LanTransport: the reads of a call end (`WF`), the task calls while `HasReadableData`
  (`WF`, the drain of each tick), and of the calls that find bytes at TCP not all end
  before reading them (`SF(ReadMore)`: the deadline is ahead of the call's start).
* ConfigStore: `WF(SaveStep)` and `WF(Tick)`: `saveBoth()` comes to its end and the loop
  ticks, as long as the power is on. Nothing is assumed of `Boot` or of faults.
* Network: `WF(Loop)` and of each task: nothing in them blocks but sockets with timeouts;
  `WF` of each deadline; `SF(RadioJoins)`: an access point that is tried again and again is
  reached in the end. Strong, because an attempt ends by its own timeout.
* WireGuardTunnel: the timers run (`sys_timeout` of the tcpip thread) and a message that was
  not lost arrives. Clock, user and server are not assumed to do anything.
* Ui states no fairness: its properties are about what a pass may leave behind.

`TasksSpec` (`MCAc`), as `SessionSpec`, leaves out the repaints: nothing comes back from them
but the base of a later edit, and none of the properties checked under it reads what is
painted.

### What the violated runs found

1. **A request overwrites packets that wait** (`lan_send`). `sendFrameV3()` encodes into
   `sWireBuf` (`LanTransport.cpp:187`) where received packets may wait. After the send,
   `wireLen_` still counts them. A burst of two packets of which the first was read is
   enough. The comment at `LanTransport.h:52-54` says the read stream is untouched.
2. **A published state undoes a queued edit** (`ac_lost_edit`). Edit the temperature, let
   the task publish anything before it takes the command, let the loop repaint, edit sleep:
   the second SetState carries the old temperature.
3. **The lock forgets the edit it should follow** (`ac_lock_race`). Turn the lock on, edit:
   when the task takes the command in the same tick in which it first sees the lock on,
   `updateButtonLockMode()` clears the target that the command just set; the next published
   state, possibly of before the edit, becomes the target and is written over the edit.
4. **A toast expires at once** (`toast`). `millis() - sToastUntilMs` right after
   `showToast()` is 2^32 - 15000, which is not below `kToastMs`: the first check after a
   toast was shown clears it. One that a service reported is cleared in the pass that took
   it, before the screen is drawn.
5. **An edit of Sleep is not seen** (`ui_edit`). `publishState()` raises the edge when one of
   nine fields changed (`AcService.cpp:1306`). Sleep, Ionizer, 8C heat and Follow me have
   rows on the Control screen and are not among them, so that the acknowledged value is
   shown by the next repaint for another reason.

### What is not claimed

* `NoMissedReading` is claimed of the Dashboard's power reading, with one exception, which the
  property names: the reading equal to `lastDrawnPower` (`main.cpp:461`). That is the last one
  for which the gate asked for a frame, not the last one drawn: a frame drawn for another
  reason does not move it. 100 W passes the gate and is remembered; 200 W is
  painted by the frame of a state change or of entering the Dashboard, its own edge not
  having been acted upon there; back at 100 W the edge is consumed, the gate asks for no frame,
  and the panel keeps 200. Without the exception `ac_screens` reaches this on the Dashboard
  alone, with the loop behind by one round.
* Of rounds with several groups `NoMissedReading` is not claimed. With several groups in a
  round (mode `all`, the Details screen) it does not hold: an edge of the previous round
  consumed in the middle of this one paints a value of this round; when that value is back
  at the one announced by the time the round ends, no edge is raised and the screen keeps
  what it painted until the next change.
* Nothing is claimed of the order in which toggles and SetStates are executed, nor that
  each press of the toggle flips the display: toggles taken before a session is up
  coalesce.
* A state pushed before the AC executed a SetState is taken for its acknowledgement. The
  published state is then old until the following poll, which is why `EventuallyFresh` is a
  liveness property and not an invariant.
* `OneFaultLosesNothing` is claimed of one fault since both slots were last written. A cut
  in the write of the backup leaves the primary good; the next boot loads it and leaves the
  backup torn; a cut in the next write of the primary leaves no slot. With a backup that is
  merely one save behind, the contents revert instead. `USER_MANUAL.md:498` promises more.
* `FrameCurrent` excepts what is known not to be current: the Dashboard's power, of which
  `NoMissedReading` says what holds; a licence text opened while the scroll of a longer one is clamped with that
  one's bound (`Screens.cpp:2945`); the dialog of a device whose row is gone; the values of
  the Control rows that are not announced (`Unannounced`, the finding on `ui_edit`), though
  not the rows themselves; and whether the only option of a list is lit, which a press that
  moves nothing does not redraw (`Screens.cpp:1685`).
* `SentAsChosen` is claimed of targets from 13 to 43 degrees, the ones the alternate field
  can carry. An edit made after the first state was received and before the loop seeded the
  Control screen from it (`Screens.cpp:1432`) starts from a target of 0 and sends 32 degrees.
* `ActsAsShown` is claimed while the panel is up to date. A press that comes before the
  repaint acts on what the screen knows, not on what it shows. What the web portal does to
  the device list while the delete dialog is open is not modelled.
* `OursDeliveredOnce` is claimed of sessions the device started. The first packet under a
  session the server started is checked in `next_keypair` and its mark is lost when
  `keypair_update()` copies it, so that a repetition is handed on again.
* A tunnel whose server is gone is still "up" while `prev_keypair` is valid
  (`wireguardif.c:712`), and nothing destroys that one as long as no new session comes;
  `WgStatusTrue` is about the service's own bookkeeping.
* A verdict of a probe that outlived its session is kept when the network in the slot has the
  same name (`CaptiveProbeService.cpp:113`), though the session it was made in is over.
* `ChangesPersist` is claimed of the settings. A failed save of the devices is only
  reported and stays in RAM until the next one.

## Proofs

The proof modules are about the definitions as TLC checks them, with the constants
arbitrary but for the named assumptions, which TLC evaluates in the runs of modules that
extend them.

**AcServiceProofs.** From `AcAssumption` (`None` is not a state, bounds are naturals,
groups are sequences of numbers):

* `TypeCorrect`: `Spec => []TypeOK`, and `SessionTypeCorrect` for `SessionSpec`. `TypeOK` is
  not inductive: a step takes its continuation apart with `Head` and `Tail`, and `DispatchOverride` or
  `GetProps` may only be followed by what the code can have left behind them. `IInv`
  adds `Good(task)`: behind the step at hand only steps of `Later` wait, so that a read is
  only ever at the front. One lemma per action, or per group of actions that change the
  same variables.
* `ScreenFollows`: `Spec => []NoMissedRepaint`. The property relates `shared` to `ui`
  only and is inductive beside `IInv`. `ServiceShares` says what any step of the task can do to
  the members under the mutex (`Shares`: nothing a screen shows, a published state, a new
  reachability, merged properties, each with its edge in the same step), `SharesKeeps`
  that this keeps the property, and `MainLoopKeeps` that consuming an edge in one step and
  reading its data in a later one does.
* `ReadingFollows`: `NoMissedReading`, with the gate of `lastDrawnPower` and the exception the
  property makes for it, under the hypothesis `OneReading`: a round has one
  group at most and no screen polls in mode `all`, as in a use that never opens Details (and
  as in the run; with more groups it is false, see "What is not claimed").
  `ReadingInv` says that what moved since the last round ended is announced when this one
  does: values can only differ from the ones announced last (`extShown_`) between the answer
  and the end of its round, and the answer ends the round. The latter needs that no other
  group is asked for, waits in the socket, or is left to ask (`OneGroup`). All the steps
  that leave round, readings and screen alone are `Aside`.

**AcCommandProofs.** From `AcAssumption` again:

* `CommandsAtMostOnce`: `AtMostOnce`. The property only says that two counters do not pass
  below zero; `Counted` says why: the toggles (SetStates) in the queue, plus one if the task
  holds one, are never more than those asked for and not sent. A step that sends must then
  find the pending slot full, for it is what it empties. `Planned` follows the plan of a pass:
  the steps that can put commands into it (`link`, `open`, `dispatch`, `first`) and `toggle`
  itself are only ever its last (`Closes`), so that no pass holds two toggles, and a toggle
  stands in it only while one is pending. For SetStates `IInv` says it already.

**LanTransportProofs.** From `SizeAssumption` (a header is shorter than the buffer, packets
and requests fit into it) and `FateAssumption`, for both versions of the protocol and every
cut TCP may make:

* `TypeCorrect` and `BufferNeverFull`: a buffer that is full holds a whole packet, so that
  `accumulate()` always finds room or something to return. The type invariant alone does
  not show it: `TypeInv` adds that every cell is one of a packet that was sent, or of the
  request (`Known`), so that a size is never read from cells nobody wrote.
* `FramesInOrder` and `V2StreamKept`. Both are about the stream, `buf \o pipe`. The inductive
  invariant `StreamState` says of it: as long as no request was encoded over it, it is a
  row of consecutive packets, the first perhaps cut at its front (`StreamInv`); between two
  reads it begins with a magic or is empty (`SyncInv`); the packet in front is the one after
  the last one delivered (`AheadInv`); once a request went over it, the buffer begins with
  the request's cells and nothing is delivered from it (`ClobberInv`); and a V2 session
  always begins with a magic (`V2Inv`).
* `ImplementsFrameStream`: `IsFrameStream`, the refinement of FrameStream, step by step
  (`FrameStreamStep`): a packet the device sends is a `Send`, the `ReadFrame` that delivers
  it is a `Receive`, opening starts a session, and the failures and the overwritten buffer
  break it. What is outstanding is read off the front of the stream, which is why the
  packet there must be known.
* `Smallest` and `SyncedDrops` give what `Synced`, a choice of the least offset, returns.

**ConfigStoreProofs.** From `ValueAssumption` and `BoundAssumption`:

* `StoreTypeCorrect`: the live contents are proper ones whatever a boot meets.
* `StoreSurvives`: `OneFaultLosesNothing` for every set of contents and any number of cuts
  and faults before. It is not inductive: it speaks of the moments the power is off, and
  of one fault at most. `SInv` adds what the slots hold at each place of a save
  (`Aligned` without a fault since both slots were last written, `Usable` with one, and
  `Written` for the end of a save that did not fail).
* `ImportsCommit`: `ImportCommitted`, from the same `Written`.

**NetworkProofs.** From `NetAssumption` (`None` is no slot, name or configuration; the slots
can be given names of their own; not every configuration is bad) and `RedirectsAssumption`:

* `NetworkTypeCorrect`: `Spec => []TypeOK`. `Turning` says which turn of `loop()` follows which in
  each household; the rest is an action at a time.
* `ProbedOnce` and `PromptedOnce`. Neither property is inductive: that a probed session is not
  probed again rests on `ProbeInv`, the session having been seen (`linkWasUp`) and marked
  (`tried`) as long as the link is up. `LinkStep` is what makes it hold: only a step from a
  link that is not up resets the count.
* `LastVerdictShown`. `VerdictInv` follows a verdict on its way: `finish()` writes it before it
  raises the edge, the loop clears the edge before it reads the verdict, and an attempt that
  starts in between can only replace it by a later one.
* `TunnelStatusTrue`, at every moment and not only when the user reads the status. It needs
  that there is no tunnel while an attempt runs or waits to be consumed.
* `RefreshIsKept` and `ForecastIsShown`, which are inductive beside the types.
* `StepKinds`: every step belongs to one service and leaves the members of the others alone.

**WireGuardProofs.** From `WindowAssumption` (the window is not empty and no wider than the
bitmap, as 4 of 32 bits are), `AgeAssumption` (the three ages of a key are positive, and it is
wiped later than it is rejected; nothing is assumed of the keepalive setting), `NoneAssumption`
and `JourneyAssumption` (a journey has no more handshakes than there are names for), so for
any number of handshakes, tunnels, packets, faults and clock steps, and for every keepalive
setting.

The replay window comes first: `AcceptedOnce`, a number that is accepted is refused right
after, and `RefusedForever`, what is refused stays refused whatever packet comes next: sliding
the bitmap moves each mark with its number, and a number that falls out of it is too old by
then. Both are about the operators of ReplayWindow, one packet at a time. The rest is about
what the peer makes of them. The invariant `Inv` has a part for each thing that is carried
from one message to another:

* `KeyState`: a key in a slot is of a handshake that was used up, by us (its number is at most
  `Used` and it is not the one that waits) or by the server (at most `greatest`), and no two
  slots share one. `OneSlotPerKey` rests on it (`KeysApart`): a new session's key is new because
  the handshake was waiting or its initiation was newer than all before.
* `MarkState`: a packet of a session of ours that was handed on is refused by the window of
  its key while the keypair is in a slot, and no later handshake gets that key. With
  `AcceptedOnce` and `RefusedForever` this is `OursOnce`. It holds through the end of a tunnel
  and the beginning of the next, when every window is gone.
* `AgreedState`, `ServerInv` and `MessageInv`: the server agreed to a key before it sent the
  response or packet that puts it in use, and late or repeated messages are still ones it sent
  (`SendsUnderAgreedKeys`).
* `Trims` says what the timer and `wireguardif_output_to_peer()` may do to the keys: drop
  some, the one in use only when it expired. `Keeps` says the same of a received message. They
  give `KeyInUseKept`.

`DeviceStep` and `NetworkStep` show the parts that a step of one side leaves alone, so that each
action has only its own to show.

**UiDataProofs** says what the operators of Ui return that go through lists and payloads:
`Selected` (the rows, options and devices that a condition picks), the cyclic cursor, the table
that a scan fills, the parsers of states, capabilities and properties, and the codec of
SetState: `DeviceRead` is the round trip, byte by byte, for every state with a target from 13
to 43 degrees. A fold or a recursive function is induction over data, and the induction
theorems of the library cannot be cited here. `Induction` replaces them: a set of numbers that
holds 0 and each successor holds them all, since the numbers missing would have a least one
(`Smallest`, from the strict subset order of the intervals being well-founded). The functions
that the definitions recurse with are shown to exist, for each of them, before they are used.

**UiProofs.** From `UiAssumption` (spans and limits are positive, the back stack has room for
more than five screens, 8 in the code and 6 in the runs; the mode row is always there),
`PayloadAssumption` (payloads are bytes, as long as the parsers ask for first) and
`SceneAssumption` (every scene has its bounds). Four invariants, each kept by every step:

* `SInv`, for `StackIsPath`. That no screen stands twice is not inductive. What is, is
  `Nested`: the stack is a path down from Home or the hotspot's screen, every screen stands at
  its own `Level`, and the login prompt, which has none, only on top. The other two parts say
  where a push can lead: Home's cursor is on one of its targets, and the Devices screen is in
  one of its modes. Every button, prompt and end of a login makes a `NavStep`, which
  `NavStepKeeps` shows to keep the path; everything else leaves the stack alone.
* `TInv`, for `ScreensTypeCorrect` and `CommandsCarryChoices`. Beside the types, it holds the
  relations between a cursor and its list: results on the screen are of the scan that is over
  and are not empty where one is confirmed, the scrolls of the Details and of the licences are
  within their bounds. What is queued is a state with every member in its range (`AcStates`), however
  it was parsed and edited, so that `DeviceRead` applies to it.
* `HotspotInv`: nothing is pushed over the hotspot's page, where there is no link to lose.
* `FrameInv`, for `FrameIsCurrent`: while no frame is asked for and no edge waits that the
  current screen wants (`Held`), the panel already matches (`Matches`: same screen, same link,
  a whole frame, and `Alike` the frame that would be drawn, but for what the property leaves
  out). It holds between the parts of a pass too, not only at its end. A step keeps it in one
  of three ways. It asks for a frame, or raises an edge that the screen wants (`WantedBy`). Or
  it changes nothing the screen shows (`Unseen`; `PublishUnseen`, `PropsUnseen` and
  `FrameAlike` show that an edge that is not raised is of this kind). Or it draws: `DrawMatches`
  for a new frame, which moves scrolls and cursors back into their ranges and must come out the
  same when drawn again (`ClampedAgain`, `BandAgain`, `DevicesAgain`), and `QuietRows`, `Lighted`
  and `ControlMatches` for the dropdown, which draws two boxes into the frame that is held.
* `DialogsDoWhatTheyShow` is the action property of the same invariants: a handler that finds
  row, option or device by position again finds the one in the frame, because the frame
  matches and its own first steps (`Focus`, the clamps) do not move what they look up.

Only model-checked: everything under fairness (`EventuallyFresh`, `GoesQuiet`,
`NothingStranded`, `LockSettles`, `FramesArrive`, `ChangesPersist`, the four of Network,
`Reconnects`); the prover has neither fairness with ENABLED nor well-founded arguments over
it. Every invariant and every property of single steps that a passing run checks is the
conclusion of a theorem; `NoMissedReading` is under the hypothesis `OneReading`.

## Not modelled, and the plan

Left out for good: ciphers and digests, the framing and vault payloads (pure, held by host
tests against recorded vectors), the HTML and JSON scanners, page templates, layout, fonts
and drawing, the QR encoder, the WiFi hotspot and the capabilities cache (a flag and a
file), the glue between the tunnel and lwIP.

Left out so far, in the order of the plan:

1. *Deadlines*: the arithmetic of `millis()` with its wrap as operators of their own
   (`retryAtMs_`, `fastPollUntilMs_`, `lockLastRevertMs_`, the doubling of the backoffs, the
   8-bit `attemptShift_`), checked against a reference on a small circle.
2. *Web portal*: its handlers of devices, weather and the restore of a backup over
   ConfigStore; persist, then reboot; the retry that `WebPortal.cpp:773` counts on; the
   plaintext file that a crash after its import leaves behind (`DeviceStore.cpp:122`).
3. *Navigation*: the waveform ladder, which refresh a frame gets and when a full one is due.
4. *WireGuard*: several peers (`wireguard.c:391` overwrites `existing` for each of them) and
   the rate limit that `wireguard.c:623` subtracts in the wrong order.
