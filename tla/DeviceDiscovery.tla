-------------------------- MODULE DeviceDiscovery ---------------------------
(* The scan for devices: src/src/service/DeviceDiscovery.cpp over a network   *)
(* that delays, repeats and drops replies, and the reply's parser in          *)
(* src/lib/MideaAC/src/Discovery.cpp.  A datagram says what the parser looks  *)
(* at: its version, its length, the length of the plain text it decrypts to   *)
(* (0: not at all), the length of the name in it and whether that names a     *)
(* type, and the device and address it is from.                               *)
EXTENDS UiTypes

MaxDecrypted == 160
NameCapacity == 40
Wrapper == [v2 |-> 0, v3 |-> 24, other |-> 0]   \* header and hash around a V3 reply
Parsed(d) ==
  LET view == d.len - Wrapper[d.version]
  IN /\ d.version # "other" /\ view >= 56
     /\ view - 56 <= MaxDecrypted /\ (view - 56) % 16 = 0
     /\ d.plain >= 41 + d.name /\ d.name < NameCapacity /\ d.typed

MaxDatagramLen == 512
(* Mutant of Handled: one entry more than the table has. *)
HandledOnceMore(found, d) ==
  LET info == [id |-> d.id, version |-> d.version, ip |-> d.ip]
      same == {i \in DOMAIN found : found[i].id = d.id}
  IN IF d.len > MaxDatagramLen \/ ~Parsed(d) THEN found
     ELSE IF same # {} THEN [found EXCEPT ![CHOOSE i \in same : TRUE] = info]
     ELSE IF Len(found) <= MaxResults THEN Append(found, info) ELSE found
(* handleDatagram(): a repeat refreshes its entry, a full table drops it. *)
Handled(found, d) ==
  LET info == [id |-> d.id, version |-> d.version, ip |-> d.ip]
      same == {i \in DOMAIN found : found[i].id = d.id}
  IN IF d.len > MaxDatagramLen \/ ~Parsed(d) THEN found
     ELSE IF same # {} THEN [found EXCEPT ![CHOOSE i \in same : TRUE] = info]
     ELSE IF Len(found) < MaxResults THEN Append(found, info) ELSE found

ProbeRounds == 3
Window == 3   \* the clock counts intervals between rounds; 5 s end the last
NoScan == [on |-> FALSE, edge |-> FALSE, rounds |-> 0, clock |-> 0, found |-> <<>>, rx |-> <<>>]

Started(s) == IF s.on THEN s ELSE [NoScan EXCEPT !.on = TRUE, !.rounds = 1, !.edge = s.edge]
Ended(s, edge) == [s EXCEPT !.on = FALSE, !.edge = edge, !.rx = <<>>]
Cancelled(s) == [(IF s.on THEN Ended(s, FALSE) ELSE s) EXCEPT !.edge = FALSE]
(* Mutant of Polled: the window closes and says nothing. *)
PolledSilently(s) ==
  LET drained == [s EXCEPT !.found = FoldLeft(Handled, @, s.rx), !.rx = <<>>,
                           !.rounds = IF @ < ProbeRounds /\ s.clock >= @ THEN @ + 1 ELSE @]
  IN IF ~s.on THEN s ELSE IF s.clock = Window THEN Ended(drained, FALSE) ELSE drained
Polled(s) ==
  LET drained == [s EXCEPT !.found = FoldLeft(Handled, @, s.rx), !.rx = <<>>,
                           !.rounds = IF @ < ProbeRounds /\ s.clock >= @ THEN @ + 1 ELSE @]
  IN IF ~s.on THEN s ELSE IF s.clock = Window THEN Ended(drained, TRUE) ELSE drained

(* The world: time passes, a device answers a round or answers it twice.      *)
TimePasses == /\ scan.on /\ scan.clock < Window
              /\ scan' = [scan EXCEPT !.clock = @ + 1]
              /\ UNCHANGED <<at, scene, nav, burst, panel, uiState, store, set, queue, ac, net, edges, spent, ghost>>
ReplyArrives == \E d \in Datagrams :
  /\ scan.on /\ Spend("news", MaxNews)
  /\ scan' = [scan EXCEPT !.rx = Append(@, d)]
  /\ UNCHANGED <<at, scene, nav, burst, panel, uiState, store, set, queue, ac, net, edges, ghost>>
=============================================================================
