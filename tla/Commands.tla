------------------------------ MODULE Commands -------------------------------
(* src/lib/MideaAC/src/Commands.cpp: the bytes that a command carries, before *)
(* the message id, the check and the frame around them.                       *)
EXTENDS Responses

Set(condition, value) == IF condition THEN value ELSE 0

(* Mutant of SetState: half degrees are dropped outside of the plain range.   *)
SetStateWhole(s, beep) ==
  LET whole == s.target \div 2
      plain == whole \in 17..30
      used == <<\h40, \h02 + Set(beep, \h40) + Set(s.power, 1),
                (IF plain THEN ((whole - 16) % 16) + Set(s.target % 2 = 1, \h10) ELSE 0) + \h20 * (s.mode % 8),
                s.fan, \h7F, \h7F, 0, \h30 + (s.swing % 16),
                Set(s.followMe, \h80) + Set(s.turbo, \h20),
                Set(s.eco, \h80) + Set(s.purifier, \h20),
                Set(s.sleep, 1) + Set(s.turbo, 2)>>
  IN used \o <<0, 0, 0, 0, 0, 0, 0, Set(~plain, (whole - 12) % 32), 0, 0, Set(s.freezeProtection, \h80), 0>>
(* SetStateCommand::serialize(): a target of 17 to 30 degrees has a nibble of *)
(* its own, any other the alternate field; 0x10 adds half a degree.           *)
SetState(s, beep) ==
  LET whole == s.target \div 2
      plain == whole \in 17..30
      used == <<\h40, \h02 + Set(beep, \h40) + Set(s.power, 1),
                Set(plain, (whole - 16) % 16) + Set(s.target % 2 = 1, \h10) + \h20 * (s.mode % 8),
                s.fan, \h7F, \h7F, 0, \h30 + (s.swing % 16),
                Set(s.followMe, \h80) + Set(s.turbo, \h20),
                Set(s.eco, \h80) + Set(s.purifier, \h20),
                Set(s.sleep, 1) + Set(s.turbo, 2)>>
  IN used \o <<0, 0, 0, 0, 0, 0, 0, Set(~plain, (whole - 12) % 32), 0, 0, Set(s.freezeProtection, \h80), 0>>

(* What the AC takes from those bytes; the display it does not set.           *)
DeviceReads(b, display) ==
  LET alternate == b[19]
  IN [power |-> Bit(b[2], 0),
      target |-> 2 * (IF alternate # 0 THEN alternate + 12 ELSE Bits(b[3], 0, 4) + 16) + Bits(b[3], 4, 1),
      mode |-> Bits(b[3], 5, 3), fan |-> b[4], swing |-> Bits(b[8], 0, 4),
      eco |-> Bit(b[10], 7), turbo |-> Bit(b[9], 5) /\ Bit(b[11], 1),
      purifier |-> Bit(b[10], 5), freezeProtection |-> Bit(b[22], 7),
      sleep |-> Bit(b[11], 0), followMe |-> Bit(b[9], 7), display |-> display]

(* SetPropertiesCommand::serialize(), for one property and its value.         *)
Record(k, value) == <<PropIds[k] % 256, PropIds[k] \div 256, Len(value)>> \o value
SetProperty(k, v) ==
  <<\hB0, 1>> \o
  Record(k, CASE k = "ieco" -> <<0, 1, v, 0, 0, 0, 0, 0, 0, 0, 0, 0, 0>>
              [] k = "outSilent" -> <<Set(v # 0, 3)>>
              [] k = "breezeAway" -> <<IF v # 0 THEN 2 ELSE 1>>
              [] k = "selfClean" -> <<1>>
              [] k = "cascade" -> <<Set(v # 0, 1), v>>
              [] k = "freshAir" -> <<Set(v # 0, 1), v, \hFF>>
              [] OTHER -> <<v>>)
(* The AC answers the query that follows with the same value behind a result. *)
DeviceAnswers(b) ==
  LET k == CHOOSE p \in Props : PropIds[p] = b[3] + 256 * b[4]
      value == SubSeq(b, 6, Len(b))
      told == IF k = "ieco" THEN SubSeq(value, 2, 13) ELSE value
  IN <<\hB1, 1, b[3], b[4], 0, Len(told)>> \o told
=============================================================================
