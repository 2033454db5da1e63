----------------------------- MODULE Responses ------------------------------
(* src/lib/MideaAC/src/Responses.cpp: what the answers of the AC mean.  A     *)
(* payload is a sequence of bytes, p[i] of the code being p[i + 1] here;      *)
(* temperatures are counted in half degrees, power and humidity as they come. *)
EXTENDS Integers, Sequences, SequencesExt

CONSTANT None

Bits(byte, low, width) == (byte \div 2^low) % 2^width
Bit(byte, i) == Bits(byte, i, 1) = 1

Id(record) == record[1] + 256 * record[2]
CapHead == 3       \* bytes before the value: an id and a size,
PropHead == 4      \* and for a property the outcome of its execution
Temperatures == \h0225

(* Capabilities and properties come as records whose last byte before the     *)
(* value is its size: the walk reads as many as byte 1 counts and stops at a  *)
(* record that is cut off.  Temperatures that are too short are not stepped   *)
(* over, but met again in the next round (Python's "continue").               *)
Stays(record, head) == head = CapHead /\ Id(record) = Temperatures /\ Len(record) \in 4..8
Walk(payload, head) ==
  LET Step(w, i) ==
        LET whole == head + w.rest[head]
            record == SubSeq(w.rest, 1, whole)
        IN IF w.cut \/ Len(w.rest) < head \/ Len(w.rest) < whole THEN [w EXCEPT !.cut = TRUE]
           ELSE IF Stays(record, head) THEN w
           ELSE [read |-> Append(w.read, record), cut |-> FALSE,
                 rest |-> SubSeq(w.rest, whole + 1, Len(w.rest))]
  IN FoldLeft(Step, [read |-> <<>>, cut |-> FALSE, rest |-> SubSeq(payload, 3, Len(payload))],
              [i \in 1..payload[2] |-> i])

LastOf(records, id, head, size) ==   \* the last record of an id with so long a value
  LET at == {i \in DOMAIN records : Id(records[i]) = id /\ Len(records[i]) >= head + size}
  IN IF at = {} THEN None ELSE records[CHOOSE i \in at : \A j \in at : j <= i]

-----------------------------------------------------------------------------
(* parseCapabilitiesResponse() and mergeCapabilities().                       *)

(* What of a record's first value byte makes a flag true.                     *)
CapReaders ==
  [anion |-> <<\h021E, {1}>>, eco |-> <<\h0212, {1, 2}>>, freezeProtection |-> <<\h0213, {1}>>,
   heatMode |-> <<\h0214, {1, 2, 4, 6, 7, 9, 10, 11, 12, 13}>>,
   coolMode |-> <<\h0214, {0, 1, 3, 4, 5, 6, 7, 8, 9, 11, 13, 14, 15}>>,
   dryMode |-> <<\h0214, {0, 1, 5, 6, 9, 11, 13, 14, 15}>>,
   autoMode |-> <<\h0214, {0, 1, 2, 7, 8, 9, 13, 14}>>,
   swingHorizontal |-> <<\h0215, {1, 3}>>, swingVertical |-> <<\h0215, {0, 1}>>,
   fanSilent |-> <<\h0210, {6, 9}>>, fanLow |-> <<\h0210, {3, 4, 5, 6, 7, 9}>>,
   fanMedium |-> <<\h0210, {5, 6, 7}>>, fanHigh |-> <<\h0210, {3, 4, 5, 6, 7, 9}>>,
   fanAuto |-> <<\h0210, {4, 5, 6, 9}>>, fanCustom |-> <<\h0210, {1}>>,
   turboHeat |-> <<\h021A, {1, 3}>>, turboCool |-> <<\h021A, {0, 1}>>,
   ieco |-> <<\h00E3, {1, 3, 4, 8}>>, outSilent |-> <<\h00CD, {1, 3}>>,
   selfClean |-> <<\h0039, {1}>>, breezeAway |-> <<\h0042, {1}>>, breezeless |-> <<\h0018, {1}>>,
   flash |-> <<\h0067, {1, 2, 3, 4}>>,
   rateSelect2Level |-> <<\h0048, {1}>>, rateSelect5Level |-> <<\h0048, {2, 3}>>,
   cascade |-> <<\h0059, {1}>>, freshAir |-> <<\h004B, {1}>>, displayControl |-> <<\h0224, {1, 2, 100}>>]
CapFlags == DOMAIN CapReaders

(* Of iECO the second byte counts too. *)
Flag(f, record) ==
  IF record = None THEN "absent"
  ELSE IF \/ record[4] \in CapReaders[f][2]
          \/ f = "ieco" /\ Len(record) > 4 /\ record[5] \in {1, 2, 3, 8}
       THEN "true" ELSE "false"

ParseCapabilities(payload) ==
  LET w == Walk(payload, CapHead)
      t == LastOf(w.read, Temperatures, CapHead, 6)
  IN [flag |-> [f \in CapFlags |-> Flag(f, LastOf(w.read, CapReaders[f][1], CapHead, 1))],
      ranges |-> IF t = None THEN <<>>
                 ELSE [cool |-> <<t[4], t[5]>>, auto |-> <<t[6], t[7]>>, heat |-> <<t[8], t[9]>>],
      more |-> Len(w.rest) > 1 /\ w.rest[Len(w.rest) - 1] # 0]

(* Only what the second page has overwrites the first. *)
MergeCapabilities(dst, src) ==
  [flag |-> [f \in CapFlags |-> IF src.flag[f] = "absent" THEN dst.flag[f] ELSE src.flag[f]],
   ranges |-> IF src.ranges = <<>> THEN dst.ranges ELSE src.ranges,
   more |-> dst.more]

-----------------------------------------------------------------------------
(* parseStateResponse(), for a payload of 22 bytes or more.                   *)

ParseState(p) ==
  LET alternate == Bits(p[14], 0, 5)
      half == Bits(p[3], 4, 1)
  IN [power |-> Bit(p[2], 0),
      target |-> 2 * (IF alternate # 0 THEN alternate + 12 ELSE Bits(p[3], 0, 4) + 16) + half,
      mode |-> Bits(p[3], 5, 3), fan |-> Bits(p[4], 0, 7), swing |-> Bits(p[8], 0, 4),
      eco |-> Bit(p[10], 4), turbo |-> Bit(p[9], 5) \/ Bit(p[11], 1),
      purifier |-> Bit(p[10], 5), freezeProtection |-> Bit(p[22], 7),
      sleep |-> Bit(p[11], 0), followMe |-> Bit(p[9], 7), display |-> p[15] # \h70]

-----------------------------------------------------------------------------
(* parsePropertyResponse(): the value of each property, a failed execution    *)
(* notwithstanding; applyProperties() keeps what the answer leaves out.       *)

PropIds == [ieco |-> \h00E3, outSilent |-> \h00CD, selfClean |-> \h0039, breezeAway |-> \h0042,
            breezeless |-> \h0018, flash |-> \h0067, rateSelect |-> \h0048,
            cascade |-> \h0059, freshAir |-> \h004B]
Props == DOMAIN PropIds

OnOff(b) == IF b THEN 1 ELSE 0
PropValue(k, record) ==
  CASE k = "ieco" -> OnOff(record[6] # 0)
    [] k = "outSilent" -> OnOff(record[5] = 3)
    [] k = "breezeAway" -> OnOff(record[5] = 2)
    [] k = "rateSelect" -> record[5]
    [] k \in {"cascade", "freshAir"} -> IF record[5] # 0 THEN record[6] ELSE 0
    [] OTHER -> OnOff(record[5] # 0)
ParseProperties(payload) ==
  LET read == Walk(payload, PropHead).read
      Answer(k) == LastOf(read, PropIds[k], PropHead, IF k \in {"ieco", "cascade", "freshAir"} THEN 2 ELSE 1)
  IN [k \in Props |-> IF Answer(k) = None THEN -1 ELSE PropValue(k, Answer(k))]
ApplyProperties(known, values) == [k \in Props |-> IF values[k] = -1 THEN known[k] ELSE values[k]]

-----------------------------------------------------------------------------
(* parseGroupData(): what each group's answer overwrites of the statistics.   *)

GroupLength == [g \in {1, 2, 4, 5, 7, 11} |->
                  CASE g = 1 -> 15 [] g = 2 -> 9 [] g = 4 -> 19 [] g = 5 -> 11 [] g = 7 -> 12 [] OTHER -> 13]
Binary(p, bytes) == FoldLeft(LAMBDA n, i : 256 * n + p[i], 0, bytes)
Bcd(p, bytes) == FoldLeft(LAMBDA n, i : 100 * n + 10 * Bits(p[i], 4, 4) + Bits(p[i], 0, 4), 0, bytes)
Total == <<5, 6, 7, 8>>
Run == <<13, 14, 15, 16>>
PowerNow == <<17, 18, 19>>

ParseGroup(g, p, ext) ==
  IF g \notin DOMAIN GroupLength \/ Len(p) < GroupLength[g] THEN ext
  ELSE CASE g = 1 -> [ext EXCEPT !.compressor = p[5], !.outdoor = p[14] - 50, !.discharge = p[15]]
         [] g = 2 -> [ext EXCEPT !.fan = 8 * p[6]]
         [] g = 4 -> IF Bcd(p, Total) = 0 /\ Bcd(p, Run) = 0 /\ Bcd(p, PowerNow) = 0 THEN ext
                     ELSE [ext EXCEPT !.energy = Binary(p, Total), !.run = Binary(p, Run),
                                      !.now = Binary(p, PowerNow)]
         [] g = 5 -> [ext EXCEPT !.humidity = IF p[5] = 0 THEN -1 ELSE p[5], !.outdoorFan = 8 * p[9]]
         [] g = 7 -> [ext EXCEPT !.watts = p[11] + 256 * p[12]]
         [] OTHER -> [ext EXCEPT !.louver = p[10]]
=============================================================================
