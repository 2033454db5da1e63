-------------------------- MODULE LanTransportProofs --------------------------
(* What a session of LanTransport owes its owner, proved for every buffer,    *)
(* request and header size, every set of packet lengths and every bound on    *)
(* the packets: the buffer is never full of an incomplete packet, the frames  *)
(* are read in the order they were sent, a V2 session fails only by the       *)
(* device's fault, and the transport implements the FIFO of FrameStream.      *)
EXTENDS LanTransport, FiniteSetTheorems, SequenceTheorems, WellFoundedInduction, TLAPS

-----------------------------------------------------------------------------
(* Sequences without their beginning. *)

(* t is s without its first k cells. *)
Suffix(t, s, k) == /\ k \in 0..Len(s) /\ Len(t) = Len(s) - k
                   /\ \A i \in 1..Len(t) : t[i] = s[i + k]

(* The k cells that accumulate() drops from s. *)
Unsynced(s, k) == /\ k \in 0..Len(s)
                  /\ \A i \in 1..k : s[i] # Magic
                  /\ k = Len(s) \/ s[k + 1] = Magic

(* A set of natural numbers has a least element. *)
LEMMA Smallest ==
  ASSUME NEW T \in SUBSET Nat, T # {}
  PROVE  \E m \in T : \A k \in T : m <= k
<1> DEFINE F == {0..i : i \in T}
<1>1. F \subseteq FiniteSubsetsOf(Nat) /\ F # {}
  <2>1. \A i \in T : IsFiniteSet(0..i) /\ 0..i \in SUBSET Nat
    BY FS_Interval
  <2> QED BY <2>1 DEF FiniteSubsetsOf
<1>2. PICK x \in F : \A y \in F : ~(<<y, x>> \in StrictSubsetOrdering(Nat))
  <2> HIDE DEF F
  <2>1. IsWellFoundedOn(StrictSubsetOrdering(Nat), FiniteSubsetsOf(Nat))
    BY FS_StrictSubsetOrderingWellFounded
  <2> QED BY <2>1, <1>1, WFMin, Zenon
<1>3. PICK m \in T : x = 0..m
  OBVIOUS
<1>4. ASSUME NEW k \in T, k < m PROVE FALSE
  <2>1. /\ 0..k \in SUBSET Nat /\ 0..m \in SUBSET Nat
        /\ 0..k \subseteq 0..m /\ 0..k # 0..m
    BY <1>4
  <2>2. <<0..k, 0..m>> \in StrictSubsetOrdering(Nat)
    BY <2>1 DEF StrictSubsetOrdering
  <2> QED BY <1>2, <1>3, <2>2
<1> QED BY <1>4

(* accumulate() drops what precedes the first magic, and only that. *)
LEMMA SyncedDrops ==
  ASSUME NEW s \in Seq(Cell)
  PROVE  Synced(s) \in Seq(Cell) /\ \E k : Unsynced(s, k) /\ Suffix(Synced(s), s, k)
<1> DEFINE starts == {i \in DOMAIN s : s[i] = Magic}
<1>1. CASE starts = {}
  <2>1. Synced(s) = <<>>
    BY <1>1 DEF Synced
  <2>2. Unsynced(s, Len(s)) /\ Suffix(Synced(s), s, Len(s))
    BY <1>1, <2>1 DEF Unsynced, Suffix
  <2> QED BY <2>1, <2>2
<1>2. CASE starts # {}
  <2> DEFINE m == CHOOSE i \in starts : \A j \in starts : i <= j
  <2>1. starts \in SUBSET Nat
    OBVIOUS
  <2>2. m \in starts /\ \A j \in starts : m <= j
    BY <1>2, <2>1, Smallest
  <2>3. Synced(s) = SubSeq(s, m, Len(s)) /\ m \in 1..Len(s) /\ s[m] = Magic
    BY <1>2, <2>2 DEF Synced
  <2> HIDE DEF m
  <2>4. /\ Synced(s) \in Seq(Cell) /\ Len(Synced(s)) = Len(s) - (m - 1)
        /\ \A i \in 1..(Len(s) - m + 1) : Synced(s)[i] = s[m + i - 1]
    BY <2>3, SubSeqProperties
  <2>5. Unsynced(s, m - 1)
    BY <2>2, <2>3 DEF Unsynced
  <2>6. Suffix(Synced(s), s, m - 1)
    BY <2>3, <2>4 DEF Suffix
  <2> QED BY <2>4, <2>5, <2>6
<1> QED BY <1>1, <1>2

(* Only one suffix is what accumulate() keeps. *)
LEMMA SyncedOnly ==
  ASSUME NEW s \in Seq(Cell), NEW t \in Seq(Cell), NEW k, Unsynced(s, k), Suffix(t, s, k)
  PROVE  t = Synced(s)
<1>1. PICK m : Unsynced(s, m) /\ Suffix(Synced(s), s, m)
  BY SyncedDrops
<1>2. k = m
  BY <1>1 DEF Unsynced
<1>3. Synced(s) \in Seq(Cell) /\ Len(t) = Len(Synced(s)) /\ \A i \in 1..Len(t) : t[i] = Synced(s)[i]
  BY <1>1, <1>2, SyncedDrops DEF Suffix
<1> QED BY <1>3, SeqEqual

(* Nothing is dropped in front of a magic.                                    *)
LEMMA SyncedFromMagic ==
  ASSUME NEW s \in Seq(Cell), s = <<>> \/ s[1] = Magic
  PROVE  Synced(s) = s
<1>1. Unsynced(s, 0) /\ Suffix(s, s, 0)
  BY DEF Unsynced, Suffix
<1> QED BY <1>1, SyncedOnly

(* Bytes that are received behind it leave a suffix a suffix. *)
LEMMA StreamSuffix ==
  ASSUME NEW s \in Seq(Cell), NEW t \in Seq(Cell), NEW c \in Seq(Cell), NEW k, Suffix(t, s, k)
  PROVE  Suffix(t \o c, s \o c, k)
<1>1. k \in 0..Len(s) /\ Len(t) = Len(s) - k /\ Len(t) \in Nat /\ Len(s) \in Nat /\ Len(c) \in Nat
  BY DEF Suffix
<1>2. Len(t \o c) = Len(t) + Len(c) /\ Len(s \o c) = Len(s) + Len(c)
  BY ConcatProperties
<1>3. ASSUME NEW i \in 1..Len(t \o c) PROVE (t \o c)[i] = (s \o c)[i + k]
  <2>1. CASE i <= Len(t)
    <3>1. (t \o c)[i] = t[i] /\ t[i] = s[i + k] /\ i + k \in 1..Len(s)
      BY <2>1, <1>1, ConcatProperties DEF Suffix
    <3>2. (s \o c)[i + k] = s[i + k]
      BY <3>1, ConcatProperties
    <3> QED BY <3>1, <3>2
  <2>2. CASE i > Len(t)
    <3>1. (t \o c)[i] = c[i - Len(t)] /\ i + k > Len(s) /\ i + k \in 1..(Len(s) + Len(c))
      BY <2>2, <1>1, <1>2, ConcatProperties
    <3>2. (s \o c)[i + k] = c[i + k - Len(s)] /\ i + k - Len(s) = i - Len(t)
      BY <3>1, <1>1, ConcatProperties
    <3> QED BY <3>1, <3>2
  <2> QED BY <2>1, <2>2, <1>1
<1> QED BY <1>1, <1>2, <1>3 DEF Suffix

(* Dropping before or after more was received makes no difference. *)
LEMMA SyncedStream ==
  ASSUME NEW s \in Seq(Cell), NEW c \in Seq(Cell)
  PROVE  Synced(Synced(s) \o c) = Synced(s \o c)
<1> DEFINE u == Synced(s) \o c
<1>1. PICK k : Unsynced(s, k) /\ Suffix(Synced(s), s, k)
  BY SyncedDrops
<1>2. u \in Seq(Cell) /\ s \o c \in Seq(Cell)
  BY SyncedDrops
<1>3. PICK m : Unsynced(u, m) /\ Suffix(Synced(u), u, m)
  BY <1>2, SyncedDrops
<1>4. /\ Len(u) = Len(s) - k + Len(c) /\ Len(s \o c) = Len(s) + Len(c)
      /\ \A i \in 1..Len(u) : u[i] = (s \o c)[i + k]
  <2>1. Suffix(u, s \o c, k)
    BY <1>1, SyncedDrops, StreamSuffix
  <2>2. Len(s \o c) = Len(s) + Len(c)
    BY ConcatProperties
  <2> HIDE DEF u
  <2> QED BY <2>1, <2>2, <1>1 DEF Suffix, Unsynced
<1>5. \A i \in 1..k : (s \o c)[i] = s[i]
  BY <1>1, ConcatProperties DEF Unsynced
<1> HIDE DEF u
<1>6. Unsynced(s \o c, k + m)
  <2>1. k + m \in 0..Len(s \o c) /\ k \in Nat /\ m \in Nat
    BY <1>1, <1>2, <1>3, <1>4 DEF Unsynced
  <2>2. ASSUME NEW i \in 1..(k + m) PROVE (s \o c)[i] # Magic
    <3>1. CASE i <= k
      BY <1>1, <1>5, <3>1, <2>1 DEF Unsynced
    <3>2. CASE i > k
      <4>1. i - k \in 1..m /\ i - k \in 1..Len(u) /\ (i - k) + k = i
        BY <3>2, <2>1, <1>3, <1>4 DEF Unsynced
      <4> QED BY <4>1, <1>3, <1>4 DEF Unsynced
    <3> QED BY <3>1, <3>2, <2>1
  <2>3. k + m = Len(s \o c) \/ (s \o c)[k + m + 1] = Magic
    <3>1. CASE m = Len(u)
      BY <3>1, <1>1, <1>4 DEF Unsynced
    <3>2. CASE m # Len(u)
      <4>1. m + 1 \in 1..Len(u) /\ u[m + 1] = Magic
        BY <3>2, <1>2, <1>3, <2>1 DEF Unsynced
      <4>2. (s \o c)[(m + 1) + k] = Magic
        BY <4>1, <1>4
      <4>3. (m + 1) + k = k + m + 1
        BY <2>1
      <4> QED BY <4>2, <4>3
    <3> QED BY <3>1, <3>2
  <2> QED BY <2>1, <2>2, <2>3 DEF Unsynced
<1>7. Suffix(Synced(u), s \o c, k + m)
  <2>1. k + m \in 0..Len(s \o c) /\ k \in Nat /\ m \in Nat
    BY <1>6, <1>1, <1>3 DEF Unsynced
  <2>2. Len(Synced(u)) = Len(s \o c) - (k + m)
    BY <1>1, <1>2, <1>3, <1>4, <2>1 DEF Suffix
  <2>3. ASSUME NEW i \in 1..Len(Synced(u)) PROVE Synced(u)[i] = (s \o c)[i + (k + m)]
    <3>1. Synced(u)[i] = u[i + m] /\ i + m \in 1..Len(u)
      BY <1>2, <1>3, <2>1 DEF Suffix
    <3> QED BY <3>1, <1>4, <2>1
  <2> QED BY <2>1, <2>2, <2>3 DEF Suffix
<1> QED BY <1>2, <1>6, <1>7, SyncedDrops, SyncedOnly DEF u

-----------------------------------------------------------------------------
(* Types.  What is buffered or on its way belongs to packets that were sent,  *)
(* so that the size of the front packet is always defined.                    *)

Known(s) == \A i \in 1..Len(s) : s[i][1] \in Request..Len(sent)

TypeInv == TypeOK /\ Len(sent) <= MaxSent /\ Known(buf) /\ Known(pipe)

(* What a packet consists of.                                                 *)
LEMMA CellsProperties ==
  ASSUME NEW p \in Request..MaxSent, NEW len \in HeaderLen..Cap
  PROVE  /\ Cells(p, len) \in Seq(Cell) /\ Len(Cells(p, len)) = len
         /\ Cells(p, len)[1] = Magic
         /\ \A j \in 2..len : Cells(p, len)[j] = <<p, j>>
<1> DEFINE body == [i \in 1..(len - 1) |-> <<p, i + 1>>]
<1>1. len \in Nat /\ len >= 2 /\ len <= Cap /\ Cap \in Nat
  BY SizeAssumption
<1>2. body \in Seq(Cell) /\ Len(body) = len - 1
  BY <1>1, SizeAssumption DEF Cell, Request
<1>3. <<Magic>> \in Seq(Cell) /\ Len(<<Magic>>) = 1 /\ <<Magic>>[1] = Magic
  BY DEF Cell
<1>4. \A j \in 2..len : body[j - 1] = <<p, j>>
  BY <1>1
<1> HIDE DEF body
<1>5. Cells(p, len) = <<Magic>> \o body
  BY DEF Cells, body
<1>6. /\ <<Magic>> \o body \in Seq(Cell) /\ Len(<<Magic>> \o body) = 1 + (len - 1)
      /\ (<<Magic>> \o body)[1] = Magic
      /\ \A j \in 2..len : (<<Magic>> \o body)[j] = body[j - 1]
  BY <1>1, <1>2, <1>3, ConcatProperties
<1> QED BY <1>1, <1>4, <1>5, <1>6

(* The device sends packets that have a header and fit the buffer. *)
LEMMA ShapeLen ==
  ASSUME NEW s \in Shape
  PROVE  s.len \in HeaderLen..Cap /\ s.len \in Nat /\ s.len >= 2
<1>1. s.len \in Lengths
  BY DEF Shape
<1>2. s.len \in HeaderLen..Cap /\ HeaderLen \in Nat /\ HeaderLen >= 2
  BY <1>1, SizeAssumption
<1> QED BY <1>2

(* The cells of a sequence by what they are. *)
LEMMA CellKinds ==
  ASSUME NEW c \in Cell
  PROVE  c = Magic \/ (c[1] \in Request..MaxSent /\ c[2] \in 2..Cap /\ c = <<c[1], c[2]>>)
BY DEF Cell

(* Dropping cells from the front leaves known cells.                          *)
LEMMA KnownSuffix ==
  ASSUME NEW s \in Seq(Cell), NEW t \in Seq(Cell), NEW k, Suffix(t, s, k), Known(s)
  PROVE  Known(t)
BY DEF Known, Suffix

(* Known cells behind known cells are known.                                  *)
LEMMA KnownConcat ==
  ASSUME NEW s \in Seq(Cell), NEW t \in Seq(Cell), Known(s), Known(t)
  PROVE  Known(s \o t)
<1>1. /\ Len(s \o t) = Len(s) + Len(t) /\ Len(s) \in Nat /\ Len(t) \in Nat
      /\ \A i \in 1..Len(s \o t) : (s \o t)[i] = IF i <= Len(s) THEN s[i] ELSE t[i - Len(s)]
  BY ConcatProperties
<1>2. ASSUME NEW i \in 1..Len(s \o t) PROVE (s \o t)[i][1] \in Request..Len(sent)
  BY <1>1 DEF Known
<1> QED BY <1>2 DEF Known

(* The cells of a packet that was sent are known.                             *)
LEMMA KnownCells ==
  ASSUME NEW p \in Request..MaxSent, NEW len \in HeaderLen..Cap, p \in Request..Len(sent),
         Len(sent) \in Nat
  PROVE  Known(Cells(p, len))
<1>1. ASSUME NEW i \in 1..Len(Cells(p, len)) PROVE Cells(p, len)[i][1] \in Request..Len(sent)
  <2>1. CASE i = 1
    BY <2>1, CellsProperties DEF Magic, Request
  <2>2. CASE i # 1
    <3>1. i \in 2..len
      BY <2>2, CellsProperties, SizeAssumption
    <3> QED BY <3>1, CellsProperties
  <2> QED BY <2>1, <2>2
<1> QED BY <1>1 DEF Known

(* What accumulate() works on. *)
LEMMA SyncedBuf ==
  ASSUME TypeInv, NEW b, b = Synced(buf)
  PROVE  /\ b \in Seq(Cell) /\ Len(b) <= Len(buf) /\ Len(b) <= Cap /\ Known(b)
         /\ b = <<>> \/ (Len(b) >= 1 /\ b[1] = Magic)
         /\ \E k : Unsynced(buf, k) /\ Suffix(b, buf, k)
<1>1. buf \in Seq(Cell) /\ Len(buf) <= Cap /\ Cap \in Nat
  BY SizeAssumption DEF TypeInv, TypeOK
<1>2. PICK k : Unsynced(buf, k) /\ Suffix(b, buf, k)
  BY <1>1, SyncedDrops
<1>3. b \in Seq(Cell)
  BY <1>1, SyncedDrops
<1>4. Len(b) <= Len(buf)
  BY <1>1, <1>2, <1>3 DEF Suffix
<1>5. b = <<>> \/ (Len(b) >= 1 /\ b[1] = Magic)
  <2>1. CASE k = Len(buf)
    BY <2>1, <1>1, <1>2, <1>3 DEF Suffix
  <2>2. CASE k # Len(buf)
    BY <2>2, <1>1, <1>2, <1>3 DEF Suffix, Unsynced
  <2> QED BY <2>1, <2>2
<1>6. Known(b)
  BY <1>1, <1>2, <1>3, KnownSuffix DEF TypeInv
<1> QED BY <1>1, <1>2, <1>3, <1>4, <1>5, <1>6

(* The size read from a sized packet is a number, and its packet one that was *)
(* sent.                                                                      *)
LEMMA TotalType ==
  ASSUME TypeInv, NEW b \in Seq(Cell), Known(b), Sized(b)
  PROVE  /\ Front(b) \in Request..Len(sent) /\ Total(b) \in Nat
         /\ Front(b) # Request => sent[Front(b)] \in Shape
<1>1. HeaderLen \in 1..Len(b)
  BY SizeAssumption DEF Sized
<1>2. Front(b) \in Request..Len(sent) /\ Len(sent) \in Nat
  BY <1>1 DEF Known, Front, TypeInv, TypeOK
<1>3. Front(b) # Request => sent[Front(b)] \in Shape
  BY <1>2 DEF TypeInv, TypeOK, Request
<1>4. \A s \in Shape : s.len \in Nat
  BY ShapeLen, SizeAssumption
<1> QED BY <1>2, <1>3, <1>4, SizeAssumption DEF Total, Front

(* What is behind a whole packet. *)
LEMMA RestSuffix ==
  ASSUME TypeInv, NEW b \in Seq(Cell), Known(b), Whole(b)
  PROVE  /\ Rest(b) \in Seq(Cell) /\ Suffix(Rest(b), b, Total(b))
         /\ Total(b) \in HeaderLen..Len(b) /\ Total(b) <= Cap
<1>1. Total(b) \in Nat
  BY TotalType DEF Whole
<1>2. Total(b) \in HeaderLen..Len(b) /\ Total(b) <= Cap
  BY <1>1, SizeAssumption DEF Whole, BadSize
<1>3. Rest(b) = SubSeq(b, Total(b) + 1, Len(b))
  BY DEF Rest
<1>4. /\ SubSeq(b, Total(b) + 1, Len(b)) \in Seq(Cell)
      /\ Len(SubSeq(b, Total(b) + 1, Len(b))) = Len(b) - Total(b)
      /\ \A i \in 1..(Len(b) - Total(b)) : SubSeq(b, Total(b) + 1, Len(b))[i] = b[Total(b) + i]
  BY <1>1, <1>2, SizeAssumption, SubSeqProperties
<1> QED BY <1>1, <1>2, <1>3, <1>4, SizeAssumption DEF Suffix

(* The conjuncts about the two sequences of cells need work; the others are   *)
(* read off the actions.                                                      *)
ControlType ==
  /\ v3 \in BOOLEAN /\ peer \in BOOLEAN /\ reading \in BOOLEAN /\ clobbered \in BOOLEAN
  /\ phase \in {"closed", "handshake", "ready"}
  /\ result \in {"ok", "timeout", "linkdown", "protocol"}

(* Every step keeps the types of what is not the stream.                      *)
LEMMA ControlTyped ==
  ASSUME ControlType, [Next]_vars
  PROVE  ControlType'
<1> USE DEF ControlType
<1>1. CASE ReadStep
  BY <1>1 DEF ReadStep, ReadFrame, ReadHandshake, ReadRejected, ReadBadSize,
              ReadLinkDown, ReadTimeout, ReadMore, EndRead
<1>2. CASE Open \/ Close \/ StartRead \/ DeviceHangsUp
  BY <1>2 DEF Open, Close, Shut, StartRead, DeviceHangsUp
<1>3. CASE SendFrame
  BY <1>3 DEF SendFrame
<1>4. CASE \E s \in Shape : DeviceSends(s)
  BY <1>4 DEF DeviceSends
<1>5. CASE UNCHANGED vars
  BY <1>5 DEF vars
<1> QED BY <1>1, <1>2, <1>3, <1>4, <1>5 DEF Next

(* What a step may do to the cells, and what it must not. *)
StreamType ==
  /\ buf \in Seq(Cell) /\ Len(buf) <= Cap /\ Known(buf)
  /\ pipe \in Seq(Cell) /\ Known(pipe)
  /\ sent \in Seq(Shape) /\ Len(sent) <= MaxSent
  /\ delivered \in Seq(1..MaxSent)

(* The invariant on types is the two halves together.                         *)
LEMMA TypeParts == TypeInv <=> ControlType /\ StreamType
BY DEF TypeInv, TypeOK, ControlType, StreamType

(* Before the first session everything has its type.                          *)
LEMMA TypeInitially == ASSUME Init PROVE TypeInv
<1>1. ControlType
  BY DEF Init, ControlType
<1>2. <<>> \in Seq(Cell) /\ Len(<<>>) <= Cap /\ Known(<<>>) /\ Len(<<>>) <= MaxSent
  BY SizeAssumption DEF Known
<1>3. StreamType
  BY <1>2 DEF Init, StreamType
<1> QED BY <1>1, <1>3, TypeParts

(* A read that ends leaves nothing buffered or a suffix of what it found. *)
LEMMA EndReadTyped ==
  ASSUME TypeInv, NEW r, NEW b \in Seq(Cell), Len(b) <= Cap, Known(b), EndRead(r, b),
         delivered' \in Seq(1..MaxSent)
  PROVE  StreamType'
<1>1. buf' \in {b, <<>>} /\ UNCHANGED <<pipe, sent>>
  BY DEF EndRead
<1>2. <<>> \in Seq(Cell) /\ Len(<<>>) <= Cap /\ Known(<<>>)
  BY SizeAssumption DEF Known
<1>3. buf' \in Seq(Cell) /\ Len(buf') <= Cap /\ Known(buf')
  BY <1>1, <1>2
<1> QED BY <1>1, <1>3 DEF StreamType, TypeInv, TypeOK, Known

(* A request staged in the buffer changes no length, and no other packet      *)
(* appears in it.                                                             *)
LEMMA EncodedTyped ==
  ASSUME TypeInv
  PROVE  /\ Encoded \in Seq(Cell) /\ Len(Encoded) = Len(buf) /\ Known(Encoded)
         /\ ~v3 => Encoded = buf
         /\ v3 => \A i \in 1..Len(buf) : i <= RequestLen =>
                     Encoded[i] = IF i = 1 THEN Magic ELSE <<Request, i>>
<1> DEFINE req == Cells(Request, RequestLen)
<1>1. /\ req \in Seq(Cell) /\ Len(req) = RequestLen /\ req[1] = Magic
      /\ \A j \in 2..RequestLen : req[j] = <<Request, j>>
  BY SizeAssumption, CellsProperties DEF Request
<1>2. buf \in Seq(Cell) /\ Len(sent) \in Nat /\ Known(buf)
  BY DEF TypeInv, TypeOK
<1>3. Encoded = [i \in 1..Len(buf) |-> IF v3 /\ i <= RequestLen THEN req[i] ELSE buf[i]]
  BY DEF Encoded
<1> HIDE DEF req
<1>4. \A i \in 1..Len(buf) : i <= RequestLen => req[i] \in Cell
  BY <1>1, <1>2, SizeAssumption
<1>5. Encoded \in Seq(Cell) /\ Len(Encoded) = Len(buf)
  BY <1>2, <1>3, <1>4
<1>6. ASSUME NEW i \in 1..Len(buf), i <= RequestLen
      PROVE  req[i] = IF i = 1 THEN Magic ELSE <<Request, i>>
  <2>1. i = 1 \/ i \in 2..RequestLen
    BY <1>2, <1>6, SizeAssumption
  <2> QED BY <2>1, <1>1
<1>7. Known(Encoded)
  <2>1. ASSUME NEW i \in 1..Len(buf) PROVE Encoded[i][1] \in Request..Len(sent)
    <3>1. CASE v3 /\ i <= RequestLen
      <4>1. Encoded[i] = IF i = 1 THEN Magic ELSE <<Request, i>>
        BY <3>1, <1>3, <1>6
      <4> QED BY <4>1, <1>2 DEF Magic, Request
    <3>2. CASE ~(v3 /\ i <= RequestLen)
      BY <3>2, <1>2, <1>3 DEF Known
    <3> QED BY <3>1, <3>2
  <2> QED BY <2>1, <1>5 DEF Known
<1>8. ~v3 => Encoded = buf
  <2>1. ASSUME ~v3, NEW i \in 1..Len(buf) PROVE Encoded[i] = buf[i]
    BY <1>3, <2>1
  <2> QED BY <2>1, <1>2, <1>5, SeqEqual
<1>9. v3 => \A i \in 1..Len(buf) : i <= RequestLen =>
              Encoded[i] = IF i = 1 THEN Magic ELSE <<Request, i>>
  BY <1>3, <1>6
<1> QED BY <1>5, <1>7, <1>8, <1>9

(* client_.read() moves bytes from TCP to the end of the buffer. *)
LEMMA ReadMoreCells ==
  ASSUME TypeInv, ReadMore
  PROVE  \E c \in Seq(Cell) : /\ c # <<>> /\ c \o pipe' = pipe /\ pipe' \in Seq(Cell)
                              /\ Known(c) /\ Known(pipe')
                              /\ buf' = Synced(buf) \o c /\ Len(buf') <= Cap
<1> DEFINE b == Synced(buf)
<1>1. PICK n \in 1..(Cap - Len(b)) : /\ n <= Len(pipe)
                                     /\ buf' = b \o SubSeq(pipe, 1, n)
                                     /\ pipe' = SubSeq(pipe, n + 1, Len(pipe))
  BY DEF ReadMore
<1>2. b \in Seq(Cell) /\ Len(b) \in Nat /\ Len(b) <= Cap /\ Cap \in Nat
  BY SyncedBuf, SizeAssumption
<1>3. pipe \in Seq(Cell) /\ Known(pipe) /\ n \in 1..Len(pipe)
  BY <1>1, <1>2 DEF TypeInv, TypeOK
<1> DEFINE c == SubSeq(pipe, 1, n)
<1>4. /\ c \in Seq(Cell) /\ Len(c) = n /\ \A i \in 1..n : c[i] = pipe[i]
  BY <1>3, SubSeqProperties
<1>5. /\ pipe' \in Seq(Cell) /\ Suffix(pipe', pipe, n)
  <2>1. /\ SubSeq(pipe, n + 1, Len(pipe)) \in Seq(Cell)
        /\ Len(SubSeq(pipe, n + 1, Len(pipe))) = Len(pipe) - n
        /\ \A i \in 1..(Len(pipe) - n) : SubSeq(pipe, n + 1, Len(pipe))[i] = pipe[n + i]
    BY <1>3, SubSeqProperties
  <2> QED BY <1>1, <1>3, <2>1 DEF Suffix
<1>6. c \o pipe' = pipe
  BY <1>1, <1>3, ConcatAdjacentSubSeq, SubSeqFull
<1>7. Known(c) /\ Known(pipe')
  BY <1>3, <1>4, <1>5, KnownSuffix DEF Known
<1>8. Len(buf') <= Cap
  <2> HIDE DEF b, c
  <2>1. Len(buf') = Len(b) + n
    BY <1>1, <1>2, <1>4, ConcatProperties DEF c
  <2> QED BY <2>1, <1>1, <1>2
<1>9. c # <<>>
  BY <1>3, <1>4
<1> QED BY <1>1, <1>4, <1>5, <1>6, <1>7, <1>8, <1>9

(* Every step keeps the types, the buffer within its size, and the cells      *)
(* known.                                                                     *)
LEMMA TypeStep ==
  ASSUME TypeInv, [Next]_vars
  PROVE  TypeInv'
<1>1. ControlType'
  BY ControlTyped, TypeParts
<1>2. StreamType'
  <2> DEFINE b == Synced(buf)
  <2>1. /\ b \in Seq(Cell) /\ Len(b) <= Cap /\ Known(b)
        /\ <<>> \in Seq(Cell) /\ Len(<<>>) <= Cap /\ Known(<<>>) /\ Len(<<>>) <= MaxSent
    BY SyncedBuf, SizeAssumption DEF Known
  <2>2. StreamType
    BY TypeParts
  <2> HIDE DEF b
  <2>3. CASE Open
    BY <2>1, <2>3 DEF Open, StreamType, Known
  <2>4. CASE Close
    BY <2>1, <2>2, <2>4 DEF Close, Shut, StreamType, Known
  <2>5. CASE SendFrame
    <3>1. buf' \in {buf, Encoded} /\ UNCHANGED <<pipe, sent, delivered>>
      BY <2>5 DEF SendFrame
    <3>2. Encoded \in Seq(Cell) /\ Len(Encoded) = Len(buf) /\ Known(Encoded)
      BY EncodedTyped
    <3> QED BY <2>2, <3>1, <3>2 DEF StreamType, Known
  <2>6. CASE StartRead \/ DeviceHangsUp \/ UNCHANGED vars
    BY <2>2, <2>6 DEF StartRead, DeviceHangsUp, vars, StreamType, Known
  <2>7. CASE ReadFrame
    <3>1. Whole(b) /\ Decodes(b, "good") /\ EndRead("ok", Rest(b))
          /\ delivered' = Append(delivered, Front(b))
      BY <2>7 DEF ReadFrame, b
    <3>2. Rest(b) \in Seq(Cell) /\ Suffix(Rest(b), b, Total(b))
      BY <2>1, <3>1, RestSuffix
    <3>3. Known(Rest(b)) /\ Len(Rest(b)) <= Cap
      BY <2>1, <3>2, KnownSuffix, SizeAssumption DEF Suffix
    <3>4. Front(b) \in 1..MaxSent
      <4>1. Front(b) \in Request..Len(sent) /\ Front(b) # Request
        BY <2>1, <3>1, TotalType DEF Whole, Decodes
      <4> QED BY <4>1, <2>2, SizeAssumption DEF StreamType, Request
    <3>5. delivered' \in Seq(1..MaxSent)
      BY <3>1, <3>4, <2>2 DEF StreamType
    <3> QED BY <3>1, <3>2, <3>3, <3>5, EndReadTyped
  <2>8. CASE ReadHandshake
    BY <2>1, <2>2, <2>8 DEF ReadHandshake, StreamType, Known
  <2>9. CASE ReadRejected \/ ReadBadSize \/ ReadLinkDown \/ ReadTimeout
    <3>1. /\ delivered' \in Seq(1..MaxSent)
          /\ EndRead("protocol", b) \/ EndRead("protocol", <<>>) \/ EndRead("linkdown", <<>>)
             \/ EndRead("timeout", b)
      BY <2>2, <2>9 DEF ReadRejected, ReadBadSize, ReadLinkDown, ReadTimeout, StreamType, b
    <3> QED BY <2>1, <3>1, EndReadTyped
  <2>10. CASE ReadMore
    <3>1. PICK c \in Seq(Cell) : /\ pipe' \in Seq(Cell) /\ Known(c) /\ Known(pipe')
                                 /\ buf' = b \o c /\ Len(buf') <= Cap
      BY <2>10, ReadMoreCells DEF b
    <3>2. buf' \in Seq(Cell) /\ Known(buf')
      BY <2>1, <3>1, KnownConcat
    <3>3. UNCHANGED <<sent, delivered>>
      BY <2>10 DEF ReadMore
    <3> QED BY <2>2, <3>1, <3>2, <3>3 DEF StreamType, Known
  <2>11. ASSUME NEW s \in Shape, DeviceSends(s) PROVE StreamType'
    <3>1. /\ Len(sent) < MaxSent /\ sent' = Append(sent, s)
          /\ pipe' = pipe \o Cells(Len(sent) + 1, s.len)
          /\ UNCHANGED <<buf, delivered>>
      BY <2>11 DEF DeviceSends
    <3>2. PICK p \in 1..MaxSent : p = Len(sent) + 1
      BY <3>1, <2>2, SizeAssumption DEF StreamType
    <3>3. PICK c \in Seq(Cell) :
            /\ c = Cells(p, s.len) /\ Len(c) = s.len /\ c[1] = Magic
            /\ \A j \in 2..s.len : c[j] = <<p, j>>
      BY <3>2, ShapeLen, CellsProperties DEF Request
    <3>4. sent' \in Seq(Shape) /\ Len(sent') = p
      BY <2>2, <3>1, <3>2 DEF StreamType
    <3>5. Known(c)'
      <4>1. \A i \in 1..s.len : c[i][1] \in Request..p
        BY <3>2, <3>3, ShapeLen DEF Magic, Request
      <4> QED BY <4>1, <3>3, <3>4 DEF Known
    <3>6. Known(buf)' /\ Known(pipe)'
      <4>1. pipe \in Seq(Cell) /\ Known(pipe) /\ Known(buf) /\ Request..Len(sent) \subseteq Request..Len(sent')
        BY <2>2, <3>2, <3>4 DEF StreamType, Request
      <4>2. ASSUME NEW i \in 1..Len(pipe') PROVE pipe'[i][1] \in Request..Len(sent')
        <5>1. pipe' = pipe \o c /\ Len(pipe) \in Nat
          BY <3>1, <3>2, <3>3, <4>1
        <5>2. CASE i <= Len(pipe)
          <6>1. pipe'[i] = pipe[i] /\ i \in 1..Len(pipe)
            BY <5>1, <5>2, <4>1, ConcatProperties
          <6> QED BY <6>1, <4>1 DEF Known
        <5>3. CASE i > Len(pipe)
          <6>1. pipe'[i] = c[i - Len(pipe)] /\ i - Len(pipe) \in 1..Len(c)
            BY <5>1, <5>3, <4>1, <3>3, ConcatProperties
          <6> QED BY <6>1, <3>5 DEF Known
        <5> QED BY <5>1, <5>2, <5>3
      <4>3. Known(buf)'
        BY <3>1, <4>1 DEF Known
      <4> QED BY <4>2, <4>3 DEF Known
    <3>7. pipe' \in Seq(Cell)
      BY <2>2, <3>1, <3>2, <3>3 DEF StreamType
    <3> QED BY <2>2, <3>1, <3>2, <3>4, <3>6, <3>7 DEF StreamType
  <2> QED BY <2>3, <2>4, <2>5, <2>6, <2>7, <2>8, <2>9, <2>10, <2>11 DEF Next, ReadStep
<1> QED BY <1>1, <1>2 DEF TypeInv, TypeOK, ControlType, StreamType

-----------------------------------------------------------------------------
(* The stream: what is not read yet, in the buffer and at TCP. *)

Stream == buf \o pipe

FromMagic(s) == s = <<>> \/ s[1] = Magic

(* Packet p lies at i, whole, and packet p + 1 behind it if one was sent. *)
PacketAt(s, i, p) ==
  LET len == sent[p].len IN
  /\ i + len - 1 <= Len(s)
  /\ \A j \in 2..len : s[i + j - 1] = <<p, j>>
  /\ IF i + len - 1 = Len(s) THEN p = Len(sent)
     ELSE i + len < Len(s) /\ s[i + len] = Magic /\ s[i + len + 1] = <<p + 1, 2>>

(* Every magic begins a packet of the device.  What precedes the first one is *)
(* what a handshake left of a packet.                                         *)
Aligned(s) == \A i \in 1..Len(s) : s[i] = Magic => \E p \in 1..Len(sent) : PacketAt(s, i, p)

Working == phase = "ready" /\ result \in {"ok", "timeout"}

(* Between calls, and in each phase. *)
ControlInv == /\ phase = "closed" => ~reading /\ buf = <<>>
              /\ phase = "handshake" => /\ v3 /\ reading /\ result = "ok"
                                        /\ delivered = <<>> /\ ~clobbered
              /\ reading => result \in {"ok", "timeout"}
              /\ ~v3 => ~clobbered

(* A read leaves the buffer at the beginning of a packet. *)
SyncInv == ~reading => FromMagic(buf)

(* A request that was encoded over buffered bytes stays in front of them: the *)
(* packet it spoiled cannot decode.                                           *)
ClobberInv == Working /\ clobbered =>
                Len(buf) >= 2 /\ buf[1] = Magic /\ buf[2] = <<Request, 2>>

StreamInv == ~clobbered => Aligned(Stream)

(* s begins with what was sent behind packet p. *)
Follows(s, p) == IF s = <<>> THEN p = Len(sent)
                 ELSE Len(s) >= 2 /\ s[1] = Magic /\ s[2] = <<p + 1, 2>>

(* The stream goes on behind the frame that was delivered last. *)
AheadInv == Up /\ delivered # <<>> => Follows(Stream, delivered[Len(delivered)])

(* A V2 session has no handshake: no packet is ever cut. *)
V2Inv == ~v3 => /\ Working => FromMagic(Stream)
                /\ \A i \in 1..Len(sent) : sent[i].fate # "hs"

(* Every step keeps what the phases allow.                                    *)
LEMMA ControlStep ==
  ASSUME TypeInv, ControlInv, [Next]_vars
  PROVE  ControlInv'
<1> USE DEF ControlInv
<1>0. ControlType
  BY TypeParts
<1>1. CASE ReadStep
  <2>1. CASE ReadFrame
    BY <2>1 DEF ReadFrame, EndRead
  <2>2. CASE ReadHandshake
    BY <2>2 DEF ReadHandshake
  <2>3. CASE ReadRejected
    BY <2>3 DEF ReadRejected, EndRead
  <2>4. CASE ReadBadSize
    BY <2>4 DEF ReadBadSize, EndRead
  <2>5. CASE ReadLinkDown \/ ReadTimeout
    <3>1. PICK r \in {"linkdown", "timeout"}, b \in {<<>>, Synced(buf)} :
            reading /\ EndRead(r, b) /\ UNCHANGED delivered
      BY <2>5 DEF ReadLinkDown, ReadTimeout, Waiting
    <3>2. /\ ~reading' /\ UNCHANGED <<v3, clobbered>>
          /\ (phase' = "closed" /\ buf' = <<>>) \/ (phase = "ready" /\ phase' = "ready")
      BY <3>1, <1>0 DEF EndRead, ControlType
    <3> QED BY <3>1, <3>2
  <2>6. CASE ReadMore
    BY <2>6 DEF ReadMore, Waiting
  <2> QED BY <1>1, <2>1, <2>2, <2>3, <2>4, <2>5, <2>6 DEF ReadStep
<1>2. CASE Open
  BY <1>2 DEF Open, ControlType
<1>3. CASE Close
  BY <1>3 DEF Close, Shut
<1>4. CASE StartRead
  BY <1>4 DEF StartRead, Usable
<1>5. CASE DeviceHangsUp
  BY <1>5 DEF DeviceHangsUp
<1>6. CASE SendFrame
  <2>1. ~v3 => Encoded = buf
    BY EncodedTyped
  <2>2. /\ phase' = "ready" /\ ~reading' /\ phase = "ready" /\ UNCHANGED v3
    BY <1>6 DEF SendFrame, Usable
  <2>3. UNCHANGED clobbered \/ (buf' = Encoded /\ clobbered' = (clobbered \/ buf' # buf))
    BY <1>6 DEF SendFrame
  <2> QED BY <2>1, <2>2, <2>3, <1>0 DEF ControlType
<1>7. CASE \E s \in Shape : DeviceSends(s)
  BY <1>7 DEF DeviceSends, Alive
<1>8. CASE UNCHANGED vars
  BY <1>8 DEF vars
<1> QED BY <1>1, <1>2, <1>3, <1>4, <1>5, <1>6, <1>7, <1>8 DEF Next

(* NeverFull needs the types alone: a full buffer holds a header, and with it *)
(* a size that no longer fits or a packet that is whole.                      *)
LEMMA TypesNeverFull == ASSUME TypeInv PROVE NeverFull
<1>1. ASSUME NEW b \in Seq(Cell), Known(b), Waiting(b), ~(Len(b) < Cap)
      PROVE  FALSE
  <2>1. Sized(b)
    BY <1>1, SizeAssumption DEF Sized
  <2>2. Total(b) \in Nat
    BY <1>1, <2>1, TotalType
  <2> QED BY <1>1, <2>1, <2>2, SizeAssumption DEF Waiting, Whole, BadSize
<1>2. buf \in Seq(Cell) /\ Known(buf) /\ Synced(buf) \in Seq(Cell) /\ Known(Synced(buf))
  BY SyncedBuf DEF TypeInv, TypeOK
<1> QED BY <1>1, <1>2 DEF NeverFull

-----------------------------------------------------------------------------
(* What a step does to the stream. *)

(* A stream of consecutive packets stays one when cells are taken off its     *)
(* front.                                                                     *)
LEMMA AlignedSuffix ==
  ASSUME NEW s \in Seq(Cell), NEW t \in Seq(Cell), NEW k, Suffix(t, s, k),
         sent \in Seq(Shape), Aligned(s)
  PROVE  Aligned(t)
<1>1. k \in Nat /\ Len(t) = Len(s) - k /\ Len(s) \in Nat /\ \A i \in 1..Len(t) : t[i] = s[i + k]
  BY DEF Suffix
<1>2. ASSUME NEW i \in 1..Len(t), t[i] = Magic PROVE \E p \in 1..Len(sent) : PacketAt(t, i, p)
  <2>1. i + k \in 1..Len(s) /\ s[i + k] = Magic
    BY <1>1, <1>2
  <2>2. PICK p \in 1..Len(sent) : PacketAt(s, i + k, p)
    BY <2>1 DEF Aligned
  <2>3. PICK len \in Nat : len = sent[p].len /\ len >= 2
    BY ShapeLen
  <2> DEFINE m == Len(s) n == Len(t)
  <2>a. i \in Nat /\ i >= 1 /\ i <= n /\ k \in Nat /\ m \in Nat /\ n \in Nat /\ n = m - k
    BY <1>1
  <2>b. /\ (i + k) + len - 1 <= m
        /\ IF (i + k) + len - 1 = m THEN p = Len(sent)
           ELSE (i + k) + len < m /\ s[(i + k) + len] = Magic /\ s[(i + k) + len + 1] = <<p + 1, 2>>
    BY <2>2, <2>3 DEF PacketAt
  <2> HIDE DEF m, n
  <2>4. i + len - 1 <= n
    BY <2>a, <2>b
  <2>5. \A j \in 2..len : t[i + j - 1] = <<p, j>>
    <3>1. ASSUME NEW j \in 2..len PROVE t[i + j - 1] = <<p, j>>
      <4>1. i + j - 1 \in 1..Len(t) /\ (i + j - 1) + k = (i + k) + j - 1
        BY <2>a, <2>3, <2>4 DEF n
      <4>2. s[(i + k) + j - 1] = <<p, j>>
        BY <2>2, <2>3 DEF PacketAt
      <4> QED BY <1>1, <4>1, <4>2
    <3> QED BY <3>1
  <2>6. CASE i + len - 1 = n
    <3>1. (i + k) + len - 1 = m
      BY <2>a, <2>6
    <3>2. p = Len(sent)
      BY <2>b, <3>1
    <3> QED BY <2>3, <2>4, <2>5, <2>6, <3>2 DEF PacketAt, n
  <2>7. CASE i + len - 1 # n
    <3>1. (i + k) + len - 1 # m
      BY <2>a, <2>7
    <3>2. /\ (i + k) + len < m /\ s[(i + k) + len] = Magic
          /\ s[(i + k) + len + 1] = <<p + 1, 2>>
      BY <2>b, <3>1
    <3>3. /\ i + len \in 1..n /\ (i + len) + k = (i + k) + len /\ i + len < n
          /\ i + len + 1 \in 1..n /\ (i + len + 1) + k = (i + k) + len + 1
      BY <2>a, <3>2
    <3>4. t[i + len] = s[(i + len) + k] /\ t[i + len + 1] = s[(i + len + 1) + k]
      BY <1>1, <3>3 DEF n
    <3>5. t[i + len] = Magic /\ t[i + len + 1] = <<p + 1, 2>>
      BY <3>2, <3>3, <3>4
    <3> QED BY <2>3, <2>4, <2>5, <2>7, <3>3, <3>5 DEF PacketAt, n
  <2> QED BY <2>6, <2>7
<1> QED BY <1>2 DEF Aligned

(* The cells of the device's p-th packet. *)
PacketCells(c, p, len) == /\ c \in Seq(Cell) /\ Len(c) = len /\ c[1] = Magic
                          /\ \A j \in 2..len : c[j] = <<p, j>>

(* What the device sends begins behind what it sent before. *)
LEMMA AlignedSend ==
  ASSUME NEW s \in Seq(Cell), NEW t \in Seq(Cell), NEW c \in Seq(Cell), NEW shape \in Shape,
         sent \in Seq(Shape), sent' = Append(sent, shape), t = s \o c, Aligned(s),
         PacketCells(c, Len(sent) + 1, shape.len)
  PROVE  Aligned(t)'
<1>1. PICK n \in Nat : n = Len(sent)
  OBVIOUS
<1>2. PICK len \in Nat : len = shape.len /\ len >= 2
  BY ShapeLen
<1>3. /\ sent' \in Seq(Shape) /\ Len(sent') = n + 1 /\ sent'[n + 1] = shape
      /\ \A p \in 1..n : sent'[p] = sent[p]
  BY <1>1
<1>4. /\ Len(t) = Len(s) + len /\ Len(s) \in Nat
      /\ \A i \in 1..Len(s) : t[i] = s[i]
      /\ \A j \in 1..len : t[Len(s) + j] = c[j]
  <2>1. Len(c) = len /\ Len(s) \in Nat
    BY <1>2 DEF PacketCells
  <2>2. /\ Len(t) = Len(s) + Len(c)
        /\ \A i \in 1..Len(t) : t[i] = IF i <= Len(s) THEN s[i] ELSE c[i - Len(s)]
    <3>1. /\ Len(s \o c) = Len(s) + Len(c)
          /\ \A i \in 1..(Len(s) + Len(c)) : (s \o c)[i] = IF i <= Len(s) THEN s[i] ELSE c[i - Len(s)]
      BY ConcatProperties, Zenon
    <3> QED BY <3>1
  <2>3. ASSUME NEW j \in 1..len PROVE t[Len(s) + j] = c[j]
    <3>1. Len(s) + j \in 1..Len(t) /\ ~(Len(s) + j <= Len(s)) /\ (Len(s) + j) - Len(s) = j
      BY <1>2, <2>1, <2>2
    <3> QED BY <2>2, <3>1
  <2> QED BY <2>1, <2>2, <2>3
<1>a. PICK l \in Nat : l = Len(s)
  OBVIOUS
<1>b. Len(t) = l + len
  BY <1>4, <1>a
<1>5. /\ c[1] = Magic /\ c[2] = <<n + 1, 2>> /\ \A j \in 2..len : c[j] = <<n + 1, j>>
  BY <1>1, <1>2 DEF PacketCells
<1>6. ASSUME NEW i \in 1..Len(s), t[i] = Magic
      PROVE  \E p \in 1..(n + 1) : PacketAt(t, i, p)'
  <2>1. PICK p \in 1..n : PacketAt(s, i, p)
    BY <1>1, <1>4, <1>6 DEF Aligned
  <2>2. PICK m \in Nat : m = sent[p].len /\ m = sent'[p].len /\ m >= 2
    BY <1>1, <1>3, ShapeLen
  <2>a. i \in Nat /\ i >= 1 /\ i <= l /\ m \in Nat /\ m >= 2
    <3>1. m >= 2
      BY <2>2, Zenon
    <3> QED BY <1>a, <3>1
  <2>b. len \in Nat /\ len >= 2
    BY <1>2
  <2>c. i + m - 1 <= l
    BY <1>1, <1>a, <1>6, <2>1, <2>2 DEF PacketAt
  <2>3. /\ i + m - 1 <= l
        /\ IF i + m - 1 = l THEN p = n
           ELSE i + m < l /\ s[i + m] = Magic /\ s[i + m + 1] = <<p + 1, 2>>
    BY <1>1, <1>a, <1>6, <2>1, <2>2 DEF PacketAt
  <2>4. \A j \in 2..m : t[i + j - 1] = <<p, j>>
    <3>1. ASSUME NEW j \in 2..m PROVE t[i + j - 1] = <<p, j>>
      <4>1. s[i + j - 1] = <<p, j>>
        BY <2>1, <2>2 DEF PacketAt
      <4>2. i + j - 1 \in 1..l
        BY <2>c, <2>a
      <4> QED BY <4>1, <4>2, <1>4, <1>a
    <3> QED BY <3>1
  <2>5. i + m < l + len /\ t[i + m] = Magic /\ t[i + m + 1] = <<p + 1, 2>>
    <3>1. CASE i + m - 1 = l
      <4>a. p = n
        BY <2>3, <3>1
      <4>1. i + m = l + 1 /\ i + m + 1 = l + 2 /\ 1 \in 1..len /\ 2 \in 1..len /\ l + 1 < l + len
        BY <2>a, <2>b, <3>1
      <4>2. t[l + 1] = c[1] /\ t[l + 2] = c[2]
        BY <4>1, <1>4, <1>a
      <4> QED BY <4>a, <4>1, <4>2, <1>5
    <3>2. CASE i + m - 1 # l
      <4>1. s[i + m] = Magic /\ s[i + m + 1] = <<p + 1, 2>> /\ i + m < l
        BY <2>3, <3>2
      <4>a. i + m < l
        BY <4>1
      <4>2. i + m \in 1..l /\ i + m + 1 \in 1..l /\ i + m < l + len
        BY <2>a, <2>b, <4>a
      <4> QED BY <4>1, <4>2, <1>4, <1>a
    <3> QED BY <3>1, <3>2
  <2>6. i + m - 1 <= l + len /\ i + m - 1 # l + len
    BY <2>a, <2>b, <2>c
  <2>7. PacketAt(t, i, p)'
    BY <2>2, <2>4, <2>5, <2>6, <1>b DEF PacketAt
  <2> QED BY <2>7
<1>7. ASSUME NEW i \in 1..Len(t), i > l, t[i] = Magic
      PROVE  \E p \in 1..(n + 1) : PacketAt(t, i, p)'
  <2>1. i = l + 1
    <3>1. PICK j \in 1..len : i = l + j
      <4>1. i - l \in 1..len /\ i = l + (i - l)
        BY <1>2, <1>7, <1>b
      <4> QED BY <4>1
    <3>2. ASSUME j # 1 PROVE FALSE
      <4>1. j \in 2..len /\ t[i] = c[j]
        BY <3>1, <3>2, <1>2, <1>4, <1>a
      <4>2. t[i] = <<n + 1, j>>
        BY <4>1, <1>5
      <4> QED BY <4>1, <4>2, <1>7 DEF Magic, Request
    <3> QED BY <3>1, <3>2
  <2>2. \A j \in 2..len : t[i + j - 1] = <<n + 1, j>>
    <3>1. ASSUME NEW j \in 2..len PROVE t[i + j - 1] = <<n + 1, j>>
      <4>1. i + j - 1 = l + j /\ j \in 1..len
        BY <2>1, <1>2
      <4>2. t[l + j] = c[j]
        BY <4>1, <1>4, <1>a
      <4> QED BY <4>1, <4>2, <1>5
    <3> QED BY <3>1
  <2>3. i + len - 1 = l + len
    BY <2>1, <1>2
  <2>4. PacketAt(t, i, n + 1)'
    <3>1. /\ sent'[n + 1].len = len /\ Len(sent') = n + 1 /\ Len(t) = l + len
          /\ i + len - 1 <= l + len
      BY <1>2, <1>3, <1>b, <2>3
    <3> QED BY <3>1, <2>2, <2>3 DEF PacketAt
  <2>5. n + 1 \in 1..(n + 1)
    OBVIOUS
  <2> QED BY <2>4, <2>5
<1>8. ASSUME NEW i \in 1..Len(t), t[i] = Magic
      PROVE  \E p \in 1..Len(sent') : PacketAt(t, i, p)'
  <2>1. CASE i <= l
    BY <1>3, <1>6, <1>8, <1>a, <2>1
  <2>2. CASE i > l
    BY <1>3, <1>7, <1>8, <2>2
  <2>3. i \in Nat /\ l \in Nat
    OBVIOUS
  <2> QED BY <2>1, <2>2, <2>3
<1> QED BY <1>8 DEF Aligned

(* The stream consists of cells.                                              *)
LEMMA StreamTyped == ASSUME TypeInv PROVE Stream \in Seq(Cell)
BY DEF TypeInv, TypeOK, Stream

(* Every step other than opening a session, sending, and encoding a request   *)
(* over buffered cells takes something off the front of the stream, or        *)
(* nothing.                                                                   *)
Consumes == sent' = sent /\ \E k : Suffix(Stream', Stream, k)

(* Taking cells off the buffer takes them off the stream.                     *)
LEMMA BufferShrinks ==
  ASSUME TypeInv, UNCHANGED <<pipe, sent>>, NEW k, Suffix(buf', buf, k), buf' \in Seq(Cell)
  PROVE  Consumes
<1>1. buf \in Seq(Cell) /\ pipe \in Seq(Cell)
  BY DEF TypeInv, TypeOK
<1>2. Suffix(buf' \o pipe, buf \o pipe, k)
  BY <1>1, StreamSuffix
<1> QED BY <1>2 DEF Consumes, Stream

(* Emptying the buffer takes cells off the stream.                            *)
LEMMA BufferEmptied ==
  ASSUME TypeInv, UNCHANGED <<pipe, sent>>, buf' = <<>>
  PROVE  Consumes
<1>1. buf \in Seq(Cell) /\ Suffix(<<>>, buf, Len(buf)) /\ <<>> \in Seq(Cell)
  BY DEF TypeInv, TypeOK, Suffix
<1> QED BY <1>1, BufferShrinks

(* A step that leaves buffer and pipe alone takes nothing.                    *)
LEMMA BufferSame ==
  ASSUME TypeInv, UNCHANGED <<buf, pipe, sent>>
  PROVE  Consumes
<1>1. buf \in Seq(Cell) /\ Suffix(buf, buf, 0)
  BY DEF TypeInv, TypeOK, Suffix
<1> QED BY <1>1, BufferShrinks

(* The end of a read without a packet resynchronises or flushes.              *)
LEMMA EndReadConsumes ==
  ASSUME TypeInv, NEW r, EndRead(r, <<>>) \/ EndRead(r, Synced(buf))
  PROVE  Consumes
<1>1. UNCHANGED <<pipe, sent>> /\ (buf' = <<>> \/ buf' = Synced(buf))
  BY DEF EndRead
<1>2. CASE buf' = <<>>
  BY <1>1, <1>2, BufferEmptied
<1>3. CASE buf' = Synced(buf)
  BY <1>1, <1>3, SyncedBuf, BufferShrinks
<1> QED BY <1>1, <1>2, <1>3

(* A read of the socket moves cells from the pipe behind the resynchronised   *)
(* buffer.                                                                    *)
LEMMA ReadMoreStream ==
  ASSUME TypeInv, ReadMore
  PROVE  Stream' = Synced(buf) \o pipe /\ Consumes
<1>1. PICK c \in Seq(Cell) : c \o pipe' = pipe /\ pipe' \in Seq(Cell) /\ buf' = Synced(buf) \o c
  BY ReadMoreCells
<1>2. PICK b \in Seq(Cell) : b = Synced(buf) /\ \E k : Suffix(b, buf, k)
  BY SyncedBuf
<1>3. buf \in Seq(Cell) /\ pipe \in Seq(Cell)
  BY DEF TypeInv, TypeOK
<1>4. (b \o c) \o pipe' = b \o (c \o pipe')
  <2>1. pipe' \in Seq(Cell)
    BY <1>1
  <2> QED BY <2>1, ConcatAssociative
<1>5. Stream' = b \o pipe
  BY <1>1, <1>2, <1>4 DEF Stream
<1>6. PICK k : Suffix(b \o pipe, buf \o pipe, k)
  BY <1>2, <1>3, StreamSuffix
<1> QED BY <1>2, <1>5, <1>6 DEF Consumes, Stream, ReadMore

(* The part of a packet behind its front, and what follows it. *)
LEMMA RestStream ==
  ASSUME TypeInv, NEW b, b = Synced(buf), Whole(b)
  PROVE  /\ b \o pipe \in Seq(Cell) /\ Rest(b) \o pipe \in Seq(Cell)
         /\ Suffix(Rest(b) \o pipe, b \o pipe, Total(b))
         /\ \E k : Suffix(b \o pipe, Stream, k)
         /\ \E k : Suffix(Rest(b), buf, k)
<1>1. b \in Seq(Cell) /\ Known(b) /\ (\E k : Suffix(b, buf, k)) /\ buf \in Seq(Cell) /\ pipe \in Seq(Cell)
  BY SyncedBuf DEF TypeInv, TypeOK
<1>2. Rest(b) \in Seq(Cell) /\ Suffix(Rest(b), b, Total(b))
  BY <1>1, RestSuffix
<1>3. Suffix(Rest(b) \o pipe, b \o pipe, Total(b))
  BY <1>1, <1>2, StreamSuffix
<1>4. \E k : Suffix(b \o pipe, Stream, k)
  BY <1>1, StreamSuffix DEF Stream
<1>5. \E k : Suffix(Rest(b), buf, k)
  <2>1. PICK k : Suffix(b, buf, k)
    BY <1>1
  <2>2. PICK r, n : r \in Seq(Cell) /\ r = Rest(b) /\ n = Total(b)
    BY <1>2
  <2>3. Suffix(r, buf, k + n)
    <3>1. /\ k \in Nat /\ Len(b) = Len(buf) - k /\ n \in Nat /\ Len(r) = Len(b) - n
          /\ n <= Len(b) /\ k <= Len(buf)
      <4>1. k \in 0..Len(buf) /\ Len(b) = Len(buf) - k /\ Len(buf) \in Nat /\ Len(b) \in Nat
        <5>1. Len(buf) \in Nat /\ Len(b) \in Nat
          BY <1>1
        <5> QED BY <5>1, <2>1 DEF Suffix
      <4>2. n \in 0..Len(b) /\ Len(r) = Len(b) - n
        BY <1>2, <2>2 DEF Suffix
      <4> QED BY <4>1, <4>2
    <3>2. k + n \in 0..Len(buf) /\ Len(r) = Len(buf) - (k + n)
      BY <3>1, <1>1
    <3>3. ASSUME NEW i \in 1..Len(r) PROVE r[i] = buf[i + (k + n)]
      <4>1. r[i] = b[i + n] /\ i + n \in 1..Len(b)
        BY <1>1, <1>2, <2>2, <3>1 DEF Suffix
      <4>2. b[i + n] = buf[(i + n) + k] /\ (i + n) + k = i + (k + n)
        BY <2>1, <3>1, <4>1 DEF Suffix
      <4> QED BY <4>1, <4>2
    <3> QED BY <3>2, <3>3 DEF Suffix
  <2> QED BY <2>2, <2>3
<1> QED BY <1>1, <1>2, <1>3, <1>4, <1>5

(* A packet the device sends goes to the end of the stream.                   *)
LEMMA SendExtends ==
  ASSUME TypeInv, NEW s \in Shape, DeviceSends(s)
  PROVE  \E c : /\ PacketCells(c, Len(sent) + 1, s.len) /\ Stream' = Stream \o c
                /\ Len(sent) + 1 \in 1..MaxSent /\ sent' = Append(sent, s)
<1>1. /\ buf' = buf /\ pipe' = pipe \o Cells(Len(sent) + 1, s.len) /\ sent' = Append(sent, s)
      /\ Len(sent) < MaxSent
  BY DEF DeviceSends
<1>2. buf \in Seq(Cell) /\ pipe \in Seq(Cell) /\ Len(sent) \in Nat
  BY DEF TypeInv, TypeOK
<1>3. PICK p \in 1..MaxSent : p = Len(sent) + 1
  BY <1>1, <1>2, SizeAssumption
<1>4. PacketCells(Cells(p, s.len), p, s.len)
  BY <1>3, ShapeLen, CellsProperties DEF PacketCells, Request
<1>5. PICK c : c = Cells(p, s.len)
  OBVIOUS
<1>6. c \in Seq(Cell)
  BY <1>4, <1>5 DEF PacketCells
<1>7. (buf \o pipe) \o c = buf \o (pipe \o c)
  BY <1>2, <1>6, ConcatAssociative
<1>8. Stream' = Stream \o c
  BY <1>1, <1>3, <1>5, <1>7 DEF Stream
<1> QED BY <1>1, <1>3, <1>4, <1>5, <1>8

(* Every step opens a session, takes from the front, spoils the front, or     *)
(* appends a packet.                                                          *)
LEMMA StreamChanges ==
  ASSUME TypeInv, [Next]_vars
  PROVE  \/ Open
         \/ Consumes
         \/ SendFrame /\ buf' = Encoded /\ buf' # buf /\ clobbered'
         \/ \E s \in Shape : DeviceSends(s)
<1>1. CASE ReadStep
  <2>1. CASE ReadFrame
    <3>1. PICK b : b = Synced(buf) /\ Whole(b) /\ EndRead("ok", Rest(b))
      BY <2>1 DEF ReadFrame
    <3>2. buf' = Rest(b) /\ UNCHANGED <<pipe, sent>>
      BY <3>1 DEF EndRead
    <3>3. Rest(b) \in Seq(Cell)
      BY <3>1, SyncedBuf, RestSuffix
    <3> QED BY <3>1, <3>2, <3>3, RestStream, BufferShrinks
  <2>2. CASE ReadHandshake
    BY <2>2, BufferEmptied DEF ReadHandshake
  <2>3. CASE ReadRejected \/ ReadBadSize \/ ReadLinkDown \/ ReadTimeout
    <3>1. PICK r : EndRead(r, <<>>) \/ EndRead(r, Synced(buf))
      BY <2>3 DEF ReadRejected, ReadBadSize, ReadLinkDown, ReadTimeout
    <3> QED BY <3>1, EndReadConsumes
  <2>4. CASE ReadMore
    BY <2>4, ReadMoreStream
  <2> QED BY <1>1, <2>1, <2>2, <2>3, <2>4 DEF ReadStep
<1>2. CASE Close
  BY <1>2, BufferEmptied DEF Close, Shut
<1>3. CASE SendFrame
  BY <1>3, BufferSame DEF SendFrame
<1>4. CASE StartRead \/ DeviceHangsUp \/ UNCHANGED vars
  BY <1>4, BufferSame DEF StartRead, DeviceHangsUp, vars
<1> QED BY <1>1, <1>2, <1>3, <1>4 DEF Next

-----------------------------------------------------------------------------
(* The packet at the front. *)

(* A packet that decodes is one that the device sent, whole and unspoiled,    *)
(* and what is behind it in the stream is the packet the device sent next.    *)
LEMMA FrontPacket ==
  ASSUME TypeInv, ControlInv, ClobberInv, StreamInv, reading,
         NEW b, b = Synced(buf), Whole(b), NEW fate \in {"good", "hs"}, Decodes(b, fate)
  PROVE  /\ ~clobbered /\ Front(b) \in 1..Len(sent) /\ Total(b) = sent[Front(b)].len
         /\ Len(b) >= 2 /\ b[1] = Magic /\ b[2] = <<Front(b), 2>>
         /\ Follows(Rest(b) \o pipe, Front(b))
<1> DEFINE p == Front(b) n == Total(b)
<1>1. b \in Seq(Cell) /\ Known(b) /\ sent \in Seq(Shape) /\ Len(sent) \in Nat /\ Len(sent) <= MaxSent
  BY SyncedBuf DEF TypeInv, TypeOK
<1>2. p \in 1..Len(sent)
  BY <1>1, TotalType DEF Whole, Decodes, Request
<1>3. n \in HeaderLen..Len(b) /\ n <= Cap /\ n >= 2 /\ n \in Nat /\ Len(b) \in Nat
  BY <1>1, RestSuffix, SizeAssumption
<1>4. n = sent[p].len
  <2>1. sent[p].fate # "badsize"
    BY DEF Decodes
  <2> QED BY <1>2, <2>1 DEF Total, Front, Request
<1> HIDE DEF p, n
<1>5. b[1] = Magic /\ \A j \in 2..n : b[j] = <<p, j>>
  <2>1. SubSeq(b, 1, n) = Cells(p, n)
    BY DEF Decodes, Intact, p, n
  <2>2. \A i \in 1..n : SubSeq(b, 1, n)[i] = b[i]
    BY <1>1, <1>3, SubSeqProperties
  <2>3. p \in Request..MaxSent /\ n \in HeaderLen..Cap
    BY <1>1, <1>2, <1>3, SizeAssumption DEF Request
  <2>4. Cells(p, n)[1] = Magic /\ \A j \in 2..n : Cells(p, n)[j] = <<p, j>>
    BY <2>3, CellsProperties
  <2> QED BY <1>3, <2>1, <2>2, <2>4
<1>6. Len(b) >= 2 /\ b[2] = <<p, 2>>
  BY <1>3, <1>5
<1>7. ~clobbered
  <2>1. SUFFICES ASSUME clobbered PROVE FALSE
    OBVIOUS
  <2>2. Working
    BY <2>1 DEF ControlInv, Working, TypeInv, TypeOK
  <2>3. buf \in Seq(Cell) /\ buf[1] = Magic /\ buf[2] = <<Request, 2>>
    BY <2>1, <2>2 DEF ClobberInv, TypeInv, TypeOK
  <2>4. b = buf
    BY <2>3, SyncedFromMagic
  <2> QED BY <1>2, <1>6, <2>3, <2>4 DEF Request
<1> DEFINE t == b \o pipe r == Rest(b) \o pipe
<1>8. /\ t \in Seq(Cell) /\ r \in Seq(Cell) /\ Suffix(r, t, n)
      /\ Aligned(t) /\ pipe \in Seq(Cell)
  <2>1. t \in Seq(Cell) /\ r \in Seq(Cell) /\ Suffix(r, t, n) /\ \E k : Suffix(t, Stream, k)
    BY RestStream DEF n
  <2> QED BY <1>1, <1>7, <2>1, StreamTyped, AlignedSuffix DEF StreamInv, TypeInv, TypeOK
<1>9. /\ Len(t) = Len(b) + Len(pipe) /\ Len(pipe) \in Nat
      /\ \A i \in 1..Len(b) : t[i] = b[i]
  BY <1>1, <1>8, ConcatProperties
<1>10. Follows(r, p)
  <2>1. t[1] = Magic /\ t[2] = <<p, 2>> /\ 1 \in 1..Len(t)
    BY <1>3, <1>5, <1>6, <1>9
  <2> HIDE DEF t, r
  <2>2. PICK q \in 1..Len(sent) : PacketAt(t, 1, q)
    BY <1>8, <2>1 DEF Aligned
  <2>3. q = p
    <3>1. t[1 + 2 - 1] = <<q, 2>>
      BY <1>1, <2>2, ShapeLen DEF PacketAt
    <3> QED BY <2>1, <3>1
  <2>4. /\ 1 + n - 1 <= Len(t)
        /\ IF 1 + n - 1 = Len(t) THEN p = Len(sent)
           ELSE 1 + n < Len(t) /\ t[1 + n] = Magic /\ t[1 + n + 1] = <<p + 1, 2>>
    BY <1>4, <2>2, <2>3 DEF PacketAt
  <2>5. Len(r) = Len(t) - n /\ Len(t) \in Nat /\ \A i \in 1..Len(r) : r[i] = t[i + n]
    BY <1>8 DEF Suffix
  <2>6. CASE n = Len(t)
    <3>1. Len(r) = 0 /\ p = Len(sent)
      BY <1>3, <2>4, <2>5, <2>6
    <3>2. r = <<>>
      BY <1>8, <3>1
    <3> QED BY <3>1, <3>2 DEF Follows
  <2>7. CASE n # Len(t)
    <3>1. 1 + n < Len(t) /\ t[1 + n] = Magic /\ t[1 + n + 1] = <<p + 1, 2>>
      BY <1>3, <2>4, <2>7
    <3>2. Len(r) >= 2 /\ 1 \in 1..Len(r) /\ 2 \in 1..Len(r) /\ 2 + n = 1 + n + 1
      BY <1>3, <2>5, <3>1
    <3>3. r[1] = Magic /\ r[2] = <<p + 1, 2>> /\ r # <<>>
      BY <2>5, <3>1, <3>2
    <3> QED BY <3>2, <3>3 DEF Follows
  <2> QED BY <2>6, <2>7
<1> QED BY <1>2, <1>4, <1>5, <1>6, <1>7, <1>10 DEF p, n

(* A stream that begins with a packet begins so in the buffer. *)
LEMMA FromMagicBuffer ==
  ASSUME TypeInv, FromMagic(Stream)
  PROVE  /\ FromMagic(buf) /\ Synced(buf) = buf /\ Synced(Stream) = Stream
         /\ \A i \in 1..Len(buf) : Stream[i] = buf[i]
<1>1. buf \in Seq(Cell) /\ pipe \in Seq(Cell) /\ Stream \in Seq(Cell)
  BY StreamTyped DEF TypeInv, TypeOK
<1>2. Len(Stream) = Len(buf) + Len(pipe) /\ \A i \in 1..Len(buf) : Stream[i] = buf[i]
  BY <1>1, ConcatProperties DEF Stream
<1>3. FromMagic(buf)
  <2>1. ASSUME buf # <<>> PROVE buf[1] = Magic
    <3>1. 1 \in 1..Len(buf) /\ Len(Stream) # 0
      BY <1>1, <1>2, <2>1
    <3> QED BY <1>2, <3>1 DEF FromMagic
  <2> QED BY <2>1 DEF FromMagic
<1> QED BY <1>1, <1>2, <1>3, SyncedFromMagic DEF FromMagic

(* In a V2 session the packet at the front is what the device sent, however   *)
(* long ago a request was written.                                            *)
LEMMA V2Front ==
  ASSUME TypeInv, ControlInv, StreamInv, V2Inv, ~v3, Working, Sized(Synced(buf)), NEW b, b = Synced(buf)
  PROVE  /\ b[1] = Magic /\ Front(b) \in 1..Len(sent)
         /\ Sized(b) /\ \A j \in 2..sent[Front(b)].len : j <= Len(b) => b[j] = <<Front(b), j>>
<1>1. ~clobbered /\ FromMagic(Stream)
  BY DEF ControlInv, V2Inv
<1>2. b = buf /\ b \in Seq(Cell) /\ \A i \in 1..Len(b) : Stream[i] = b[i]
  BY <1>1, FromMagicBuffer DEF TypeInv, TypeOK
<1>3. HeaderLen \in 2..Len(b) /\ Len(b) >= 1
  BY SizeAssumption, <1>2 DEF Sized
<1>4. b[1] = Magic /\ 1 \in 1..Len(Stream) /\ Stream[1] = Magic
  <2>1. Stream \in Seq(Cell) /\ Len(Stream) = Len(buf) + Len(pipe) /\ Len(pipe) \in Nat
    BY StreamTyped, ConcatProperties DEF Stream, TypeInv, TypeOK
  <2>2. Stream # <<>> /\ 1 \in 1..Len(Stream)
    BY <1>2, <1>3, <2>1
  <2> QED BY <1>1, <1>2, <1>3, <2>2 DEF FromMagic
<1>5. PICK p \in 1..Len(sent) : PacketAt(Stream, 1, p)
  BY <1>1, <1>4 DEF StreamInv, Aligned
<1>6. PICK len \in HeaderLen..Cap : len = sent[p].len
  BY ShapeLen DEF TypeInv, TypeOK
<1>7. ASSUME NEW j \in 2..len, j <= Len(b) PROVE b[j] = <<p, j>>
  <2>1. Stream[1 + j - 1] = <<p, j>>
    BY <1>5, <1>6 DEF PacketAt
  <2>2. 1 + j - 1 = j /\ j \in 1..Len(b)
    BY <1>6, <1>7, <1>3, SizeAssumption
  <2> QED BY <1>2, <2>1, <2>2
<1>8. Front(b) = p
  <2>1. HeaderLen \in 2..len /\ HeaderLen <= Len(b)
    BY <1>3, <1>6, SizeAssumption
  <2> QED BY <1>7, <2>1 DEF Front
<1> QED BY <1>2, <1>4, <1>6, <1>7, <1>8

-----------------------------------------------------------------------------
(* Each part of the invariant is kept by every step. *)

(* The stream consists of consecutive packets as long as no request was       *)
(* encoded over it.                                                           *)
LEMMA StreamStep ==
  ASSUME TypeInv, StreamInv, [Next]_vars
  PROVE  StreamInv'
<1>1. SUFFICES ASSUME ~clobbered' PROVE Aligned(Stream)'
  BY DEF StreamInv
<1>2. Stream \in Seq(Cell) /\ Stream' \in Seq(Cell) /\ sent \in Seq(Shape) /\ sent' \in Seq(Shape)
  <2>1. TypeInv'
    BY TypeStep
  <2> QED BY <2>1 DEF TypeInv, TypeOK, Stream
<1>3. CASE Open
  BY <1>3 DEF Open, Aligned, Stream
<1>4. Open \/ ~clobbered
  <2>1. clobbered' \in BOOLEAN /\ clobbered \in BOOLEAN
    BY TypeStep DEF TypeInv, TypeOK
  <2>2. Open \/ UNCHANGED clobbered \/ clobbered' = (clobbered \/ buf' # buf)
    BY DEF Next, vars, ReadStep, Close, SendFrame, StartRead, DeviceHangsUp, DeviceSends, EndRead,
           ReadFrame, ReadHandshake, ReadRejected, ReadBadSize, ReadLinkDown, ReadTimeout, ReadMore
  <2> QED BY <1>1, <2>1, <2>2
<1>5. CASE ~clobbered /\ Consumes
  <2>1. PICK k : Suffix(Stream', Stream, k)
    BY <1>5 DEF Consumes
  <2>2. PICK t \in Seq(Cell) : t = Stream'
    BY <1>2
  <2>3. Aligned(t)
    BY <1>2, <1>5, <2>1, <2>2, AlignedSuffix DEF StreamInv
  <2>4. sent' = sent
    BY <1>5 DEF Consumes
  <2> QED BY <2>2, <2>3, <2>4 DEF Aligned, PacketAt
<1>6. CASE ~clobbered /\ \E s \in Shape : DeviceSends(s)
  <2>1. PICK s \in Shape : DeviceSends(s)
    BY <1>6
  <2>2. PICK c : /\ PacketCells(c, Len(sent) + 1, s.len) /\ Stream' = Stream \o c
                 /\ sent' = Append(sent, s)
    BY <2>1, SendExtends
  <2>3. PICK t \in Seq(Cell), u \in Seq(Cell) : t = Stream' /\ u = Stream
    BY <1>2
  <2>4. c \in Seq(Cell)
    BY <2>2 DEF PacketCells
  <2>5. Aligned(u) /\ t = u \o c
    BY <1>6, <2>2, <2>3 DEF StreamInv
  <2>6. Aligned(t)'
    BY <1>2, <2>2, <2>4, <2>5, AlignedSend
  <2> QED BY <2>3, <2>6 DEF Aligned, PacketAt
<1> QED BY <1>1, <1>3, <1>4, <1>5, <1>6, StreamChanges

(* Between two reads the buffer is empty or begins with a magic.              *)
LEMMA SyncStep ==
  ASSUME TypeInv, ControlInv, SyncInv, ClobberInv, StreamInv, [Next]_vars
  PROVE  SyncInv'
<1> SUFFICES ASSUME ~reading' PROVE FromMagic(buf)'
  BY DEF SyncInv
<1>0. FromMagic(<<>>) /\ FromMagic(Synced(buf))
  BY SyncedBuf DEF FromMagic
<1>1. CASE ReadStep
  <2>1. CASE ReadFrame
    <3>1. PICK b : /\ b = Synced(buf) /\ Whole(b) /\ Decodes(b, "good") /\ EndRead("ok", Rest(b))
                   /\ reading
      BY <2>1 DEF ReadFrame
    <3>2. Follows(Rest(b) \o pipe, Front(b))
      BY <3>1, FrontPacket
    <3>3. Rest(b) \in Seq(Cell) /\ pipe \in Seq(Cell)
      BY <3>1, SyncedBuf, RestSuffix DEF TypeInv, TypeOK
    <3>4. ASSUME Rest(b) # <<>> PROVE Rest(b)[1] = Magic
      <4>1. /\ Len(Rest(b)) >= 1 /\ (Rest(b) \o pipe)[1] = Rest(b)[1] /\ Rest(b) \o pipe # <<>>
        <5>1. 1 \in 1..Len(Rest(b)) /\ Len(pipe) \in Nat
          BY <3>3, <3>4
        <5> QED BY <3>3, <5>1, ConcatProperties
      <4> QED BY <3>2, <4>1 DEF Follows
    <3>5. buf' = Rest(b)
      BY <3>1 DEF EndRead
    <3> QED BY <3>4, <3>5 DEF FromMagic
  <2>2. CASE ReadHandshake
    BY <1>0, <2>2 DEF ReadHandshake, FromMagic
  <2>3. CASE ReadRejected \/ ReadBadSize \/ ReadLinkDown \/ ReadTimeout
    <3>1. buf' \in {<<>>, Synced(buf)}
      BY <2>3 DEF ReadRejected, ReadBadSize, ReadLinkDown, ReadTimeout, EndRead
    <3> QED BY <1>0, <3>1 DEF FromMagic
  <2>4. CASE ReadMore
    BY <2>4 DEF ReadMore, Waiting
  <2> QED BY <1>1, <2>1, <2>2, <2>3, <2>4 DEF ReadStep
<1>2. CASE Open \/ Close
  BY <1>0, <1>2 DEF Open, Close, Shut, FromMagic
<1>3. CASE SendFrame
  <2>1. FromMagic(buf) /\ (buf' = buf \/ buf' = Encoded)
    BY <1>3 DEF SendFrame, Usable, SyncInv
  <2>2. FromMagic(Encoded)
    <3>1. CASE v3 /\ buf # <<>>
      <4>1. 1 \in 1..Len(buf) /\ 1 <= RequestLen
        BY <3>1, SizeAssumption DEF TypeInv, TypeOK
      <4> QED BY <3>1, <4>1, EncodedTyped DEF FromMagic
    <3>2. CASE v3 /\ buf = <<>>
      <4>1. Len(Encoded) = 0 /\ Encoded \in Seq(Cell)
        BY <3>2, EncodedTyped
      <4> QED BY <4>1 DEF FromMagic
    <3>3. CASE ~v3
      BY <2>1, <3>3, EncodedTyped
    <3> QED BY <3>1, <3>2, <3>3
  <2> QED BY <2>1, <2>2 DEF FromMagic
<1>4. CASE StartRead \/ DeviceHangsUp \/ (\E s \in Shape : DeviceSends(s)) \/ UNCHANGED vars
  <2>1. buf' = buf /\ ~reading
    <3>1. CASE StartRead
      BY <3>1 DEF StartRead, Usable
    <3> QED BY <1>4, <3>1 DEF DeviceHangsUp, DeviceSends, vars
  <2> QED BY <2>1 DEF SyncInv, FromMagic
<1> QED BY <1>1, <1>2, <1>3, <1>4 DEF Next

(* Once a request was encoded over the buffer, its first cells are the        *)
(* request's.                                                                 *)
LEMMA ClobberStep ==
  ASSUME TypeInv, ControlInv, SyncInv, ClobberInv, StreamInv, [Next]_vars
  PROVE  ClobberInv'
<1> DEFINE Spoiled(s) == Len(s) >= 2 /\ s[1] = Magic /\ s[2] = <<Request, 2>>
<1> SUFFICES ASSUME Working', clobbered' PROVE Spoiled(buf')
  BY DEF ClobberInv
<1>0. buf \in Seq(Cell) /\ clobbered \in BOOLEAN /\ phase \in {"closed", "handshake", "ready"}
  BY DEF TypeInv, TypeOK
<1>1. Working /\ clobbered => Spoiled(buf) /\ Synced(buf) = buf
  <2>1. Working /\ clobbered => Spoiled(buf)
    BY DEF ClobberInv
  <2> QED BY <1>0, <2>1, SyncedFromMagic
<1> HIDE DEF Spoiled
<1>2. CASE ReadStep
  <2>1. CASE ReadFrame
    <3>1. PICK b : b = Synced(buf) /\ Whole(b) /\ Decodes(b, "good") /\ reading
      BY <2>1 DEF ReadFrame
    <3>2. ~clobbered
      BY <3>1, FrontPacket
    <3> QED BY <2>1, <3>2 DEF ReadFrame, EndRead
  <2>2. CASE ReadHandshake
    BY <2>2 DEF ReadHandshake, ControlInv
  <2>3. CASE ReadRejected \/ ReadBadSize \/ ReadLinkDown
    BY <2>3 DEF ReadRejected, ReadBadSize, ReadLinkDown, EndRead, Working
  <2>4. CASE ReadTimeout
    <3>1. EndRead("timeout", Synced(buf)) /\ reading
      BY <2>4 DEF ReadTimeout, Waiting
    <3>2. phase = "ready" /\ buf' = Synced(buf) /\ clobbered
      BY <3>1, <1>0 DEF EndRead, Working, ControlInv
    <3> QED BY <1>1, <3>1, <3>2 DEF ControlInv, Working
  <2>5. CASE ReadMore
    <3>1. Working /\ clobbered
      BY <2>5 DEF ReadMore, Working
    <3>2. PICK c \in Seq(Cell) : buf' = buf \o c
      BY <1>1, <2>5, <3>1, ReadMoreCells
    <3>3. /\ Len(buf') = Len(buf) + Len(c) /\ Len(buf) >= 2 /\ Len(buf) \in Nat /\ Len(c) \in Nat
          /\ \A i \in 1..Len(buf) : buf'[i] = buf[i]
      BY <1>0, <1>1, <3>1, <3>2, ConcatProperties DEF Spoiled
    <3>4. Len(buf') >= 2 /\ 1 \in 1..Len(buf) /\ 2 \in 1..Len(buf)
      BY <3>3
    <3> QED BY <1>1, <3>1, <3>3, <3>4 DEF Spoiled
  <2> QED BY <1>2, <2>1, <2>2, <2>3, <2>4, <2>5 DEF ReadStep
<1>3. CASE Open \/ Close
  BY <1>3 DEF Open, Close, Shut, Working
<1>4. CASE SendFrame
  <2>1. /\ Working /\ FromMagic(buf)
        /\ (buf' = buf /\ clobbered) \/ (buf' = Encoded /\ (clobbered \/ buf' # buf))
    BY <1>4, <1>0 DEF SendFrame, Usable, SyncInv, Working
  <2>2. CASE buf' = buf /\ clobbered
    BY <1>1, <2>1, <2>2
  <2>a. ASSUME v3, Len(buf) >= 2 PROVE Spoiled(Encoded)
    <3>1. Len(buf) \in Nat /\ 2 <= RequestLen /\ 1 <= RequestLen
      BY <1>0, SizeAssumption
    <3>2. 1 \in 1..Len(buf) /\ 2 \in 1..Len(buf)
      BY <2>a, <3>1
    <3>3. Encoded[1] = Magic /\ Encoded[2] = <<Request, 2>> /\ Len(Encoded) = Len(buf)
      <4>1. \A i \in 1..Len(buf) : i <= RequestLen => Encoded[i] = IF i = 1 THEN Magic ELSE <<Request, i>>
        BY <2>a, EncodedTyped
      <4>2. Len(Encoded) = Len(buf)
        BY EncodedTyped
      <4>3. Encoded[1] = Magic
        BY <3>1, <3>2, <4>1
      <4>4. Encoded[2] = <<Request, 2>>
        <5>1. Encoded[2] = IF 2 = 1 THEN Magic ELSE <<Request, 2>>
          BY <3>1, <3>2, <4>1, Zenon
        <5> QED BY <5>1
      <4> QED BY <4>2, <4>3, <4>4
    <3> QED BY <2>a, <3>3 DEF Spoiled
  <2>3. CASE buf' = Encoded /\ clobbered
    <3>1. v3 /\ Len(buf) >= 2
      BY <1>1, <2>1, <2>3 DEF Spoiled, ControlInv
    <3> QED BY <2>3, <2>a, <3>1
  <2>4. CASE buf' = Encoded /\ buf' # buf
    <3>1. v3 /\ Encoded \in Seq(Cell) /\ Len(Encoded) = Len(buf) /\ Len(buf) \in Nat
      BY <2>4, <1>0, EncodedTyped
    <3>2. Len(buf) >= 2
      <4>1. SUFFICES ASSUME Len(buf) < 2 PROVE FALSE
        BY <3>1
      <4>2. ASSUME NEW i \in 1..Len(buf) PROVE Encoded[i] = buf[i]
        <5>1. i = 1 /\ 1 <= RequestLen
          BY <4>1, <3>1, SizeAssumption
        <5>2. buf # <<>>
          BY <4>2
        <5>3. Encoded[i] = Magic
          BY <3>1, <5>1, EncodedTyped
        <5> QED BY <2>1, <5>1, <5>2, <5>3 DEF FromMagic
      <4> QED BY <2>4, <3>1, <4>2, <1>0, SeqEqual
    <3> QED BY <2>4, <2>a, <3>1, <3>2
  <2> QED BY <2>1, <2>2, <2>3, <2>4
<1>5. CASE StartRead \/ DeviceHangsUp \/ (\E s \in Shape : DeviceSends(s)) \/ UNCHANGED vars
  <2>1. buf' = buf /\ clobbered /\ Working
    <3>1. CASE StartRead
      BY <3>1 DEF StartRead, Usable, Working
    <3> QED BY <1>5, <3>1 DEF DeviceHangsUp, DeviceSends, vars, Working
  <2> QED BY <2>1, <1>1
<1> QED BY <1>2, <1>3, <1>4, <1>5 DEF Next

(* While a session stays usable, its stream changes by what is sent and read  *)
(* alone.                                                                     *)
LEMMA StreamKept ==
  ASSUME TypeInv, ControlInv, [Next]_vars, Working', ~clobbered'
  PROVE  \/ Open \/ ReadHandshake \/ ReadFrame
         \/ /\ Working /\ ~clobbered /\ delivered' = delivered
            /\ \/ \E s \in Shape : DeviceSends(s)
               \/ sent' = sent /\ (Stream' = Stream \/ Stream' = Synced(buf) \o pipe)
<1>0. clobbered \in BOOLEAN /\ phase \in {"closed", "handshake", "ready"}
  BY DEF TypeInv, TypeOK
<1>1. CASE ReadStep
  <2>1. CASE ReadRejected \/ ReadBadSize \/ ReadLinkDown
    BY <2>1 DEF ReadRejected, ReadBadSize, ReadLinkDown, EndRead, Working
  <2>2. CASE ReadTimeout
    <3>1. EndRead("timeout", Synced(buf)) /\ reading /\ delivered' = delivered
      BY <2>2 DEF ReadTimeout, Waiting
    <3>2. phase = "ready" /\ buf' = Synced(buf) /\ ~clobbered /\ UNCHANGED <<pipe, sent>>
      BY <3>1, <1>0 DEF EndRead, Working, ControlInv
    <3> QED BY <3>1, <3>2 DEF Stream, Working, ControlInv
  <2>3. CASE ReadMore
    BY <2>3, ReadMoreStream DEF ReadMore, Working
  <2> QED BY <1>1, <2>1, <2>2, <2>3 DEF ReadStep
<1>2. CASE Close
  BY <1>2 DEF Close, Shut, Working
<1>3. CASE SendFrame
  <2>1. Working /\ UNCHANGED <<pipe, sent, delivered>>
        /\ (UNCHANGED <<buf, clobbered>> \/ clobbered' = (clobbered \/ buf' # buf))
    BY <1>3 DEF SendFrame, Usable, Working
  <2>2. ~clobbered /\ buf' = buf
    BY <2>1, <1>0
  <2> QED BY <2>1, <2>2 DEF Stream
<1>4. CASE StartRead
  BY <1>4 DEF StartRead, Usable, Working, Stream
<1>5. CASE DeviceHangsUp \/ UNCHANGED vars
  BY <1>5 DEF DeviceHangsUp, vars, Working, Stream
<1>6. CASE \E s \in Shape : DeviceSends(s)
  <2>1. PICK s \in Shape : DeviceSends(s)
    BY <1>6
  <2>2. UNCHANGED <<phase, result, delivered, clobbered>>
    BY <2>1 DEF DeviceSends
  <2> QED BY <1>6, <2>2 DEF Working
<1> QED BY <1>1, <1>2, <1>3, <1>4, <1>5, <1>6 DEF Next

(* Resynchronising a stream that begins with a magic changes nothing.         *)
LEMMA KeptFromMagic ==
  ASSUME TypeInv, FromMagic(Stream), Stream' = Stream \/ Stream' = Synced(buf) \o pipe
  PROVE  Stream' = Stream
BY FromMagicBuffer DEF Stream

(* What follows p still does when more is sent behind it. *)
LEMMA FollowsSend ==
  ASSUME TypeInv, NEW s \in Seq(Cell), NEW t \in Seq(Cell), NEW c, NEW shape \in Shape,
         NEW p \in Nat, Follows(s, p), sent' = Append(sent, shape), t = s \o c,
         PacketCells(c, Len(sent) + 1, shape.len)
  PROVE  Follows(t, p)'
<1>0. c \in Seq(Cell) /\ Len(c) >= 2 /\ c[1] = Magic /\ c[2] = <<Len(sent) + 1, 2>>
  BY ShapeLen DEF PacketCells
<1>1. CASE s = <<>>
  <2>1. t = c /\ p = Len(sent)
    BY <1>0, <1>1 DEF Follows
  <2> QED BY <1>0, <2>1 DEF Follows
<1>2. CASE s # <<>>
  <2>1. Len(s) >= 2 /\ s[1] = Magic /\ s[2] = <<p + 1, 2>>
    BY <1>2 DEF Follows
  <2>2. Len(s) \in Nat /\ Len(c) \in Nat /\ 1 \in 1..Len(s) /\ 2 \in 1..Len(s)
    BY <1>0, <2>1
  <2>3. Len(s \o c) = Len(s) + Len(c) /\ \A i \in 1..Len(s) : (s \o c)[i] = s[i]
    BY <1>0, ConcatProperties
  <2>4. t # <<>> /\ Len(t) >= 2 /\ t[1] = Magic /\ t[2] = <<p + 1, 2>>
    BY <2>1, <2>2, <2>3
  <2> QED BY <2>4 DEF Follows
<1> QED BY <1>1, <1>2

(* A frame that is read was the packet at the front.                          *)
LEMMA ReadFrameFollows ==
  ASSUME TypeInv, ControlInv, ClobberInv, StreamInv, ReadFrame
  PROVE  /\ ~clobbered /\ Working /\ UNCHANGED <<phase, sent, pipe, clobbered>> /\ result' = "ok"
         /\ delivered' = Append(delivered, Front(Synced(buf)))
         /\ Front(Synced(buf)) \in 1..Len(sent)
         /\ Len(Synced(buf)) >= 2 /\ Synced(buf)[2] = <<Front(Synced(buf)), 2>>
         /\ Stream' = Rest(Synced(buf)) \o pipe
         /\ Follows(Stream', Front(Synced(buf)))
<1>1. PICK b : /\ b = Synced(buf) /\ Whole(b) /\ Decodes(b, "good") /\ EndRead("ok", Rest(b))
               /\ reading /\ phase = "ready" /\ delivered' = Append(delivered, Front(b))
  BY DEF ReadFrame
<1>2. buf' = Rest(b) /\ UNCHANGED <<phase, sent, pipe, clobbered>> /\ result' = "ok"
  BY <1>1 DEF EndRead
<1>3. /\ ~clobbered /\ Front(b) \in 1..Len(sent) /\ Len(b) >= 2 /\ b[2] = <<Front(b), 2>>
      /\ Follows(Rest(b) \o pipe, Front(b))
  BY <1>1, FrontPacket
<1> QED BY <1>1, <1>2, <1>3 DEF Stream, Working, ControlInv

(* The stream goes on with the packet after the one delivered last.           *)
LEMMA AheadStep ==
  ASSUME TypeInv, ControlInv, ClobberInv, StreamInv, AheadInv, [Next]_vars
  PROVE  AheadInv'
<1> SUFFICES ASSUME Up', delivered' # <<>>
             PROVE  Follows(Stream, delivered[Len(delivered)])'
  BY DEF AheadInv
<1>0. /\ Working' /\ ~clobbered'
      /\ Working /\ ~clobbered /\ delivered # <<>> => Follows(Stream, delivered[Len(delivered)])
  BY DEF Up, Working, AheadInv
<1>1. CASE Open \/ ReadHandshake
  BY <1>1 DEF Open, ReadHandshake, ControlInv
<1>2. CASE ReadFrame
  <2>1. /\ delivered' = Append(delivered, Front(Synced(buf))) /\ sent' = sent
        /\ Follows(Stream', Front(Synced(buf))) /\ Front(Synced(buf)) \in 1..Len(sent)
    BY <1>2, ReadFrameFollows
  <2>2. delivered'[Len(delivered')] = Front(Synced(buf))
    BY <2>1 DEF TypeInv, TypeOK
  <2> QED BY <2>1, <2>2 DEF Follows
<1>3. CASE Working /\ ~clobbered /\ delivered' = delivered /\ \E s \in Shape : DeviceSends(s)
  <2>1. PICK s \in Shape : DeviceSends(s)
    BY <1>3
  <2>2. PICK c : /\ PacketCells(c, Len(sent) + 1, s.len) /\ Stream' = Stream \o c
                 /\ sent' = Append(sent, s)
    BY <2>1, SendExtends
  <2>3. PICK p \in Nat : p = delivered[Len(delivered)]
    <3>1. delivered \in Seq(1..MaxSent) /\ Len(delivered) \in 1..Len(delivered)
      BY <1>3 DEF TypeInv, TypeOK
    <3>2. delivered[Len(delivered)] \in 1..MaxSent
      BY <3>1, ElementOfSeq
    <3> QED BY <3>2, SizeAssumption
  <2>4. Follows(Stream, p) /\ Stream \in Seq(Cell) /\ c \in Seq(Cell)
    BY <1>0, <1>3, <2>2, <2>3, StreamTyped DEF PacketCells
  <2>5. PICK t \in Seq(Cell) : t = Stream'
    <3>1. Stream \o c \in Seq(Cell)
      BY <2>4, ConcatProperties
    <3> QED BY <2>2, <3>1
  <2>6. Follows(t, p)'
    BY <2>2, <2>4, <2>5, FollowsSend
  <2>7. p = delivered'[Len(delivered')]
    BY <1>3, <2>3
  <2> QED BY <2>5, <2>6, <2>7 DEF Follows
<1>4. CASE /\ Working /\ ~clobbered /\ delivered' = delivered /\ sent' = sent
           /\ Stream' = Stream \/ Stream' = Synced(buf) \o pipe
  <2>1. Follows(Stream, delivered[Len(delivered)])
    BY <1>0, <1>4
  <2>2. Stream' = Stream
    BY <1>4, <2>1, KeptFromMagic DEF Follows, FromMagic
  <2> QED BY <1>4, <2>1, <2>2 DEF Follows
<1> QED BY <1>0, <1>1, <1>2, <1>3, <1>4, StreamKept

(* The stream of a V2 session begins with a magic.                            *)
LEMMA V2Step ==
  ASSUME TypeInv, ControlInv, ClobberInv, StreamInv, V2Inv, [Next]_vars
  PROVE  V2Inv'
<1>0. v3' = v3
  BY DEF Next, vars, ReadStep, Open, Close, SendFrame, StartRead, DeviceHangsUp, DeviceSends, EndRead,
         ReadFrame, ReadHandshake, ReadRejected, ReadBadSize, ReadLinkDown, ReadTimeout, ReadMore
<1> SUFFICES ASSUME ~v3 PROVE (Working => FromMagic(Stream))' /\ \A i \in 1..Len(sent') : sent'[i].fate # "hs"
  BY <1>0 DEF V2Inv
<1>1. (Working => FromMagic(Stream)) /\ \A i \in 1..Len(sent) : sent[i].fate # "hs"
  BY DEF V2Inv
<1>2. \A i \in 1..Len(sent') : sent'[i].fate # "hs"
  <2>1. CASE Open
    BY <2>1 DEF Open
  <2>2. CASE \E s \in Shape : DeviceSends(s)
    BY <2>2, <1>1 DEF DeviceSends, TypeInv, TypeOK
  <2>3. CASE sent' = sent
    BY <2>3, <1>1
  <2> QED BY <2>1, <2>2, <2>3, StreamChanges DEF Consumes, SendFrame
<1>3. ASSUME Working' PROVE FromMagic(Stream)'
  <2>0. ~clobbered' /\ ~clobbered
    BY <1>0, ControlStep DEF ControlInv
  <2>1. CASE Open
    BY <2>1 DEF Open, Stream, FromMagic
  <2>2. CASE ReadHandshake
    BY <2>2 DEF ReadHandshake, ControlInv
  <2>3. CASE ReadFrame
    BY <2>3, ReadFrameFollows DEF Follows, FromMagic
  <2>4. CASE Working /\ \E s \in Shape : DeviceSends(s)
    <3>1. PICK s \in Shape : DeviceSends(s)
      BY <2>4
    <3>2. PICK c : PacketCells(c, Len(sent) + 1, s.len) /\ Stream' = Stream \o c
      BY <3>1, SendExtends
    <3>3. Stream \in Seq(Cell) /\ c \in Seq(Cell) /\ c[1] = Magic /\ Len(c) >= 2
      BY <3>2, StreamTyped, ShapeLen DEF PacketCells
    <3>4. CASE Stream = <<>>
      BY <3>2, <3>3, <3>4 DEF FromMagic
    <3>5. CASE Stream # <<>>
      <4>1. Stream[1] = Magic /\ 1 \in 1..Len(Stream)
        BY <1>1, <2>4, <3>3, <3>5 DEF FromMagic
      <4>2. (Stream \o c)[1] = Stream[1]
        BY <3>3, <4>1, ConcatProperties
      <4> QED BY <3>2, <4>1, <4>2 DEF FromMagic
    <3> QED BY <3>4, <3>5
  <2>5. CASE Working /\ (Stream' = Stream \/ Stream' = Synced(buf) \o pipe)
    BY <1>1, <2>5, KeptFromMagic DEF FromMagic
  <2> QED BY <1>3, <2>0, <2>1, <2>2, <2>3, <2>4, <2>5, StreamKept
<1> QED BY <1>2, <1>3

(* Every step keeps the frames consecutive.                                   *)
LEMMA InOrderStep ==
  ASSUME TypeInv, ControlInv, ClobberInv, StreamInv, AheadInv, InOrder, [Next]_vars
  PROVE  InOrder'
<1>1. CASE ReadFrame
  <2> DEFINE p == Front(Synced(buf)) n == Len(delivered)
  <2>1. /\ ~clobbered /\ Working /\ delivered' = Append(delivered, p) /\ p \in 1..Len(sent)
        /\ Len(Synced(buf)) >= 2 /\ Synced(buf)[2] = <<p, 2>>
    BY <1>1, ReadFrameFollows
  <2>2. delivered \in Seq(1..MaxSent) /\ n \in Nat
    BY DEF TypeInv, TypeOK
  <2>3. ASSUME n # 0 PROVE p = delivered[n] + 1
    <3>1. Follows(Stream, delivered[n])
      BY <2>1, <2>2, <2>3 DEF AheadInv, Up, Working
    <3>2. Synced(buf) = buf /\ \A i \in 1..Len(buf) : Stream[i] = buf[i]
      BY <3>1, FromMagicBuffer DEF Follows, FromMagic
    <3>3. Stream \in Seq(Cell) /\ Len(Stream) = Len(buf) + Len(pipe) /\ Len(pipe) \in Nat /\ Len(buf) \in Nat
      BY StreamTyped, ConcatProperties DEF Stream, TypeInv, TypeOK
    <3>4. Stream[2] = <<p, 2>> /\ Stream # <<>>
      <4>1. 2 \in 1..Len(buf) /\ Len(Stream) # 0
        BY <2>1, <3>2, <3>3
      <4> QED BY <2>1, <3>2, <4>1
    <3> QED BY <3>1, <3>4 DEF Follows
  <2> HIDE DEF p
  <2>4. ASSUME NEW i \in 1..(Len(delivered') - 1) PROVE delivered'[i + 1] = delivered'[i] + 1
    <3>1. Len(delivered') = n + 1 /\ delivered'[n + 1] = p /\ \A j \in 1..n : delivered'[j] = delivered[j]
      BY <2>1, <2>2
    <3>2. CASE i = n
      BY <2>2, <2>3, <3>1, <3>2
    <3>3. CASE i # n
      <4>1. i \in 1..n /\ i + 1 \in 1..n /\ i \in 1..(n - 1)
        BY <2>2, <3>1, <3>3
      <4> QED BY <3>1, <4>1 DEF InOrder
    <3> QED BY <3>2, <3>3
  <2> QED BY <2>4 DEF InOrder
<1>2. CASE delivered' = delivered \/ delivered' = <<>>
  BY <1>2 DEF InOrder
<1>3. ReadFrame \/ delivered' = delivered \/ delivered' = <<>>
  BY DEF Next, vars, ReadStep, Open, Close, SendFrame, StartRead, DeviceHangsUp, DeviceSends,
         ReadHandshake, ReadRejected, ReadBadSize, ReadLinkDown, ReadTimeout, ReadMore
<1> QED BY <1>1, <1>2, <1>3

(* Every step of a V2 session that ends in a protocol error has a packet to   *)
(* blame.                                                                     *)
LEMMA V2KeepsStep ==
  ASSUME TypeInv, ControlInv, StreamInv, V2Inv, V2SendKeepsStream, [Next]_vars
  PROVE  V2SendKeepsStream'
<1>0. v3' = v3
  BY DEF Next, vars, ReadStep, Open, Close, SendFrame, StartRead, DeviceHangsUp, DeviceSends, EndRead,
         ReadFrame, ReadHandshake, ReadRejected, ReadBadSize, ReadLinkDown, ReadTimeout, ReadMore
<1> SUFFICES ASSUME ~v3, phase' = "ready", result' = "protocol" PROVE DeviceAtFault'
  BY <1>0 DEF V2SendKeepsStream, SendKeepsStream
<1>a. sent \in Seq(Shape) /\ Len(sent) \in Nat
  BY DEF TypeInv, TypeOK
<1>1. ASSUME reading, phase # "handshake", Sized(Synced(buf)),
             BadSize(Synced(buf)) \/ (Whole(Synced(buf)) /\ ~Decodes(Synced(buf), "good"))
      PROVE  DeviceAtFault
  <2>1. PICK b : b = Synced(buf)
    OBVIOUS
  <2>2. Working /\ b \in Seq(Cell)
    BY <1>1, <2>1, SyncedBuf DEF ControlInv, Working, TypeInv, TypeOK
  <2>3. /\ b[1] = Magic /\ Front(b) \in 1..Len(sent)
        /\ \A j \in 2..sent[Front(b)].len : j <= Len(b) => b[j] = <<Front(b), j>>
    BY <1>1, <2>1, <2>2, V2Front
  <2> DEFINE p == Front(b)
  <2>4. PICK len \in HeaderLen..Cap : len = sent[p].len
    BY <1>a, <2>3, ShapeLen
  <2>5. Total(b) = IF sent[p].fate = "badsize" THEN Cap + 1 ELSE len
    BY <2>3, <2>4 DEF Total, Front, Request
  <2>6. sent[p].fate # "hs"
    BY <2>3 DEF V2Inv
  <2>7. ASSUME sent[p].fate = "good" PROVE FALSE
    <3>1. Total(b) = len /\ ~BadSize(b)
      BY <2>4, <2>5, <2>7, SizeAssumption DEF BadSize
    <3>2. len <= Len(b) /\ ~Decodes(b, "good")
      BY <1>1, <2>1, <3>1 DEF Whole
    <3>3. SubSeq(b, 1, len) = Cells(p, len)
      <4>1. len \in 1..Len(b) /\ len >= 2
        BY <2>4, <3>2, SizeAssumption
      <4>2. /\ SubSeq(b, 1, len) \in Seq(Cell) /\ Len(SubSeq(b, 1, len)) = len
            /\ \A i \in 1..len : SubSeq(b, 1, len)[i] = b[i]
        BY <2>2, <4>1, SubSeqProperties
      <4>3. p \in Request..MaxSent
        BY <1>a, <2>3, SizeAssumption DEF Request, TypeInv
      <4>4. /\ Cells(p, len) \in Seq(Cell) /\ Len(Cells(p, len)) = len /\ Cells(p, len)[1] = Magic
            /\ \A j \in 2..len : Cells(p, len)[j] = <<p, j>>
        BY <4>3, CellsProperties
      <4>5. \A j \in 2..len : b[j] = <<p, j>>
        BY <2>3, <2>4, <3>2, <4>1
      <4>6. ASSUME NEW i \in 1..len PROVE SubSeq(b, 1, len)[i] = Cells(p, len)[i]
        <5>1. i = 1 \/ i \in 2..len
          BY <4>1
        <5> QED BY <2>3, <4>1, <4>2, <4>4, <4>5, <5>1
      <4> QED BY <4>2, <4>4, <4>6, SeqEqual
    <3> QED BY <2>3, <2>7, <3>1, <3>2, <3>3 DEF Decodes, Intact, Request
  <2> QED BY <2>3, <2>6, <2>7 DEF DeviceAtFault
<1>2. CASE ReadRejected \/ ReadBadSize
  <2>1. EndRead("protocol", Synced(buf)) \/ EndRead("protocol", <<>>)
    BY <1>2 DEF ReadRejected, ReadBadSize, Whole, BadSize
  <2>2. phase = "ready" /\ sent' = sent
    <3>1. phase \in {"closed", "handshake", "ready"}
      BY DEF TypeInv, TypeOK
    <3> QED BY <1>2, <3>1 DEF ReadRejected, ReadBadSize, EndRead, ControlInv
  <2>3. DeviceAtFault
    BY <1>1, <1>2, <2>2 DEF ReadRejected, ReadBadSize, Whole, BadSize
  <2> QED BY <2>2, <2>3 DEF DeviceAtFault
<1>3. CASE /\ phase = "ready" /\ result = "protocol"
           /\ sent' = sent \/ \E s \in Shape : DeviceSends(s)
  <2>1. DeviceAtFault
    BY <1>3 DEF V2SendKeepsStream, SendKeepsStream
  <2>2. CASE sent' = sent
    BY <2>1, <2>2 DEF DeviceAtFault
  <2>3. CASE \E s \in Shape : DeviceSends(s)
    <3>1. PICK s \in Shape : sent' = Append(sent, s)
      BY <2>3 DEF DeviceSends
    <3>2. PICK i \in 1..Len(sent) : sent[i].fate \notin {"good", "hs"}
      BY <2>1 DEF DeviceAtFault
    <3>3. i \in 1..Len(sent') /\ sent'[i] = sent[i]
      BY <1>a, <3>1
    <3> QED BY <3>2, <3>3 DEF DeviceAtFault
  <2> QED BY <1>3, <2>2, <2>3
<1>4. \/ ReadRejected \/ ReadBadSize
      \/ /\ phase = "ready" /\ result = "protocol"
         /\ sent' = sent \/ \E s \in Shape : DeviceSends(s)
  <2>1. CASE ReadFrame \/ ReadHandshake \/ ReadLinkDown \/ ReadTimeout \/ ReadMore
    BY <2>1 DEF ReadFrame, ReadHandshake, ReadLinkDown, ReadTimeout, ReadMore, EndRead
  <2>2. CASE Open \/ Close \/ SendFrame \/ StartRead
    BY <2>2 DEF Open, Close, Shut, SendFrame, StartRead, Usable
  <2>3. CASE DeviceHangsUp \/ UNCHANGED vars
    BY <2>3 DEF DeviceHangsUp, vars
  <2>4. CASE \E s \in Shape : DeviceSends(s)
    <3>1. PICK s \in Shape : DeviceSends(s)
      BY <2>4
    <3>2. UNCHANGED <<phase, result>>
      BY <3>1 DEF DeviceSends
    <3> QED BY <2>4, <3>2
  <2> QED BY <2>1, <2>2, <2>3, <2>4 DEF Next, ReadStep
<1> QED BY <1>2, <1>3, <1>4

-----------------------------------------------------------------------------
(* The FIFO of FrameStream, read off the stream. *)

FramesFrom(p, n) == [i \in 1..(n - p + 1) |-> p + (i - 1)]

Queue(s, n) == IF Synced(s) = <<>> THEN <<>> ELSE FramesFrom(Synced(s)[2][1], n)

(* What the refinement mapping calls outstanding is read off the stream.      *)
LEMMA OutstandingIsQueue == Outstanding = Queue(Stream, Len(sent))
BY DEF Outstanding, Queue, Stream, FramesFrom

(* The packet at the front names the queue. *)
LEMMA QueueFrom ==
  ASSUME TypeInv, NEW s \in Seq(Cell), Aligned(s), Synced(s) # <<>>
  PROVE  \E p \in 1..Len(sent) : /\ Len(Synced(s)) >= 2 /\ Synced(s)[1] = Magic
                                 /\ Synced(s)[2] = <<p, 2>>
                                 /\ Queue(s, Len(sent)) = FramesFrom(p, Len(sent))
<1>1. PICK t, k : t \in Seq(Cell) /\ t = Synced(s) /\ Unsynced(s, k) /\ Suffix(t, s, k)
  BY SyncedDrops
<1>2. sent \in Seq(Shape) /\ Aligned(t)
  BY <1>1, AlignedSuffix DEF TypeInv, TypeOK
<1>3. t # <<>> /\ Len(t) \in Nat /\ 1 \in 1..Len(t)
  BY <1>1
<1>4. t[1] = Magic
  <2>1. k \in Nat /\ Len(t) = Len(s) - k /\ Len(s) \in Nat /\ t[1] = s[1 + k]
    BY <1>1, <1>3 DEF Suffix
  <2>2. k # Len(s) /\ 1 + k = k + 1
    BY <1>3, <2>1
  <2> QED BY <1>1, <2>1, <2>2 DEF Unsynced
<1>5. PICK p \in 1..Len(sent) : PacketAt(t, 1, p)
  BY <1>2, <1>3, <1>4 DEF Aligned
<1>6. PICK len \in Nat : len = sent[p].len /\ len >= 2
  BY <1>2, ShapeLen
<1>7. t[1 + 2 - 1] = <<p, 2>> /\ 1 + len - 1 <= Len(t)
  BY <1>5, <1>6 DEF PacketAt
<1>8. t[2] = <<p, 2>> /\ Len(t) >= 2
  BY <1>3, <1>6, <1>7
<1>9. Queue(s, Len(sent)) = FramesFrom(p, Len(sent))
  BY <1>1, <1>3, <1>8 DEF Queue
<1> QED BY <1>1, <1>4, <1>8, <1>9

(* The frames from p on are consecutive numbers.                              *)
LEMMA FramesFromType ==
  ASSUME NEW p \in Nat, NEW n \in Nat, p >= 1, n <= MaxSent, p <= n + 1
  PROVE  /\ FramesFrom(p, n) \in Seq(1..MaxSent) /\ Len(FramesFrom(p, n)) = n - p + 1
         /\ \A i \in 1..(n - p + 1) : FramesFrom(p, n)[i] = p + (i - 1)
<1>1. \A i \in 1..(n - p + 1) : p + (i - 1) \in 1..MaxSent
  BY SizeAssumption
<1>2. n - p + 1 \in Nat
  OBVIOUS
<1> QED BY <1>1, <1>2 DEF FramesFrom

(* What is outstanding are packets of this session.                           *)
LEMMA QueueType ==
  ASSUME TypeInv, NEW s \in Seq(Cell), Aligned(s)
  PROVE  Queue(s, Len(sent)) \in Seq(1..MaxSent)
<1>1. CASE Synced(s) = <<>>
  BY <1>1 DEF Queue
<1>2. CASE Synced(s) # <<>>
  <2>1. PICK p \in 1..Len(sent) : Queue(s, Len(sent)) = FramesFrom(p, Len(sent))
    BY <1>2, QueueFrom
  <2>2. Len(sent) \in Nat /\ Len(sent) <= MaxSent /\ p \in Nat /\ p >= 1 /\ p <= Len(sent) + 1
    BY DEF TypeInv, TypeOK
  <2> QED BY <2>1, <2>2, FramesFromType
<1> QED BY <1>1, <1>2

(* A packet that is sent is the last of the queue. *)
LEMMA QueueSend ==
  ASSUME TypeInv, NEW s \in Seq(Cell), Aligned(s), NEW c, NEW len \in Nat, len >= 2,
         Len(sent) + 1 <= MaxSent, PacketCells(c, Len(sent) + 1, len)
  PROVE  Queue(s \o c, Len(sent) + 1) = Append(Queue(s, Len(sent)), Len(sent) + 1)
<1>1. PICK n \in Nat : n = Len(sent) /\ n + 1 <= MaxSent
  BY DEF TypeInv, TypeOK
<1>2. c \in Seq(Cell) /\ Len(c) >= 2 /\ c[1] = Magic /\ c[2] = <<n + 1, 2>>
  BY <1>1 DEF PacketCells
<1>3. PICK t \in Seq(Cell) : t = Synced(s)
  BY SyncedDrops
<1>4. t \o c \in Seq(Cell) /\ Synced(t \o c) = Synced(s \o c)
  BY <1>2, <1>3, SyncedStream
<1>5. CASE t = <<>>
  <2>1. t \o c = c
    BY <1>2, <1>5
  <2>2. Synced(s \o c) = c /\ c # <<>>
    BY <1>2, <1>4, <2>1, SyncedFromMagic
  <2>3. Queue(s \o c, n + 1) = FramesFrom(n + 1, n + 1)
    BY <1>2, <2>2 DEF Queue
  <2>4. Queue(s, n) = <<>>
    BY <1>3, <1>5 DEF Queue
  <2>5. /\ FramesFrom(n + 1, n + 1) \in Seq(1..MaxSent) /\ Len(FramesFrom(n + 1, n + 1)) = 1
        /\ FramesFrom(n + 1, n + 1)[1] = n + 1
    <3>1. PICK m \in Nat : m = n + 1
      OBVIOUS
    <3>2. m >= 1 /\ m <= m + 1 /\ m - m + 1 = 1 /\ m + (1 - 1) = m /\ 1 \in 1..1 /\ m <= MaxSent
      BY <1>1, <3>1
    <3>3. /\ FramesFrom(m, m) \in Seq(1..MaxSent) /\ Len(FramesFrom(m, m)) = m - m + 1
          /\ \A i \in 1..(m - m + 1) : FramesFrom(m, m)[i] = m + (i - 1)
      BY <3>2, FramesFromType
    <3> QED BY <3>1, <3>2, <3>3
  <2>6. FramesFrom(n + 1, n + 1) = <<n + 1>>
    BY <2>5
  <2> QED BY <1>1, <2>3, <2>4, <2>6
<1>6. CASE t # <<>>
  <2>1. PICK p \in 1..n : /\ Len(t) >= 2 /\ t[1] = Magic /\ t[2] = <<p, 2>>
                          /\ Queue(s, n) = FramesFrom(p, n)
    BY <1>1, <1>3, <1>6, QueueFrom
  <2>2. Len(t \o c) = Len(t) + Len(c) /\ \A i \in 1..Len(t) : (t \o c)[i] = t[i]
    BY <1>2, ConcatProperties
  <2>3. (t \o c)[1] = Magic /\ (t \o c)[2] = <<p, 2>> /\ t \o c # <<>>
    <3>1. 1 \in 1..Len(t) /\ 2 \in 1..Len(t) /\ Len(t \o c) # 0
      BY <1>2, <2>1, <2>2
    <3> QED BY <2>1, <2>2, <3>1
  <2>4. Synced(s \o c) = t \o c
    BY <1>4, <2>3, SyncedFromMagic
  <2>5. Queue(s \o c, n + 1) = FramesFrom(p, n + 1)
    <3>1. Synced(s \o c) # <<>> /\ Synced(s \o c)[2] = <<p, 2>>
      BY <2>3, <2>4
    <3>2. Synced(s \o c)[2][1] = p
      BY <3>1
    <3> QED BY <3>1, <3>2 DEF Queue
  <2>6. p \in Nat /\ p >= 1 /\ p <= n
    OBVIOUS
  <2>7. /\ FramesFrom(p, n) \in Seq(1..MaxSent) /\ Len(FramesFrom(p, n)) = n - p + 1
        /\ \A i \in 1..(n - p + 1) : FramesFrom(p, n)[i] = p + (i - 1)
    <3>1. p <= n + 1 /\ n <= MaxSent
      BY <1>1, <2>6, SizeAssumption
    <3> QED BY <2>6, <3>1, FramesFromType
  <2>8. /\ FramesFrom(p, n + 1) \in Seq(1..MaxSent) /\ Len(FramesFrom(p, n + 1)) = (n + 1) - p + 1
        /\ \A i \in 1..((n + 1) - p + 1) : FramesFrom(p, n + 1)[i] = p + (i - 1)
    <3>1. PICK m \in Nat : m = n + 1
      OBVIOUS
    <3>2. p <= m + 1 /\ m <= MaxSent
      BY <1>1, <2>6, <3>1
    <3>3. /\ FramesFrom(p, m) \in Seq(1..MaxSent) /\ Len(FramesFrom(p, m)) = m - p + 1
          /\ \A i \in 1..(m - p + 1) : FramesFrom(p, m)[i] = p + (i - 1)
      BY <2>6, <3>2, FramesFromType
    <3> QED BY <3>1, <3>3
  <2> DEFINE a == Append(FramesFrom(p, n), n + 1)
  <2>9. /\ a \in Seq(1..MaxSent) /\ Len(a) = (n - p + 1) + 1
        /\ \A i \in 1..(n - p + 1) : a[i] = FramesFrom(p, n)[i]
        /\ a[(n - p + 1) + 1] = n + 1
    <3>1. n + 1 \in 1..MaxSent
      BY <1>1, SizeAssumption
    <3> QED BY <2>7, <3>1, AppendProperties
  <2> HIDE DEF a
  <2>10. ASSUME NEW i \in 1..((n + 1) - p + 1) PROVE a[i] = FramesFrom(p, n + 1)[i]
    <3>1. CASE i = (n - p + 1) + 1
      <4>1. p + (i - 1) = n + 1
        BY <2>6, <3>1
      <4> QED BY <2>8, <2>9, <3>1, <4>1
    <3>2. CASE i # (n - p + 1) + 1
      <4>1. i \in 1..(n - p + 1)
        BY <2>6, <3>2
      <4> QED BY <2>7, <2>8, <2>9, <4>1
    <3> QED BY <3>1, <3>2
  <2>11. Len(a) = Len(FramesFrom(p, n + 1))
    BY <2>6, <2>8, <2>9
  <2>12. a = FramesFrom(p, n + 1)
    BY <2>8, <2>9, <2>10, <2>11, SeqEqual
  <2> QED BY <1>1, <2>1, <2>5, <2>12 DEF a
<1> QED BY <1>5, <1>6

(* Reading the packet at the front takes the head of the queue. *)
LEMMA QueueReceive ==
  ASSUME TypeInv, NEW s \in Seq(Cell), Aligned(s), NEW r \in Seq(Cell), NEW p \in 1..Len(sent),
         Synced(s) # <<>>, Synced(s)[2] = <<p, 2>>, Follows(r, p)
  PROVE  /\ Queue(s, Len(sent)) # <<>> /\ Head(Queue(s, Len(sent))) = p
         /\ Queue(r, Len(sent)) = Tail(Queue(s, Len(sent)))
<1>1. PICK n \in Nat : n = Len(sent) /\ n <= MaxSent
  BY DEF TypeInv, TypeOK
<1>2. p \in Nat /\ p >= 1 /\ p <= n /\ p <= n + 1
  BY <1>1
<1>3. Queue(s, n) = FramesFrom(p, n)
  BY <1>1 DEF Queue
<1>4. /\ FramesFrom(p, n) \in Seq(1..MaxSent) /\ Len(FramesFrom(p, n)) = n - p + 1
      /\ \A i \in 1..(n - p + 1) : FramesFrom(p, n)[i] = p + (i - 1)
  BY <1>1, <1>2, FramesFromType
<1> DEFINE f == FramesFrom(p, n)
<1> HIDE DEF f
<1>5. f # <<>> /\ Head(f) = p
  <2>1. 1 \in 1..(n - p + 1) /\ n - p + 1 # 0 /\ p + (1 - 1) = p
    BY <1>2
  <2>2. f \in Seq(1..MaxSent) /\ Len(f) # 0 /\ f[1] = p
    BY <1>4, <2>1 DEF f
  <2> QED BY <2>2
<1>6. /\ Tail(f) \in Seq(1..MaxSent) /\ Len(Tail(f)) = n - p
      /\ \A i \in 1..(n - p) : Tail(f)[i] = (p + 1) + (i - 1)
  <2>1. /\ Tail(f) \in Seq(1..MaxSent) /\ Len(Tail(f)) = Len(f) - 1
        /\ \A i \in 1..Len(Tail(f)) : Tail(f)[i] = f[i + 1]
    BY <1>4, <1>5, HeadTailProperties DEF f
  <2>2. Len(Tail(f)) = n - p
    BY <1>2, <1>4, <2>1 DEF f
  <2>3. ASSUME NEW i \in 1..(n - p) PROVE Tail(f)[i] = (p + 1) + (i - 1)
    <3>1. i + 1 \in 1..(n - p + 1) /\ p + ((i + 1) - 1) = (p + 1) + (i - 1)
      BY <1>2
    <3> QED BY <1>4, <2>1, <2>2, <3>1 DEF f
  <2> QED BY <2>1, <2>2, <2>3
<1>7. CASE r = <<>>
  <2>1. p = n
    BY <1>1, <1>7 DEF Follows
  <2>2. Tail(f) = <<>>
    <3>1. n - p = 0
      BY <1>2, <2>1
    <3>2. Tail(f) \in Seq(1..MaxSent) /\ Len(Tail(f)) = 0
      BY <1>6, <3>1
    <3>3. \A g \in Seq(1..MaxSent) : Len(g) = 0 => g = <<>>
      OBVIOUS
    <3> QED BY <3>2, <3>3
  <2>3. Synced(r) = <<>>
    BY <1>7, SyncedFromMagic
  <2> QED BY <1>1, <1>3, <1>5, <2>2, <2>3 DEF Queue, f
<1>8. CASE r # <<>>
  <2>1. Synced(r) = r /\ r[2] = <<p + 1, 2>>
    BY <1>8, SyncedFromMagic DEF Follows
  <2>2. PICK q \in Nat : q = p + 1
    BY <1>2
  <2>3. Queue(r, n) = FramesFrom(q, n)
    BY <1>8, <2>1, <2>2 DEF Queue
  <2>4. q >= 1 /\ q <= n + 1 /\ n - q + 1 = n - p
    BY <1>2, <2>2
  <2>5. /\ FramesFrom(q, n) \in Seq(1..MaxSent) /\ Len(FramesFrom(q, n)) = n - q + 1
        /\ \A i \in 1..(n - q + 1) : FramesFrom(q, n)[i] = q + (i - 1)
    BY <1>1, <2>4, FramesFromType
  <2>6. FramesFrom(q, n) = Tail(f)
    BY <1>6, <2>2, <2>4, <2>5, SeqEqual
  <2> QED BY <1>1, <1>3, <1>5, <2>3, <2>6 DEF f
<1> QED BY <1>7, <1>8

(* One step of the transport is one step of the FIFO, or none. *)
LEMMA FrameStreamStep ==
  ASSUME TypeInv, ControlInv, ClobberInv, StreamInv, AheadInv, [Next]_vars
  PROVE  [FS!Next]_(FS!vars)
<1> USE DEF FS!Next, FS!vars
<1>0. Up \in BOOLEAN /\ Up' \in BOOLEAN /\ (Up <=> Working /\ ~clobbered) /\ (Up' <=> Working' /\ ~clobbered')
  BY DEF Up, Working
<1>a. /\ Outstanding = Queue(Stream, Len(sent)) /\ Outstanding' = Queue(Stream', Len(sent'))
      /\ Stream \in Seq(Cell) /\ pipe \in Seq(Cell) /\ buf \in Seq(Cell) /\ sent \in Seq(Shape)
  BY OutstandingIsQueue, StreamTyped DEF TypeInv, TypeOK, Queue, FramesFrom, Outstanding, Stream
<1>1. CASE ~Up /\ ~Up'
  BY <1>0, <1>1
<1>2. CASE Up /\ ~Up'
  BY <1>0, <1>2 DEF FS!Break
<1>3. CASE ~Up /\ Up'
  <2>1. Open \/ ReadHandshake
    BY <1>0, <1>3, StreamKept, ReadFrameFollows
  <2>2. delivered' = <<>>
    BY <2>1 DEF Open, ReadHandshake, ControlInv
  <2>3. Outstanding' \in Seq(1..MaxSent)
    <3>1. CASE Open
      <4>1. Stream' = <<>>
        BY <3>1 DEF Open, Stream
      <4>2. Synced(<<>>) = <<>>
        <5>1. <<>> \in Seq(Cell)
          OBVIOUS
        <5> QED BY <5>1, SyncedFromMagic
      <4> QED BY <1>a, <4>1, <4>2 DEF Queue
    <3>2. CASE ReadHandshake
      <4>1. ~clobbered /\ buf' = <<>> /\ UNCHANGED <<pipe, sent>>
        BY <3>2 DEF ReadHandshake, ControlInv
      <4>2. Stream' = pipe
        BY <1>a, <4>1 DEF Stream
      <4>3. PICK k : Suffix(pipe, Stream, k)
        BY <4>1, <4>2, BufferEmptied DEF Consumes
      <4>4. Aligned(pipe)
        BY <1>a, <4>1, <4>3, AlignedSuffix DEF StreamInv
      <4> QED BY <1>a, <4>1, <4>2, <4>4, QueueType
    <3> QED BY <2>1, <3>1, <3>2
  <2> QED BY <1>3, <2>2, <2>3, <1>0 DEF FS!Start
<1>4. CASE Up /\ Up'
  <2>0. ~clobbered /\ Aligned(Stream) /\ Working /\ Working' /\ ~clobbered' /\ Up' = Up
    BY <1>0, <1>4 DEF StreamInv
  <2>1. CASE Open \/ ReadHandshake
    BY <2>0, <2>1 DEF Open, ReadHandshake, Working
  <2>2. CASE ReadFrame
    <3>1. PICK b : b = Synced(buf)
      OBVIOUS
    <3>2. /\ UNCHANGED sent /\ delivered' = Append(delivered, Front(b)) /\ Front(b) \in 1..Len(sent)
          /\ Len(b) >= 2 /\ b[2] = <<Front(b), 2>> /\ Stream' = Rest(b) \o pipe /\ Follows(Stream', Front(b))
      BY <2>2, <3>1, ReadFrameFollows
    <3>3. PICK p \in 1..Len(sent) : p = Front(b)
      BY <3>2
    <3>4. b \in Seq(Cell) /\ b[1] = Magic /\ Len(b) \in Nat
      BY <3>1, <3>2, SyncedBuf
    <3>5. Synced(Stream) = b \o pipe /\ (b \o pipe)[2] = <<p, 2>> /\ b \o pipe # <<>>
      <4>1. 1 \in 1..Len(b) /\ 2 \in 1..Len(b)
        BY <3>2, <3>4
      <4>2. Len(b \o pipe) = Len(b) + Len(pipe) /\ Len(pipe) \in Nat /\ \A i \in 1..Len(b) : (b \o pipe)[i] = b[i]
        BY <1>a, <3>4, ConcatProperties
      <4>3. (b \o pipe)[1] = Magic /\ (b \o pipe)[2] = <<p, 2>> /\ b \o pipe \in Seq(Cell)
        BY <1>a, <3>2, <3>3, <3>4, <4>1, <4>2
      <4>4. Synced(b \o pipe) = b \o pipe
        BY <4>3, SyncedFromMagic
      <4>5. Synced(b \o pipe) = Synced(Stream)
        BY <1>a, <3>1, SyncedStream DEF Stream
      <4>6. Len(b \o pipe) # 0
        BY <3>2, <3>4, <4>2
      <4> QED BY <4>3, <4>4, <4>5, <4>6
    <3>6. PICK r \in Seq(Cell) : r = Stream' /\ Follows(r, p)
      <4>1. Whole(b)
        BY <2>2, <3>1 DEF ReadFrame
      <4>2. Rest(b) \o pipe \in Seq(Cell)
        BY <3>1, <4>1, RestStream
      <4> QED BY <3>2, <3>3, <4>2
    <3>7. /\ Queue(Stream, Len(sent)) # <<>> /\ Head(Queue(Stream, Len(sent))) = p
          /\ Queue(r, Len(sent)) = Tail(Queue(Stream, Len(sent)))
      BY <1>a, <2>0, <3>5, <3>6, QueueReceive
    <3>8. Outstanding # <<>> /\ Head(Outstanding) = p /\ Outstanding' = Tail(Outstanding)
      BY <1>a, <3>2, <3>6, <3>7
    <3> QED BY <1>4, <2>0, <3>2, <3>3, <3>8 DEF FS!Receive
  <2>3. CASE delivered' = delivered /\ \E s \in Shape : DeviceSends(s)
    <3>1. PICK s \in Shape : DeviceSends(s)
      BY <2>3
    <3>2. PICK c : /\ PacketCells(c, Len(sent) + 1, s.len) /\ Stream' = Stream \o c
                   /\ Len(sent) + 1 \in 1..MaxSent /\ sent' = Append(sent, s)
      BY <3>1, SendExtends
    <3>3. s.len \in Nat /\ s.len >= 2 /\ Len(sent) + 1 <= MaxSent
      BY <3>2, ShapeLen
    <3>4. Queue(Stream \o c, Len(sent) + 1) = Append(Queue(Stream, Len(sent)), Len(sent) + 1)
      BY <1>a, <2>0, <3>2, <3>3, QueueSend
    <3>5. Outstanding' = Append(Outstanding, Len(sent) + 1)
      <4>1. Len(sent') = Len(sent) + 1
        BY <1>a, <3>2
      <4> QED BY <1>a, <3>2, <3>4, <4>1
    <3> QED BY <1>4, <2>0, <2>3, <3>2, <3>5 DEF FS!Send
  <2>4. CASE /\ delivered' = delivered /\ sent' = sent
             /\ Stream' = Stream \/ Stream' = Synced(buf) \o pipe
    <3>1. Synced(Synced(buf) \o pipe) = Synced(Stream)
      BY <1>a, SyncedStream DEF Stream
    <3>2. Synced(Stream') = Synced(Stream)
      BY <2>4, <3>1
    <3>3. Outstanding' = Outstanding
      BY <1>a, <2>4, <3>2 DEF Queue
    <3> QED BY <1>4, <2>0, <2>4, <3>3
  <2> QED BY <2>0, <2>1, <2>2, <2>3, <2>4, StreamKept
<1> QED BY <1>0, <1>1, <1>2, <1>3, <1>4

-----------------------------------------------------------------------------
(* The theorems. *)

StreamState == /\ TypeInv /\ ControlInv /\ SyncInv /\ ClobberInv /\ StreamInv
               /\ AheadInv /\ V2Inv /\ InOrder /\ V2SendKeepsStream

(* The invariant holds before the first session.                              *)
LEMMA Initially == ASSUME Init PROVE StreamState
<1>1. TypeInv
  BY TypeInitially
<1>2. ControlInv /\ SyncInv /\ ClobberInv
  BY DEF Init, ControlInv, SyncInv, ClobberInv, FromMagic, Working
<1>3. StreamInv /\ AheadInv /\ V2Inv
  BY DEF Init, StreamInv, AheadInv, V2Inv, Stream, Aligned, Up, Working
<1>4. InOrder /\ V2SendKeepsStream
  BY DEF Init, InOrder, V2SendKeepsStream, SendKeepsStream
<1> QED BY <1>1, <1>2, <1>3, <1>4 DEF StreamState

(* Every reachable state satisfies the invariant.                             *)
LEMMA Invariance == Spec => []StreamState
<1>1. Init => StreamState
  BY Initially
<1>2. StreamState /\ [Next]_vars => StreamState'
  BY TypeStep, ControlStep, SyncStep, ClobberStep, StreamStep, AheadStep, V2Step, InOrderStep,
     V2KeepsStep DEF StreamState
<1> QED BY <1>1, <1>2, PTL DEF Spec

(* The wire buffer and what is cut out of it have their types: above all, no  *)
(* read writes past the buffer, and no size is read from a packet nobody sent.*)
THEOREM TypeCorrect == Spec => []TypeOK
<1>1. StreamState => TypeOK
  BY DEF StreamState, TypeInv
<1> QED BY <1>1, Invariance, PTL

(* accumulate() never meets a full buffer with an incomplete packet in front. *)
THEOREM BufferNeverFull == Spec => []NeverFull
<1>1. StreamState => NeverFull
  BY TypesNeverFull DEF StreamState
<1> QED BY <1>1, Invariance, PTL

(* readFrame() returns consecutive packets of the device, whatever is written *)
(* between the reads and wherever TCP cuts the stream.                        *)
THEOREM FramesInOrder == Spec => []InOrder
<1>1. StreamState => InOrder
  BY DEF StreamState
<1> QED BY <1>1, Invariance, PTL

(* A V2 session ends in a protocol error only when the device sent something  *)
(* unreadable.                                                                *)
THEOREM V2StreamKept == Spec => []V2SendKeepsStream
<1>1. StreamState => V2SendKeepsStream
  BY DEF StreamState
<1> QED BY <1>1, Invariance, PTL

(* The transport implements the FIFO: each frame is received once, in order,  *)
(* and none is lost while the session is up.                                  *)
THEOREM ImplementsFrameStream == Spec => IsFrameStream
<1>1. Init => FS!Init
  BY DEF Init, Up, FS!Init
<1>2. StreamState /\ [Next]_vars => [FS!Next]_(FS!vars)
  BY FrameStreamStep DEF StreamState
<1> QED BY <1>1, <1>2, Invariance, PTL DEF Spec, IsFrameStream
=============================================================================
