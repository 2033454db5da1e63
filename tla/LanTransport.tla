----------------------------- MODULE LanTransport -----------------------------
(* The stream half of src/src/service/LanTransport: one TCP session to an AC, *)
(* a fixed wire buffer, packets cut out of the byte stream, and requests      *)
(* written between reads.                                                     *)
(*                                                                            *)
(* Bytes are abstracted to cells.  The first cell of a packet is its magic,   *)
(* the same cell in every packet; the second holds its size and type, so a    *)
(* packet can be sized once HeaderLen cells are there; the rest are its body. *)
(* A body cell never looks like a magic.  A cell <<p, i>> is cell i of the    *)
(* p-th packet the device sent in this session, and p = Request stands for    *)
(* the request the transport itself encoded last.                             *)
(*                                                                            *)
(* The transport is used by one task only; the device and TCP run beside it,  *)
(* and TCP hands over its bytes in chunks of any length.                      *)
EXTENDS Integers, Sequences

CONSTANTS Cap,        \* cells in sWireBuf
          HeaderLen,  \* cells needed before the size can be read
          RequestLen, \* cells of an encoded request
          Lengths,    \* lengths of the packets the device sends
          Fates,      \* what becomes of a packet: see Shape
          MaxSent     \* bound: packets the device sends in one session

ASSUME SizeAssumption == /\ Cap \in Nat /\ HeaderLen \in Nat /\ RequestLen \in Nat
                         /\ Lengths \subseteq HeaderLen..Cap
                         /\ 2 <= HeaderLen /\ HeaderLen < Cap
                         /\ HeaderLen <= RequestLen /\ RequestLen <= Cap
                         /\ MaxSent \in Nat

ASSUME FateAssumption ==
         Fates \subseteq {"good", "corrupt", "alien", "badsize"}

VARIABLES v3,         \* v3Mode_: packets are sealed in V3 packets
          phase,      \* "closed", "handshake" (TCP up, no key yet) or "ready"
          peer,       \* client_.connected(): the device still holds the socket
          buf,        \* sWireBuf[0 .. wireLen_)
          pipe,       \* cells TCP holds for us, client_.available() of them
          sent,       \* shapes of the packets the device sent in this session
          reading,    \* a readFrame() (or the handshake's read) is running
          result,     \* what the last call returned
          delivered,  \* the packets readFrame() returned in this session
          clobbered   \* history: a request was encoded over buffered cells

vars == <<v3, phase, peer, buf, pipe, sent, reading, result, delivered, clobbered>>

Request == 0
Magic == <<Request, 1>>

(* "good" decodes; "corrupt" fails its checksum or its decryption; "alien" is *)
(* a V3 packet of another type; "badsize" declares a size no buffer holds;    *)
(* "hs" is the handshake response.                                            *)
Shape == [len : Lengths, fate : Fates \cup {"hs"}]

Cell == {Magic} \cup ((Request..MaxSent) \X (2..Cap))

Cells(p, len) == <<Magic>> \o [i \in 1..(len - 1) |-> <<p, i + 1>>]

TypeOK == /\ v3 \in BOOLEAN /\ peer \in BOOLEAN
          /\ reading \in BOOLEAN /\ clobbered \in BOOLEAN
          /\ phase \in {"closed", "handshake", "ready"}
          /\ result \in {"ok", "timeout", "linkdown", "protocol"}
          /\ buf \in Seq(Cell) /\ Len(buf) <= Cap /\ pipe \in Seq(Cell)
          /\ sent \in Seq(Shape)
          /\ delivered \in Seq(1..MaxSent)

Init == /\ v3 \in BOOLEAN
        /\ phase = "closed" /\ peer = FALSE
        /\ buf = <<>> /\ pipe = <<>> /\ sent = <<>> /\ delivered = <<>>
        /\ reading = FALSE /\ result = "ok" /\ clobbered = FALSE

Alive == phase # "closed" /\ peer

-----------------------------------------------------------------------------
(* The buffer. *)

(* accumulate() drops what precedes the first magic. *)
Synced(b) ==
  LET starts == {i \in DOMAIN b : b[i] = Magic}
  IN IF starts = {} THEN <<>>
     ELSE SubSeq(b, CHOOSE i \in starts : \A j \in starts : i <= j, Len(b))

Sized(b) == Len(b) >= HeaderLen

(* The declared size of the front packet, read from its header cell. *)
Total(b) ==
  LET p == b[HeaderLen][1]
  IN IF p = Request THEN RequestLen
     ELSE IF sent[p].fate = "badsize" THEN Cap + 1 ELSE sent[p].len

(* Mutant of BadSize: a size one above the buffer's passes. *)
BadSizeOffByOne(b) == Sized(b) /\ (Total(b) < HeaderLen \/ Total(b) > Cap + 1)

BadSize(b) == Sized(b) /\ (Total(b) < HeaderLen \/ Total(b) > Cap)

Whole(b) == Sized(b) /\ ~BadSize(b) /\ Len(b) >= Total(b)

(* The packet at the front of b, if its cells are exactly those sent. *)
Front(b) == b[HeaderLen][1]
Intact(b) == SubSeq(b, 1, Total(b)) = Cells(Front(b), Total(b))

(* decodeV3Packet() and decodeV2Packet() accept the front packet; only V3    *)
(* packets carry a type.                                                      *)
Decodes(b, fate) == /\ Front(b) # Request /\ Intact(b)
                    /\ \/ sent[Front(b)].fate = fate
                       \/ ~v3 /\ fate = "good" /\ sent[Front(b)].fate = "alien"

(* Mutant of Rest: a read empties the buffer. *)
RestForgotten(b) == SubSeq(b, Len(b) + 1, Len(b))

Rest(b) == SubSeq(b, Total(b) + 1, Len(b))

(* Mutant of HasReadableData: only TCP is asked. *)
HasUnreadBytes == phase # "closed" /\ pipe # <<>>

(* hasReadableData(): a whole packet is buffered, or TCP holds something. *)
HasReadableData == /\ phase # "closed"
                   /\ \/ pipe # <<>>
                      \/ buf # <<>> /\ buf[1] = Magic /\ Sized(buf)
                         /\ Total(buf) <= Len(buf)

-----------------------------------------------------------------------------
(* Opening and closing. *)

(* open(): close() first, then connect. A V2 session is usable at once; a V3  *)
(* one sends its handshake request and waits for the answer.                  *)
Open == /\ phase = "closed"
        /\ phase' = IF v3 THEN "handshake" ELSE "ready"
        /\ peer' = TRUE /\ reading' = v3
        /\ buf' = <<>> /\ pipe' = <<>> /\ sent' = <<>> /\ delivered' = <<>>
        /\ clobbered' = FALSE /\ result' = "ok"
        /\ UNCHANGED v3

Shut == phase' = "closed" /\ buf' = <<>> /\ reading' = FALSE

(* close(), which the caller owes after kLinkDown and kProtocolError and may *)
(* call between any two reads.                                                *)
Close == /\ phase = "ready" /\ ~reading
         /\ Shut
         /\ UNCHANGED <<v3, peer, pipe, sent, result, delivered, clobbered>>

-----------------------------------------------------------------------------
(* sendFrame(). *)

Usable == phase = "ready" /\ ~reading /\ result \in {"ok", "timeout"}

(* Mutant of Encoded: V2 requests are staged in the wire buffer as well. *)
EncodedInPlace == [i \in 1..Len(buf) |->
                     IF i <= RequestLen THEN Cells(Request, RequestLen)[i] ELSE buf[i]]

(* A V3 request is encoded into sWireBuf, over whatever is buffered there,    *)
(* while wireLen_ stays; a V2 request is staged elsewhere.                    *)
Encoded == [i \in 1..Len(buf) |->
              IF v3 /\ i <= RequestLen THEN Cells(Request, RequestLen)[i] ELSE buf[i]]

SendFrame == /\ Usable
             /\ \/ /\ ~peer /\ result' = "linkdown"
                   /\ UNCHANGED <<peer, buf, clobbered>>
                \/ /\ peer /\ buf' = Encoded
                   /\ clobbered' = (clobbered \/ buf' # buf)
                   /\ \/ result' = "ok" /\ UNCHANGED peer
                      \/ result' = "linkdown" /\ peer' = FALSE   \* short write
             /\ UNCHANGED <<v3, phase, pipe, sent, reading, delivered>>

-----------------------------------------------------------------------------
(* readFrame(): accumulate() loops until a packet is whole, then decodes it.  *)
(* The service calls it for an answer, or when hasReadableData() says so.     *)

StartRead == /\ Usable
             /\ IF peer THEN reading' = TRUE /\ UNCHANGED result
                ELSE reading' = FALSE /\ result' = "linkdown"
             /\ UNCHANGED <<v3, phase, peer, buf, pipe, sent, delivered, clobbered>>

(* Every end of a read. The handshake has no use for a failure: open() then   *)
(* closes. *)
EndRead(r, b) == /\ result' = r /\ reading' = FALSE
                 /\ IF phase = "handshake" /\ r # "ok"
                    THEN phase' = "closed" /\ buf' = <<>>
                    ELSE buf' = b /\ UNCHANGED phase
                 /\ UNCHANGED <<v3, peer, pipe, sent, clobbered>>

(* One whole packet decodes: it is consumed, what is behind it stays. *)
ReadFrame == LET b == Synced(buf) IN
             /\ reading /\ phase = "ready" /\ Whole(b) /\ Decodes(b, "good")
             /\ delivered' = Append(delivered, Front(b))
             /\ EndRead("ok", Rest(b))

(* The handshake response gives the key, and empties the whole buffer. *)
ReadHandshake == LET b == Synced(buf) IN
                 /\ reading /\ phase = "handshake" /\ Whole(b) /\ Decodes(b, "hs")
                 /\ phase' = "ready" /\ buf' = <<>>
                 /\ reading' = FALSE /\ result' = "ok"
                 /\ UNCHANGED <<v3, peer, pipe, sent, delivered, clobbered>>

ReadRejected == LET b == Synced(buf) IN
                /\ reading /\ Whole(b)
                /\ ~Decodes(b, IF phase = "ready" THEN "good" ELSE "hs")
                /\ EndRead("protocol", b) /\ UNCHANGED delivered

ReadBadSize == /\ reading /\ BadSize(Synced(buf))
               /\ EndRead("protocol", <<>>) /\ UNCHANGED delivered

Waiting(b) == reading /\ ~BadSize(b) /\ ~Whole(b)

ReadLinkDown == /\ Waiting(Synced(buf)) /\ ~peer
                /\ EndRead("linkdown", <<>>) /\ UNCHANGED delivered

(* Mutant of ReadTimeout: the partial packet is dropped. *)
ReadTimeoutDrops == /\ Waiting(Synced(buf)) /\ peer
                    /\ EndRead("timeout", <<>>) /\ UNCHANGED delivered

(* The deadline passes; a partial packet stays for the next call. *)
ReadTimeout == /\ Waiting(Synced(buf)) /\ peer
               /\ EndRead("timeout", Synced(buf)) /\ UNCHANGED delivered

(* Mutant of ReadMore: the room left in the buffer is not looked at. *)
ReadMoreAtOnce == LET b == Synced(buf) IN
                  /\ Waiting(b) /\ peer /\ pipe # <<>>
                  /\ buf' = b \o pipe /\ pipe' = <<>>
                  /\ UNCHANGED <<v3, phase, peer, sent, reading, result, delivered, clobbered>>

(* client_.read(): some of what TCP holds, as far as there is room.  The code *)
(* empties a full buffer first; NeverFull says it never meets one, so that    *)
(* branch has no action here.                                                 *)
ReadMore == LET b == Synced(buf) IN
            /\ Waiting(b) /\ peer /\ Len(b) < Cap
            /\ \E n \in 1..(Cap - Len(b)) :
                 /\ n <= Len(pipe)
                 /\ buf' = b \o SubSeq(pipe, 1, n)
                 /\ pipe' = SubSeq(pipe, n + 1, Len(pipe))
            /\ UNCHANGED <<v3, phase, peer, sent, reading, result, delivered, clobbered>>

-----------------------------------------------------------------------------
(* The device, which is not part of this repository. *)

DeviceSends(s) == /\ Alive /\ Len(sent) < MaxSent
                  /\ s.fate = "hs" => v3 /\ sent = <<>>
                  /\ sent' = Append(sent, s)
                  /\ pipe' = pipe \o Cells(Len(sent) + 1, s.len)
                  /\ UNCHANGED <<v3, phase, peer, buf, reading, result, delivered, clobbered>>

DeviceHangsUp == /\ Alive /\ peer' = FALSE
                 /\ UNCHANGED <<v3, phase, buf, pipe, sent, reading, result, delivered, clobbered>>

ReadStep == \/ ReadFrame \/ ReadHandshake \/ ReadRejected \/ ReadBadSize
            \/ ReadLinkDown \/ ReadTimeout \/ ReadMore

Next == \/ Open \/ Close \/ SendFrame \/ StartRead \/ ReadStep
        \/ DeviceHangsUp \/ \E s \in Shape : DeviceSends(s)

(* The task drains what is readable on every tick and finishes each call; a   *)
(* deadline is always ahead when a call starts, so that of the calls that     *)
(* find bytes at TCP not all can end without reading them.                    *)
Fairness == /\ WF_vars(ReadFrame \/ ReadHandshake \/ ReadRejected \/ ReadBadSize)
            /\ WF_vars(ReadLinkDown) /\ SF_vars(ReadMore)
            /\ WF_vars(HasReadableData /\ StartRead)

Spec == Init /\ [][Next]_vars /\ Fairness

-----------------------------------------------------------------------------
(* Properties. *)

(* accumulate() (LanTransport.cpp:329) provides for a buffer that is full     *)
(* while its front packet is still incomplete.  The size check above it makes *)
(* that impossible: no read discards a burst of pushes.                       *)
NeverFull == \A b \in {buf, Synced(buf)} : Waiting(b) => Len(b) < Cap

(* However TCP cuts the stream and whatever was written meanwhile, the frames *)
(* readFrame() returns are consecutive packets of the device: none twice,     *)
(* none skipped, none out of order.                                           *)
InOrder == \A i \in 1..(Len(delivered) - 1) : delivered[i + 1] = delivered[i] + 1

(* "The read stream is untouched, so device pushes queued ahead of the        *)
(* response stay readable" (LanTransport.h:53): a session fails with a        *)
(* protocol error only when the device itself sent something unreadable.      *)
DeviceAtFault == \E i \in 1..Len(sent) : sent[i].fate \notin {"good", "hs"}
SendKeepsStream == phase = "ready" /\ result = "protocol" => DeviceAtFault

(* The same of the sessions of V2 devices, whose requests are staged apart.   *)
V2SendKeepsStream == ~v3 => SendKeepsStream

(* The session as its owner sees it: a FIFO of frames, each received exactly  *)
(* once.  A session whose buffer a request overwrote counts as broken.        *)
Up == phase = "ready" /\ result \in {"ok", "timeout"} /\ ~clobbered

(* What is outstanding is the packet at the front of what is not read yet and *)
(* every packet sent after it: the second cell of a packet names it.          *)
Outstanding == LET s == Synced(buf \o pipe)
                   front == s[2][1]
               IN IF s = <<>> THEN <<>>
                  ELSE [i \in 1..(Len(sent) - front + 1) |-> front + (i - 1)]

FS == INSTANCE FrameStream WITH
        Frame <- 1..MaxSent,
        up    <- Up,
        queue <- IF Up THEN Outstanding ELSE <<>>,
        log   <- IF Up THEN delivered ELSE <<>>

(* The transport implements that FIFO: nothing is lost while a session is up, *)
(* not by a timeout in the middle of a packet, not behind another frame.      *)
IsFrameStream == FS!Init /\ [][FS!Next]_FS!vars

(* A frame that arrived behind others is not forgotten in the buffer: the     *)
(* drains of the following ticks reach it, unless the session ends.  A size   *)
(* no buffer holds is only noticed once something arrives behind it.          *)
FramesArrive ==
  \A p \in 1..MaxSent :
    (/\ Up /\ \E i \in DOMAIN Outstanding : Outstanding[i] = p
     /\ \A q \in 1..p : sent[q].fate # "badsize")
      ~> (~Up \/ \E i \in DOMAIN delivered : delivered[i] = p)
=============================================================================
