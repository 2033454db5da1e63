--------------------------- MODULE WireGuardProofs ---------------------------
(* What the tunnel's peer owes its user, proved for every number of           *)
(* handshakes, every set of thresholds and journeys, and every size of the    *)
(* replay window.                                                             *)
EXTENDS WireGuardTunnel, TLAPS

-----------------------------------------------------------------------------
(* What wireguard_check_replay() is for, for every size of the window and of  *)
(* the bitmap: a sequence number that was accepted is refused from then on,   *)
(* whatever is received in between.                                           *)

(* The code's window is kept by every packet.                                 *)
LEMMA CheckedIsWindow ==
  ASSUME NEW w \in Windows, NEW seq \in Nat
  PROVE  Checked(w, seq) \in Windows
<1>1. Slid(w, seq) \in Windows
  <2>1. {0} \cup {b \in Bits : b - (seq - w.counter) \in w.bits} \in SUBSET Bits /\ {0} \in SUBSET Bits
    BY WindowAssumption, SMT DEF Bits, Windows
  <2> QED BY <2>1 DEF Slid, Windows
<1>2. ASSUME Accepts(w, seq), ~(seq > w.counter)
      PROVE  [w EXCEPT !.bits = @ \cup {w.counter - seq}] \in Windows
  <2>1. w.counter - seq \in Bits
    BY <1>2, WindowAssumption, SMT DEF Accepts, Windows, Bits
  <2> QED BY <2>1, SMT DEF Windows
<1> QED BY <1>1, <1>2 DEF Checked

(* What a window refuses, but for the numbers it has yet to reach. *)
Refused(w, seq) == seq <= w.counter /\ ~Accepts(w, seq)

(* wireguard_check_replay() marks what it accepts: the same packet again is   *)
(* refused.                                                                   *)
THEOREM AcceptedOnce ==
  ASSUME NEW w \in Windows, NEW seq \in Nat, Accepts(w, seq)
  PROVE  Refused(Checked(w, seq), seq)
<1>1. CASE seq > w.counter
  <2>1. /\ Checked(w, seq).counter = seq /\ 0 \in Checked(w, seq).bits
    BY <1>1, SMT DEF Checked, Slid
  <2> QED BY <2>1, SMT DEF Refused, Accepts
<1>2. CASE ~(seq > w.counter)
  <2>1. /\ Checked(w, seq).counter = w.counter
        /\ w.counter - seq \in Checked(w, seq).bits
    BY <1>2, SMT DEF Checked, Windows
  <2> QED BY <1>2, <2>1, SMT DEF Refused, Accepts, Windows
<1> QED BY <1>1, <1>2

(* What wireguard_check_replay() refused once it refuses after any other      *)
(* packet too: sliding the bitmap moves every mark with its number, and a     *)
(* number that leaves the bitmap is too old by then.                          *)
THEOREM RefusedForever ==
  ASSUME NEW w \in Windows, NEW seq \in Nat, Refused(w, seq), NEW other \in Nat
  PROVE  Refused(Checked(w, other), seq)
<1> DEFINE v == Checked(w, other)
<1>1. CASE ~Accepts(w, other)
  BY <1>1 DEF Checked
<1>2. CASE Accepts(w, other) /\ other > w.counter
  <2>1. v = Slid(w, other)
    BY <1>2 DEF Checked
  <2>2. v.counter = other /\ seq <= v.counter
    BY <1>2, <2>1, SMT DEF Slid, Refused, Windows
  <2>3. CASE other - seq >= ReplayWindowSize
    BY <2>2, <2>3, WindowAssumption, SMT DEF Refused, Accepts, Windows
  <2>4. CASE other - seq < ReplayWindowSize /\ seq # 0
    <3>1. w.counter - seq \in w.bits
      BY <1>2, <2>4, WindowAssumption, SMT DEF Refused, Accepts, Windows
    <3>2. other - seq \in Bits /\ other - w.counter < ReplayWindowSize
      BY <1>2, <2>4, WindowAssumption, SMT DEF Bits, Refused, Windows
    <3>3. (other - seq) - (other - w.counter) = w.counter - seq
      BY SMT DEF Windows
    <3>4. other - seq \in v.bits
      BY <2>1, <3>1, <3>2, <3>3 DEF Slid
    <3> QED BY <2>2, <3>4 DEF Refused, Accepts
  <2>5. CASE seq = 0
    BY <2>2, <2>5 DEF Refused, Accepts
  <2> QED BY <2>3, <2>4, <2>5, <2>2, WindowAssumption, SMT DEF Windows
<1>3. CASE Accepts(w, other) /\ ~(other > w.counter)
  <2>1. v.counter = w.counter /\ w.bits \subseteq v.bits
    BY <1>3 DEF Checked, Windows
  <2> QED BY <2>1 DEF Refused, Accepts
<1> QED BY <1>1, <1>2, <1>3

-----------------------------------------------------------------------------
(* Types. *)

Peers == [open : BOOLEAN, curr : Keypairs \cup {None}, prev : Keypairs \cup {None},
          next : Keypairs \cup {None}, hs : Ours \cup {None}, sendHs : BOOLEAN, wait : BOOLEAN,
          cookie : BOOLEAN, mac1 : BOOLEAN, greatest : 0 .. MaxTheirs, link : BOOLEAN,
          keepalive : Nat, silence : Nat]
Servers == [agreed : SUBSET Keys, keys : SUBSET Keys, use : Keys \cup {None}, asked : Theirs \cup {None},
            seen : Nat, sent : [Keys -> Nat], busy : BOOLEAN]
Messages == [to : {"us", "server"}, type : {"initiation", "response", "cookie", "data"}, key : Keys,
             nonce : Nat, payload : BOOLEAN]

Remaining == {j \in [Bounds -> Nat] : j.ours <= MaxOurs /\ j.theirs <= MaxTheirs}

TypeInv == /\ peer \in Peers /\ server \in Servers /\ left \in Remaining
           /\ net \subseteq Messages /\ late \subseteq Messages
           /\ again \subseteq delivered /\ delivered \subseteq Keys \X Nat

-----------------------------------------------------------------------------
(* What the properties rest on. *)

(* A key in a slot is one that was used up: of the device, by a handshake it  *)
(* started before n more, and not by the one that waits; of the server, by an *)
(* initiation that is not newer than the newest answered.                     *)
UsedUp(kp, p, n) == kp # None => /\ kp.key \in Ours => kp.key[2] <= n
                                 /\ kp.key \in Theirs => kp.key[2] <= p.greatest
                                 /\ kp.key # p.hs
Apart(a, b) == a # None /\ b # None => a.key # b.key
KeyState(p, n) ==
  /\ UsedUp(p.curr, p, n) /\ UsedUp(p.prev, p, n) /\ UsedUp(p.next, p, n)
  /\ p.hs # None => p.hs[2] <= n
  /\ p.next # None => p.next.key \in Theirs
  /\ Apart(p.curr, p.prev) /\ Apart(p.curr, p.next) /\ Apart(p.prev, p.next)

(* A packet of a session of the device that was handed on is refused by the   *)
(* window of its key, and no keypair with a fresh window will get that key.   *)
Barred(kp, d) == kp # None /\ kp.key = d[1] => Refused(kp.window, d[2])
MarkState(p, n, ds) ==
  \A d \in ds : d[1] \in Ours =>
    /\ d[1][2] <= n /\ d[1] # p.hs
    /\ Barred(p.curr, d) /\ Barred(p.prev, d) /\ Barred(p.next, d)

AgreedState(p, ks) == p.curr # None => p.curr.key \in ks

Sound(p, n, ds, ks) == KeyState(p, n) /\ MarkState(p, n, ds) /\ AgreedState(p, ks)

Used == MaxOurs - left.ours
PeerInv == Sound(peer, Used, delivered, server.agreed)

(* The server uses agreed keys only, and so do the messages on their way.     *)
ServerInv == /\ server.keys \subseteq server.agreed
             /\ server.use # None => server.use \in server.agreed
Genuine(m, ks) == m.to = "us" => /\ m.type = "initiation" => m.key \in Theirs
                                 /\ m.type \in {"response", "data"} => m.key \in ks
MessageInv == \A m \in net \cup late : Genuine(m, server.agreed)

(* Without a tunnel there is no key.                                          *)
ClosedInv == peer.open \/ peer.curr = None

Inv == TypeInv /\ PeerInv /\ ServerInv /\ MessageInv /\ ClosedInv

(* KeyKept, of one step.                                                      *)
KeyLost == (Valid(peer.curr) /\ ~Valid(peer'.curr)) => ~peer'.open \/ Expired(peer.curr, RejectAfter)

-----------------------------------------------------------------------------
(* Keys and keypairs. *)

(* The keys of the two sides are told apart, and numbered. *)
LEMMA KeyParts ==
  /\ \A k \in Ours : k = <<"us", k[2]>> /\ k[2] \in 1..MaxOurs /\ k \notin Theirs /\ k \in Keys
  /\ \A k \in Theirs : k = <<"them", k[2]>> /\ k[2] \in 1..MaxTheirs /\ k \notin Ours /\ k \in Keys
  /\ \A k \in Keys : k \in Ours \/ k \in Theirs
  /\ None \notin Keys
BY NoneAssumption DEF Ours, Theirs, Keys

(* A new keypair is one, was not heard of yet, and has an empty window. *)
LEMMA NewKeypairProperties ==
  ASSUME NEW k \in Keys, NEW initiator \in BOOLEAN
  PROVE  /\ NewKeypair(k, initiator) \in Keypairs /\ NewKeypair(k, initiator) # None
         /\ NewKeypair(k, initiator).key = k /\ NewKeypair(k, initiator).window = FreshWindow
         /\ NewKeypair(k, initiator).age = 0 /\ NewKeypair(k, initiator).initiator = initiator
<1>1. FreshWindow \in Windows /\ 0 \in 0..ResetAfter
  BY AgeAssumption DEF FreshWindow, Windows, Bits
<1>2. NewKeypair(k, initiator) \in Keypairs
  BY <1>1 DEF NewKeypair, Keypairs
<1>3. NewKeypair(k, initiator).initiator = initiator
  BY Zenon DEF NewKeypair
<1> QED BY <1>2, <1>3, NoneAssumption DEF NewKeypair

(* What a keypair consists of. *)
LEMMA KeypairProperties ==
  ASSUME NEW kp \in Keypairs
  PROVE  /\ kp # None /\ kp.key \in Keys /\ kp.initiator \in BOOLEAN /\ kp.heard \in BOOLEAN
         /\ kp.age \in Nat /\ kp.window \in Windows /\ kp.window.counter \in Nat
BY NoneAssumption, AgeAssumption DEF Keypairs, Windows

-----------------------------------------------------------------------------
(* Losing keys: what the timer and the output of a packet do to the peer. *)

(* q is p without some of its keys, and the one in use only if it expired. *)
Trims(p, q) ==
  /\ q \in Peers /\ q.open = p.open /\ q.greatest = p.greatest /\ q.hs \in {p.hs, None}
  /\ q.curr \in {p.curr, None} /\ q.prev \in {p.prev, None} /\ q.next \in {p.next, None}
  /\ q.curr # p.curr => Expired(p.curr, RejectAfter)

(* Losing keys twice is losing keys. *)
LEMMA TrimsTwice ==
  ASSUME NEW p, NEW q, NEW r, Trims(p, q), Trims(q, r)
  PROVE  Trims(p, r)
BY DEF Trims

(* A packet to the server needs a key, and at most costs an expired one. *)
LEMMA OutputTrims ==
  ASSUME NEW p \in Peers
  PROVE  /\ Trims(p, OutputToPeer(p).peer)
         /\ \A m \in OutputToPeer(p).sent : m \in Messages /\ m.to = "server"
         /\ p.curr # None /\ p.curr.initiator /\ p.curr.age < RejectAfter =>
              OutputToPeer(p).peer.curr = p.curr
<1>1. PICK slot \in {"curr", "prev"} : slot = SendingSlot(p)
  BY DEF SendingSlot
<1>2. PICK kp \in Keypairs \cup {None} : kp = p[slot]
  BY <1>1 DEF Peers
<1>3. CASE OutputToPeer(p) = Sends(p, {})
  BY <1>3 DEF Sends, Trims
<1>4. CASE kp # None /\ Expired(kp, RejectAfter) /\ OutputToPeer(p) = Sends([p EXCEPT ![slot] = None], {})
  <2>1. CASE slot = "curr"
    <3>0. PICK r : r = [p EXCEPT !.curr = None] /\ r = [p EXCEPT ![slot] = None]
      BY <2>1
    <3>1. OutputToPeer(p).peer = [p EXCEPT !.curr = None] /\ OutputToPeer(p).sent = {}
      <4>1. OutputToPeer(p) = Sends(r, {})
        BY ONLY <1>4, <3>0, Zenon
      <4> QED BY ONLY <4>1, <3>0 DEF Sends
    <3>2. [p EXCEPT !.curr = None] \in Peers /\ kp = p.curr
      BY <1>2, <2>1 DEF Peers
    <3>3. Trims(p, [p EXCEPT !.curr = None])
      BY <1>4, <3>2 DEF Trims, Peers
    <3>4. p.curr # None => ~(p.curr.age < RejectAfter)
      BY <1>2, <1>4, <3>2, KeypairProperties, AgeAssumption DEF Expired
    <3> QED BY <3>1, <3>3, <3>4
  <2>2. CASE slot = "prev"
    <3>0. PICK r : r = [p EXCEPT !.prev = None] /\ r = [p EXCEPT ![slot] = None]
      BY <2>2
    <3>1. OutputToPeer(p).peer = [p EXCEPT !.prev = None] /\ OutputToPeer(p).sent = {}
      <4>1. OutputToPeer(p) = Sends(r, {})
        BY ONLY <1>4, <3>0, Zenon
      <4> QED BY ONLY <4>1, <3>0 DEF Sends
    <3>2. [p EXCEPT !.prev = None] \in Peers
      BY DEF Peers
    <3>3. Trims(p, [p EXCEPT !.prev = None]) /\ [p EXCEPT !.prev = None].curr = p.curr
      BY <3>2 DEF Trims, Peers
    <3> QED BY <3>1, <3>3
  <2> QED BY <1>1, <2>1, <2>2
<1>5. CASE /\ kp # None
           /\ OutputToPeer(p) =
                Sends([p EXCEPT !.silence = p.keepalive, !.sendHs = @ \/ (kp.initiator /\ Expired(kp, RekeyAfter))],
                      {Data("server", kp.key, 0, FALSE)})
  <2> DEFINE asks == p.sendHs \/ (kp.initiator /\ Expired(kp, RekeyAfter))
  <2>1. kp.key \in Keys /\ kp.initiator \in BOOLEAN
    BY <1>2, <1>5, KeypairProperties
  <2>2. Data("server", kp.key, 0, FALSE) \in Messages /\ Data("server", kp.key, 0, FALSE).to = "server"
    BY <2>1 DEF Data, Message, Messages
  <2>3. asks \in BOOLEAN
    BY DEF Expired
  <2>4. PICK b \in BOOLEAN : b = asks
    BY <2>3
  <2>5. /\ OutputToPeer(p).peer = [p EXCEPT !.silence = p.keepalive, !.sendHs = b]
        /\ OutputToPeer(p).sent = {Data("server", kp.key, 0, FALSE)}
    BY <1>5, <2>4 DEF Sends
  <2>6. [p EXCEPT !.silence = p.keepalive, !.sendHs = b] \in Peers
    BY DEF Peers
  <2>7. /\ Trims(p, [p EXCEPT !.silence = p.keepalive, !.sendHs = b])
        /\ [p EXCEPT !.silence = p.keepalive, !.sendHs = b].curr = p.curr
    BY <2>6 DEF Trims, Peers
  <2> QED BY <2>2, <2>5, <2>7
<1> QED BY <1>1, <1>2, <1>3, <1>4, <1>5 DEF OutputToPeer, Valid

(* The timer wipes the keys when the one in use is very old, and drops it     *)
(* when it is old.                                                            *)
LEMMA PurgeTrims ==
  ASSUME NEW p \in Peers
  PROVE  Trims(p, Purged(p))
<1>1. Trims(p, Wiped(p))
  <2>1. CASE Valid(p.curr) /\ Expired(p.curr, ResetAfter)
    <3>1. p.curr \in Keypairs
      BY <2>1 DEF Peers, Valid
    <3>2. Expired(p.curr, RejectAfter)
      BY <2>1, <3>1, KeypairProperties, AgeAssumption DEF Expired
    <3>3. Wiped(p) = [p EXCEPT !.curr = None, !.prev = None, !.next = None, !.hs = None]
      BY <2>1 DEF Wiped
    <3>4. Wiped(p) \in Peers
      BY <3>3 DEF Peers
    <3> QED BY <3>2, <3>3, <3>4 DEF Trims, Peers
  <2>2. CASE ~(Valid(p.curr) /\ Expired(p.curr, ResetAfter))
    BY <2>2 DEF Wiped, Trims
  <2> QED BY <2>1, <2>2
<1>2. PICK q : q = Wiped(p) /\ q \in Peers
  BY <1>1 DEF Trims
<1>3. Trims(q, Purged(p))
  <2>1. CASE Valid(q.curr) /\ Expired(q.curr, RejectAfter)
    <3>1. Purged(p) = [q EXCEPT !.curr = None] /\ [q EXCEPT !.curr = None] \in Peers
      BY <1>2, <2>1 DEF Purged, Peers
    <3> QED BY <1>2, <2>1, <3>1 DEF Trims, Peers
  <2>2. CASE ~(Valid(q.curr) /\ Expired(q.curr, RejectAfter))
    BY <1>2, <2>2 DEF Purged, Trims
  <2> QED BY <2>1, <2>2
<1> QED BY <1>1, <1>2, <1>3, TrimsTwice

(* The keepalive is a packet like any other. *)
LEMMA KeepaliveTrims ==
  ASSUME NEW p \in Peers
  PROVE  /\ Trims(p, KeptAlive(p).peer)
         /\ \A m \in KeptAlive(p).sent : m \in Messages /\ m.to = "server"
<1>1. CASE KeptAlive(p) = OutputToPeer(p)
  BY <1>1, OutputTrims
<1>2. CASE KeptAlive(p) = Sends(p, {})
  BY <1>2 DEF Sends, Trims
<1> QED BY <1>1, <1>2 DEF KeptAlive

(* The link flag is no key. *)
LEMMA LinkTrims ==
  ASSUME NEW p \in Peers
  PROVE  Trims(p, LinkChecked(p))
<1>1. PeerIsUp(p) \in BOOLEAN
  BY DEF PeerIsUp, Peers, Valid
<1>2. PICK b \in BOOLEAN : b = (p.link /\ PeerIsUp(p))
  BY <1>1 DEF Peers
<1>3. LinkChecked(p) = [p EXCEPT !.link = b] /\ [p EXCEPT !.link = b] \in Peers
  BY <1>2 DEF LinkChecked, Peers
<1> QED BY <1>3 DEF Trims, Peers

-----------------------------------------------------------------------------
(* What keeps a peer sound. *)

(* Losing keys does. *)
LEMMA SoundTrims ==
  ASSUME NEW p \in Peers, NEW q, NEW n, NEW ds, NEW ks, Trims(p, q), Sound(p, n, ds, ks)
  PROVE  Sound(q, n, ds, ks)
<1>1. KeyState(q, n)
  <2>1. UsedUp(q.curr, q, n) /\ UsedUp(q.prev, q, n) /\ UsedUp(q.next, q, n)
    BY KeyParts, KeypairProperties DEF Sound, KeyState, Trims, UsedUp, Peers
  <2>2. q.hs # None => q.hs[2] <= n
    BY DEF Sound, KeyState, Trims
  <2>3. q.next # None => q.next.key \in Theirs
    BY DEF Sound, KeyState, Trims
  <2>4. Apart(q.curr, q.prev) /\ Apart(q.curr, q.next) /\ Apart(q.prev, q.next)
    BY DEF Sound, KeyState, Trims, Apart
  <2> QED BY <2>1, <2>2, <2>3, <2>4 DEF KeyState
<1>2. MarkState(q, n, ds)
  BY KeyParts DEF Sound, MarkState, Trims, Barred
<1>3. AgreedState(q, ks)
  BY DEF Sound, AgreedState, Trims
<1> QED BY <1>1, <1>2, <1>3 DEF Sound

(* A response begins the session of the handshake that waits: its key was in  *)
(* no slot, and the server had it before.                                     *)
LEMMA SoundInitiator ==
  ASSUME NEW p \in Peers, NEW n, NEW ds, NEW ks, Sound(p, n, ds, ks), p.hs # None, p.hs \in ks
  PROVE  /\ NewSession(p, p.hs, TRUE) \in Peers /\ Sound(NewSession(p, p.hs, TRUE), n, ds, ks)
         /\ NewSession(p, p.hs, TRUE).open = p.open
         /\ NewSession(p, p.hs, TRUE).curr = NewKeypair(p.hs, TRUE)
<1>1. p.hs \in Ours /\ p.hs \in Keys /\ p.hs[2] <= n
  BY KeyParts DEF Peers, Sound, KeyState
<1>2. PICK kp \in Keypairs : /\ kp = NewKeypair(p.hs, TRUE) /\ kp # None /\ kp.key = p.hs
                             /\ kp.window = FreshWindow
  BY <1>1, NewKeypairProperties
<1>3. PICK old : old = (IF Valid(p.next) THEN p.next ELSE p.curr) /\ old \in {p.curr, p.next}
  OBVIOUS
<1>4. PICK q : /\ q = NewSession(p, p.hs, TRUE)
               /\ q = [p EXCEPT !.hs = None, !.prev = old, !.next = None, !.curr = kp]
  BY <1>2, <1>3 DEF NewSession, Peers
<1>5. /\ q \in Peers /\ q.open = p.open /\ q.curr = kp /\ q.prev = old /\ q.next = None /\ q.hs = None
      /\ q.greatest = p.greatest
  BY <1>3, <1>4 DEF Peers
<1>6. KeyState(q, n)
  <2>1. UsedUp(kp, q, n)
    BY <1>1, <1>2, <1>5, KeyParts DEF UsedUp
  <2>2. UsedUp(old, q, n)
    BY <1>3, <1>5, KeyParts, KeypairProperties DEF UsedUp, Sound, KeyState, Peers
  <2>3. Apart(kp, old)
    BY <1>2, <1>3 DEF Apart, Sound, KeyState, UsedUp
  <2> QED BY <1>5, <2>1, <2>2, <2>3 DEF KeyState, UsedUp, Apart
<1>7. MarkState(q, n, ds)
  BY <1>2, <1>3, <1>5, KeyParts DEF Sound, MarkState, Barred
<1>8. AgreedState(q, ks)
  BY <1>2, <1>5 DEF AgreedState
<1> QED BY <1>2, <1>4, <1>5, <1>6, <1>7, <1>8 DEF Sound

(* The peer after an initiation that it answers (Initiation). *)
Answered(p, k) == [NewSession(p, k, FALSE) EXCEPT !.greatest = k[2]]

(* An initiation newer than those answered begins a session of the server,    *)
(* which is not in use yet.                                                   *)
LEMMA SoundResponder ==
  ASSUME NEW p \in Peers, NEW n, NEW ds, NEW ks, Sound(p, n, ds, ks),
         NEW k \in Theirs, k[2] > p.greatest
  PROVE  /\ Answered(p, k) \in Peers /\ Sound(Answered(p, k), n, ds, ks)
         /\ Answered(p, k).open = p.open /\ Answered(p, k).curr = p.curr
<1>1. k \in Keys /\ k \notin Ours /\ k[2] \in 1..MaxTheirs /\ MaxTheirs \in Nat /\ k # None
  BY KeyParts, JourneyAssumption
<1>2. PICK kp \in Keypairs : kp = NewKeypair(k, FALSE) /\ kp # None /\ kp.key = k /\ kp.window = FreshWindow
  BY <1>1, NewKeypairProperties
<1>3. PICK q : q = Answered(p, k) /\ q = [p EXCEPT !.hs = None, !.next = kp, !.prev = None, !.greatest = k[2]]
  BY <1>2 DEF Answered, NewSession, Peers
<1>4. /\ q \in Peers /\ q.open = p.open /\ q.curr = p.curr /\ q.prev = None /\ q.next = kp /\ q.hs = None
      /\ q.greatest = k[2]
  <2>1. k[2] \in 0..MaxTheirs
    BY <1>1
  <2> QED BY <1>3, <2>1 DEF Peers
<1>5. p.greatest \in Nat
  BY <1>1 DEF Peers
<1>6. ASSUME p.curr # None PROVE p.curr.key # k /\ p.curr.key \in Keys
  <2>1. p.curr.key \in Keys /\ (p.curr.key \in Theirs => p.curr.key[2] <= p.greatest)
    BY <1>6, KeypairProperties DEF Sound, KeyState, UsedUp, Peers
  <2> QED BY <1>1, <1>5, <2>1
<1>7. KeyState(q, n)
  <2>1. UsedUp(kp, q, n)
    <3>1. k[2] \in Int
      BY <1>1
    <3>2. k[2] <= k[2]
      BY ONLY <3>1
    <3>3. k # q.hs
      BY ONLY <1>1, <1>4
    <3> QED BY <1>1, <1>2, <1>4, <3>2, <3>3 DEF UsedUp
  <2>2. UsedUp(p.curr, q, n)
    <3> SUFFICES ASSUME p.curr # None PROVE UsedUp(p.curr, q, n)
      BY DEF UsedUp
    <3>1. /\ p.curr.key \in Ours => p.curr.key[2] <= n
          /\ p.curr.key \in Theirs => p.curr.key[2] <= p.greatest
      BY DEF Sound, KeyState, UsedUp
    <3>2. p.curr.key \in Theirs => p.curr.key[2] \in Nat
      BY KeyParts
    <3>3. p.curr.key \in Theirs => p.curr.key[2] <= k[2]
      <4>1. k[2] \in Nat
        BY <1>1
      <4> QED BY <1>5, <3>1, <3>2, <4>1
    <3> QED BY <1>4, <1>6, <3>1, <3>3, KeyParts DEF UsedUp
  <2>3. Apart(p.curr, kp)
    BY <1>2, <1>6 DEF Apart
  <2> QED BY <1>2, <1>4, <2>1, <2>2, <2>3 DEF KeyState, UsedUp, Apart
<1>8. MarkState(q, n, ds)
  BY <1>1, <1>2, <1>4, KeyParts DEF Sound, MarkState, Barred
<1>9. AgreedState(q, ks)
  BY <1>4 DEF AgreedState, Sound
<1> QED BY <1>3, <1>4, <1>7, <1>8, <1>9 DEF Sound

(* The peer after the first packet under its next key (DataUnder). *)
Confirmed(p) == Shuffled([p EXCEPT !.next.heard = TRUE, !.link = TRUE])

(* The first packet under the next key puts it in use: the server had it.     *)
LEMMA SoundShuffled ==
  ASSUME NEW p \in Peers, NEW n, NEW ds, NEW ks, Sound(p, n, ds, ks), p.next # None, p.next.key \in ks
  PROVE  /\ Confirmed(p) \in Peers /\ Sound(Confirmed(p), n, ds, ks)
         /\ Confirmed(p).open = p.open /\ Confirmed(p).curr # None
<1>1. PICK kp \in Keypairs : /\ kp = [p.next EXCEPT !.heard = TRUE] /\ kp.key = p.next.key
                             /\ kp.window = p.next.window /\ kp # None
  <2>1. p.next \in Keypairs
    BY DEF Peers
  <2>2. [p.next EXCEPT !.heard = TRUE] \in Keypairs
    BY <2>1 DEF Keypairs
  <2> QED BY <2>1, <2>2, NoneAssumption DEF Keypairs
<1>2. PICK q : /\ q = Confirmed(p)
               /\ q = [p EXCEPT !.prev = p.curr, !.curr = kp, !.next = None, !.link = TRUE]
  BY <1>1 DEF Confirmed, Shuffled, Peers
<1>3. /\ q \in Peers /\ q.open = p.open /\ q.curr = kp /\ q.prev = p.curr /\ q.next = None /\ q.hs = p.hs
      /\ q.greatest = p.greatest
  BY <1>1, <1>2 DEF Peers
<1>4. KeyState(q, n)
  BY <1>1, <1>3 DEF Sound, KeyState, UsedUp, Apart
<1>5. MarkState(q, n, ds)
  BY <1>1, <1>3 DEF Sound, MarkState, Barred
<1>6. AgreedState(q, ks)
  BY <1>1, <1>3 DEF AgreedState
<1> QED BY <1>1, <1>2, <1>3, <1>4, <1>5, <1>6 DEF Sound

(* What a packet under a key in use does to the peer (DataUnder). *)
WindowAfter(kp, m) == IF m.payload THEN Checked(kp.window, m.nonce) ELSE kp.window
HandedOn(kp, m) == IF m.payload /\ Accepts(kp.window, m.nonce) THEN {<<kp.key, m.nonce>>} ELSE {}
Marked(p, slot, m) ==
  [p EXCEPT ![slot] = [p[slot] EXCEPT !.heard = TRUE, !.window = WindowAfter(p[slot], m)],
            !.link = TRUE,
            !.sendHs = @ \/ (p[slot].initiator /\ Expired(p[slot], RejectLess(p.keepalive + Retry)))]

(* A packet under a key in use is marked in its window: it was not handed on  *)
(* before if the device began the session, and will not be again.             *)
LEMMA SoundMarked ==
  ASSUME NEW p \in Peers, NEW n, NEW ds \in SUBSET (Keys \X Nat), NEW ks, Sound(p, n, ds, ks),
         NEW slot \in {"curr", "prev"}, p[slot] # None, NEW m \in Messages
  PROVE  /\ Marked(p, slot, m) \in Peers
         /\ Sound(Marked(p, slot, m), n, ds \cup HandedOn(p[slot], m), ks)
         /\ Marked(p, slot, m).open = p.open
         /\ Marked(p, slot, m).curr = None => p.curr = None
         /\ HandedOn(p[slot], m) \subseteq Keys \X Nat
         /\ \A d \in HandedOn(p[slot], m) \cap ds : d[1] \notin Ours
<1>1. PICK seq \in Nat : seq = m.nonce
  BY DEF Messages
<1>2. PICK w, up :
        /\ w = WindowAfter(p[slot], m) /\ up = HandedOn(p[slot], m)
        /\ \/ w = p[slot].window /\ up = {}
           \/ /\ w = Checked(p[slot].window, seq)
              /\ up = IF Accepts(p[slot].window, seq) THEN {<<p[slot].key, seq>>} ELSE {}
  BY <1>1 DEF WindowAfter, HandedOn
<1>3. PICK b \in BOOLEAN :
        b = (p.sendHs \/ (p[slot].initiator /\ Expired(p[slot], RejectLess(p.keepalive + Retry))))
  BY DEF Expired, Peers
<1>4. PICK old \in Keypairs : old = p[slot] /\ old # None
  BY DEF Peers
<1>5. old.window \in Windows /\ old.key \in Keys
  BY KeypairProperties
<1>6. w \in Windows
  BY <1>2, <1>4, <1>5, CheckedIsWindow
<1>7. PICK kp \in Keypairs : /\ kp = [old EXCEPT !.heard = TRUE, !.window = w] /\ kp # None
                             /\ kp.key = old.key /\ kp.window = w
  <2>1. [old EXCEPT !.heard = TRUE, !.window = w] \in Keypairs
    BY <1>6 DEF Keypairs
  <2> QED BY <2>1, NoneAssumption DEF Keypairs
<1>8. PICK q : q = Marked(p, slot, m) /\ q = [p EXCEPT ![slot] = kp, !.link = TRUE, !.sendHs = b]
  BY <1>2, <1>3, <1>4, <1>7 DEF Marked, Peers
<1>9. /\ q \in Peers /\ q.open = p.open /\ q.hs = p.hs /\ q.greatest = p.greatest /\ q.next = p.next
      /\ \/ q.curr = kp /\ p.curr = old /\ q.prev = p.prev
         \/ q.prev = kp /\ p.prev = old /\ q.curr = p.curr
  <2>1. CASE slot = "curr"
    <3>1. q = [p EXCEPT !.curr = kp, !.link = TRUE, !.sendHs = b]
      BY <1>8, <2>1
    <3> QED BY <1>4, <2>1, <3>1 DEF Peers
  <2>2. CASE slot = "prev"
    <3>1. q = [p EXCEPT !.prev = kp, !.link = TRUE, !.sendHs = b]
      BY <1>8, <2>2
    <3> QED BY <1>4, <2>2, <3>1 DEF Peers
  <2> QED BY <2>1, <2>2
<1>10. KeyState(q, n)
  BY <1>4, <1>7, <1>9 DEF Sound, KeyState, UsedUp, Apart
<1>11. ASSUME NEW d \in ds, d[1] \in Ours PROVE Barred(kp, d)
  <2>1. Barred(old, d) /\ d[2] \in Nat
    BY <1>4, <1>9, <1>11 DEF Sound, MarkState
  <2> SUFFICES ASSUME old.key = d[1] PROVE Refused(w, d[2])
    BY <1>7 DEF Barred
  <2>2. Refused(old.window, d[2])
    BY <1>4, <2>1 DEF Barred
  <2>3. Refused(Checked(old.window, seq), d[2])
    BY <1>5, <2>1, <2>2, RefusedForever
  <2> QED BY <1>2, <1>4, <2>2, <2>3
<1>12. ASSUME NEW d \in up
      PROVE  /\ d = <<old.key, seq>> /\ d[1] = old.key /\ d[2] = seq
             /\ Accepts(old.window, seq) /\ w = Checked(old.window, seq)
  <2>1. d = <<old.key, seq>> /\ Accepts(old.window, seq) /\ w = Checked(old.window, seq)
    BY <1>2, <1>4, <1>12
  <2>2. d[1] = old.key /\ d[2] = seq
    BY ONLY <2>1
  <2> QED BY <2>1, <2>2
<1>13. ASSUME NEW d \in up PROVE Barred(kp, d)
  <2>1. Refused(Checked(old.window, seq), seq)
    BY <1>5, <1>12, <1>13, AcceptedOnce
  <2> QED BY <1>7, <1>12, <1>13, <2>1 DEF Barred
<1>14. MarkState(q, n, ds \cup up)
  <2> SUFFICES ASSUME NEW d \in ds \cup up, d[1] \in Ours
               PROVE  /\ d[1][2] <= n /\ d[1] # q.hs
                      /\ Barred(q.curr, d) /\ Barred(q.prev, d) /\ Barred(q.next, d)
    BY DEF MarkState
  <2>1. Barred(kp, d)
    BY <1>11, <1>13
  <2>2. CASE d \in ds
    BY <1>9, <2>1, <2>2 DEF Sound, MarkState
  <2>3. CASE d \in up
    <3>1. d[1] = old.key
      BY <1>12, <2>3
    <3>2. d[1][2] <= n /\ d[1] # q.hs
      BY <1>4, <1>9, <3>1 DEF Sound, KeyState, UsedUp
    <3>3. Barred(q.next, d)
      BY <1>4, <1>9, <3>1 DEF Sound, KeyState, Apart, Barred
    <3>4. Barred(q.curr, d) /\ Barred(q.prev, d)
      BY <1>4, <1>9, <2>1, <3>1 DEF Sound, KeyState, Apart, Barred
    <3> QED BY <3>2, <3>3, <3>4
  <2> QED BY <2>2, <2>3
<1>15. AgreedState(q, ks)
  BY <1>4, <1>7, <1>9 DEF Sound, AgreedState
<1>16. up \subseteq Keys \X Nat
  <2>1. <<old.key, seq>> \in Keys \X Nat
    BY <1>5
  <2> QED BY <1>12, <2>1
<1>17. ASSUME NEW d \in up \cap ds PROVE d[1] \notin Ours
  <2> SUFFICES ASSUME d[1] \in Ours PROVE FALSE
    OBVIOUS
  <2>1. d = <<old.key, seq>> /\ Accepts(old.window, seq)
    BY <1>12, <1>17
  <2>2. Barred(old, d)
    BY <1>4, <1>9, <1>17 DEF Sound, MarkState
  <2> QED BY <1>4, <2>1, <2>2 DEF Barred, Refused
<1>18. Sound(q, n, ds \cup up, ks) /\ (q.curr = None => p.curr = None)
  BY <1>7, <1>9, <1>10, <1>14, <1>15 DEF Sound
<1> QED BY <1>2, <1>8, <1>9, <1>16, <1>17, <1>18

(* A handshake that begins takes a number no key has yet. *)
LEMMA SoundAsked ==
  ASSUME NEW p \in Peers, NEW n \in Nat, NEW ds \in SUBSET (Keys \X Nat), NEW ks, Sound(p, n, ds, ks),
         NEW k \in Ours, k[2] = n + 1,
         NEW q \in Peers, q.hs = k, q.greatest = p.greatest,
         q.curr = p.curr, q.prev = p.prev, q.next = p.next
  PROVE  Sound(q, n + 1, ds, ks)
<1>1. k \in Keys /\ k \notin Theirs /\ k # None
  BY KeyParts
<1>2. ASSUME NEW x \in Ours, x[2] <= n PROVE x[2] <= n + 1 /\ x # k
  <2>1. x[2] \in Int
    BY KeyParts
  <2> QED BY <1>2, <2>1
<1>3. ASSUME NEW s \in {"curr", "prev", "next"}, UsedUp(p[s], p, n) PROVE UsedUp(p[s], q, n + 1)
  BY <1>1, <1>2, <1>3, KeyParts DEF UsedUp
<1>4. KeyState(q, n + 1)
  <2>1. UsedUp(q.curr, q, n + 1) /\ UsedUp(q.prev, q, n + 1) /\ UsedUp(q.next, q, n + 1)
    BY <1>3 DEF Sound, KeyState
  <2>2. q.hs[2] <= n + 1
    BY ONLY k[2] = n + 1, q.hs = k, n \in Nat
  <2> QED BY <2>1, <2>2 DEF Sound, KeyState
<1>5. MarkState(q, n + 1, ds)
  BY <1>2 DEF Sound, MarkState
<1> QED BY <1>4, <1>5 DEF Sound, AgreedState

(* Getting older does not touch a key or its window. *)
LEMMA SoundAged ==
  ASSUME NEW p \in Peers, NEW n, NEW ds, NEW ks, Sound(p, n, ds, ks),
         NEW q, q = [p EXCEPT !.curr = Aged(@), !.prev = Aged(@), !.next = Aged(@),
                              !.silence = Elapsed(@), !.cookie = FALSE]
  PROVE  q \in Peers /\ Sound(q, n, ds, ks) /\ (q.curr = None => p.curr = None)
<1>1. ASSUME NEW kp \in Keypairs \cup {None}
      PROVE  /\ Aged(kp) \in Keypairs \cup {None} /\ (Aged(kp) = None <=> kp = None)
             /\ kp # None => Aged(kp).key = kp.key /\ Aged(kp).window = kp.window
  <2>1. CASE Aged(kp) = kp
    BY <2>1
  <2>2. CASE kp # None /\ kp.age < ResetAfter /\ Aged(kp) = [kp EXCEPT !.age = @ + 1]
    <3>1. kp \in Keypairs /\ kp.age \in 0..ResetAfter /\ ResetAfter \in Nat
      BY <2>2, AgeAssumption DEF Keypairs
    <3>2. kp.age + 1 \in 0..ResetAfter
      BY <2>2, <3>1
    <3>3. Aged(kp) \in Keypairs /\ Aged(kp).key = kp.key /\ Aged(kp).window = kp.window
      BY <2>2, <3>1, <3>2 DEF Keypairs
    <3> QED BY <2>2, <3>3, NoneAssumption
  <2> QED BY <2>1, <2>2 DEF Aged, Valid
<1>2. PICK c, v, x \in Keypairs \cup {None} : c = Aged(p.curr) /\ v = Aged(p.prev) /\ x = Aged(p.next)
  BY <1>1 DEF Peers
<1>3. PICK rest \in Nat :
        q = [p EXCEPT !.curr = c, !.prev = v, !.next = x, !.silence = rest, !.cookie = FALSE]
  <2>1. PICK rest \in Nat : rest = Elapsed(p.silence)
    BY DEF Peers, Elapsed
  <2> QED BY <1>2, <2>1 DEF Peers
<1>4. /\ q \in Peers /\ q.curr = c /\ q.prev = v /\ q.next = x /\ q.hs = p.hs /\ q.greatest = p.greatest
  BY <1>3 DEF Peers
<1>5. /\ c # None <=> p.curr # None
      /\ v # None <=> p.prev # None
      /\ x # None <=> p.next # None
      /\ c # None => c.key = p.curr.key /\ c.window = p.curr.window
      /\ v # None => v.key = p.prev.key /\ v.window = p.prev.window
      /\ x # None => x.key = p.next.key /\ x.window = p.next.window
  BY <1>1, <1>2 DEF Peers
<1>6. KeyState(q, n)
  BY <1>4, <1>5 DEF Sound, KeyState, UsedUp, Apart
<1>7. MarkState(q, n, ds)
  BY <1>4, <1>5 DEF Sound, MarkState, Barred
<1> QED BY <1>4, <1>5, <1>6, <1>7 DEF Sound, AgreedState

(* A tunnel that begins or ends has no key; what was handed on stays barred,  *)
(* for its handshake is used up.                                              *)
LEMMA SoundReset ==
  ASSUME NEW p \in Peers, NEW n, NEW ds \in SUBSET (Keys \X Nat), NEW ks, Sound(p, n, ds, ks),
         NEW keepalive \in Nat, NEW q \in {Closed, Connected(keepalive)}
  PROVE  q \in Peers /\ Sound(q, n, ds, ks)
<1>1. q \in Peers /\ q.curr = None /\ q.prev = None /\ q.next = None /\ q.hs = None
  <2>1. 0 \in 0..MaxTheirs
    BY JourneyAssumption
  <2>2. Closed \in Peers
    BY <2>1 DEF Closed, Peers
  <2>3. Connected(keepalive) \in Peers
    BY <2>2 DEF Connected, Peers
  <2>4. /\ Closed.curr = None /\ Closed.prev = None /\ Closed.next = None /\ Closed.hs = None
        /\ {"curr", "prev", "next", "hs"} \subseteq DOMAIN Closed
    BY DEF Closed
  <2>5. CASE q = Closed
    BY <2>2, <2>4, <2>5
  <2>6. CASE q = Connected(keepalive)
    BY <2>3, <2>4, <2>6 DEF Connected
  <2> QED BY <2>5, <2>6
<1>2. KeyState(q, n)
  BY <1>1 DEF KeyState, UsedUp, Apart
<1>3. MarkState(q, n, ds)
  BY <1>1, KeyParts DEF Sound, MarkState, Barred
<1> QED BY <1>1, <1>2, <1>3 DEF Sound, AgreedState

(* A key the server agreed to stays agreed. *)
LEMMA SoundAgreed ==
  ASSUME NEW p, NEW n, NEW ds, NEW ks, NEW js, ks \subseteq js, Sound(p, n, ds, ks)
  PROVE  Sound(p, n, ds, js)
BY DEF Sound, AgreedState

(* A flag of the peer is no key. *)
LEMMA SoundFlag ==
  ASSUME NEW p \in Peers, NEW n, NEW ds, NEW ks, Sound(p, n, ds, ks), NEW q \in Peers,
         q.curr = p.curr, q.prev = p.prev, q.next = p.next, q.hs = p.hs, q.greatest = p.greatest
  PROVE  Sound(q, n, ds, ks)
BY DEF Sound, KeyState, MarkState, AgreedState, UsedUp

-----------------------------------------------------------------------------
(* What a message does to the peer. *)

(* The peer after a message is sound, nothing of a session of the device is   *)
(* handed on again, and the key in use is lost only when it expired.          *)
Keeps(p, r, n, ds, ks) ==
  /\ r.peer \in Peers /\ r.peer.open = p.open /\ Sound(r.peer, n, ds \cup r.input, ks)
  /\ r.input \subseteq Keys \X Nat /\ \A d \in r.input \cap ds : d[1] \notin Ours
  /\ \A m \in r.sent : m \in Messages /\ m.to = "server"
  /\ p.curr # None /\ r.peer.curr = None => Expired(p.curr, RejectAfter)

(* A result that hands nothing on. *)
LEMMA KeepsQuietly ==
  ASSUME NEW p, NEW r, NEW n, NEW ds, NEW ks, NEW q \in Peers, NEW msgs,
         r = Handles(q, msgs, {}), q.open = p.open, Sound(q, n, ds, ks),
         \A m \in msgs : m \in Messages /\ m.to = "server",
         p.curr # None /\ q.curr = None => Expired(p.curr, RejectAfter)
  PROVE  Keeps(p, r, n, ds, ks)
<1>1. r.peer = q /\ r.sent = msgs /\ r.input = {} /\ ds \cup r.input = ds
  BY DEF Handles
<1> QED BY <1>1 DEF Keeps

(* A message that is ignored. *)
LEMMA KeepsIgnored ==
  ASSUME NEW p \in Peers, NEW n, NEW ds, NEW ks, Sound(p, n, ds, ks)
  PROVE  Keeps(p, Ignored(p), n, ds, ks)
BY KeepsQuietly DEF Ignored

(* An initiation of the server. *)
LEMMA KeepsInitiation ==
  ASSUME NEW p \in Peers, NEW n, NEW ds, NEW ks, Sound(p, n, ds, ks),
         NEW m \in Messages, m.key \in Theirs
  PROVE  Keeps(p, Initiation(p, m), n, ds, ks)
<1>1. CASE ~NewestYet(p, m)
  BY <1>1, KeepsIgnored DEF Initiation
<1>2. CASE NewestYet(p, m)
  <2>1. PICK q : q = Answered(p, m.key)
    OBVIOUS
  <2>2. Initiation(p, m) = Handles(q, {ResponseMessage(m.key)}, {})
    BY <1>2, <2>1 DEF Initiation, Answered
  <2>3. q \in Peers /\ Sound(q, n, ds, ks) /\ q.open = p.open /\ q.curr = p.curr
    <3>1. m.key[2] > p.greatest
      BY <1>2 DEF NewestYet
    <3> QED BY <2>1, <3>1, SoundResponder
  <2>4. ResponseMessage(m.key) \in Messages /\ ResponseMessage(m.key).to = "server"
    BY DEF ResponseMessage, Message, Messages
  <2> QED BY <2>2, <2>3, <2>4, KeepsQuietly
<1> QED BY <1>1, <1>2

(* The response to the handshake that waits. *)
LEMMA KeepsResponse ==
  ASSUME NEW p \in Peers, NEW n, NEW ds, NEW ks, Sound(p, n, ds, ks),
         NEW m \in Messages, m.key \in ks
  PROVE  Keeps(p, Response(p, m), n, ds, ks)
<1>1. CASE ~Completes(p, m)
  BY <1>1, KeepsIgnored DEF Response
<1>2. CASE Completes(p, m)
  <2>1. m.key = p.hs /\ p.hs # None /\ p.hs \in Keys
    BY <1>2, KeyParts DEF Completes, Messages
  <2>2. PICK s \in Peers : /\ s = NewSession(p, m.key, TRUE) /\ Sound(s, n, ds, ks) /\ s.open = p.open
                           /\ s.curr = NewKeypair(m.key, TRUE)
    <3>1. /\ NewSession(p, p.hs, TRUE) \in Peers /\ Sound(NewSession(p, p.hs, TRUE), n, ds, ks)
          /\ NewSession(p, p.hs, TRUE).open = p.open
          /\ NewSession(p, p.hs, TRUE).curr = NewKeypair(p.hs, TRUE)
      BY <2>1, SoundInitiator
    <3> QED BY <2>1, <3>1
  <2>3. s.curr # None /\ s.curr.initiator /\ s.curr.age < RejectAfter
    <3>1. s.curr # None /\ s.curr.age = 0
      BY <2>1, <2>2, NewKeypairProperties
    <3>2. NewKeypair(m.key, TRUE).initiator = TRUE
      BY <2>1, NewKeypairProperties
    <3>3. 0 < RejectAfter
      BY AgeAssumption
    <3> QED BY <2>2, <3>1, <3>2, <3>3
  <2>4. PICK o : o = OutputToPeer(s)
    OBVIOUS
  <2>5. /\ Trims(s, o.peer) /\ o.peer \in Peers /\ o.peer.open = s.open /\ o.peer.curr = s.curr
        /\ \A x \in o.sent : x \in Messages /\ x.to = "server"
    BY <2>3, <2>4, OutputTrims DEF Trims
  <2>6. Sound(o.peer, n, ds, ks)
    BY <2>2, <2>5, SoundTrims
  <2>7. PICK q : q = [o.peer EXCEPT !.link = TRUE]
    OBVIOUS
  <2>8. /\ q \in Peers /\ q.open = p.open /\ q.curr = o.peer.curr /\ q.prev = o.peer.prev
        /\ q.next = o.peer.next /\ q.hs = o.peer.hs /\ q.greatest = o.peer.greatest
    BY <2>2, <2>5, <2>7 DEF Peers
  <2>9. Sound(q, n, ds, ks)
    BY <2>5, <2>6, <2>8, SoundFlag
  <2>10. Response(p, m) = Handles(q, o.sent, {})
    BY <1>2, <2>2, <2>4, <2>7 DEF Response
  <2> QED BY <2>3, <2>5, <2>8, <2>9, <2>10, KeepsQuietly
<1> QED BY <1>1, <1>2

(* A cookie reply. *)
LEMMA KeepsCookie ==
  ASSUME NEW p \in Peers, NEW n, NEW ds, NEW ks, Sound(p, n, ds, ks), NEW m \in Messages
  PROVE  Keeps(p, Cookie(p, m), n, ds, ks)
<1>1. CASE Cookie(p, m) = Ignored(p)
  BY <1>1, KeepsIgnored
<1>2. CASE Cookie(p, m) = Handles([p EXCEPT !.cookie = TRUE, !.mac1 = FALSE], {}, {})
  <2>1. PICK q : q = [p EXCEPT !.cookie = TRUE, !.mac1 = FALSE]
    OBVIOUS
  <2>2. /\ q \in Peers /\ q.open = p.open /\ q.curr = p.curr /\ q.prev = p.prev
        /\ q.next = p.next /\ q.hs = p.hs /\ q.greatest = p.greatest
    BY <2>1 DEF Peers
  <2>3. Sound(q, n, ds, ks)
    BY <2>2, SoundFlag
  <2>4. Cookie(p, m) = Handles(q, {}, {})
    BY <1>2, <2>1
  <2> QED BY <2>2, <2>3, <2>4, KeepsQuietly
<1> QED BY <1>1, <1>2 DEF Cookie

(* The slot a key is looked up in holds it. *)
LEMMA SlotHolds ==
  ASSUME NEW p \in Peers, NEW k, SlotFor(p, k) # None
  PROVE  /\ SlotFor(p, k) \in {"curr", "prev", "next"}
         /\ p[SlotFor(p, k)] # None /\ p[SlotFor(p, k)].key = k
BY DEF SlotFor, Valid

(* A packet under a key in use. *)
LEMMA KeepsMarked ==
  ASSUME NEW p \in Peers, NEW n, NEW ds \in SUBSET (Keys \X Nat), NEW ks, Sound(p, n, ds, ks),
         NEW m \in Messages, NEW slot \in {"curr", "prev"}, p[slot] # None, p[slot].key = m.key
  PROVE  Keeps(p, DataUnder(p, slot, m), n, ds, ks)
<1>1. PICK kp \in Keypairs : kp = p[slot] /\ kp.initiator \in BOOLEAN /\ kp.key = m.key
  BY KeypairProperties DEF Peers
<1>3. PICK q, up : q = Marked(p, slot, m) /\ up = HandedOn(p[slot], m)
  OBVIOUS
<1>4. DataUnder(p, slot, m) = Handles(q, {}, up)
  <2>1. CASE slot = "curr"
    BY <1>1, <1>3, <2>1 DEF DataUnder, Marked, HandedOn, WindowAfter, Peers, Keypairs
  <2>2. CASE slot = "prev"
    BY <1>1, <1>3, <2>2 DEF DataUnder, Marked, HandedOn, WindowAfter, Peers, Keypairs
  <2> QED BY <2>1, <2>2
<1>5. /\ q \in Peers /\ Sound(q, n, ds \cup up, ks) /\ q.open = p.open
      /\ q.curr = None => p.curr = None
      /\ up \subseteq Keys \X Nat
      /\ \A d \in up \cap ds : d[1] \notin Ours
  BY <1>3, SoundMarked
<1> QED BY <1>4, <1>5 DEF Keeps, Handles

(* The first packet under the next key. *)
LEMMA KeepsShuffled ==
  ASSUME NEW p \in Peers, NEW n, NEW ds, NEW ks, Sound(p, n, ds, ks),
         NEW m \in Messages, p.next # None, p.next.key = m.key, m.key \in ks
  PROVE  Keeps(p, DataUnder(p, "next", m), n, ds, ks)
<1>1. PICK q : q = Confirmed(p)
  OBVIOUS
<1>2. PICK up \in SUBSET {<<m.key, m.nonce>>} : DataUnder(p, "next", m) = Handles(q, {}, up)
  BY <1>1 DEF DataUnder, Confirmed
<1>3. q \in Peers /\ Sound(q, n, ds, ks) /\ q.open = p.open /\ q.curr # None
  BY <1>1, SoundShuffled
<1>4. m.key \in Keys /\ m.nonce \in Nat /\ m.key \in Theirs /\ m.key \notin Ours
  BY KeyParts DEF Messages, Sound, KeyState
<1>5. ASSUME NEW d \in up PROVE d \in Keys \X Nat /\ d[1] \notin Ours
  BY <1>2, <1>4, <1>5
<1>6. Sound(q, n, ds \cup up, ks)
  BY <1>3, <1>5 DEF Sound, MarkState
<1>7. \A r : r = Handles(q, {}, up) => Keeps(p, r, n, ds, ks)
  BY <1>3, <1>5, <1>6 DEF Keeps, Handles
<1> QED BY <1>2, <1>7

(* Data, under whatever key. *)
LEMMA KeepsData ==
  ASSUME NEW p \in Peers, NEW n, NEW ds \in SUBSET (Keys \X Nat), NEW ks, Sound(p, n, ds, ks),
         NEW m \in Messages, m.key \in ks
  PROVE  Keeps(p, DataMessage(p, m), n, ds, ks)
<1>1. PICK slot : slot = SlotFor(p, m.key)
  OBVIOUS
<1>2. CASE slot = None
  BY <1>1, <1>2, KeepsIgnored DEF DataMessage
<1>3. CASE slot # None
  <2>1. slot \in {"curr", "prev", "next"} /\ p[slot] # None /\ p[slot].key = m.key
    BY <1>1, <1>3, SlotHolds
  <2>2. CASE Expired(p[slot], RejectAfter)
    <3>1. PICK q : q = [p EXCEPT ![slot] = None]
      OBVIOUS
    <3>2. q \in Peers /\ Trims(p, q)
      <4>1. CASE slot = "curr"
        BY <2>2, <3>1, <4>1 DEF Trims, Peers
      <4>2. CASE slot = "prev"
        BY <3>1, <4>2 DEF Trims, Peers
      <4>3. CASE slot = "next"
        BY <3>1, <4>3 DEF Trims, Peers
      <4> QED BY <2>1, <4>1, <4>2, <4>3
    <3>3. Sound(q, n, ds, ks)
      BY <3>2, SoundTrims
    <3>4. DataMessage(p, m) = Handles(q, {}, {})
      BY <1>1, <1>3, <2>2, <3>1 DEF DataMessage
    <3>5. q.open = p.open /\ (p.curr # None /\ q.curr = None => Expired(p.curr, RejectAfter))
      BY <3>2 DEF Trims
    <3> QED BY <3>2, <3>3, <3>4, <3>5, KeepsQuietly
  <2>3. CASE ~Expired(p[slot], RejectAfter)
    <3>1. DataMessage(p, m) = DataUnder(p, slot, m)
      BY <1>1, <1>3, <2>3 DEF DataMessage
    <3>2. CASE slot = "next"
      BY <2>1, <3>1, <3>2, KeepsShuffled
    <3>3. CASE slot \in {"curr", "prev"}
      BY <2>1, <3>1, <3>3, KeepsMarked
    <3> QED BY <2>1, <3>2, <3>3
  <2> QED BY <2>2, <2>3
<1> QED BY <1>2, <1>3

(* Any message that the server may have sent. *)
LEMMA KeepsReceived ==
  ASSUME NEW p \in Peers, NEW n, NEW ds \in SUBSET (Keys \X Nat), NEW ks, Sound(p, n, ds, ks),
         NEW m \in Messages, m.to = "us", Genuine(m, ks)
  PROVE  Keeps(p, NetworkRx(p, m), n, ds, ks)
<1>1. CASE ~p.open
  BY <1>1, KeepsIgnored DEF NetworkRx
<1>2. CASE p.open /\ m.type = "initiation"
  BY <1>2, KeepsInitiation DEF NetworkRx, Genuine
<1>3. CASE p.open /\ m.type = "response"
  BY <1>3, KeepsResponse DEF NetworkRx, Genuine
<1>4. CASE p.open /\ m.type = "cookie"
  BY <1>4, KeepsCookie DEF NetworkRx
<1>5. CASE p.open /\ m.type = "data"
  BY <1>5, KeepsData DEF NetworkRx, Genuine
<1>6. m.type \in {"initiation", "response", "cookie", "data"}
  BY DEF Messages
<1> QED BY <1>1, <1>2, <1>3, <1>4, <1>5, <1>6

-----------------------------------------------------------------------------
(* The steps. *)

(* What is spent is one unit of one bound. *)
LEMMA SpendProperties ==
  ASSUME NEW what \in Bounds, left \in Remaining, Spend(what)
  PROVE  /\ left' \in Remaining /\ left' = [left EXCEPT ![what] = @ - 1] /\ left[what] > 0
         /\ what # "ours" => left'.ours = left.ours
<1>1. left \in [Bounds -> Nat] /\ left.ours <= MaxOurs /\ left.theirs <= MaxTheirs
  BY DEF Remaining
<1>2. left' = [left EXCEPT ![what] = left[what] - 1] /\ left[what] > 0
  BY DEF Spend
<1>3. PICK n \in Nat : n = left[what] - 1 /\ n < left[what]
  <2>1. left[what] \in Nat
    BY <1>1
  <2>2. left[what] - 1 \in Nat /\ left[what] - 1 < left[what]
    BY ONLY <1>2, <2>1
  <2> QED BY <2>2
<1>4. left' = [left EXCEPT ![what] = n] /\ left' \in [Bounds -> Nat]
  BY <1>1, <1>2, <1>3
<1>5. /\ what = "ours" => left'.ours = n /\ left'.theirs = left.theirs
      /\ what = "theirs" => left'.theirs = n /\ left'.ours = left.ours
      /\ what \notin {"ours", "theirs"} => left'.ours = left.ours /\ left'.theirs = left.theirs
  <2>1. \A b \in Bounds : left'[b] = IF b = what THEN n ELSE left[b]
    BY <1>1, <1>4
  <2>2. "ours" \in Bounds /\ "theirs" \in Bounds
    BY DEF Bounds
  <2> QED BY <2>1, <2>2
<1>7. left'.ours <= MaxOurs /\ left'.theirs <= MaxTheirs
  <2>1. left.ours \in Nat /\ left.theirs \in Nat
    BY <1>1 DEF Bounds
  <2>2. n < left[what]
    BY <1>3
  <2>3. CASE what = "ours"
    <3>1. left'.ours < left.ours /\ left'.theirs = left.theirs
      BY <1>5, <2>2, <2>3
    <3> QED BY <1>1, <1>3, <1>5, <2>1, <2>3, <3>1, JourneyAssumption
  <2>4. CASE what = "theirs"
    <3>1. left'.theirs < left.theirs /\ left'.ours = left.ours
      BY <1>5, <2>2, <2>4
    <3> QED BY <1>1, <1>3, <1>5, <2>1, <2>4, <3>1, JourneyAssumption
  <2>5. CASE what \notin {"ours", "theirs"}
    BY <1>1, <1>5, <2>5
  <2> QED BY <2>3, <2>4, <2>5
<1> QED BY <1>2, <1>4, <1>5, <1>7 DEF Remaining

(* A step of the device. *)
LEMMA DeviceStep ==
  ASSUME Inv, peer' \in Peers, Sound(peer', Used', delivered, server.agreed),
         peer'.open \/ peer'.curr = None, left' \in Remaining,
         UNCHANGED <<server, late, delivered, again>>,
         \A m \in net' : m \in net \/ (m \in Messages /\ m.to = "server")
  PROVE  Inv'
<1>1. TypeInv'
  BY DEF Inv, TypeInv
<1>2. PeerInv'
  BY DEF Inv, PeerInv
<1>3. ServerInv' /\ ClosedInv'
  BY DEF Inv, ServerInv, ClosedInv
<1>4. MessageInv'
  BY DEF Inv, MessageInv, Genuine
<1> QED BY <1>1, <1>2, <1>3, <1>4 DEF Inv

(* A step of the server or of the network. *)
LEMMA NetworkStep ==
  ASSUME Inv, UNCHANGED <<peer, delivered, again>>, left' \in Remaining, left'.ours = left.ours,
         server' \in Servers, server.agreed \subseteq server'.agreed, ServerInv',
         \A m \in net' \cup late' : m \in net \cup late \/ (m \in Messages /\ Genuine(m, server'.agreed))
  PROVE  Inv'
<1>1. TypeInv'
  BY DEF Inv, TypeInv
<1>2. PeerInv'
  <2>1. Used' = Used
    BY DEF Used
  <2>2. Sound(peer, Used, delivered, server'.agreed)
    BY SoundAgreed DEF Inv, PeerInv
  <2> QED BY <2>1, <2>2 DEF PeerInv
<1>3. ClosedInv'
  BY DEF Inv, ClosedInv
<1>4. MessageInv'
  BY DEF Inv, MessageInv, Genuine
<1> QED BY <1>1, <1>2, <1>3, <1>4 DEF Inv

(* The tunnel begins and ends. *)
LEMMA BeginEndSteps ==
  ASSUME Inv, Begin \/ End
  PROVE  Inv' /\ KeyLost /\ UNCHANGED again
<1>0. PICK keepalive \in Nat : keepalive = left.keepalive
  BY DEF Inv, TypeInv, Remaining, Bounds
<1>1. PICK q \in {Closed, Connected(keepalive)} :
        q = peer' /\ (Begin => peer'.open) /\ (q = Closed => ~peer'.open)
  <2>1. Closed.open = FALSE /\ Connected(keepalive).open = TRUE
    BY DEF Closed, Connected
  <2>2. \/ peer' = Closed /\ ~Begin
        \/ peer' = Connected(keepalive)
    BY <1>0 DEF Begin, End
  <2> QED BY <2>1, <2>2
<1>2. left' \in Remaining /\ left'.ours = left.ours
  BY SpendProperties DEF Begin, End, Inv, TypeInv, Bounds
<1>3. Used' = Used
  BY <1>2 DEF Used
<1>4. peer' \in Peers /\ Sound(peer', Used', delivered, server.agreed)
  BY <1>1, <1>3, SoundReset DEF Inv, TypeInv, PeerInv
<1>5. peer'.curr = None
  <2>1. Closed.curr = None /\ "curr" \in DOMAIN Closed
    BY DEF Closed
  <2> QED BY <1>1, <2>1 DEF Connected
<1>6. Inv'
  BY <1>2, <1>4, <1>5, DeviceStep DEF Begin, End
<1>7. KeyLost
  BY <1>1 DEF KeyLost, Begin, End, Closed, Inv, ClosedInv, Valid
<1> QED BY <1>6, <1>7 DEF Begin, End

(* What the timer does before it may initiate. *)
LEMMA TimerBegins ==
  ASSUME Inv, NEW alive, alive = KeptAlive(Purged(peer))
  PROVE  /\ alive.peer \in Peers /\ Trims(peer, alive.peer)
         /\ Sound(alive.peer, Used, delivered, server.agreed)
         /\ \A m \in alive.sent : m \in Messages /\ m.to = "server"
<1>1. peer \in Peers /\ Sound(peer, Used, delivered, server.agreed)
  BY DEF Inv, TypeInv, PeerInv
<1>2. PICK q : q = Purged(peer) /\ q \in Peers /\ Trims(peer, q)
  BY <1>1, PurgeTrims DEF Trims
<1>3. Trims(q, alive.peer) /\ \A m \in alive.sent : m \in Messages /\ m.to = "server"
  BY <1>2, KeepaliveTrims
<1>4. Trims(peer, alive.peer)
  BY <1>2, <1>3, TrimsTwice
<1>5. alive.peer \in Peers
  BY <1>4 DEF Trims
<1> QED BY <1>1, <1>3, <1>4, <1>5, SoundTrims

(* The timer. *)
LEMMA TimerStep ==
  ASSUME Inv, Timer
  PROVE  Inv' /\ KeyLost /\ UNCHANGED again
<1>1. PICK alive : alive = KeptAlive(Purged(peer))
  OBVIOUS
<1>2. /\ peer.open /\ peer' = LinkChecked(alive.peer) /\ net' = net \cup alive.sent
      /\ UNCHANGED <<server, late, left, delivered, again>>
  BY <1>1 DEF Timer, TimerSends
<1>3. /\ alive.peer \in Peers /\ Trims(peer, alive.peer)
      /\ Sound(alive.peer, Used, delivered, server.agreed)
      /\ \A m \in alive.sent : m \in Messages /\ m.to = "server"
  BY <1>1, TimerBegins
<1>4. Trims(alive.peer, peer')
  BY <1>2, <1>3, LinkTrims
<1>5. Sound(peer', Used, delivered, server.agreed) /\ Used' = Used
  BY <1>2, <1>3, <1>4, SoundTrims DEF Used
<1>6. Trims(peer, peer')
  BY <1>3, <1>4, TrimsTwice
<1>7. peer' \in Peers /\ peer'.open
  BY <1>2, <1>6 DEF Trims
<1>8. left' \in Remaining
  BY <1>2 DEF Inv, TypeInv
<1>9. Inv'
  BY <1>2, <1>3, <1>5, <1>7, <1>8, DeviceStep
<1>10. KeyLost
  BY <1>6 DEF KeyLost, Trims, Valid
<1> QED BY <1>2, <1>9, <1>10

(* The number of the next handshake of the device. *)
LEMMA OurNextProperties ==
  ASSUME left \in Remaining, left.ours > 0
  PROVE  OurNext \in Ours /\ OurNext[2] = Used + 1 /\ Used \in Nat
<1>1. left.ours \in Nat /\ left.ours <= MaxOurs /\ MaxOurs \in Nat
  BY JourneyAssumption DEF Remaining, Bounds
<1>2. PICK u, k : u = MaxOurs - left.ours /\ k = u + 1 /\ k = MaxOurs - left.ours + 1
  BY <1>1
<1>3. u \in Nat /\ k \in 1..MaxOurs
  BY <1>1, <1>2
<1>4. OurNext = <<"us", k>>
  BY <1>2 DEF OurNext
<1>5. OurNext[2] = k
  BY ONLY <1>4
<1>6. OurNext \in Ours
  BY <1>3, <1>4 DEF Ours
<1>7. Used = u
  BY <1>2 DEF Used
<1> QED BY <1>2, <1>3, <1>5, <1>6, <1>7

(* The timer, when it starts a handshake: its number was in no slot, and no   *)
(* packet was handed on under it.                                             *)
LEMMA TimerInitiatesStep ==
  ASSUME Inv, TimerInitiates
  PROVE  Inv' /\ KeyLost /\ UNCHANGED again
<1>1. PICK alive : alive = KeptAlive(Purged(peer))
  OBVIOUS
<1>2. /\ alive.peer \in Peers /\ Trims(peer, alive.peer)
      /\ Sound(alive.peer, Used, delivered, server.agreed)
      /\ \A m \in alive.sent : m \in Messages /\ m.to = "server"
  BY <1>1, TimerBegins
<1>3. PICK r, msgs :
        /\ \/ r = [alive.peer EXCEPT !.hs = OurNext, !.sendHs = FALSE, !.wait = TRUE, !.mac1 = TRUE]
           \/ r = [alive.peer EXCEPT !.hs = OurNext]
        /\ msgs \subseteq {InitiationMessage(alive.peer, OurNext)}
        /\ peer' = LinkChecked(r) /\ net' = (net \cup alive.sent) \cup msgs
        /\ \/ left' = [left EXCEPT !.ours = @ - 1]
           \/ left.faults > 0 /\ left' = [left EXCEPT !.ours = @ - 1, !.faults = @ - 1]
        /\ peer.open /\ left.ours > 0 /\ UNCHANGED <<server, late, delivered, again>>
  <2>1. PICK o : o = Asks(alive.peer, OurNext)
    OBVIOUS
  <2>2. PICK q : q = [alive.peer EXCEPT !.hs = OurNext, !.sendHs = FALSE, !.wait = TRUE, !.mac1 = TRUE]
    OBVIOUS
  <2>3. o.peer = q /\ o.sent = {InitiationMessage(alive.peer, OurNext)}
    BY <2>1, <2>2 DEF Asks, Sends
  <2>4. q.hs = OurNext
    BY <1>2, <2>2 DEF Peers
  <2>5. CASE /\ peer.open /\ Spend("ours") /\ TimerSends(o.peer, alive.sent, o.sent)
    BY <2>2, <2>3, <2>5 DEF TimerSends, Spend
  <2>6. CASE /\ peer.open /\ left.faults > 0 /\ left.ours > 0
             /\ left' = [left EXCEPT !.ours = @ - 1, !.faults = @ - 1]
             /\ TimerSends([alive.peer EXCEPT !.hs = o.peer.hs], alive.sent, {})
    <3>1. PICK r : r = [alive.peer EXCEPT !.hs = OurNext]
      OBVIOUS
    <3>2. [alive.peer EXCEPT !.hs = o.peer.hs] = r
      BY <2>3, <2>4, <3>1
    <3>3. /\ peer' = LinkChecked(r) /\ net' = (net \cup alive.sent) \cup {}
          /\ UNCHANGED <<server, late, delivered, again>>
      BY <2>6, <3>2 DEF TimerSends
    <3> QED BY <2>6, <3>1, <3>3
  <2> QED BY <1>1, <2>1, <2>5, <2>6 DEF TimerInitiates
<1>4. left \in Remaining
  BY DEF Inv, TypeInv
<1>5. left' \in Remaining /\ left'.ours = left.ours - 1
  <2>1. CASE left' = [left EXCEPT !.ours = @ - 1]
    BY <1>3, <1>4, <2>1, SpendProperties DEF Spend, Bounds, Remaining
  <2>2. CASE left.faults > 0 /\ left' = [left EXCEPT !.ours = @ - 1, !.faults = @ - 1]
    <3>1. left \in [Bounds -> Nat] /\ "ours" \in Bounds /\ "faults" \in Bounds /\ "theirs" \in Bounds
      BY <1>4 DEF Remaining, Bounds
    <3>2. left["ours"] \in Nat /\ left["faults"] \in Nat
      BY <3>1
    <3>3. PICK a \in Nat, b \in Nat : a = left["ours"] - 1 /\ b = left["faults"] - 1
      <4>1. left["ours"] - 1 \in Nat
        BY ONLY <1>3, <3>2
      <4>2. left["faults"] - 1 \in Nat
        BY ONLY <2>2, <3>2
      <4> QED BY <4>1, <4>2
    <3>4. left' = [left EXCEPT !["ours"] = a, !["faults"] = b]
      BY <2>2, <3>3
    <3>5. left' \in [Bounds -> Nat] /\ left'["ours"] = a /\ left'["theirs"] = left["theirs"]
      BY <3>1, <3>4
    <3>6. left.ours <= MaxOurs /\ left.theirs <= MaxTheirs /\ MaxOurs \in Nat
      BY <1>4, JourneyAssumption DEF Remaining
    <3>7. a <= MaxOurs
      BY ONLY <3>2, <3>3, <3>6
    <3> QED BY <3>3, <3>5, <3>6, <3>7 DEF Remaining
  <2> QED BY <1>3, <2>1, <2>2
<1>6. OurNext \in Ours /\ OurNext[2] = Used + 1 /\ Used \in Nat
  BY <1>3, <1>4, OurNextProperties
<1>7. Used' = Used + 1
  <2>1. left.ours \in Nat /\ MaxOurs \in Nat
    BY <1>4, JourneyAssumption DEF Remaining, Bounds
  <2> QED BY <1>5, <2>1 DEF Used
<1>8. /\ r \in Peers /\ r.hs = OurNext /\ r.greatest = alive.peer.greatest /\ r.curr = alive.peer.curr
      /\ r.prev = alive.peer.prev /\ r.next = alive.peer.next /\ r.open = alive.peer.open
  BY <1>2, <1>3, <1>6 DEF Peers
<1>9. Sound(r, Used + 1, delivered, server.agreed)
  <2>1. delivered \in SUBSET (Keys \X Nat)
    BY DEF Inv, TypeInv
  <2> QED BY <1>2, <1>6, <1>8, <2>1, SoundAsked
<1>10. Trims(r, peer')
  BY <1>3, <1>8, LinkTrims
<1>11. Sound(peer', Used', delivered, server.agreed)
  BY <1>7, <1>8, <1>9, <1>10, SoundTrims
<1>12. peer' \in Peers /\ peer'.open
  BY <1>2, <1>3, <1>8, <1>10 DEF Trims
<1>13. \A m \in msgs : m \in Messages /\ m.to = "server"
  <2>1. alive.peer.cookie \in BOOLEAN /\ OurNext \in Keys
    BY <1>2, <1>6, KeyParts DEF Peers
  <2> QED BY <1>3, <2>1 DEF InitiationMessage, Message, Messages
<1>14. Inv'
  BY <1>2, <1>3, <1>5, <1>11, <1>12, <1>13, DeviceStep
<1>15. KeyLost
  BY <1>2, <1>8, <1>10 DEF KeyLost, Trims, Valid
<1> QED BY <1>3, <1>14, <1>15

(* An application's packet. *)
LEMMA OutputStep ==
  ASSUME Inv, Output
  PROVE  Inv' /\ KeyLost /\ UNCHANGED again
<1>1. PICK o : o = OutputToPeer(peer)
  OBVIOUS
<1>2. /\ peer.open /\ peer' = o.peer /\ net' = net \cup o.sent
      /\ UNCHANGED <<server, late, left, delivered, again>>
  BY <1>1 DEF Output
<1>3. peer \in Peers /\ Sound(peer, Used, delivered, server.agreed) /\ left \in Remaining
  BY DEF Inv, TypeInv, PeerInv
<1>4. Trims(peer, peer') /\ \A m \in o.sent : m \in Messages /\ m.to = "server"
  BY <1>1, <1>2, <1>3, OutputTrims
<1>5. Sound(peer', Used', delivered, server.agreed)
  <2>1. Used' = Used
    BY <1>2 DEF Used
  <2> QED BY <1>3, <1>4, <2>1, SoundTrims
<1>6. peer' \in Peers /\ peer'.open
  BY <1>2, <1>4 DEF Trims
<1>7. Inv'
  BY <1>2, <1>3, <1>4, <1>5, <1>6, DeviceStep
<1>8. KeyLost
  BY <1>4 DEF KeyLost, Trims, Valid
<1> QED BY <1>2, <1>7, <1>8

(* Time passes. *)
LEMMA TimeSteps ==
  ASSUME Inv, RekeyTimeout \/ ClockTick
  PROVE  Inv' /\ KeyLost /\ UNCHANGED again
<1>1. peer \in Peers /\ Sound(peer, Used, delivered, server.agreed) /\ left \in Remaining
  BY DEF Inv, TypeInv, PeerInv
<1>2. CASE RekeyTimeout
  <2>1. peer' = [peer EXCEPT !.wait = FALSE] /\ UNCHANGED <<server, net, late, left, delivered, again>>
    BY <1>2 DEF RekeyTimeout
  <2>2. /\ peer' \in Peers /\ peer'.open = peer.open /\ peer'.curr = peer.curr /\ peer'.prev = peer.prev
        /\ peer'.next = peer.next /\ peer'.hs = peer.hs /\ peer'.greatest = peer.greatest
    BY <1>1, <2>1 DEF Peers
  <2>3. Sound(peer', Used', delivered, server.agreed)
    <3>1. Used' = Used
      BY <2>1 DEF Used
    <3> QED BY <1>1, <2>2, <3>1, SoundFlag
  <2>4. Inv'
    <3>1. peer'.open \/ peer'.curr = None
      BY <2>2 DEF Inv, ClosedInv
    <3> QED BY <1>1, <2>1, <2>2, <2>3, <3>1, DeviceStep
  <2> QED BY <2>1, <2>2, <2>4 DEF KeyLost
<1>3. CASE ClockTick
  <2>1. /\ peer' = [peer EXCEPT !.curr = Aged(@), !.prev = Aged(@), !.next = Aged(@),
                                !.silence = Elapsed(@), !.cookie = FALSE]
        /\ peer.open /\ Spend("ticks") /\ UNCHANGED <<server, net, late, delivered, again>>
    BY <1>3 DEF ClockTick
  <2>2. left' \in Remaining /\ left'.ours = left.ours
    BY <1>1, <2>1, SpendProperties DEF Bounds
  <2>3. /\ peer' \in Peers /\ Sound(peer', Used, delivered, server.agreed)
        /\ peer'.curr = None => peer.curr = None
    BY <1>1, <2>1, SoundAged
  <2>4. peer'.open /\ Used' = Used
    BY <1>1, <2>1, <2>2 DEF Peers, Used
  <2>5. Inv'
    BY <2>1, <2>2, <2>3, <2>4, DeviceStep
  <2> QED BY <2>1, <2>3, <2>5 DEF KeyLost, Valid
<1> QED BY <1>2, <1>3

(* A message that arrives at the device. *)
LEMMA ReceivedStep ==
  ASSUME Inv, NEW m \in net, Received(m)
  PROVE  /\ Inv' /\ KeyLost
         /\ \A d \in again' : d \in again \/ d[1] \notin Ours
<1>1. PICK r : r = NetworkRx(peer, m)
  OBVIOUS
<1>2. /\ m.to = "us" /\ peer' = r.peer /\ delivered' = delivered \cup r.input
      /\ again' = again \cup (r.input \cap delivered) /\ net' = (net \ {m}) \cup r.sent
      /\ UNCHANGED <<server, late, left>>
  BY <1>1 DEF Received
<1>3. /\ peer \in Peers /\ Sound(peer, Used, delivered, server.agreed)
      /\ delivered \in SUBSET (Keys \X Nat) /\ m \in Messages /\ Genuine(m, server.agreed)
  BY DEF Inv, TypeInv, PeerInv, MessageInv
<1>4. Keeps(peer, r, Used, delivered, server.agreed)
  BY <1>1, <1>2, <1>3, KeepsReceived
<1>5. Used' = Used
  BY <1>2 DEF Used
<1>6. TypeInv'
  BY <1>2, <1>4 DEF Keeps, Inv, TypeInv
<1>7. PeerInv'
  BY <1>2, <1>4, <1>5 DEF Keeps, PeerInv
<1>8. ServerInv' /\ MessageInv'
  BY <1>2, <1>4 DEF Keeps, Inv, ServerInv, MessageInv, Genuine
<1>9. ClosedInv'
  <2>1. CASE peer.open
    BY <1>2, <1>4, <2>1 DEF Keeps, ClosedInv
  <2>2. CASE ~peer.open
    <3>1. r.peer = peer
      BY <1>1, <2>2 DEF NetworkRx, Ignored, Handles
    <3> QED BY <1>2, <3>1 DEF Inv, ClosedInv
  <2> QED BY <2>1, <2>2
<1>10. KeyLost
  BY <1>2, <1>4 DEF Keeps, KeyLost, Valid
<1>11. \A d \in again' : d \in again \/ d[1] \notin Ours
  BY <1>2, <1>4 DEF Keeps
<1> QED BY <1>6, <1>7, <1>8, <1>9, <1>10, <1>11 DEF Inv

(* What the server has sent is a message, and genuine. *)
LEMMA ServerMessages ==
  ASSUME NEW k \in Keys, NEW ks
  PROVE  /\ \A type \in {"initiation", "response", "cookie"} :
              /\ Message("us", type, k) \in Messages
              /\ type = "cookie" \/ (type = "response" /\ k \in ks) \/ (type = "initiation" /\ k \in Theirs)
                 => Genuine(Message("us", type, k), ks)
         /\ \A nonce \in Nat, payload \in BOOLEAN :
              /\ Data("us", k, nonce, payload) \in Messages
              /\ k \in ks => Genuine(Data("us", k, nonce, payload), ks)
<1>1. ASSUME NEW type \in {"initiation", "response", "cookie"}
      PROVE  /\ Message("us", type, k) \in Messages
             /\ Message("us", type, k).type = type /\ Message("us", type, k).key = k
  BY DEF Message, Messages
<1>2. ASSUME NEW nonce \in Nat, NEW payload \in BOOLEAN
      PROVE  /\ Data("us", k, nonce, payload) \in Messages
             /\ Data("us", k, nonce, payload).type = "data" /\ Data("us", k, nonce, payload).key = k
  BY DEF Data, Message, Messages
<1> QED BY <1>1, <1>2 DEF Genuine

(* The server after an agreement, and after a packet. *)
LEMMA ServerRecords ==
  ASSUME server \in Servers, ServerInv, NEW k \in Keys
  PROVE  /\ Agreed(k) \in Servers /\ Agreed(k).agreed = server.agreed \cup {k}
         /\ Agreed(k).keys \subseteq Agreed(k).agreed /\ Agreed(k).use = server.use
         /\ \A s \in Servers : s.use \in Keys =>
              /\ Sent(s) \in Servers /\ Sent(s).agreed = s.agreed /\ Sent(s).keys = s.keys
              /\ Sent(s).use = s.use
<1>1. Agreed(k) = [server EXCEPT !.agreed = server.agreed \cup {k}, !.keys = server.keys \cup {k}]
  BY DEF Agreed, Servers
<1>2. ASSUME NEW s \in Servers, s.use \in Keys
      PROVE  /\ Sent(s) \in Servers /\ Sent(s).agreed = s.agreed /\ Sent(s).keys = s.keys
             /\ Sent(s).use = s.use
  <2>1. PICK count \in [Keys -> Nat] : count = [s.sent EXCEPT ![s.use] = @ + 1]
    <3>1. s.sent \in [Keys -> Nat] /\ s.sent[s.use] \in Nat
      BY <1>2 DEF Servers
    <3>2. s.sent[s.use] + 1 \in Nat
      BY ONLY <3>1
    <3> QED BY <3>1, <3>2
  <2>2. Sent(s) = [s EXCEPT !.sent = count]
    BY <2>1 DEF Sent, Servers
  <2> QED BY <2>2 DEF Servers
<1>3. PICK ags, kys : ags = server.agreed \cup {k} /\ kys = server.keys \cup {k}
  OBVIOUS
<1>4. ags \in SUBSET Keys /\ kys \in SUBSET Keys /\ kys \subseteq ags
  BY <1>3 DEF Servers, ServerInv
<1>5. Agreed(k) = [server EXCEPT !.agreed = ags, !.keys = kys]
  BY <1>1, <1>3
<1>6. /\ Agreed(k) \in Servers /\ Agreed(k).agreed = ags /\ Agreed(k).keys = kys
      /\ Agreed(k).use = server.use
  BY <1>4, <1>5 DEF Servers
<1> QED BY <1>2, <1>3, <1>4, <1>6

(* A message that arrives at the server. *)
LEMMA ServerReceivesStep ==
  ASSUME Inv, NEW m \in net, ServerReceives(m)
  PROVE  Inv' /\ KeyLost /\ UNCHANGED again
<1>1. /\ server \in Servers /\ ServerInv /\ m \in Messages /\ m.key \in Keys /\ left \in Remaining
      /\ m.to = "server"
  BY DEF Inv, TypeInv, Messages, ServerReceives
<1>2. PICK rest : rest = net \ {m}
  OBVIOUS
<1>3. ASSUME NEW s \in Servers, server.agreed \subseteq s.agreed, s.keys \subseteq s.agreed,
             s.use # None => s.use \in s.agreed,
             NEW n, \A x \in n : x \in rest \/ (x \in Messages /\ Genuine(x, s.agreed)),
             ServerStep(s, n)
      PROVE  Inv' /\ KeyLost /\ UNCHANGED again
  <2>1. /\ server' = s /\ net' = n
        /\ UNCHANGED <<peer, due, late, left, delivered, again>>
    BY <1>3 DEF ServerStep
  <2>2. ServerInv'
    BY <1>3, <2>1 DEF ServerInv
  <2>3. \A x \in net' \cup late' : x \in net \cup late \/ (x \in Messages /\ Genuine(x, server'.agreed))
    BY <1>2, <1>3, <2>1
  <2>4. Inv'
    BY <1>1, <1>3, <2>1, <2>2, <2>3, NetworkStep
  <2> QED BY <2>1, <2>4 DEF KeyLost
<1>4. ASSUME NEW s \in {server, [server EXCEPT !.use = m.key]}, ServerStep(s, rest),
             s = server \/ m.key \in server.keys
      PROVE  Inv' /\ KeyLost /\ UNCHANGED again
  <2>1. s \in Servers /\ s.agreed = server.agreed /\ s.keys = server.keys /\ s.use \in {server.use, m.key}
    BY <1>1, <1>4 DEF Servers
  <2>2. (s.use # None => s.use \in s.agreed) /\ s.keys \subseteq s.agreed
    BY <1>1, <1>4, <2>1 DEF ServerInv
  <2> QED BY <1>3, <1>4, <2>1, <2>2
<1>5. CASE ServerStep(server, rest \cup {Message("us", "cookie", m.key)})
  <2>1. PICK x, n : x = Message("us", "cookie", m.key) /\ n = rest \cup {x}
    OBVIOUS
  <2>2. x \in Messages /\ Genuine(x, server.agreed)
    BY <1>1, <2>1, ServerMessages
  <2>3. ServerStep(server, n)
    BY <1>5, <2>1
  <2>4. (server.use # None => server.use \in server.agreed) /\ server.keys \subseteq server.agreed
    BY <1>1 DEF ServerInv
  <2> QED BY <1>1, <1>3, <2>1, <2>2, <2>3, <2>4
<1>6. CASE ServerStep([Agreed(m.key) EXCEPT !.seen = m.key[2]],
                      rest \cup {Message("us", "response", m.key)})
  <2>1. PICK s : s = [Agreed(m.key) EXCEPT !.seen = m.key[2]]
    OBVIOUS
  <2>2. m.key[2] \in Nat
    BY <1>1, KeyParts
  <2>3. /\ s \in Servers /\ s.agreed = server.agreed \cup {m.key} /\ s.keys \subseteq s.agreed
        /\ s.use = server.use
    BY <1>1, <2>1, <2>2, ServerRecords DEF Servers
  <2>4. PICK x, n : x = Message("us", "response", m.key) /\ n = rest \cup {x}
    OBVIOUS
  <2>5. x \in Messages /\ Genuine(x, s.agreed)
    BY <1>1, <2>3, <2>4, ServerMessages
  <2>6. ServerStep(s, n)
    BY <1>6, <2>1, <2>4
  <2>7. server.agreed \subseteq s.agreed /\ (s.use # None => s.use \in s.agreed)
    BY <1>1, <2>3 DEF ServerInv
  <2> QED BY <1>3, <2>3, <2>4, <2>5, <2>6, <2>7
<1>7. CASE ServerStep(Sent([Agreed(m.key) EXCEPT !.asked = None, !.use = m.key]),
                      rest \cup {Data("us", m.key, 0, FALSE)})
  <2>1. PICK s : s = [Agreed(m.key) EXCEPT !.asked = None, !.use = m.key]
    OBVIOUS
  <2>2. /\ s \in Servers /\ s.agreed = server.agreed \cup {m.key} /\ s.keys \subseteq s.agreed
        /\ s.use = m.key
    BY <1>1, <2>1, ServerRecords DEF Servers
  <2>3. PICK t : t = Sent(s)
    OBVIOUS
  <2>4. t \in Servers /\ t.agreed = s.agreed /\ t.keys = s.keys /\ t.use = m.key
    BY <1>1, <2>2, <2>3, ServerRecords
  <2>5. PICK x, n : x = Data("us", m.key, 0, FALSE) /\ n = rest \cup {x}
    OBVIOUS
  <2>6. x \in Messages /\ Genuine(x, t.agreed)
    <3>1. m.key \in t.agreed
      BY <2>2, <2>4
    <3> QED BY <1>1, <2>5, <3>1, ServerMessages
  <2>7. ServerStep(t, n)
    BY <1>7, <2>1, <2>3, <2>5
  <2>8. /\ server.agreed \subseteq t.agreed /\ t.keys \subseteq t.agreed
        /\ t.use # None => t.use \in t.agreed
    BY <2>2, <2>4
  <2> QED BY <1>3, <2>4, <2>5, <2>6, <2>7, <2>8
<1> QED BY <1>2, <1>4, <1>5, <1>6, <1>7 DEF ServerReceives

(* What the server does of itself. *)
LEMMA ServerSteps ==
  ASSUME Inv, ServerSends \/ ServerInitiates \/ ServerRestarts
  PROVE  Inv' /\ KeyLost /\ UNCHANGED again
<1>1. server \in Servers /\ ServerInv /\ left \in Remaining
  BY DEF Inv, TypeInv
<1>2. UNCHANGED <<peer, late, delivered, again>>
  BY DEF ServerSends, ServerInitiates, ServerRestarts
<1>3. left' \in Remaining /\ left'.ours = left.ours
  BY <1>1, SpendProperties DEF ServerSends, ServerInitiates, ServerRestarts, Bounds
<1>4. CASE ServerSends
  <2>1. server.use \in Keys /\ server.use \in server.agreed /\ server.sent[server.use] \in Nat
    BY <1>1, <1>4 DEF ServerSends, Servers, ServerInv
  <2>2. server' \in Servers /\ server'.agreed = server.agreed /\ ServerInv'
    BY <1>1, <1>4, <2>1, ServerRecords DEF ServerSends, ServerInv
  <2>3. PICK x : x = Data("us", server.use, server.sent[server.use], TRUE)
    OBVIOUS
  <2>4. x \in Messages /\ Genuine(x, server'.agreed)
    BY <2>1, <2>2, <2>3, ServerMessages
  <2>5. net' = net \cup {x}
    BY <1>4, <2>3 DEF ServerSends
  <2> QED BY <1>2, <1>3, <2>2, <2>4, <2>5, NetworkStep DEF KeyLost
<1>5. CASE ServerInitiates
  <2>1. TheirNext \in Theirs /\ TheirNext \in Keys
    <3>1. left.theirs \in Nat /\ left.theirs > 0 /\ left.theirs <= MaxTheirs /\ MaxTheirs \in Nat
      BY <1>1, <1>5, JourneyAssumption DEF ServerInitiates, Spend, Remaining, Bounds
    <3>2. PICK k \in 1..MaxTheirs : k = MaxTheirs - left.theirs + 1
      BY <3>1
    <3> QED BY <3>2, KeyParts DEF TheirNext, Theirs
  <2>2. server' \in Servers /\ server'.agreed = server.agreed /\ ServerInv'
    BY <1>1, <1>5, <2>1 DEF ServerInitiates, Servers, ServerInv
  <2>3. PICK x : x = Message("us", "initiation", TheirNext)
    OBVIOUS
  <2>4. x \in Messages /\ Genuine(x, server'.agreed)
    BY <2>1, <2>3, ServerMessages
  <2>5. net' = net \cup {x}
    BY <1>5, <2>3 DEF ServerInitiates
  <2> QED BY <1>2, <1>3, <2>2, <2>4, <2>5, NetworkStep DEF KeyLost
<1>6. CASE ServerRestarts
  <2>1. server' \in Servers /\ server'.agreed = server.agreed /\ ServerInv'
    BY <1>1, <1>6 DEF ServerRestarts, Servers, ServerInv
  <2>2. net' = net
    BY <1>6 DEF ServerRestarts
  <2> QED BY <1>2, <1>3, <2>1, <2>2, NetworkStep DEF KeyLost
<1> QED BY <1>4, <1>5, <1>6

(* The network loses, repeats and delays. *)
LEMMA NetworkSteps ==
  ASSUME Inv, Lose \/ Repeat \/ TurnsUp
  PROVE  Inv' /\ KeyLost /\ UNCHANGED again
<1>1. left \in Remaining /\ server \in Servers /\ ServerInv
  BY DEF Inv, TypeInv
<1>2. UNCHANGED <<peer, server, delivered, again>> /\ net' \cup late' \subseteq net \cup late
  BY DEF Lose, Repeat, TurnsUp
<1>3. left' \in Remaining /\ left'.ours = left.ours
  BY <1>1, SpendProperties DEF Lose, Repeat, TurnsUp, Bounds
<1>4. server' \in Servers /\ server.agreed \subseteq server'.agreed /\ ServerInv'
  BY <1>1, <1>2 DEF ServerInv
<1>5. Inv'
  BY <1>2, <1>3, <1>4, NetworkStep
<1> QED BY <1>2, <1>5 DEF KeyLost

-----------------------------------------------------------------------------
(* The theorems. *)

(* The program starts in the invariant. *)
LEMMA Initially ==
  ASSUME Init
  PROVE  Inv
<1>1. peer = Closed /\ Closed \in Peers
  <2>1. 0 \in 0..MaxTheirs
    BY JourneyAssumption
  <2> QED BY <2>1 DEF Init, Closed, Peers
<1>2. /\ peer.curr = None /\ peer.prev = None /\ peer.next = None /\ peer.hs = None
  BY <1>1 DEF Closed
<1>3. delivered = {} /\ again = {} /\ net = {} /\ late = {}
  BY DEF Init
<1>4. server \in Servers /\ server.agreed = {} /\ server.keys = {} /\ server.use = None
  <2>1. [k \in Keys |-> 0] \in [Keys -> Nat]
    OBVIOUS
  <2> QED BY <2>1 DEF Init, Servers
<1>5. left \in Remaining
  BY JourneyAssumption DEF Init, Remaining
<1>6. TypeInv
  BY <1>1, <1>3, <1>4, <1>5 DEF TypeInv
<1>7. PeerInv
  BY <1>2, <1>3 DEF PeerInv, Sound, KeyState, MarkState, AgreedState, UsedUp, Apart
<1> QED BY <1>2, <1>3, <1>4, <1>6, <1>7 DEF Inv, ServerInv, MessageInv, ClosedInv

(* Every step keeps the invariant; it takes the key in use away for a reason, *)
(* and hands nothing of a session of the device on again.                     *)
LEMMA EveryStep ==
  ASSUME Inv, [Next]_vars
  PROVE  /\ Inv' /\ (KeyLost \/ UNCHANGED vars)
         /\ \A d \in again' : d \in again \/ d[1] \notin Ours
<1>1. CASE UNCHANGED vars
  BY <1>1 DEF vars, Inv, TypeInv, PeerInv, ServerInv, MessageInv, ClosedInv, Used
<1>2. CASE Begin \/ End
  BY <1>2, BeginEndSteps
<1>3. CASE Timer
  BY <1>3, TimerStep
<1>4. CASE TimerInitiates
  BY <1>4, TimerInitiatesStep
<1>5. CASE Output
  BY <1>5, OutputStep
<1>6. CASE RekeyTimeout \/ ClockTick
  BY <1>6, TimeSteps
<1>7. CASE ServerSends \/ ServerInitiates \/ ServerRestarts
  BY <1>7, ServerSteps
<1>8. CASE Lose \/ Repeat \/ TurnsUp
  BY <1>8, NetworkSteps
<1>9. CASE Arrives
  <2>1. PICK m \in net : Received(m) \/ ServerReceives(m)
    BY <1>9 DEF Arrives
  <2>2. CASE Received(m)
    BY <2>2, ReceivedStep
  <2>3. CASE ServerReceives(m)
    BY <2>3, ServerReceivesStep
  <2> QED BY <2>1, <2>2, <2>3
<1> QED BY <1>1, <1>2, <1>3, <1>4, <1>5, <1>6, <1>7, <1>8, <1>9 DEF Next

(* The invariant holds in every state a tunnel can reach. *)
THEOREM Invariance == Spec => []Inv
<1>1. Init => Inv
  BY Initially
<1>2. Inv /\ [Next]_vars => Inv'
  BY EveryStep
<1> QED BY <1>1, <1>2, PTL DEF Spec

(* Every variable keeps its type, with every number of handshakes and every   *)
(* journey.                                                                   *)
THEOREM TunnelTypeCorrect == Spec => []TypeOK
<1>1. Inv => TypeOK
  BY DEF Inv, TypeInv, TypeOK, Peers
<1> QED BY <1>1, Invariance, PTL

(* A packet under a session the device started reaches the IP layer at most   *)
(* once, however the network repeats, delays and reorders, and whatever the   *)
(* sizes of the window (wireguard_check_replay()): the window of the key bars *)
(* it while the keypair lives, and no other keypair gets that key.            *)
THEOREM OursOnce == Spec => []OursDeliveredOnce
<1>1. Init => OursDeliveredOnce
  BY DEF Init, OursDeliveredOnce
<1>2. Inv /\ OursDeliveredOnce /\ [Next]_vars => OursDeliveredOnce'
  <2> SUFFICES ASSUME Inv, OursDeliveredOnce, [Next]_vars PROVE OursDeliveredOnce'
    OBVIOUS
  <2>1. \A d \in again' : d \in again \/ d[1] \notin Ours
    BY EveryStep
  <2> QED BY <2>1 DEF OursDeliveredOnce
<1> QED BY <1>1, <1>2, Invariance, PTL DEF Spec

(* The key the device sends under is one the server derived too               *)
(* (add_new_keypair(), keypair_update()): the response or the first packet    *)
(* that puts a session in use was sent after the server had agreed to it.     *)
THEOREM SendsUnderAgreedKeys == Spec => []SendsAgreed
<1>1. Inv => SendsAgreed
  BY DEF Inv, PeerInv, Sound, AgreedState, SendsAgreed, Valid
<1> QED BY <1>1, Invariance, PTL

(* No two slots hold one key, so get_peer_keypair_for_idx() finds the one     *)
(* keypair an index means.                                                    *)
THEOREM KeysApart == Spec => []OneSlotPerKey
<1>1. Inv => OneSlotPerKey
  <2> SUFFICES ASSUME Inv, NEW s \in Slots, NEW t \in Slots, s # t, Valid(peer[s]), Valid(peer[t])
               PROVE  peer[s].key # peer[t].key
    BY DEF OneSlotPerKey
  <2>1. Apart(peer.curr, peer.prev) /\ Apart(peer.curr, peer.next) /\ Apart(peer.prev, peer.next)
    BY DEF Inv, PeerInv, Sound, KeyState
  <2> QED BY <2>1 DEF Apart, Slots, Valid
<1> QED BY <1>1, Invariance, PTL

(* A step takes the key in use away only for another, or because it expired   *)
(* or the tunnel ended: no message and no run of the timer cuts the traffic.  *)
THEOREM KeyInUseKept == Spec => KeyKept
<1>1. Inv /\ [Next]_vars => [KeyLost]_vars
  BY EveryStep
<1> QED BY <1>1, Invariance, PTL DEF Spec, KeyKept, KeyLost
=============================================================================
