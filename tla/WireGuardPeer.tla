---------------------------- MODULE WireGuardPeer ----------------------------
(* The tunnel's peer of src/lib/WireGuard/src/wireguard.c and wireguardif.c:   *)
(* handshakes, the three keypairs and what a packet or the timer does to them. *)
(* A local index and the secrets derived under it are the name of the          *)
(* handshake: a message that names another key is one the code cannot look up  *)
(* or decrypt.  Times are counted in steps whose thresholds are constants;     *)
(* the limits on the number of messages under a key, 2^60 and more, are out    *)
(* of reach and left out.                                                      *)
EXTENDS ReplayWindow

CONSTANTS None,
          MaxOurs, MaxTheirs,                     \* handshakes started by each side
          RekeyAfter, RejectAfter, ResetAfter,    \* ages of a key
          Retry                                   \* REKEY_TIMEOUT

ASSUME AgeAssumption ==
  /\ {RekeyAfter, RejectAfter, ResetAfter} \subseteq Nat \ {0} /\ Retry \in Nat
  /\ RejectAfter < ResetAfter

Ours == {"us"} \X (1 .. MaxOurs)
Theirs == {"them"} \X (1 .. MaxTheirs)
Keys == Ours \cup Theirs

Keypairs == [key : Keys, initiator : BOOLEAN, age : 0 .. ResetAfter, heard : BOOLEAN, window : Windows]
Slots == {"curr", "prev", "next"}
ASSUME NoneAssumption == None \notin Keypairs \cup Keys \cup Slots

NewKeypair(k, initiator) ==
  [key |-> k, initiator |-> initiator, age |-> 0, heard |-> FALSE, window |-> FreshWindow]

(* hs is the handshake that waits for its response; one the other side starts *)
(* is answered and used up in the same call.  sendHs is send_handshake, wait   *)
(* the 5 seconds after an initiation, greatest the newest initiation answered, *)
(* keepalive the setting, silence what is left of it since the last packet     *)
(* sent.                                                                       *)
Closed == [open |-> FALSE, curr |-> None, prev |-> None, next |-> None, hs |-> None,
           sendHs |-> FALSE, wait |-> FALSE, cookie |-> FALSE, mac1 |-> FALSE,
           greatest |-> 0, link |-> FALSE, keepalive |-> 0, silence |-> 0]
Connected(keepalive) == [Closed EXCEPT !.open = TRUE, !.keepalive = keepalive]

Valid(kp) == kp # None
Expired(kp, age) == kp.age >= age

(* REJECT_AFTER_TIME less a time taken from the setting.  The code subtracts   *)
(* without a sign and nothing bounds the setting by it: where the time is the  *)
(* longer one, wireguard_expired() waits for some 50 days.                     *)
Never == ResetAfter + 1
RejectLess(time) == IF time <= RejectAfter THEN RejectAfter - time ELSE Never
PeerIsUp(p) == p.open /\ (Valid(p.curr) \/ Valid(p.prev))

-----------------------------------------------------------------------------
(* A message: its direction, its key and what the other side can tell of it.  *)
Message(to, type, k) == [to |-> to, type |-> type, key |-> k, nonce |-> 0, payload |-> FALSE]
Data(to, k, nonce, payload) == [Message(to, "data", k) EXCEPT !.nonce = nonce, !.payload = payload]

(* wireguardif_output_to_peer(): the peer after it, and what it sends.  Any    *)
(* packet to the server does: what it carries matters to the server only.     *)
Sends(p, msgs) == [peer |-> p, sent |-> msgs]
SendingSlot(p) == IF Valid(p.curr) /\ ~p.curr.initiator /\ ~p.curr.heard THEN "prev" ELSE "curr"
OutputToPeer(p) ==
  LET slot == SendingSlot(p)
      kp == p[slot]
  IN IF ~Valid(kp) THEN Sends(p, {})
     ELSE IF ~kp.initiator /\ ~kp.heard THEN Sends(p, {})
     ELSE IF Expired(kp, RejectAfter) THEN Sends([p EXCEPT ![slot] = None], {})
     ELSE Sends([p EXCEPT !.silence = p.keepalive, !.sendHs = @ \/ (kp.initiator /\ Expired(kp, RekeyAfter))],
                {Data("server", kp.key, 0, FALSE)})

(* add_new_keypair(), and start_session() around it.                           *)
(* Mutant of NewSession: the responder puts its session in use at once.        *)
NewSessionInUse(p, k, initiator) ==
  LET kp == NewKeypair(k, initiator)
      q == [p EXCEPT !.hs = None]
  IN IF initiator
     THEN [q EXCEPT !.prev = IF Valid(q.next) THEN q.next ELSE q.curr, !.next = None, !.curr = kp]
     ELSE [q EXCEPT !.prev = q.curr, !.curr = [kp EXCEPT !.heard = TRUE]]
(* Mutant of NewSession: the responder keeps no key but the unconfirmed one.   *)
NewSessionAlone(p, k, initiator) ==
  IF initiator THEN [p EXCEPT !.hs = None, !.prev = p.curr, !.next = None, !.curr = NewKeypair(k, initiator)]
  ELSE [p EXCEPT !.hs = None, !.next = NewKeypair(k, initiator), !.prev = None, !.curr = None]
NewSession(p, k, initiator) ==
  LET kp == NewKeypair(k, initiator)
      q == [p EXCEPT !.hs = None]
  IN IF initiator
     THEN [q EXCEPT !.prev = IF Valid(q.next) THEN q.next ELSE q.curr, !.next = None, !.curr = kp]
     ELSE [q EXCEPT !.next = kp, !.prev = None]

-----------------------------------------------------------------------------
(* wireguardif_network_rx(), by message.  A result has what is handed to the  *)
(* IP layer besides.                                                          *)
Handles(p, msgs, up) == [peer |-> p, sent |-> msgs, input |-> up]
Ignored(p) == Handles(p, {}, {})

(* The messages of a handshake.  The initiation has a mac2 while a cookie is    *)
(* known.                                                                      *)
InitiationMessage(p, k) == [Message("server", "initiation", k) EXCEPT !.payload = p.cookie]
ResponseMessage(k) == Message("server", "response", k)
Completes(p, m) == p.hs = m.key
NewestYet(p, m) == m.key[2] > p.greatest

(* Mutant of Initiation: the handshake stays after its session has begun.     *)
InitiationKept(p, m) ==
  IF ~NewestYet(p, m) THEN Ignored(p)
  ELSE Handles([NewSession(p, m.key, FALSE) EXCEPT !.greatest = m.key[2], !.hs = m.key],
               {ResponseMessage(m.key)}, {})
Initiation(p, m) ==
  IF ~NewestYet(p, m) THEN Ignored(p)
  ELSE Handles([NewSession(p, m.key, FALSE) EXCEPT !.greatest = m.key[2]],
               {ResponseMessage(m.key)}, {})

Response(p, m) ==
  IF ~Completes(p, m) THEN Ignored(p)
  ELSE LET o == OutputToPeer(NewSession(p, m.key, TRUE))
       IN Handles([o.peer EXCEPT !.link = TRUE], o.sent, {})

Cookie(p, m) ==
  IF p.hs # m.key \/ ~p.mac1 THEN Ignored(p)
  ELSE Handles([p EXCEPT !.cookie = TRUE, !.mac1 = FALSE], {}, {})

(* get_peer_keypair_for_idx() looks the slots up in this order.               *)
SlotFor(p, k) ==
  LET holds(s) == Valid(p[s]) /\ p[s].key = k
  IN IF holds("curr") THEN "curr" ELSE IF holds("next") THEN "next"
     ELSE IF holds("prev") THEN "prev" ELSE None

(* keypair_update() shuffles the first packet under the next key into use.    *)
(* The code goes on with the pointer it had, which names the cleared slot     *)
(* then: that packet meets a fresh window and leaves no mark.                 *)
(* Mutant of Shuffled: the next slot is not cleared.                           *)
ShuffledTwice(p) == [p EXCEPT !.prev = p.curr, !.curr = p.next]
Shuffled(p) == [p EXCEPT !.prev = p.curr, !.curr = p.next, !.next = None]
DataUnder(p, slot, m) ==
  LET heard == [p EXCEPT ![slot].heard = TRUE, !.link = TRUE]
      rekey == p[slot].initiator /\ Expired(p[slot], RejectLess(p.keepalive + Retry))
      window == IF slot = "next" THEN FreshWindow ELSE p[slot].window
      up == IF m.payload /\ Accepts(window, m.nonce) THEN {<<m.key, m.nonce>>} ELSE {}
  IN IF slot = "next" THEN Handles(Shuffled(heard), {}, up)
     ELSE Handles([heard EXCEPT !.sendHs = @ \/ rekey,
                                ![slot].window = IF m.payload THEN Checked(@, m.nonce) ELSE @],
                  {}, up)
DataMessage(p, m) ==
  LET slot == SlotFor(p, m.key)
  IN IF slot = None THEN Ignored(p)
     ELSE IF Expired(p[slot], RejectAfter) THEN Handles([p EXCEPT ![slot] = None], {}, {})
     ELSE DataUnder(p, slot, m)

NetworkRx(p, m) ==
  IF ~p.open THEN Ignored(p)
  ELSE IF m.type = "initiation" THEN Initiation(p, m)
  ELSE IF m.type = "response"   THEN Response(p, m)
  ELSE IF m.type = "cookie"     THEN Cookie(p, m)
  ELSE DataMessage(p, m)

-----------------------------------------------------------------------------
(* wireguardif_tmr(): reset, expiry, keepalive, initiation, link flag.        *)
Wiped(p) ==
  IF Valid(p.curr) /\ Expired(p.curr, ResetAfter)
  THEN [p EXCEPT !.curr = None, !.prev = None, !.next = None, !.hs = None] ELSE p
Purged(p) ==
  LET q == Wiped(p)
  IN IF Valid(q.curr) /\ Expired(q.curr, RejectAfter) THEN [q EXCEPT !.curr = None] ELSE q
KeptAlive(p) ==
  IF p.keepalive > 0 /\ p.silence = 0 /\ (Valid(p.curr) \/ Valid(p.prev))
  THEN OutputToPeer(p) ELSE Sends(p, {})
ShouldInitiate(p) ==
  /\ ~p.wait
  /\ \/ p.sendHs
     \/ Valid(p.curr) /\ ~p.curr.initiator /\ Expired(p.curr, RejectLess(p.keepalive))
     \/ ~Valid(p.curr)
(* wireguard_start_handshake().                                                *)
(* Mutant of Asks: the mac1 of the initiation is not kept.                    *)
AsksSilently(p, k) ==
  Sends([p EXCEPT !.hs = k, !.sendHs = FALSE, !.wait = TRUE, !.mac1 = FALSE],
        {InitiationMessage(p, k)})
Asks(p, k) ==
  Sends([p EXCEPT !.hs = k, !.sendHs = FALSE, !.wait = TRUE, !.mac1 = TRUE],
        {InitiationMessage(p, k)})
LinkChecked(p) == [p EXCEPT !.link = @ /\ PeerIsUp(p)]
=============================================================================
