--------------------------- MODULE WireGuardTunnel ---------------------------
(* The peer of WireGuardPeer, run by the tcpip thread, against a WireGuard     *)
(* server over a network that loses, delays, reorders and repeats.  The        *)
(* server, which is not in src/, does what the protocol has it do: it answers  *)
(* an initiation newer than all it has seen, under load only with a cookie's   *)
(* mac2; it sends under a key it knows the other side to have; it may start a  *)
(* handshake itself, and may restart and lose every key.                       *)
EXTENDS WireGuardPeer

(* A journey bounds a behaviour: the handshakes each side may start, the       *)
(* server's packets, clock steps, faults, and tunnels begun; and has the       *)
(* keepalive setting of its tunnels, which is not spent.                       *)
CONSTANT Journeys
Bounds == {"ours", "theirs", "packets", "ticks", "faults", "begins", "keepalive"}
ASSUME JourneyAssumption ==
  /\ MaxOurs \in Nat /\ MaxTheirs \in Nat
  /\ \A j \in Journeys : j \in [Bounds -> Nat] /\ j.ours <= MaxOurs /\ j.theirs <= MaxTheirs

VARIABLES peer,       \* the device's one peer, Closed without a tunnel
          due,        \* the timer has not run since the clock moved
          server,
          net,        \* messages that arrive in time
          late,       \* those lost, delayed or repeated: they may still arrive
          left,       \* what is left of the bounds
          delivered, again  \* packets handed to the IP layer, and those handed twice

vars == <<peer, due, server, net, late, left, delivered, again>>

Init ==
  /\ peer = Closed /\ due = FALSE
  /\ server \in [agreed : {{}}, keys : {{}}, use : {None}, asked : {None}, seen : {0},
                 sent : {[k \in Keys |-> 0]}, busy : BOOLEAN]
  /\ net = {} /\ late = {} /\ delivered = {} /\ again = {}
  /\ left \in Journeys

Spend(what) == /\ left[what] > 0
               /\ left' = [left EXCEPT ![what] = @ - 1]
OurNext == <<"us", MaxOurs - left.ours + 1>>
TheirNext == <<"them", MaxTheirs - left.theirs + 1>>
HandshakeIn(msgs) == \E m \in msgs : m.type # "data"

-----------------------------------------------------------------------------
(* The device.                                                                *)

(* wireguardif_init(), add_peer() and connect() of begin_core_locked().       *)
Begin == /\ ~peer.open /\ Spend("begins")
         /\ peer' = Connected(left.keepalive)
         /\ UNCHANGED <<due, server, net, late, delivered, again>>
(* disconnect(), remove_peer() and shutdown() of end_core_locked().           *)
End == /\ peer.open /\ peer' = Closed /\ due' = FALSE
       /\ UNCHANGED <<server, net, late, left, delivered, again>>

(* One run of the timer.  When no buffer is to be had, the handshake has      *)
(* begun without its initiation, and the timer tries again on its next run.   *)
TimerSends(p, alive, o) == /\ peer' = LinkChecked(p)
                           /\ net' = net \cup alive \cup o
                           /\ due' = FALSE
                           /\ UNCHANGED <<server, late, delivered, again>>
Timer ==
  LET alive == KeptAlive(Purged(peer))
  IN /\ peer.open
     /\ ~ShouldInitiate(alive.peer)
     /\ TimerSends(alive.peer, alive.sent, {})
     /\ UNCHANGED left
TimerInitiates ==
  LET alive == KeptAlive(Purged(peer))
      o == Asks(alive.peer, OurNext)
  IN /\ peer.open
     /\ ShouldInitiate(alive.peer)
     /\ \/ /\ Spend("ours")
           /\ TimerSends(o.peer, alive.sent, o.sent)
        \/ /\ left.faults > 0 /\ left.ours > 0
           /\ left' = [left EXCEPT !.ours = @ - 1, !.faults = @ - 1]
           /\ TimerSends([alive.peer EXCEPT !.hs = o.peer.hs], alive.sent, {})

(* An application's packet, routed to the tunnel while its link is up.        *)
Output == LET o == OutputToPeer(peer)
          IN /\ peer.open /\ peer.link
             /\ peer' = o.peer /\ net' = net \cup o.sent
             /\ UNCHANGED <<due, server, late, left, delivered, again>>

Received(m) ==
  LET r == NetworkRx(peer, m)
  IN /\ m.to = "us"
     /\ peer' = r.peer
     /\ delivered' = delivered \cup r.input
     /\ again' = again \cup (r.input \cap delivered)
     /\ net' = (net \ {m}) \cup r.sent
     /\ UNCHANGED <<due, server, late, left>>

-----------------------------------------------------------------------------
(* Time.  Messages that are not late arrive before five seconds are over.     *)
RekeyTimeout == /\ peer.wait /\ ~HandshakeIn(net)
                /\ peer' = [peer EXCEPT !.wait = FALSE] /\ due' = TRUE
                /\ UNCHANGED <<server, net, late, left, delivered, again>>

Aged(kp) == IF Valid(kp) /\ kp.age < ResetAfter THEN [kp EXCEPT !.age = @ + 1] ELSE kp
Elapsed(n) == IF n > 0 THEN n - 1 ELSE 0
ClockTick ==
  /\ peer.open /\ ~peer.wait /\ ~due /\ net = {} /\ Spend("ticks")
  /\ due' = TRUE
  /\ peer' = [peer EXCEPT !.curr = Aged(@), !.prev = Aged(@), !.next = Aged(@),
                          !.silence = Elapsed(@), !.cookie = FALSE]
  /\ UNCHANGED <<server, net, late, delivered, again>>

-----------------------------------------------------------------------------
(* The server and the network.                                                *)

ServerStep(s, n) == /\ server' = s /\ net' = n
                    /\ UNCHANGED <<peer, due, late, left, delivered, again>>
Agreed(k) == [server EXCEPT !.agreed = @ \cup {k}, !.keys = @ \cup {k}]
Sent(s) == [s EXCEPT !.sent[s.use] = @ + 1]

ServerReceives(m) ==
  /\ m.to = "server"
  /\ LET rest == net \ {m}
     IN \/ /\ m.type = "initiation" /\ m.key[2] > server.seen /\ server.busy /\ ~m.payload
           /\ ServerStep(server, rest \cup {Message("us", "cookie", m.key)})
        \/ /\ m.type = "initiation" /\ m.key[2] > server.seen /\ (server.busy => m.payload)
           /\ ServerStep([Agreed(m.key) EXCEPT !.seen = m.key[2]],
                         rest \cup {Message("us", "response", m.key)})
        \/ /\ m.type = "initiation" /\ m.key[2] <= server.seen
           /\ ServerStep(server, rest)
        \/ /\ m.type = "response" /\ m.key = server.asked
           /\ ServerStep(Sent([Agreed(m.key) EXCEPT !.asked = None, !.use = m.key]),
                         rest \cup {Data("us", m.key, 0, FALSE)})
        \/ /\ m.type = "response" /\ m.key # server.asked
           /\ ServerStep(server, rest)
        \/ /\ m.type = "data" /\ m.key \in server.keys
           /\ \/ ServerStep([server EXCEPT !.use = m.key], rest)
              \/ server.use # None /\ ServerStep(server, rest)
        \/ /\ m.type = "data" /\ m.key \notin server.keys
           /\ ServerStep(server, rest)

ServerSends ==
  /\ server.use # None /\ Spend("packets")
  /\ server' = Sent(server)
  /\ net' = net \cup {Data("us", server.use, server.sent[server.use], TRUE)}
  /\ UNCHANGED <<peer, due, late, delivered, again>>
ServerInitiates ==
  /\ server.keys # {} /\ Spend("theirs")
  /\ server' = [server EXCEPT !.asked = TheirNext]
  /\ net' = net \cup {Message("us", "initiation", TheirNext)}
  /\ UNCHANGED <<peer, due, late, delivered, again>>
ServerRestarts ==
  /\ server.keys # {} /\ Spend("faults")
  /\ server' = [server EXCEPT !.keys = {}, !.use = None, !.asked = None]
  /\ UNCHANGED <<peer, due, net, late, delivered, again>>

Lose == \E m \in net :
  /\ Spend("faults")
  /\ net' = net \ {m} /\ late' = late \cup {m}
  /\ UNCHANGED <<peer, due, server, delivered, again>>
Repeat == \E m \in net :
  /\ Spend("faults")
  /\ late' = late \cup {m}
  /\ UNCHANGED <<peer, due, server, net, delivered, again>>
Arrives == \E m \in net : Received(m) \/ ServerReceives(m)
TurnsUp == \E m \in late :
  /\ net' = net \cup {m} /\ late' = late \ {m}
  /\ UNCHANGED <<peer, due, server, left, delivered, again>>

Next == \/ Begin \/ End \/ Timer \/ TimerInitiates \/ Output \/ RekeyTimeout \/ ClockTick
        \/ ServerSends \/ ServerInitiates \/ ServerRestarts \/ Lose \/ Repeat \/ Arrives \/ TurnsUp
Fairness == /\ WF_vars(Timer \/ TimerInitiates) /\ WF_vars(RekeyTimeout) /\ WF_vars(Arrives)
Spec == Init /\ [][Next]_vars /\ Fairness

-----------------------------------------------------------------------------
(* Every variable keeps its type.                                             *)
TypeOK ==
  /\ peer \in [open : BOOLEAN, curr : Keypairs \cup {None}, prev : Keypairs \cup {None},
               next : Keypairs \cup {None}, hs : Ours \cup {None}, sendHs : BOOLEAN, wait : BOOLEAN,
               cookie : BOOLEAN, mac1 : BOOLEAN, greatest : 0 .. MaxTheirs, link : BOOLEAN,
               keepalive : Nat, silence : Nat]
  /\ again \subseteq delivered /\ delivered \subseteq Keys \X Nat

(* A packet under a session the device started is handed on at most once,     *)
(* however often and in which order the network delivers it                   *)
(* (wireguard_check_replay(), wireguardif_process_data_message()).  The first *)
(* packet under a session the server started is the exception: its mark is    *)
(* lost in keypair_update().                                                  *)
OursDeliveredOnce == \A d \in again : d[1] \notin Ours

(* Whatever key the device sends under, the server derived it too             *)
(* (add_new_keypair(), keypair_update()).                                     *)
SendsAgreed == Valid(peer.curr) => peer.curr.key \in server.agreed

(* No key stands in two slots, so an index means one keypair and no nonce is  *)
(* used by two (get_peer_keypair_for_idx()).                                  *)
OneSlotPerKey == \A s, t \in Slots :
  (s # t /\ Valid(peer[s]) /\ Valid(peer[t])) => peer[s].key # peer[t].key

(* A step takes the key in use away only for another, or because it expired   *)
(* or the tunnel ended: no handshake, however it goes, cuts the traffic.      *)
KeyKept == [][(Valid(peer.curr) /\ ~Valid(peer'.curr))
              => ~peer'.open \/ Expired(peer.curr, RejectAfter)]_vars

(* Once the faults are over, a tunnel without a key gets one, from a server    *)
(* under load as well: a cookie costs one try, the try after it succeeds      *)
(* (should_send_initiation(), wireguard_process_cookie_message()).            *)
Reconnects == (peer.open /\ ~Valid(peer.curr) /\ left.faults = 0 /\ left.ours >= 2)
              ~> (~peer.open \/ Valid(peer.curr))
=============================================================================
