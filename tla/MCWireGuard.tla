----------------------------- MODULE MCWireGuard -----------------------------
(* Four journeys, each long in what it is about: keys that age and are          *)
(* replaced from both sides; packets lost, delayed and repeated; handshakes    *)
(* that fail, against a server under load or not; tunnels begun anew while     *)
(* messages of the last one are still on their way.                            *)
EXTENDS WireGuardTunnel

Journey(ours, theirs, packets, ticks, faults, begins, keepalive) ==
  [ours |-> ours, theirs |-> theirs, packets |-> packets, ticks |-> ticks,
   faults |-> faults, begins |-> begins, keepalive |-> keepalive]
MCJourneys == {Journey(3, 1, 0, 3, 0, 1, keepalive) : keepalive \in 0 .. 4}
                \cup {Journey(2, 0, 1, 4, 0, 1, keepalive) : keepalive \in 0 .. 4}
                \cup {Journey(1, 1, 3, 0, 1, 1, 1), Journey(3, 0, 0, 1, 2, 1, 1),
                      Journey(3, 1, 0, 0, 1, 2, 1)}
=============================================================================
