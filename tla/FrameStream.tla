----------------------------- MODULE FrameStream -----------------------------
(* What a LAN session promises to the AC service: while the session is up,    *)
(* the frames the device sends are received exactly once and in the order     *)
(* they were sent.  A session may break at any moment; frames that were not   *)
(* received by then are gone with it, and nothing else is.                    *)
EXTENDS Naturals, Sequences

CONSTANT Frame      \* what the device can send

VARIABLES up,       \* the session is usable
          queue,    \* frames sent and not received yet, oldest first
          log       \* frames received in this session

vars == <<up, queue, log>>

Init == up = FALSE /\ queue = <<>> /\ log = <<>>

(* The device sends a frame: a response or an unsolicited push. *)
Send(f) == up /\ queue' = Append(queue, f) /\ UNCHANGED <<up, log>>

(* One read receives the oldest frame and leaves the ones behind it. *)
Receive == /\ up /\ queue # <<>>
           /\ log' = Append(log, Head(queue))
           /\ queue' = Tail(queue)
           /\ UNCHANGED up

(* A session starts; frames the device sent since it accepted it may wait.    *)
Start == /\ ~up /\ up' = TRUE /\ queue' \in Seq(Frame) /\ UNCHANGED log

(* The link or the protocol fails, or the owner closes the session. *)
Break == up /\ up' = FALSE /\ queue' = <<>> /\ log' = <<>>

Next == (\E f \in Frame : Send(f)) \/ Receive \/ Start \/ Break

Spec == Init /\ [][Next]_vars
=============================================================================
