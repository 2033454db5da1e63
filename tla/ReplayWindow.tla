---------------------------- MODULE ReplayWindow ----------------------------
(* wireguard_check_replay() of src/lib/WireGuard/src/wireguard.c: the window  *)
(* of sequence numbers a keypair has accepted.  replay_bitmap is the set of   *)
(* the distances below replay_counter whose packet was seen.  Sequence        *)
(* numbers stay below 2^32, which no keypair's 180 seconds can use up, so the *)
(* 32 bit differences of the code are exact.                                  *)
EXTENDS Integers

CONSTANTS ReplayWindowSize,     \* sizeof(replay_bitmap), 4 bytes, taken for 32 bits
          BitmapBits            \* the bits of replay_bitmap

ASSUME WindowAssumption ==
  /\ ReplayWindowSize \in Nat \ {0} /\ BitmapBits \in Nat
  /\ ReplayWindowSize <= BitmapBits

Bits == 0 .. BitmapBits - 1
Windows == [counter : Nat, bits : SUBSET Bits]
FreshWindow == [counter |-> 0, bits |-> {}]

(* A number above the counter slides the window, one below it must still be   *)
(* inside and unseen.  Zero is never accepted.                                *)
Slid(w, seq) ==
  LET diff == seq - w.counter
  IN [counter |-> seq,
      bits |-> IF diff < ReplayWindowSize THEN {0} \cup {b \in Bits : b - diff \in w.bits} ELSE {0}]
Accepts(w, seq) ==
  /\ seq # 0
  /\ \/ seq > w.counter
     \/ w.counter - seq < ReplayWindowSize /\ w.counter - seq \notin w.bits
(* Mutant of Checked: a packet inside the window is not marked.               *)
CheckedUnmarked(w, seq) ==
  IF Accepts(w, seq) /\ seq > w.counter THEN Slid(w, seq) ELSE w
Checked(w, seq) ==
  IF ~Accepts(w, seq) THEN w
  ELSE IF seq > w.counter THEN Slid(w, seq)
  ELSE [w EXCEPT !.bits = @ \cup {w.counter - seq}]
=============================================================================
