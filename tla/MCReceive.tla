----------------------------- MODULE MCReceive -----------------------------
(* Instances of Receive for TLC. *)
EXTENDS Receive, TLC

CONSTANTS r1, r2, d1, d2

(* r1, d1: one packet; r2: two packets; d2: three. *)
MCCountThree == (r1 :> 0) @@ (d1 :> 0) @@ (r2 :> 2) @@ (d2 :> 3)
=============================================================================
