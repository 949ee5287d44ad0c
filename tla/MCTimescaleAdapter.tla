-------------------------- MODULE MCTimescaleAdapter --------------------------
(* Bounds with which TLC explores TimescaleAdapter. *)
EXTENDS TimescaleAdapter

\* Enough velocity rows to fill a batch, overflow the buffer and start a second
\* flush; one displacement row so that _flush_all has a second buffer to visit.
ThreeAndOne == [k \in Kinds |-> IF k = "velocity" THEN 3 ELSE 1]
=============================================================================
