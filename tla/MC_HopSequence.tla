-------------------------- MODULE MC_HopSequence ---------------------------
(* Hop tables for TLC.  Every row is a permutation of the same channels,  *)
(* as the spec requires ("every channel appears at least once per row    *)
(* cycle").  R's address byte 3 selects row 3 mod ROW_NUM = 1 through the *)
(* CHANNEL_IDX wrap.                                                      *)
EXTENDS HopSequence

(* Four channels per row: the row width divides 256. *)
MCHop4   == [i \in 0..7 |-> <<11, 12, 13, 14, 13, 11, 14, 12>>[i + 1]]
(* Three channels per row: the row width does not divide 256. *)
MCHop3   == [i \in 0..5 |-> <<11, 12, 13, 13, 11, 12>>[i + 1]]
MCBcHop  == [i \in 0..1 |-> <<15, 16>>[i + 1]]
=============================================================================
