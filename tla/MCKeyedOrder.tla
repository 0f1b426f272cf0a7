---------------------------- MODULE MCKeyedOrder ---------------------------
(***************************************************************************)
(* A keyed column over three keys, two of which render a dialog; two       *)
(* transactions of up to three operations, legal or not.                   *)
(***************************************************************************)
EXTENDS KeyedOrder, TLC

CONSTANTS a, b, c

MCKeys == {a, b, c}
MCModal == {b, c}
=============================================================================
