------------------------------- MODULE MCKeys -------------------------------
(***************************************************************************)
(* A small group for SwapKeys: a stand-in for keccak256 that maps no byte  *)
(* string to itself and leaves none out.                                   *)
(***************************************************************************)
EXTENDS SwapKeys

MCHash(b) == AsBE((7 * BE(b) + 5) % (Base * Base))
MCHdKey == 1..(Base * Base - 1)
=============================================================================
