---------------------------- MODULE MCUnmarshaller ----------------------------
(***************************************************************************)
(* Instances of Unmarshaller for TLC.                                      *)
(***************************************************************************)
EXTENDS Unmarshaller

===============================================================================
