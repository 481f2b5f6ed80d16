--------------------------- MODULE MCSuneidoProtocol ---------------------------
(***************************************************************************)
(* Instances of Library for TLC.                                           *)
(***************************************************************************)
EXTENDS Library

===============================================================================
