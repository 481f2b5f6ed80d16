--------------------------- MODULE MCUtf16Streambuf ---------------------------
(***************************************************************************)
(* Instances of Utf16Streambuf for TLC.                                    *)
(***************************************************************************)
EXTENDS Utf16Streambuf

===============================================================================
