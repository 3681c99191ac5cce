---------------------------- MODULE MCHttpParser ----------------------------
(***************************************************************************)
(* Small instances of HttpParser: lengths of up to 2 in digits of base 2,  *)
(* so that they can be 0, be one byte, be cut, and overflow.               *)
(***************************************************************************)
EXTENDS HttpParser
=============================================================================
