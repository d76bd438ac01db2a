------------------------------ MODULE MCDesktop ------------------------------
(* One source, two drive letters and two helper processes, one after the   *)
(* other.                                                                  *)
EXTENDS Desktop
CONSTANT disk
=============================================================================
