--------------------------- MODULE MCWin32Mount ---------------------------
(* One image and two drives: enough to replace an image by a drive, a      *)
(* drive by another, and for discovery to interrupt either.                *)
EXTENDS Win32Mount
CONSTANTS img, d1, d2
=============================================================================
