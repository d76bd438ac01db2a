---------------------------- MODULE MCMainWindow ----------------------------
(* A drive and an image with a game at the same LBA, and an image without *)
(* games.                                                                 *)
EXTENDS MainWindow, TLC
CONSTANTS disk, image, blank
MCHdlMains == (disk :> {1}) @@ (image :> {1, 2}) @@ (blank :> {})
=============================================================================
