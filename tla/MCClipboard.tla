---------------------------- MODULE MCClipboard -----------------------------
(***************************************************************************)
(* Clipboard on a small instance.                                          *)
(***************************************************************************)
EXTENDS Clipboard

=============================================================================
