--------------------------- MODULE MCBrowserPage ---------------------------
(* A small instance of BrowserPage for TLC. *)
EXTENDS BrowserPage
=============================================================================
