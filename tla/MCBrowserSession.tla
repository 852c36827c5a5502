-------------------------- MODULE MCBrowserSession --------------------------
(* Instances of BrowserSession for TLC.                                     *)
EXTENDS BrowserSession

CONSTANTS f1, f2, f3, rd1

=============================================================================
