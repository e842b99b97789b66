----------------------------- MODULE MCAppSession -----------------------------
(***************************************************************************)
(* An instance of AppSession for TLC: two people share the device.         *)
(***************************************************************************)
EXTENDS AppSession

People2 == {"Ann", "Ben"}
===============================================================================
