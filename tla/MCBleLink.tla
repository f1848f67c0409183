----------------------------- MODULE MCBleLink -----------------------------
(* Instances of BleLink for TLC.                                            *)
EXTENDS BleLink

(* Cancelled anywhere but inside a disconnect, or not at all.               *)
OutsideTeardown == Setup \cup Commanding
Nowhere == {}
=============================================================================
