---------------------------- MODULE MCOtaUpgrade ----------------------------
(* Small instances of OtaUpgrade: one image of a few blocks, sent twice.   *)
EXTENDS OtaUpgrade
=============================================================================
