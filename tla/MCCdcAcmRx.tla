----------------------------- MODULE MCCdcAcmRx -----------------------------
(* Instances of CdcAcmRx for TLC; the constants are given in the .cfg files. *)
EXTENDS CdcAcmRx
=============================================================================
