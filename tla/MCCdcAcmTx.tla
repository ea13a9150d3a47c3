----------------------------- MODULE MCCdcAcmTx -----------------------------
(* Instances of CdcAcmTx for TLC.                                           *)
EXTENDS CdcAcmTx

Racing == {"race", "reply"}
=============================================================================
