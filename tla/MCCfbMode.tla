----------------------------- MODULE MCCfbMode -----------------------------
(* Two IVs that differ in both bytes, and input bytes with the top bit    *)
(* clear and set, so that both bit values reach the 1-bit path.           *)
EXTENDS CfbMode

MCIvs == {<<0, 1>>, <<3, 2>>}
MCInBytes == {1, 2}
=============================================================================
