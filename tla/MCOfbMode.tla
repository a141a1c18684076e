----------------------------- MODULE MCOfbMode -----------------------------
(* Two IVs whose keystreams differ from the first block on, and two input *)
(* byte values.                                                           *)
EXTENDS OfbMode

MCIvs == {<<0, 1>>, <<3, 2>>}
MCInBytes == {1, 2}
=============================================================================
