--------------------------- MODULE MCModesCipher ---------------------------
(* Model-checking instance of ModesCipher: one or two contexts, two-byte  *)
(* blocks so that partial, full and held-back blocks all occur in short   *)
(* streams.                                                               *)
EXTENDS ModesCipher

(* Caller bytes 3 and 4 decrypt to 0 and 1, so that a decrypting context  *)
(* fed by the caller meets both valid and invalid padding.                *)
MCInBytes == {3, 4}
=============================================================================
