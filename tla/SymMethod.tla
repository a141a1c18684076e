----------------------------- MODULE SymMethod -----------------------------
(***************************************************************************)
(* MODES_GetSymMethod of src/crypto/modes/src/modes.c: the block          *)
(* primitive a mode context is created over, reduced to its algId,        *)
(* a CRYPT_SYM_ value, which is what the modes inspect.  Its blockSize and *)
(* key routines are taken as given by the mode models.                    *)
(***************************************************************************)
EXTENDS Sequences

Modes(m) == {m \o "_" \o s : s \in {"CBC", "ECB", "CTR", "CCM", "GCM", "CFB", "OFB"}}
Sm4Ids == {"SM4_" \o s : s \in {"XTS", "CBC", "ECB", "CTR", "GCM", "CFB", "OFB"}}

(* The CRYPT_SYM_ id of the method MODES_GetSymMethod returns for a      *)
(* CRYPT_CIPHER_ id, or "NONE" for its NULL.                              *)
GetSymMethod(algId) ==
  CASE algId \in Modes("AES128")        -> "AES128"
    [] algId \in Modes("AES192")        -> "AES192"
    [] algId \in Modes("AES256")        -> "AES256"
    [] algId \in Sm4Ids                 -> "SM4"
    [] algId = "CHACHA20_POLY1305"      -> "CHACHA20"
    [] OTHER                            -> "NONE"
=============================================================================
