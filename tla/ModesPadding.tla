---------------------------- MODULE ModesPadding ----------------------------
(***************************************************************************)
(* The block padding schemes of src/crypto/modes/src/modes.c as pure       *)
(* operators over a block of BlockSize bytes: MODES_BlockPadding on the    *)
(* encrypting side, UnPaddingISO7816 / UnPaddingX923 / UnPaddingPkcs       *)
(* behind Mode_BlockUnPadding on the decrypting side.                      *)
(***************************************************************************)
EXTENDS Integers, Sequences

CONSTANT BlockSize   \* ctx->commonCtx.blockSize

ASSUME BlockSize \in 2..16

BS == BlockSize

(* CRYPT_PADDING_NONE .. CRYPT_PADDING_PKCS7; PKCS5 and PKCS7 share code. *)
PaddingIds == {"NONE", "ZEROS", "ISO7816", "X923", "PKCS5", "PKCS7"}

Zeros(n) == [i \in 1..n |-> 0]

(* Mutant of BlockPadding: X9.23 on a full cache appends a whole block.   *)
BlockPaddingX923Extra(p, blk) ==
  LET dl == Len(blk)
      n  == BS - dl
  IN  CASE p = "NONE"    -> blk
        [] p = "ZEROS"   -> blk \o Zeros(n)
        [] p = "ISO7816" -> IF n = 0 THEN blk ELSE blk \o <<128>> \o Zeros(n - 1)
        [] p = "X923"    -> IF n = 0 THEN blk \o Zeros(BS - 1) \o <<BS>>
                                     ELSE blk \o Zeros(n - 1) \o <<n>>
        [] p \in {"PKCS5", "PKCS7"} -> blk \o [i \in 1..n |-> n]

(* MODES_BlockPadding: the bytes appended to a cache of dl bytes.  X9.23  *)
(* with a full cache writes its count 0 over the last cached byte.        *)
BlockPadding(p, blk) ==
  LET dl == Len(blk)
      n  == BS - dl
  IN  CASE p = "NONE"    -> blk
        [] p = "ZEROS"   -> blk \o Zeros(n)
        [] p = "ISO7816" -> IF n = 0 THEN blk ELSE blk \o <<128>> \o Zeros(n - 1)
        [] p = "X923"    -> IF n = 0 THEN [blk EXCEPT ![dl] = 0]
                                     ELSE blk \o Zeros(n - 1) \o <<n>>
        [] p \in {"PKCS5", "PKCS7"} -> blk \o [i \in 1..n |-> n]

(* pos = padLen - len in uint32: when len > padLen it wraps to at least    *)
(* 2^32 - 255, beyond every index of the block.                           *)
PadStart(n, len) == IF len <= n THEN n - len ELSE n

(* UnPaddingISO7816: skip trailing zeros; the byte reached must be 0x80.  *)
UnPaddingISO7816(s) ==
  LET nz  == {i \in 1..Len(s) : s[i] # 0}
      idx == IF nz = {} THEN 1 ELSE CHOOSE i \in nz : \A j \in nz : j <= i
  IN  IF s[idx] = 128 THEN [ok |-> TRUE, len |-> idx - 1]
                      ELSE [ok |-> FALSE, len |-> 0]

(* UnPaddingX923: count byte not above padLen, pad bytes before it zero.  *)
UnPaddingX923(s) ==
  LET n   == Len(s)
      len == s[n]
      pos == PadStart(n, len)
      bad == \/ len > n
             \/ \E i \in 0..(n - 2) : i >= pos /\ s[i + 1] # 0
  IN  [ok |-> ~bad, len |-> n - len]

(* Mutant of UnPaddingPkcs: a count of 0 accepted. *)
UnPaddingPkcsNoZero(s) ==
  LET n   == Len(s)
      len == s[n]
      pos == PadStart(n, len)
      bad == \/ len > n
             \/ \E i \in 0..(n - 1) : i >= pos /\ s[i + 1] # len
  IN  [ok |-> ~bad, len |-> n - len]
(* UnPaddingPkcs: count in 1..padLen and every pad byte equal to it.      *)
UnPaddingPkcs(s) ==
  LET n   == Len(s)
      len == s[n]
      pos == PadStart(n, len)
      bad == \/ len = 0 \/ len > n
             \/ \E i \in 0..(n - 1) : i >= pos /\ s[i + 1] # len
  IN  [ok |-> ~bad, len |-> n - len]

(* Mode_BlockUnPadding: the routines write *finLen only on success, so a  *)
(* rejected block, and every other scheme, leave *outLen as the caller    *)
(* set it.                                                                *)
BlockUnPadding(p, s, cap) ==
  LET r == CASE p = "ISO7816" -> UnPaddingISO7816(s)
             [] p = "X923"    -> UnPaddingX923(s)
             [] p \in {"PKCS5", "PKCS7"} -> UnPaddingPkcs(s)
             [] OTHER -> [ok |-> TRUE, len |-> cap]
  IN  IF r.ok THEN r ELSE [ok |-> FALSE, len |-> cap]

(* MODES_SetPaddingCheck: the id must be a known scheme. *)
SetPaddingCheck(p) == p \in PaddingIds

=============================================================================
