--------------------------- MODULE MCModesPadding ---------------------------
(***************************************************************************)
(* Every block a decrypting Final can hand to Mode_BlockUnPadding, over a  *)
(* byte set containing every pad count, 0x80 and a byte above any count.   *)
(* One step per block: the unpadding verdict.                              *)
(***************************************************************************)
EXTENDS ModesPadding

CONSTANTS Schemes, BlockBytes

VARIABLES scheme, blk, checked, verdict

padVars == <<scheme, blk, checked, verdict>>

PadInit ==
  /\ scheme \in Schemes
  /\ blk \in [1..BS -> BlockBytes]
  /\ checked = FALSE
  /\ verdict = [ok |-> FALSE, len |-> 0]

(* Final's decrypt branch: Mode_BlockUnPadding on the decrypted block. *)
Unpad ==
  /\ ~checked
  /\ checked' = TRUE
  /\ verdict' = BlockUnPadding(scheme, blk, BS)
  /\ UNCHANGED <<scheme, blk>>

PadSpec == PadInit /\ [][Unpad]_padVars

(* Unpadding accepts a block only if MODES_BlockPadding, applied to the   *)
(* data it returns, produces exactly that block: a tampered last block is *)
(* rejected with CRYPT_EAL_CIPHER_DATA_ERROR, never returned truncated.   *)
UnpadOnlyPadded ==
  checked /\ verdict.ok =>
    /\ verdict.len \in 0..(BS - 1)
    /\ BlockPadding(scheme, SubSeq(blk, 1, verdict.len)) = blk
=============================================================================
