------------------------------ MODULE CtrMode ------------------------------
(***************************************************************************)
(* AES-CTR of src/crypto/modes/src/asm_aes_ctr.c: AES_CTR_Update through   *)
(* MODES_CipherStreamProcess into AES_CTR_EncryptBlock, which finishes the *)
(* keystream block left over by the previous call, runs whole blocks       *)
(* through the 32-bit-counter primitive in batches that stop at the wrap   *)
(* of the low counter word, carries into the upper bytes, and starts a new *)
(* keystream block for the tail.                                           *)
(*                                                                         *)
(* Data is abstracted to what CTR correctness depends on: each output byte *)
(* is recorded as the (counter, position) of the keystream byte XORed into *)
(* it.  The IV is a counter of HiBits upper bits (the 96-bit nonce part,   *)
(* incremented by MODE_IncCounter(iv, 12)) and LoBits lower bits (the      *)
(* big-endian 32-bit word at iv[12..15]).                                  *)
(***************************************************************************)
EXTENDS Integers, Sequences

CONSTANTS
  BlockSize,  \* ctx->blockSize (16 for AES)
  HiBits,     \* width standing for the 96 upper counter bits
  LoBits,     \* width standing for the 32-bit low counter word
  MaxChunk,   \* bound on inLen of one Update call
  MaxStream   \* bound on the bytes processed since Init or Reinit

ASSUME /\ BlockSize \in 2..16 /\ HiBits \in 1..4 /\ LoBits \in 1..4
       /\ MaxChunk \in Nat /\ MaxStream \in Nat

VARIABLES
  phase,    \* "new" (no key) or "inited"
  iv,       \* ctx->iv as [hi, lo]
  offset,   \* ctx->offset: bytes of the keystream block in ctx->buf used
  bufCtr,   \* the counter whose encryption ctx->buf holds
  ivStart,  \* history: the IV set by Init or Reinit
  ks,       \* history: (counter, position) of the keystream byte of each output byte
  ret       \* status of the last call

vars == <<phase, iv, offset, bufCtr, ivStart, ks, ret>>

BS == BlockSize
HiMod == 2^HiBits
LoMod == 2^LoBits
Counters == [hi : 0..(HiMod - 1), lo : 0..(LoMod - 1)]
Status == {"SUCCESS", "BUFF_LEN_NOT_ENOUGH", "IVLEN_ERROR", "KEY_ERROR"}

(* The keystream bytes of one block, in order. *)
BlockBytes(ctr, from, n) == [k \in 1..n |-> <<ctr, from + k - 1>>]

(* MODE_IncCounter over the whole IV: the full-width +1 (outside src/, in *)
(* modes_ctr.c, used by MODES_CTR_RemHandle).                             *)
IncFull(v) ==
  IF v.lo = LoMod - 1 THEN [hi |-> (v.hi + 1) % HiMod, lo |-> 0]
                      ELSE [v EXCEPT !.lo = @ + 1]

(* Mutant of CtrBlocks: the upper bytes are never carried into. *)
RECURSIVE CtrBlocksNoCarry(_, _)
CtrBlocksNoCarry(v, left) ==
  IF left < BS THEN [iv |-> v, bytes |-> <<>>]
  ELSE
    LET blocks0 == left \div BS
        sum     == (v.lo + blocks0) % LoMod
        blocks  == IF sum < blocks0 THEN blocks0 - sum ELSE blocks0
        used    == [k \in 1..(blocks * BS) |->
                      <<[hi |-> v.hi, lo |-> (v.lo + (k - 1) \div BS) % LoMod], (k - 1) % BS>>]
        r       == CtrBlocksNoCarry([v EXCEPT !.lo = (@ + blocks) % LoMod], left - blocks * BS)
    IN  [iv |-> r.iv, bytes |-> used \o r.bytes]

(* One iteration of the while loop of AES_CTR_EncryptBlock: the batch     *)
(* stops where the 32-bit word wraps; CRYPT_AES_CTR_Encrypt uses and      *)
(* advances only the low word; on a wrap the upper bytes are carried.     *)
RECURSIVE CtrBlocks(_, _)
CtrBlocks(v, left) ==
  IF left < BS THEN [iv |-> v, bytes |-> <<>>]
  ELSE
    LET blocks0 == left \div BS
        sum     == (v.lo + blocks0) % LoMod
        wrapped == sum < blocks0
        blocks  == IF wrapped THEN blocks0 - sum ELSE blocks0
        beCtr32 == IF wrapped THEN 0 ELSE sum
        used    == [k \in 1..(blocks * BS) |->
                      <<[hi |-> v.hi, lo |-> (v.lo + (k - 1) \div BS) % LoMod], (k - 1) % BS>>]
        v1      == [hi |-> IF beCtr32 = 0 THEN (v.hi + 1) % HiMod ELSE v.hi,
                    lo |-> (v.lo + blocks) % LoMod]
        r       == CtrBlocks(v1, left - blocks * BS)
    IN  [iv |-> r.iv, bytes |-> used \o r.bytes]

(* MODES_CTR_LastHandle (modes_ctr.c, outside src/): finish the keystream *)
(* block in ctx->buf first.                                               *)
LastHandleLen(n) ==
  IF offset = 0 THEN 0 ELSE IF n < BS - offset THEN n ELSE BS - offset

(* Mutant of EncryptBlock: a finished keystream block leaves offset at   *)
(* blockSize instead of wrapping it to 0.                                 *)
EncryptBlockNoWrap(n) ==
  LET m    == LastHandleLen(n)
      loop == CtrBlocks(iv, n - m)
      rem  == (n - m) % BS
  IN  /\ ks' = ks \o BlockBytes(bufCtr, offset, m) \o loop.bytes \o BlockBytes(loop.iv, 0, rem)
      /\ IF rem > 0
           THEN /\ bufCtr' = loop.iv
                /\ iv' = IncFull(loop.iv)
                /\ offset' = rem
           ELSE /\ iv' = loop.iv
                /\ offset' = offset + m
                /\ UNCHANGED bufCtr

(* AES_CTR_EncryptBlock on len = n > 0 bytes, with MODES_CTR_LastHandle   *)
(* and MODES_CTR_RemHandle (a new keystream block for the tail, full      *)
(* counter increment, offset = tail length).                              *)
EncryptBlock(n) ==
  LET m    == LastHandleLen(n)
      last == BlockBytes(bufCtr, offset, m)
      loop == CtrBlocks(iv, n - m)
      rem  == (n - m) % BS
  IN  /\ ks' = ks \o last \o loop.bytes \o BlockBytes(loop.iv, 0, rem)
      /\ IF rem > 0
           THEN /\ bufCtr' = loop.iv
                /\ iv' = IncFull(loop.iv)
                /\ offset' = rem
           ELSE /\ iv' = loop.iv
                /\ offset' = (offset + m) % BS
                /\ UNCHANGED bufCtr

(* MODES_CipherInitCtx through the AES-CTR init: IV of one block, then   *)
(* the key, which the AES key schedule (outside src/) may reject.        *)
InitCtx(v, ivLen) ==
  /\ phase = "new"
  /\ IF ivLen # BS
       THEN /\ ret' = "IVLEN_ERROR"
            /\ UNCHANGED <<phase, iv, offset, bufCtr, ivStart, ks>>
       ELSE \/ /\ ret' = "KEY_ERROR"
               /\ UNCHANGED <<phase, iv, offset, bufCtr, ivStart, ks>>
            \/ /\ phase' = "inited"
               /\ iv' = v
               /\ ivStart' = v
               /\ ks' = <<>>
               /\ ret' = "SUCCESS"
               /\ UNCHANGED <<offset, bufCtr>>

(* AES_CTR_Update = MODES_CipherStreamProcess(AES_CTR_EncryptBlock, ...). *)
Update(n, cap) ==
  /\ phase = "inited"
  /\ CASE n = 0 ->
            /\ ret' = "SUCCESS"
            /\ UNCHANGED <<phase, iv, offset, bufCtr, ivStart, ks>>
       [] n > cap ->
            /\ ret' = "BUFF_LEN_NOT_ENOUGH"
            /\ UNCHANGED <<phase, iv, offset, bufCtr, ivStart, ks>>
       [] OTHER ->
            /\ EncryptBlock(n)
            /\ ret' = "SUCCESS"
            /\ UNCHANGED <<phase, ivStart>>

(* MODES_CipherCtrl(CRYPT_CTRL_REINIT_STATUS) = MODES_SetIv. *)
Reinit(v, ivLen) ==
  /\ phase = "inited"
  /\ IF ivLen # BS
       THEN /\ ret' = "IVLEN_ERROR"
            /\ UNCHANGED <<phase, iv, offset, bufCtr, ivStart, ks>>
       ELSE /\ iv' = v
            /\ offset' = 0
            /\ ivStart' = v
            /\ ks' = <<>>
            /\ ret' = "SUCCESS"
            /\ UNCHANGED <<phase, bufCtr>>

(* MODES_CipherDeInitCtx -> MODES_Clean: IV and buffer cleansed, offset 0. *)
DeInitCtx ==
  /\ phase = "inited"
  /\ phase' = "new"
  /\ iv' = [hi |-> 0, lo |-> 0]
  /\ offset' = 0
  /\ bufCtr' = [hi |-> 0, lo |-> 0]
  /\ ret' = "SUCCESS"
  /\ UNCHANGED <<ivStart, ks>>

Init ==
  /\ phase = "new"
  /\ iv = [hi |-> 0, lo |-> 0]
  /\ offset = 0
  /\ bufCtr = [hi |-> 0, lo |-> 0]
  /\ ivStart = [hi |-> 0, lo |-> 0]
  /\ ks = <<>>
  /\ ret = "SUCCESS"

Next ==
  \/ \E v \in Counters, l \in {BS - 1, BS} : InitCtx(v, l)
  \/ \E n \in 0..MaxChunk :
       /\ Len(ks) + n <= MaxStream
       /\ \E cap \in {n - 1, n} : Update(n, cap)
  \/ \E v \in Counters, l \in {BS - 1, BS} : Reinit(v, l)
  \/ DeInitCtx

Spec == Init /\ [][Next]_vars

(***************************************************************************)
(* Properties.                                                             *)
(***************************************************************************)
TypeOK ==
  /\ phase \in {"new", "inited"}
  /\ iv \in Counters /\ bufCtr \in Counters /\ ivStart \in Counters
  /\ offset \in 0..(BS - 1)
  /\ ks \in Seq(Counters \X (0..(BS - 1)))
  /\ ret \in Status

(* The reference counter of NIST SP 800-38A: block j of a message uses    *)
(* IV + j over the full counter width.                                    *)
CtrValue(v) == v.hi * LoMod + v.lo
RefCounter(v, j) ==
  LET c == (CtrValue(v) + j) % (HiMod * LoMod)
  IN  [hi |-> c \div LoMod, lo |-> c % LoMod]

(* The keystream StreamCipher requires of a whole message: byte i is     *)
(* byte (i-1) % BS of the encryption of counter IV + (i-1) \div BS.  The   *)
(* model records keystream bytes only, so they stand for both the input   *)
(* positions and the output.                                              *)
CtrCipher(v, p, m) ==
  [i \in 1..Len(m) |-> <<RefCounter(v, (i - 1) \div BS), (i - 1) % BS>>]

Stream == INSTANCE StreamCipher
            WITH IvSpace <- Counters,
                 ParamSpace <- {"CTR"},
                 Cipher <- CtrCipher,
                 iv0 <- ivStart,
                 param <- "CTR",
                 msg <- ks,
                 out <- ks,
                 defined <- TRUE

(* CTR implements the stream-cipher contract: however the message is     *)
(* split into Update calls and wherever the 32-bit word wraps, each       *)
(* successful call extends the keystream by exactly its length, never     *)
(* alters a keystream byte already used, and byte i is XORed with byte    *)
(* (i-1) % BS of counter IV + (i-1) \div BS: the carry into the upper     *)
(* bytes happens exactly once per wrap and no keystream byte is skipped   *)
(* or used twice.                                                         *)
CtrRefinement == Stream!Spec
=============================================================================
