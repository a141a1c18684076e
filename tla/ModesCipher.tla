---------------------------- MODULE ModesCipher ----------------------------
(***************************************************************************)
(* The generic block-cipher mode engine of src/crypto/modes/src/modes.c:   *)
(* a MODES_CipherCtx that caches a partial block between Update calls,     *)
(* defers the last full block on padded decryption, pads or unpads it in   *)
(* Final, and is re-keyed, re-IVed, cleaned and freed through the EAL      *)
(* lifecycle New -> Init -> (SetPadding) -> Update* -> Final -> DeInit.     *)
(*                                                                         *)
(* Every variable is a function over Ctxs: callers may own several         *)
(* independent contexts (spec section 5).  A byte is a number in 0..255;   *)
(* the block primitive is abstracted to a keyed, block-local permutation.  *)
(***************************************************************************)
EXTENDS ModesPadding, FiniteSets

CONSTANTS
  Ctxs,        \* the contexts the caller owns
  InBytes,     \* byte values the caller feeds to Update
  Paddings,    \* padding ids the caller may select
  MaxChunk,    \* bound on inLen of one Update call
  MaxStream,   \* bound on the bytes fed since the last (re)initialisation
  CipherKey,   \* the key of the abstract block primitive
  LenBits      \* width of the uint32_t lengths inLen, cacheLen and *outLen

ASSUME /\ InBytes \subseteq 0..255
       /\ Paddings \subseteq PaddingIds
       /\ MaxChunk \in Nat /\ MaxStream \in Nat
       /\ CipherKey \in 1..255
       /\ LenBits \in 1..30

VARIABLES
  phase,   \* caller lifecycle: "none", "new", "inited", "updating", "finaled"
  enc,     \* modeCtx->enc
  pad,     \* modeCtx->pad
  data,    \* modeCtx->data[0 .. dataLen-1], the cached bytes
  stream,  \* history: the bytes fed to Update since Init or Reinit
  out,     \* history: the bytes handed to the caller since Init or Reinit
  call     \* the last call: operation, status, capacity, outLen, bytes written

vars == <<phase, enc, pad, data, stream, out, call>>

Phases == {"none", "new", "inited", "updating", "finaled"}
Status == {"SUCCESS", "BUFF_LEN_NOT_ENOUGH", "IVLEN_ERROR", "ERR_INPUT_LEN",
           "DATA_ERROR", "PADDING_NOT_SUPPORT", "MEM_ALLOC_FAIL", "KEY_ERROR"}
Byte == 0..255
Bytes(n) == UNION {[1..k -> InBytes] : k \in 0..n}

(***************************************************************************)
(* The block primitive (AES/SM4 in ECB style, outside src/): each block is *)
(* byte-reversed and shifted by the key, so a misaligned block is visible. *)
(* It rejects a length that is not a whole number of blocks.               *)
(***************************************************************************)
ECB(s, k) ==
  [i \in 1..Len(s) |-> LET b == (i - 1) \div BS
                           p == (i - 1) % BS
                       IN  (s[b * BS + BS - p] + k) % 256]
BlockEncrypt(s) == ECB(s, CipherKey)
BlockDecrypt(s) == ECB(s, 256 - CipherKey)
BlockLenOk(s) == Len(s) % BS = 0
Transform(c, s) == IF enc[c] THEN BlockEncrypt(s) ELSE BlockDecrypt(s)

(* Mutant of CheckUpdateParam: the cached bytes are left out of the sum.  *)
CheckUpdateParamNoCache(cacheLen, inLen, cap) ==
  cap >= (inLen \div BS) * BS

(* Mutant of CheckUpdateParam: no check that inLen + cacheLen wrapped.   *)
CheckUpdateParamNoWrap(cacheLen, inLen, cap) ==
  cap >= (((inLen + cacheLen) % 2^LenBits) \div BS) * BS

(* MODE_CheckUpdateParam: inLen + cacheLen, a uint32_t sum, must not wrap, *)
(* and the output must hold every whole block formed.                     *)
CheckUpdateParam(cacheLen, inLen, cap) ==
  LET sum == (inLen + cacheLen) % 2^LenBits
  IN  /\ sum >= inLen
      /\ cap >= (sum \div BS) * BS

(* Mutant of CacheBlockDone: a full cache is always processed at once.    *)
CacheBlockDoneNoDefer(c, blk, rest) == Len(blk) = BS

(* MODES_CipherUpdateCache processes a full cache block unless it may be  *)
(* the last block of a padded decryption (no input follows it).           *)
CacheBlockDone(c, blk, rest) ==
  /\ Len(blk) = BS
  /\ enc[c] \/ rest # <<>> \/ pad[c] = "NONE"

(* Mutant of CacheFill: the input is not clamped to the room left. *)
CacheFillAll(c, in) ==
  IF Len(data[c]) > 0 THEN Len(in) ELSE 0

(* The cache step: how many input bytes top up a non-empty cache. *)
CacheFill(c, in) ==
  LET dl == Len(data[c])
  IN  IF dl > 0 THEN IF Len(in) > BS - dl THEN BS - dl ELSE Len(in) ELSE 0

(* Mutants of UpdateCache: the deferred block is still counted in         *)
(* *outLen; a processed cache is not emptied.                             *)
UpdateCacheDeferLen(c, in) ==
  LET blk  == data[c] \o SubSeq(in, 1, CacheFill(c, in))
      rest == SubSeq(in, CacheFill(c, in) + 1, Len(in))
      done == CacheBlockDone(c, blk, rest)
  IN  [rest |-> rest,
       data |-> IF done THEN <<>> ELSE blk,
       out  |-> IF done THEN Transform(c, blk) ELSE <<>>,
       len  |-> IF Len(blk) = BS THEN BS ELSE 0]
UpdateCacheKeepCache(c, in) ==
  LET blk  == data[c] \o SubSeq(in, 1, CacheFill(c, in))
      rest == SubSeq(in, CacheFill(c, in) + 1, Len(in))
      done == CacheBlockDone(c, blk, rest)
  IN  [rest |-> rest,
       data |-> blk,
       out  |-> IF done THEN Transform(c, blk) ELSE <<>>,
       len  |-> IF done THEN BS ELSE 0]

(* MODES_CipherUpdateCache: top the cache up to a block and process it,   *)
(* unless it is the last block of a padded decryption.                    *)
UpdateCache(c, in) ==
  LET blk  == data[c] \o SubSeq(in, 1, CacheFill(c, in))
      rest == SubSeq(in, CacheFill(c, in) + 1, Len(in))
      done == CacheBlockDone(c, blk, rest)
  IN  [rest |-> rest,
       data |-> IF done THEN <<>> ELSE blk,
       out  |-> IF done THEN Transform(c, blk) ELSE <<>>,
       len  |-> IF done THEN BS ELSE 0]

Call(op, r, cap, len, w) == [op |-> op, ret |-> r, cap |-> cap, outLen |-> len, written |-> w]
Fail(c, op, r, cap) ==
  /\ call' = [call EXCEPT ![c] = Call(op, r, cap, cap, 0)]
  /\ UNCHANGED <<phase, enc, pad, data, stream, out>>

(***************************************************************************)
(* Operations.                                                             *)
(***************************************************************************)

(* MODES_CipherNewCtx with MODE_NewCtxInternal: either calloc may fail,   *)
(* and the context comes back zeroed: no padding, no cache, offset 0.     *)
NewCtx(c) ==
  /\ phase[c] = "none"
  /\ \/ Fail(c, "new", "MEM_ALLOC_FAIL", 0)
     \/ /\ phase' = [phase EXCEPT ![c] = "new"]
        /\ enc' = [enc EXCEPT ![c] = FALSE]
        /\ pad' = [pad EXCEPT ![c] = "NONE"]
        /\ data' = [data EXCEPT ![c] = <<>>]
        /\ call' = [call EXCEPT ![c] = Call("new", "SUCCESS", 0, 0, 0)]
        /\ UNCHANGED <<stream, out>>

(* MODES_CipherInitCtx: the IV must be one block; then the key routine   *)
(* setSymKey (outside src/) may reject the key; else the direction is     *)
(* recorded.  The cache is left as it is.                                 *)
InitCtx(c, e, ivLen) ==
  /\ phase[c] = "new"
  /\ IF ivLen # BS
       THEN Fail(c, "init", "IVLEN_ERROR", 0)
       ELSE \/ Fail(c, "init", "KEY_ERROR", 0)
            \/ /\ enc' = [enc EXCEPT ![c] = e]
               /\ phase' = [phase EXCEPT ![c] = "inited"]
               /\ stream' = [stream EXCEPT ![c] = <<>>]
               /\ out' = [out EXCEPT ![c] = <<>>]
               /\ call' = [call EXCEPT ![c] = Call("init", "SUCCESS", 0, 0, 0)]
               /\ UNCHANGED <<pad, data>>

(* Setting the padding between Init and the first Update, validated by    *)
(* MODES_SetPaddingCheck.                                                 *)
SetPadding(c, p) ==
  /\ phase[c] = "inited"
  /\ IF ~SetPaddingCheck(p)
       THEN Fail(c, "setpad", "PADDING_NOT_SUPPORT", 0)
       ELSE /\ pad' = [pad EXCEPT ![c] = p]
            /\ call' = [call EXCEPT ![c] = Call("setpad", "SUCCESS", 0, 0, 0)]
            /\ UNCHANGED <<phase, enc, data, stream, out>>

(* MODES_CipherUpdate: check the capacity, run the cache, then transform  *)
(* the whole blocks of the rest, holding back the last one on a padded    *)
(* decryption, and cache what is left over.                               *)
Update(c, in, cap) ==
  /\ phase[c] \in {"inited", "updating"}
  /\ IF ~CheckUpdateParam(Len(data[c]), Len(in), cap)
       THEN Fail(c, "update", "BUFF_LEN_NOT_ENOUGH", cap)
       ELSE
         LET uc    == UpdateCache(c, in)
             rest  == uc.rest
             left0 == Len(rest) % BS
             hold  == ~enc[c] /\ pad[c] # "NONE" /\ rest # <<>> /\ left0 = 0
             left  == IF hold THEN BS ELSE left0
             bulk  == SubSeq(rest, 1, Len(rest) - left)
             w     == uc.out \o Transform(c, bulk)
         IN  /\ data' = [data EXCEPT ![c] =
                           IF left > 0 THEN SubSeq(rest, Len(rest) - left + 1, Len(rest))
                                       ELSE uc.data]
             /\ stream' = [stream EXCEPT ![c] = @ \o in]
             /\ out' = [out EXCEPT ![c] = @ \o w]
             /\ call' = [call EXCEPT ![c] =
                           Call("update", "SUCCESS", cap, uc.len + Len(bulk), Len(w))]
             /\ phase' = [phase EXCEPT ![c] = "updating"]
             /\ UNCHANGED <<enc, pad>>

(* MODES_CipherFinal: encryption pads the cache and encrypts it (the      *)
(* padded block stays in the cache); decryption decrypts the held-back    *)
(* block and strips its padding.                                          *)
FinalSuccess(c, w, len, cap) ==
  /\ out' = [out EXCEPT ![c] = @ \o w]
  /\ call' = [call EXCEPT ![c] = Call("final", "SUCCESS", cap, len, len)]
  /\ phase' = [phase EXCEPT ![c] = "finaled"]
  /\ UNCHANGED <<enc, pad, stream>>

Final(c, cap) ==
  /\ phase[c] \in {"inited", "updating"}
  /\ LET dl == Len(data[c]) IN
     CASE pad[c] # "NONE" /\ cap < BS ->
            Fail(c, "final", "BUFF_LEN_NOT_ENOUGH", cap)
       [] enc[c] /\ pad[c] = "NONE" /\ dl % BS # 0 ->
            Fail(c, "final", "ERR_INPUT_LEN", cap)
       [] enc[c] ->
            LET padded == BlockPadding(pad[c], data[c])
            IN  /\ data' = [data EXCEPT ![c] = padded]
                /\ FinalSuccess(c, BlockEncrypt(padded), Len(padded), cap)
       [] dl = 0 ->
            /\ FinalSuccess(c, <<>>, 0, cap)
            /\ UNCHANGED data
       [] ~BlockLenOk(data[c]) ->
            Fail(c, "final", "ERR_INPUT_LEN", cap)
       [] OTHER ->
            LET plain == BlockDecrypt(data[c])
                u     == BlockUnPadding(pad[c], plain, cap)
            IN  /\ UNCHANGED data
                /\ IF u.ok
                     THEN /\ out' = [out EXCEPT ![c] =
                                       @ \o SubSeq(plain, 1, IF u.len < dl THEN u.len ELSE dl)]
                          /\ call' = [call EXCEPT ![c] = Call("final", "SUCCESS", cap, u.len, dl)]
                          /\ phase' = [phase EXCEPT ![c] = "finaled"]
                          /\ UNCHANGED <<enc, pad, stream>>
                     ELSE /\ call' = [call EXCEPT ![c] = Call("final", "DATA_ERROR", cap, cap, dl)]
                          /\ UNCHANGED <<phase, enc, pad, stream, out>>

(* MODES_CipherCtrl(CRYPT_CTRL_REINIT_STATUS) = MODES_SetIv: a new IV of  *)
(* one block, offset reset to 0; a new message starts.  The cache is not  *)
(* touched.                                                               *)
Reinit(c, ivLen) ==
  /\ phase[c] \in {"inited", "updating", "finaled"}
  /\ IF ivLen # BS
       THEN Fail(c, "reinit", "IVLEN_ERROR", 0)
       ELSE /\ phase' = [phase EXCEPT ![c] = IF @ = "inited" THEN "inited" ELSE "updating"]
            /\ stream' = [stream EXCEPT ![c] = <<>>]
            /\ out' = [out EXCEPT ![c] = <<>>]
            /\ call' = [call EXCEPT ![c] = Call("reinit", "SUCCESS", 0, 0, 0)]
            /\ UNCHANGED <<enc, pad, data>>

(* MODES_CipherDeInitCtx with MODES_Clean: cache zeroed, padding reset,   *)
(* IV, scratch buffer and key schedule cleansed; Init is needed again.    *)
DeInitCtx(c) ==
  /\ phase[c] \notin {"none", "new"}
  /\ phase' = [phase EXCEPT ![c] = "new"]
  /\ data' = [data EXCEPT ![c] = <<>>]
  /\ pad' = [pad EXCEPT ![c] = "NONE"]
  /\ call' = [call EXCEPT ![c] = Call("deinit", "SUCCESS", 0, 0, 0)]
  /\ UNCHANGED <<enc, stream, out>>

(* MODES_CipherFreeCtx: DeInit, then release the key context and the ctx. *)
FreeCtx(c) ==
  /\ phase[c] # "none"
  /\ phase' = [phase EXCEPT ![c] = "none"]
  /\ data' = [data EXCEPT ![c] = <<>>]
  /\ pad' = [pad EXCEPT ![c] = "NONE"]
  /\ call' = [call EXCEPT ![c] = Call("free", "SUCCESS", 0, 0, 0)]
  /\ UNCHANGED <<enc, stream, out>>

(***************************************************************************)
(* The caller: any context, any operation, inputs from small sets.         *)
(***************************************************************************)
UpdateCaps(c, in) ==
  LET need == ((Len(in) + Len(data[c])) \div BS) * BS
  IN  {k \in {need - 1, need, need + BS} : k >= 0 /\ k < 2^LenBits}
FinalCaps == {k \in {BS - 1, BS, 2 * BS} : k < 2^LenBits}
IvLens == {BS - 1, BS}

Init ==
  /\ phase = [c \in Ctxs |-> "none"]
  /\ enc = [c \in Ctxs |-> FALSE]
  /\ pad = [c \in Ctxs |-> "NONE"]
  /\ data = [c \in Ctxs |-> <<>>]
  /\ stream = [c \in Ctxs |-> <<>>]
  /\ out = [c \in Ctxs |-> <<>>]
  /\ call = [c \in Ctxs |-> Call("none", "SUCCESS", 0, 0, 0)]

UpdateStep(c) ==
  \E in \in Bytes(MaxChunk) :
    /\ Len(stream[c]) + Len(in) <= MaxStream
    /\ \E cap \in UpdateCaps(c, in) : Update(c, in, cap)

Next ==
  \E c \in Ctxs :
    \/ NewCtx(c)
    \/ \E e \in BOOLEAN, iv \in IvLens : InitCtx(c, e, iv)
    \/ \E p \in Paddings \cup {"MAX_COUNT"} : SetPadding(c, p)
    \/ UpdateStep(c)
    \/ \E cap \in FinalCaps : Final(c, cap)
    \/ \E iv \in IvLens : Reinit(c, iv)
    \/ DeInitCtx(c)
    \/ FreeCtx(c)

Spec == Init /\ [][Next]_vars

(***************************************************************************)
(* Properties.                                                             *)
(***************************************************************************)
TypeOK ==
  /\ phase \in [Ctxs -> Phases]
  /\ enc \in [Ctxs -> BOOLEAN]
  /\ pad \in [Ctxs -> PaddingIds]
  /\ \A c \in Ctxs : data[c] \in Seq(Byte) /\ Len(data[c]) <= BS
  /\ \A c \in Ctxs : stream[c] \in Seq(Byte) /\ out[c] \in Seq(Byte)
  /\ \A c \in Ctxs : call[c].ret \in Status /\ call[c].written \in Nat

(* Update and Final never write more bytes into the caller's buffer than  *)
(* the capacity it passed: MODE_CheckUpdateParam and Final's block check  *)
(* must cover what the cache, the bulk and the held-back block emit.      *)
NoOutputOverrun ==
  \A c \in Ctxs : call[c].written <= call[c].cap

(* A successful Update or Final never reports more output than it wrote:  *)
(* *outLen is what the caller will read back from its buffer.             *)
OutLenWithinWritten ==
  \A c \in Ctxs :
    call[c].op \in {"update", "final"} /\ call[c].ret = "SUCCESS"
      => call[c].outLen <= call[c].written

(* While a message is being streamed, what the caller got back is the     *)
(* transform of a whole-block prefix of what it fed, and the cache holds  *)
(* exactly the rest: no byte is lost, duplicated or carried over from an  *)
(* earlier message.                                                       *)
StreamConsistency ==
  \A c \in Ctxs :
    phase[c] \in {"inited", "updating"} =>
      LET n == Len(out[c]) IN
      /\ n % BS = 0
      /\ n <= Len(stream[c])
      /\ out[c] = Transform(c, SubSeq(stream[c], 1, n))
      /\ data[c] = SubSeq(stream[c], n + 1, Len(stream[c]))
=============================================================================
