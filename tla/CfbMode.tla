------------------------------ MODULE CfbMode ------------------------------
(***************************************************************************)
(* CFB of src/crypto/modes/src/modes_cfb.c: MODES_CFB_Update through       *)
(* MODES_CipherStreamProcess into CFB_Crypt, which runs the byte-oriented  *)
(* shift register (MODES_CFB_BytesEncrypt / BytesDecrypt, resuming a       *)
(* partly used keystream block at ctx->offset) or the bit-oriented one     *)
(* (MODES_CFB_BitCrypt / Cfb1Crypt).                                       *)
(*                                                                         *)
(* A byte has ByteBits bits (8 in the code), so that every byte value and  *)
(* every IV can be enumerated; feedback sizes are 1 bit, one byte (the     *)
(* code's 8) and one block (the code's 128 = the AES/SM4 block).           *)
(***************************************************************************)
EXTENDS Integers, Sequences, Bitwise, SymMethod

CONSTANTS
  BlockSize,  \* ctx->modeCtx.blockSize in bytes
  ByteBits,   \* bits per byte
  CipherIds,  \* the algId a caller passes to MODES_CFB_NewCtx
  Ivs,        \* the IVs a caller passes to Init and Reinit
  InBytes,    \* the byte values a caller passes to Update
  MaxChunk,   \* bound on inLen of one Update call
  MaxStream,  \* bound on the bytes processed since Init or Reinit
  LenBits     \* width of the uint32_t bit count len * 8 of CFB_Crypt

ASSUME /\ BlockSize \in 2..16 /\ ByteBits \in 1..8 /\ CipherIds # {}
       /\ MaxChunk \in Nat /\ MaxStream \in Nat /\ LenBits \in 1..30
       /\ Ivs \subseteq [1..BlockSize -> 0..(2^ByteBits - 1)]
       /\ InBytes \subseteq 0..(2^ByteBits - 1)

VARIABLES
  alg,       \* ctx->modeCtx.ciphMeth->algId
  phase,     \* "new", "inited" (no Update yet), "updating" or "freed"
  enc,       \* modeCtx->enc
  fb,        \* ctx->feedbackBits
  iv,        \* ctx->modeCtx.iv
  offset,    \* ctx->modeCtx.offset
  ivStart,   \* history: the IV set by Init or Reinit
  stream,    \* history: the bytes fed since Init or Reinit
  out,       \* history: the bytes returned since Init or Reinit
  fbMixed,   \* history: feedback size changed after bytes were processed
  fbLog,     \* history: <<position in stream, feedbackBits>> from each change on
  ret        \* status of the last call

vars == <<alg, phase, enc, fb, iv, offset, ivStart, stream, out, fbMixed, fbLog, ret>>

BS == BlockSize
ByteMod == 2^ByteBits
Top == 2^(ByteBits - 1)              \* 0x80
Byte == 0..(ByteMod - 1)
Wide == BS * ByteBits                \* the code's 128: the whole block
FeedbackIds == {1, ByteBits, Wide}   \* the code's 1, 8 and 128
Blocks == [1..BS -> Byte]
Status == {"SUCCESS", "BUFF_LEN_NOT_ENOUGH", "IVLEN_ERROR", "ERR_INPUT_LEN",
           "FEEDBACKSIZE_NOT_SUPPORT", "ERR_FEEDBACKSIZE", "KEY_ERROR"}

(* The block primitive's encryptBlock (outside src/): a fixed keyed map.  *)
EncryptIv(v) == [i \in 1..BS |-> (3 * v[i] + v[(i % BS) + 1] + i) % ByteMod]

(***************************************************************************)
(* MODES_CFB_BytesEncrypt / MODES_CFB_BytesDecrypt on the bytes `in`,      *)
(* from register v and offset off, with f feedback bytes.  The first       *)
(* branch is the loop that uses up the keystream left at ctx->offset; the  *)
(* second one iteration of the main loop: encrypt the register, shift it   *)
(* left by f bytes, and feed back the ciphertext (or, for a short tail,    *)
(* the ciphertext followed by the unused keystream, recording the offset). *)
(***************************************************************************)
(* Mutant of CfbBytes: decryption's offset loop reads the input after    *)
(* writing the output over it (no tmpInput), so with in == out it feeds  *)
(* back the plaintext.                                                   *)
RECURSIVE CfbBytesNoTmpInput(_, _, _, _, _)
CfbBytesNoTmpInput(v, off, f, e, in) ==
  IF in = <<>> THEN [iv |-> v, offset |-> off, out |-> <<>>]
  ELSE IF off > 0 THEN
    LET o == v[off + 1] ^^ in[1]
        r == CfbBytesNoTmpInput([v EXCEPT ![off + 1] = o], (off + 1) % BS, f, e, Tail(in))
    IN  [r EXCEPT !.out = <<o>> \o @]
  ELSE
    LET t       == EncryptIv(v)
        shifted == SubSeq(v, f + 1, BS)
        n       == IF Len(in) >= f THEN f ELSE Len(in)
        o       == [k \in 1..n |-> in[k] ^^ t[k]]
        back    == IF e THEN o ELSE SubSeq(in, 1, n)
    IN  IF Len(in) >= f
          THEN LET r == CfbBytesNoTmpInput(shifted \o back, 0, f, e, SubSeq(in, f + 1, Len(in)))
               IN  [r EXCEPT !.out = o \o @]
          ELSE [iv |-> shifted \o back \o SubSeq(t, n + 1, f),
                offset |-> BS - f + n,
                out |-> o]

RECURSIVE CfbBytes(_, _, _, _, _)
CfbBytes(v, off, f, e, in) ==
  IF in = <<>> THEN [iv |-> v, offset |-> off, out |-> <<>>]
  ELSE IF off > 0 THEN
    LET o == v[off + 1] ^^ in[1]
        r == CfbBytes([v EXCEPT ![off + 1] = IF e THEN o ELSE in[1]],
                      (off + 1) % BS, f, e, Tail(in))
    IN  [r EXCEPT !.out = <<o>> \o @]
  ELSE
    LET t       == EncryptIv(v)
        shifted == SubSeq(v, f + 1, BS)
        n       == IF Len(in) >= f THEN f ELSE Len(in)
        o       == [k \in 1..n |-> in[k] ^^ t[k]]
        back    == IF e THEN o ELSE SubSeq(in, 1, n)
    IN  IF Len(in) >= f
          THEN LET r == CfbBytes(shifted \o back, 0, f, e, SubSeq(in, f + 1, Len(in)))
               IN  [r EXCEPT !.out = o \o @]
          ELSE [iv |-> shifted \o back \o SubSeq(t, n + 1, f),
                offset |-> BS - f + n,
                out |-> o]

(* Mutant of Cfb1Crypt: the register is rotated, no cipher bit is fed   *)
(* back in either direction.                                             *)
Cfb1CryptRotate(v, bit, e) ==
  LET t  == EncryptIv(v)
      o  == t[1] ^^ bit
      sh == [i \in 1..BS |->
               ((v[i] * 2) % ByteMod) + (v[(i % BS) + 1] \div Top)]
  IN  [iv |-> sh, out |-> o]

(* Cfb1Crypt: one bit, carried in the top bit of a byte. *)
Cfb1Crypt(v, bit, e) ==
  LET t  == EncryptIv(v)
      o  == t[1] ^^ bit
      sh == [i \in 1..BS |->
               ((v[i] * 2) % ByteMod)
               + (IF i < BS THEN v[i + 1] \div Top
                  ELSE (IF e THEN o ELSE bit) \div Top)]
  IN  [iv |-> sh, out |-> o]

(* MODES_CFB_BitCrypt: every bit of `in`, most significant first. *)
RECURSIVE CfbBitLoop(_, _, _)
CfbBitLoop(v, bits, e) ==
  IF bits = <<>> THEN [iv |-> v, bits |-> <<>>]
  ELSE LET r   == Cfb1Crypt(v, IF Head(bits) = 1 THEN Top ELSE 0, e)
           nxt == CfbBitLoop(r.iv, Tail(bits), e)
       IN  [iv |-> nxt.iv, bits |-> <<r.out \div Top>> \o nxt.bits]

ToBits(s) ==
  [i \in 1..(Len(s) * ByteBits) |->
     (s[(i - 1) \div ByteBits + 1] \div 2^(ByteBits - 1 - ((i - 1) % ByteBits))) % 2]
FromBits(b) ==
  [j \in 1..(Len(b) \div ByteBits) |->
     LET RECURSIVE Acc(_)
         Acc(k) == IF k = 0 THEN 0
                   ELSE Acc(k - 1) * 2 + b[(j - 1) * ByteBits + k]
     IN  Acc(ByteBits)]

(* The bit count len * 8 that CFB_Crypt passes to MODES_CFB_BitCrypt, in *)
(* a uint32_t: it wraps once len reaches 2^32 / 8 bytes.                  *)
BitCount(len) == (len * ByteBits) % 2^LenBits

(* CFB_Crypt: dispatch on the feedback size.  On the 1-bit path only the *)
(* first BitCount(len) bits are processed; the bits of out beyond them    *)
(* keep what the caller's buffer held, here zeros.                        *)
CfbCrypt(v, off, f, e, in) ==
  IF f = 1
    THEN LET bits == ToBits(in)
             r    == CfbBitLoop(v, SubSeq(bits, 1, BitCount(Len(in))), e)
             kept == [i \in 1..(Len(bits) - BitCount(Len(in))) |-> 0]
         IN  [iv |-> r.iv, offset |-> off, out |-> FromBits(r.bits \o kept)]
    ELSE CfbBytes(v, off, f \div ByteBits, e, in)

(***************************************************************************)
(* Operations.                                                             *)
(***************************************************************************)

(* MODES_CFB_InitCtx: IV of one block, then the key, which the block     *)
(* primitive's setEncryptKey (outside src/) may reject; the offset is not *)
(* reset.                                                                  *)
InitCtx(e, v, ivLen) ==
  /\ phase = "new"
  /\ IF ivLen # BS
       THEN /\ ret' = "IVLEN_ERROR"
            /\ UNCHANGED <<alg, phase, enc, fb, iv, offset, ivStart, stream, out, fbMixed, fbLog>>
       ELSE \/ /\ ret' = "KEY_ERROR"
               /\ UNCHANGED <<alg, phase, enc, fb, iv, offset, ivStart, stream, out, fbMixed, fbLog>>
            \/ /\ phase' = "inited"
               /\ enc' = e
               /\ iv' = v
               /\ ivStart' = v
               /\ stream' = <<>>
               /\ out' = <<>>
               /\ fbMixed' = FALSE
               /\ fbLog' = <<<<0, fb>>>>
               /\ ret' = "SUCCESS"
               /\ UNCHANGED <<alg, fb, offset>>

(* The feedback size val in force from the current position of the    *)
(* message on; a second change at the same position replaces the first. *)
LogFb(val) ==
  IF fbLog[Len(fbLog)][1] = Len(stream)
    THEN [fbLog EXCEPT ![Len(fbLog)] = <<Len(stream), val>>]
    ELSE Append(fbLog, <<Len(stream), val>>)

(* Mutant of SetFeedbackSize: the size is stored without validation. *)
SetFeedbackSizeNoCheck(val) ==
  /\ phase # "freed"
  /\ fb' = val
  /\ fbMixed' = (fbMixed \/ (stream # <<>> /\ val # fb))
  /\ fbLog' = LogFb(val)
  /\ ret' = "SUCCESS"
  /\ UNCHANGED <<alg, phase, enc, iv, offset, ivStart, stream, out>>

(* SetFeedbackSize through MODES_CFB_Ctrl: no check of the context's     *)
(* state, so it may come at any point of a message (not on a freed       *)
(* context, which the caller no longer holds).                           *)
SetFeedbackSize(val) ==
  /\ phase # "freed"
  /\ CASE alg = "SM4" /\ val # Wide ->
            /\ ret' = "FEEDBACKSIZE_NOT_SUPPORT"
            /\ UNCHANGED <<fb, fbMixed, fbLog>>
       [] val \notin FeedbackIds \/ val > BS * ByteBits ->
            /\ ret' = "ERR_FEEDBACKSIZE"
            /\ UNCHANGED <<fb, fbMixed, fbLog>>
       [] OTHER ->
            /\ fb' = val
            /\ fbMixed' = (fbMixed \/ (stream # <<>> /\ val # fb))
            /\ fbLog' = LogFb(val)
            /\ ret' = "SUCCESS"
  /\ UNCHANGED <<alg, phase, enc, iv, offset, ivStart, stream, out>>

(* MODES_CFB_Update = MODES_CipherStreamProcess(MODES_CFB_Encrypt or     *)
(* MODES_CFB_Decrypt, ...).                                               *)
Update(in, cap) ==
  /\ phase \in {"inited", "updating"}
  /\ CASE in = <<>> ->
            /\ ret' = "SUCCESS"
            /\ UNCHANGED <<phase, iv, offset, stream, out>>
       [] Len(in) > cap ->
            /\ ret' = "BUFF_LEN_NOT_ENOUGH"
            /\ UNCHANGED <<phase, iv, offset, stream, out>>
       [] OTHER ->
            LET r == CfbCrypt(iv, offset, fb, enc, in)
            IN  /\ iv' = r.iv
                /\ offset' = r.offset
                /\ stream' = stream \o in
                /\ out' = out \o r.out
                /\ phase' = "updating"
                /\ ret' = "SUCCESS"
  /\ UNCHANGED <<alg, enc, fb, ivStart, fbMixed, fbLog>>

(* MODES_CFB_Ctrl(CRYPT_CTRL_REINIT_STATUS) = MODES_SetIv. *)
Reinit(v, ivLen) ==
  /\ phase \in {"inited", "updating"}
  /\ IF ivLen # BS
       THEN /\ ret' = "IVLEN_ERROR"
            /\ UNCHANGED <<iv, offset, ivStart, stream, out, fbMixed, fbLog>>
       ELSE /\ iv' = v
            /\ offset' = 0
            /\ ivStart' = v
            /\ stream' = <<>>
            /\ out' = <<>>
            /\ fbMixed' = FALSE
            /\ fbLog' = <<<<0, fb>>>>
            /\ ret' = "SUCCESS"
  /\ UNCHANGED <<alg, phase, enc, fb>>

(* MODES_CFB_DeInitCtx: MODES_Clean, then the default feedback size.  The *)
(* message ends: the history restarts as for a fresh context.              *)
DeInitCtx ==
  /\ phase \in {"inited", "updating"}
  /\ phase' = "new"
  /\ iv' = [i \in 1..BS |-> 0]
  /\ offset' = 0
  /\ fb' = Wide
  /\ ivStart' = [i \in 1..BS |-> 0]
  /\ stream' = <<>>
  /\ out' = <<>>
  /\ fbMixed' = FALSE
  /\ fbLog' = <<<<0, Wide>>>>
  /\ ret' = "SUCCESS"
  /\ UNCHANGED <<alg, enc>>

(* MODES_CFB_Final: nothing is cached, *outLen = 0. *)
Final ==
  /\ phase \in {"inited", "updating"}
  /\ ret' = "SUCCESS"
  /\ UNCHANGED <<alg, phase, enc, fb, iv, offset, ivStart, stream, out, fbMixed, fbLog>>

(* MODES_CFB_FreeCtx: MODES_CFB_DeInitCtx, then the key context and the   *)
(* context itself are freed; the caller holds no context any more.        *)
FreeCtx ==
  /\ phase # "freed"
  /\ phase' = "freed"
  /\ iv' = [i \in 1..BS |-> 0]
  /\ offset' = 0
  /\ fb' = Wide
  /\ ivStart' = [i \in 1..BS |-> 0]
  /\ stream' = <<>>
  /\ out' = <<>>
  /\ fbMixed' = FALSE
  /\ fbLog' = <<<<0, Wide>>>>
  /\ ret' = "SUCCESS"
  /\ UNCHANGED <<alg, enc>>

(* MODES_CFB_NewCtx has made the context over the method                *)
(* MODES_GetSymMethod finds for algId (none: no context); feedback = the  *)
(* block width.                                                           *)
Init ==
  /\ \E id \in CipherIds : GetSymMethod(id) # "NONE" /\ alg = GetSymMethod(id)
  /\ phase = "new"
  /\ enc = FALSE
  /\ fb = Wide
  /\ iv = [i \in 1..BS |-> 0]
  /\ offset = 0
  /\ ivStart = [i \in 1..BS |-> 0]
  /\ stream = <<>>
  /\ out = <<>>
  /\ fbMixed = FALSE
  /\ fbLog = <<<<0, Wide>>>>
  /\ ret = "SUCCESS"

Inputs(n) == UNION {[1..k -> InBytes] : k \in 0..n}

Next ==
  \/ \E e \in BOOLEAN, v \in Ivs, l \in {BS - 1, BS} : InitCtx(e, v, l)
  \/ \E val \in FeedbackIds \cup {2 * Wide} : SetFeedbackSize(val)
  \/ \E in \in Inputs(MaxChunk) :
       /\ Len(stream) + Len(in) <= MaxStream
       /\ \E cap \in {Len(in) - 1, Len(in)} : Update(in, cap)
  \/ \E v \in Ivs, l \in {BS - 1, BS} : Reinit(v, l)
  \/ DeInitCtx
  \/ Final
  \/ FreeCtx

Spec == Init /\ [][Next]_vars

(***************************************************************************)
(* Properties.                                                             *)
(***************************************************************************)
TypeOK ==
  /\ alg \in {GetSymMethod(id) : id \in CipherIds}
  /\ phase \in {"new", "inited", "updating", "freed"}
  /\ enc \in BOOLEAN
  /\ fb \in FeedbackIds
  /\ iv \in Blocks /\ ivStart \in Blocks
  /\ offset \in 0..(BS - 1)
  /\ stream \in Seq(Byte) /\ out \in Seq(Byte)
  /\ fbMixed \in BOOLEAN
  /\ fbLog \in Seq((0..MaxStream) \X FeedbackIds)
  /\ ret \in Status

(* The reference CFB-s of NIST SP 800-38A on a whole message: segment j   *)
(* is XORed with the leading s bits of E(I_j), and I_{j+1} is I_j shifted *)
(* left by s bits with the ciphertext segment appended.  The register is  *)
(* a bit string here, so one definition covers s = 1, 8 and 128.          *)
RECURSIVE RefCfb(_, _, _, _)
RefCfb(reg, s, e, bits) ==
  IF bits = <<>> THEN <<>>
  ELSE
    LET n   == IF Len(bits) < s THEN Len(bits) ELSE s
        ks  == ToBits(EncryptIv(FromBits(reg)))
        o   == [k \in 1..n |-> (bits[k] + ks[k]) % 2]
        c   == IF e THEN o ELSE SubSeq(bits, 1, n)
    IN  o \o RefCfb(SubSeq(reg, n + 1, Len(reg)) \o c, s, e,
                    SubSeq(bits, n + 1, Len(bits)))

(* The output StreamCipher requires of a whole message. *)
CfbCipher(v, p, m) == FromBits(RefCfb(ToBits(v), p.fb, p.enc, ToBits(m)))

Stream == INSTANCE StreamCipher
            WITH IvSpace <- Blocks,
                 ParamSpace <- [fb : FeedbackIds, enc : BOOLEAN],
                 Cipher <- CfbCipher,
                 iv0 <- ivStart,
                 param <- [fb |-> fb, enc |-> enc],
                 msg <- stream,
                 out <- out,
                 defined <- ~fbMixed

(* CFB implements the stream-cipher contract: however a message is split *)
(* into Update calls, each successful call returns as many bytes as it    *)
(* was given, never changes a byte already returned, and the bytes so far *)
(* are the reference CFB of the whole message under the IV it started     *)
(* with, the offset bookkeeping resuming a partly used keystream block    *)
(* exactly where the previous call left it, in both directions; only a    *)
(* feedback size changed in mid-message leaves the rest unspecified.      *)
CfbRefinement == Stream!Spec

(* The feedback size in force for the byte after position p. *)
FbAt(p) == LET i == CHOOSE i \in 1..Len(fbLog) :
                      fbLog[i][1] <= p /\ \A j \in (i + 1)..Len(fbLog) : fbLog[j][1] > p
           IN  fbLog[i][2]

(* The peer of the context: CFB_Crypt in the other direction from the    *)
(* IV the message started with, fed the context's output one byte at a   *)
(* time and switched to each feedback size at the byte it came in at.    *)
RECURSIVE Peer(_, _, _)
Peer(v, off, k) ==
  IF k > Len(out) THEN <<>>
  ELSE LET r == CfbCrypt(v, off, FbAt(k - 1), ~enc, <<out[k]>>)
       IN  r.out \o Peer(r.iv, r.offset, k + 1)

(* SetFeedbackSize has no state check, so the size can change in the     *)
(* middle of a message, leaving ctx->offset and a register that holds    *)
(* unused keystream bytes to the new size's path (modes_cfb.c:269).  No   *)
(* textbook CFB says what that produces, but it must stay invertible: a  *)
(* peer that makes the same changes at the same byte positions, in any   *)
(* direction, gets back exactly the bytes the context was given.         *)
CfbMixedInvertible == Peer(ivStart, 0, 1) = stream
=============================================================================
