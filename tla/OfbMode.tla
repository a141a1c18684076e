------------------------------ MODULE OfbMode ------------------------------
(***************************************************************************)
(* SM4-OFB of src/crypto/modes/src/asm_sm4_ofb_x86_64.c: SM4_OFB_Update   *)
(* through MODES_CipherStreamProcess into MODE_SM4_OFB_Encrypt/Decrypt,   *)
(* which hand the context's IV register and offset to the assembly core   *)
(* CRYPT_SM4_OFB_Encrypt/Decrypt (outside src/, modelled from spec 4.5);  *)
(* SM4_OFB_InitCtx = MODES_CipherInitCtx; REINIT_STATUS = MODES_SetIv;    *)
(* DeInit = MODES_CipherDeInitCtx.                                         *)
(*                                                                         *)
(* As in CfbMode, a byte has ByteBits bits so that every IV and byte can  *)
(* be enumerated.                                                         *)
(***************************************************************************)
EXTENDS Integers, Sequences, Bitwise

CONSTANTS
  BlockSize,  \* ctx->blockSize in bytes
  ByteBits,   \* bits per byte
  Ivs,        \* the IVs a caller passes to Init and Reinit
  InBytes,    \* the byte values a caller passes to Update
  MaxChunk,   \* bound on inLen of one Update call
  MaxStream   \* bound on the bytes processed since Init or Reinit

ASSUME /\ BlockSize \in 2..16 /\ ByteBits \in 1..8
       /\ MaxChunk \in Nat /\ MaxStream \in Nat
       /\ Ivs \subseteq [1..BlockSize -> 0..(2^ByteBits - 1)]
       /\ InBytes \subseteq 0..(2^ByteBits - 1)

VARIABLES
  phase,    \* "new" or "inited"
  enc,      \* modeCtx->enc
  iv,       \* ctx->iv: the IV, then the last keystream block
  offset,   \* ctx->offset: bytes of that keystream block used
  ivStart,  \* history: the IV set by Init or Reinit
  stream,   \* history: the bytes fed since Init or Reinit
  out,      \* history: the bytes returned since Init or Reinit
  ret       \* status of the last call

vars == <<phase, enc, iv, offset, ivStart, stream, out, ret>>

BS == BlockSize
ByteMod == 2^ByteBits
Byte == 0..(ByteMod - 1)
Blocks == [1..BS -> Byte]
Zeros == [i \in 1..BS |-> 0]

(* The SM4 block encryption (outside src/): a fixed keyed map. *)
EncryptBlock(v) == [i \in 1..BS |-> (3 * v[i] + v[(i % BS) + 1] + i) % ByteMod]

(* CRYPT_SM4_OFB_Encrypt/Decrypt (spec 4.5): with no keystream left at   *)
(* the offset, the register is encrypted in place to give the next       *)
(* keystream block; each byte is XORed with the keystream byte at the    *)
(* offset, which then advances modulo the block size.  Both directions   *)
(* are the same.                                                         *)
RECURSIVE OfbCrypt(_, _, _)
OfbCrypt(v, off, in) ==
  IF in = <<>> THEN [iv |-> v, offset |-> off, out |-> <<>>]
  ELSE LET k == IF off = 0 THEN EncryptBlock(v) ELSE v
           r == OfbCrypt(k, (off + 1) % BS, Tail(in))
       IN  [r EXCEPT !.out = <<k[off + 1] ^^ in[1]>> \o @]

(* SM4_OFB_InitCtx = MODES_CipherInitCtx: the IV must be one block; then  *)
(* MODES_SM4_SetEncryptKey (outside src/) may reject the key; else the   *)
(* direction is recorded.  The offset is not touched.                    *)
InitCtx(e, v, ivLen) ==
  /\ phase = "new"
  /\ IF ivLen # BS
       THEN /\ ret' = "IVLEN_ERROR"
            /\ UNCHANGED <<phase, enc, iv, offset, ivStart, stream, out>>
       ELSE \/ /\ ret' = "KEY_ERROR"
               /\ UNCHANGED <<phase, enc, iv, offset, ivStart, stream, out>>
            \/ /\ phase' = "inited"
               /\ enc' = e
               /\ iv' = v
               /\ ivStart' = v
               /\ stream' = <<>>
               /\ out' = <<>>
               /\ ret' = "SUCCESS"
               /\ UNCHANGED offset

(* SM4_OFB_Update = MODES_CipherStreamProcess(MODE_SM4_OFB_Encrypt or    *)
(* MODE_SM4_OFB_Decrypt, ...): an empty input succeeds with nothing      *)
(* written, a capacity below inLen fails, else the core runs on the      *)
(* context's register and offset.                                        *)
Update(in, cap) ==
  /\ phase = "inited"
  /\ CASE in = <<>> ->
            /\ ret' = "SUCCESS"
            /\ UNCHANGED <<iv, offset, stream, out>>
       [] Len(in) > cap ->
            /\ ret' = "BUFF_LEN_NOT_ENOUGH"
            /\ UNCHANGED <<iv, offset, stream, out>>
       [] OTHER ->
            LET r == OfbCrypt(iv, offset, in)
            IN  /\ iv' = r.iv
                /\ offset' = r.offset
                /\ stream' = stream \o in
                /\ out' = out \o r.out
                /\ ret' = "SUCCESS"
  /\ UNCHANGED <<phase, enc, ivStart>>

(* Mutant of Reinit: the new IV is copied but the offset is kept. *)
ReinitKeepOffset(v, ivLen) ==
  /\ phase = "inited"
  /\ IF ivLen # BS
       THEN /\ ret' = "IVLEN_ERROR"
            /\ UNCHANGED <<iv, offset, ivStart, stream, out>>
       ELSE /\ iv' = v
            /\ ivStart' = v
            /\ stream' = <<>>
            /\ out' = <<>>
            /\ ret' = "SUCCESS"
            /\ UNCHANGED offset
  /\ UNCHANGED <<phase, enc>>

(* MODES_CipherCtrl(CRYPT_CTRL_REINIT_STATUS) = MODES_SetIv: a new IV of *)
(* one block, and the offset back to 0.                                  *)
Reinit(v, ivLen) ==
  /\ phase = "inited"
  /\ IF ivLen # BS
       THEN /\ ret' = "IVLEN_ERROR"
            /\ UNCHANGED <<iv, offset, ivStart, stream, out>>
       ELSE /\ iv' = v
            /\ offset' = 0
            /\ ivStart' = v
            /\ stream' = <<>>
            /\ out' = <<>>
            /\ ret' = "SUCCESS"
  /\ UNCHANGED <<phase, enc>>

(* MODES_CipherDeInitCtx -> MODES_Clean: register cleansed, offset 0.    *)
(* The message ends, so the history restarts.                            *)
DeInitCtx ==
  /\ phase = "inited"
  /\ phase' = "new"
  /\ iv' = Zeros
  /\ offset' = 0
  /\ ivStart' = Zeros
  /\ stream' = <<>>
  /\ out' = <<>>
  /\ ret' = "SUCCESS"
  /\ UNCHANGED enc

Init ==
  /\ phase = "new"
  /\ enc = FALSE
  /\ iv = Zeros
  /\ offset = 0
  /\ ivStart = Zeros
  /\ stream = <<>>
  /\ out = <<>>
  /\ ret = "SUCCESS"

Inputs(n) == UNION {[1..k -> InBytes] : k \in 0..n}

Next ==
  \/ \E e \in BOOLEAN, v \in Ivs, l \in {BS - 1, BS} : InitCtx(e, v, l)
  \/ \E in \in Inputs(MaxChunk) :
       /\ Len(stream) + Len(in) <= MaxStream
       /\ \E cap \in {Len(in) - 1, Len(in)} : Update(in, cap)
  \/ \E v \in Ivs, l \in {BS - 1, BS} : Reinit(v, l)
  \/ DeInitCtx

Spec == Init /\ [][Next]_vars

(***************************************************************************)
(* Properties.                                                             *)
(***************************************************************************)

(* Keystream block j of the textbook OFB (SP 800-38A): E applied j times *)
(* to the IV.                                                             *)
RECURSIVE OfbBlock(_, _)
OfbBlock(v, j) == IF j = 0 THEN v ELSE EncryptBlock(OfbBlock(v, j - 1))

(* The output StreamCipher requires of a whole message. *)
OfbCipher(v, p, m) ==
  [i \in 1..Len(m) |-> m[i] ^^ OfbBlock(v, ((i - 1) \div BS) + 1)[((i - 1) % BS) + 1]]

Stream == INSTANCE StreamCipher
            WITH IvSpace <- Blocks,
                 ParamSpace <- {"OFB"},
                 Cipher <- OfbCipher,
                 iv0 <- ivStart,
                 param <- "OFB",
                 msg <- stream,
                 out <- out,
                 defined <- TRUE

(* SM4-OFB implements the stream-cipher contract: however a message is   *)
(* split into Update calls, and in either direction, each successful     *)
(* call returns as many bytes as it was given and never changes one      *)
(* already returned, and byte i is XORed with byte (i-1) % BS of         *)
(* E^((i-1) \div BS + 1)(IV): the offset the glue hands to the core      *)
(* resumes the keystream block where the previous call left it, and a    *)
(* new IV starts from a fresh block.                                     *)
OfbRefinement == Stream!Spec
=============================================================================
