--------------------------- MODULE ModesRoundTrip ---------------------------
(***************************************************************************)
(* Two contexts of the mode engine composed as sender and receiver: EncCtx *)
(* encrypts the caller's plaintext in arbitrary chunks, DecCtx decrypts    *)
(* EncCtx's ciphertext, again in arbitrary chunks, while EncCtx is still   *)
(* producing it.  Each context runs the operations of ModesCipher.         *)
(***************************************************************************)
EXTENDS ModesCipher

CONSTANTS EncCtx, DecCtx

ASSUME Ctxs = {EncCtx, DecCtx} /\ EncCtx # DecCtx

(* The receiver feeds the next k ciphertext bytes it has not yet fed.     *)
DecUpdate ==
  \E k \in 0..MaxChunk :
    LET from == Len(stream[DecCtx])
        in   == SubSeq(out[EncCtx], from + 1, from + k)
    IN  /\ from + k <= Len(out[EncCtx])
        /\ \E cap \in UpdateCaps(DecCtx, in) : Update(DecCtx, in, cap)

RTNext ==
  \/ \E c \in Ctxs : NewCtx(c)
  \/ InitCtx(EncCtx, TRUE, BS)
  \/ InitCtx(DecCtx, FALSE, BS)
  \/ \E c \in Ctxs, p \in Paddings : SetPadding(c, p)
  \/ UpdateStep(EncCtx)
  \/ DecUpdate
  \/ \E c \in Ctxs, cap \in FinalCaps : Final(c, cap)

RTSpec == Init /\ [][RTNext]_vars

(* When both sides used the same padding, the receiver decrypted exactly  *)
(* the sender's ciphertext and both Finals succeeded, the receiver got    *)
(* back exactly the plaintext, whatever the chunking on either side.      *)
RoundTrip ==
  /\ phase[EncCtx] = "finaled"
  /\ phase[DecCtx] = "finaled"
  /\ pad[EncCtx] = pad[DecCtx]
  /\ stream[DecCtx] = out[EncCtx]
  => out[DecCtx] = stream[EncCtx]
=============================================================================
