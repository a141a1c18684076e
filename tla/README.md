# TLA+ models of the openHiTLS block-cipher mode engine

These modules model the cipher-mode engine under `src/crypto/modes/src/` and check it with TLC. The spec (spec.md §1) names this engine as the core of the sampled source. The engine has three parts:

- the generic engine (`modes.c`), including the method lookup `MODES_GetSymMethod`;
- CFB (`modes_cfb.c`);
- the AES-CTR glue (`asm_aes_ctr.c`);
- the SM4-OFB glue (`asm_sm4_ofb_x86_64.c`).

The project also models the ownership of a TLS certificate pair (`src/tls/cert/cert_adapt/cert_pair.c`) and the UDP transport of the TLS test framework (`src/testcode/framework/tls/transfer/src/udp_channel.c`). The other sampled files are listed in `PROJECT.json` ("components"), each with the reason it is not modelled.

## The system

| Part | Source | State | Operations |
|---|---|---|---|
| Generic engine | `modes.c` | `MODES_CipherCtx`: `enc`, `pad`, the cache `data[0..dataLen)`, and `commonCtx` (`iv`, `buf`, `offset`, `blockSize`, the primitive) | `MODES_CipherNewCtx`, `MODES_CipherInitCtx`, padding set-up (`MODES_SetPaddingCheck`), `MODES_CipherUpdate` with `MODES_CipherUpdateCache`, `MODES_CipherFinal` with `MODES_BlockPadding` / `Mode_BlockUnPadding`, `MODES_CipherCtrl(REINIT_STATUS)` = `MODES_SetIv`, `MODES_CipherDeInitCtx` / `MODES_Clean`, `MODES_CipherFreeCtx`, `MODES_CipherStreamProcess` |
| CFB | `modes_cfb.c` | `commonCtx` plus `feedbackBits` and `enc` | `MODES_CFB_NewCtx`, `MODES_CFB_InitCtx`, `MODES_CFB_Ctrl` (`SetFeedbackSize`, `REINIT_STATUS`), `MODES_CFB_Update` into `CFB_Crypt`, which runs `MODES_CFB_BytesEncrypt/Decrypt` or `MODES_CFB_BitCrypt` / `Cfb1Crypt`, and `MODES_CFB_DeInitCtx` |
| AES-CTR | `asm_aes_ctr.c` | `commonCtx`: `iv` (a 96-bit upper part and a 32-bit big-endian low word), `buf`, `offset` | `AES_CTR_Update` into `AES_CTR_EncryptBlock` |
| SM4-OFB | `asm_sm4_ofb_x86_64.c` | `commonCtx`: `iv` (the IV, then the last keystream block) and `offset` | `SM4_OFB_InitCtx`, `SM4_OFB_Update` into `MODE_SM4_OFB_Encrypt/Decrypt` and the assembly core, with `MODES_SetIv` and `MODES_CipherDeInitCtx` from `modes.c` |
| Certificate pair | `cert_pair.c` | `CERT_Pair`: `cert`, `encCert`, `privateKey`, `chain` | `SAL_CERT_PairDup`, `SAL_CERT_PairClear`, `SAL_CERT_PairFree` |
| UDP test transport | `udp_channel.c` | the sockets a test process holds, the retry counters of `UdpConnect` and `UdpBind`, `g_UdpUioMethodDefault` | `UdpConnect`, `UdpBind`, `UdpAccept`, `UdpClose`, `UdpGetDefaultMethod`, `SelectUdpWrite/Read`, `UdpFrameWrite/Read` |

How the parts interact:

- The block modes (CBC/ECB/GCM/XTS, outside src/) run their block transform through the generic engine's cache and padding.
- The stream-like modes (CFB, CTR, OFB) go through `MODES_CipherStreamProcess`. That function checks only the capacity and has no cache.
- All of them share `MODES_SetIv` for `REINIT_STATUS` and `MODES_Clean` for DeInit.
- The block primitive (`encryptBlock`/`decryptBlock`) lives outside src/.
- The UDP transport is separate from the engine. A client test process connects, and a server test process binds and accepts. Each then does record I/O through the method `UdpGetDefaultMethod` installs, where a frame callback of the test may rewrite a datagram.

The caller's lifecycle is New → Init → (padding) → Update* → Final → DeInit/Free (spec §2). REINIT_STATUS may come at any point after Init. There is no concurrency inside the engine: a context belongs to one caller (spec §5). The hard behaviour is therefore in the sequences of calls, not in interleavings:

- how a message is chunked;
- the cache and the held-back last block of a padded decryption;
- where a keystream block is left off between calls;
- the 32-bit counter wrap;
- the padding boundaries;
- what survives a reinitialisation.

## Modules

- **`ModesPadding`** holds the pure operators for `MODES_BlockPadding` (`BlockPadding`), `UnPaddingISO7816`, `UnPaddingX923`, `UnPaddingPkcs`, `Mode_BlockUnPadding` (`BlockUnPadding`) and `MODES_SetPaddingCheck`.
  - `PadStart` models the uint32 subtraction `padLen - len`. Whenever it wraps, the wrapped value lies beyond every index of the block.
  - As in the code, a rejected block leaves `*outLen` as the caller set it. So do ZEROS and NONE.
- **`ModesCipher`** is the generic engine over a set `Ctxs` of independent contexts. Every variable is a function of the context.
  - Variables: `phase` (the caller's lifecycle), `enc`, `pad`, and `data` (the cache).
  - Two history variables record the message: `stream` (the bytes fed since Init/Reinit) and `out` (the bytes returned).
  - `call` records the last call's status, the capacity passed, the `*outLen` reported and the bytes actually written.
  - Each action is one whole C function, including its early returns:
    - `NewCtx` (a calloc can fail);
    - `InitCtx` (the IV-length check, then the key routine, which may reject the key; the cache is not reset);
    - `SetPadding`;
    - `Update` (the capacity check, the cache step `UpdateCache`, the bulk step with the hold of the last block, the new cache);
    - `Final` (the capacity check, padding, or decrypt and unpad);
    - `Reinit`, `DeInitCtx`, `FreeCtx`.
  - The primitive is a keyed, block-local byte permutation (`ECB`), so a misaligned block or a reordered byte is visible in the output.
- **`ModesRoundTrip`** composes two `ModesCipher` contexts. The sender encrypts the caller's bytes in arbitrary chunks. The receiver decrypts the sender's ciphertext, also in arbitrary chunks and possibly before the sender has finished.
- **`MCModesPadding`** checks the unpadding routines against `BlockPadding` over every block of a small byte set. The byte set contains every count, 0x80, 0 and a byte above any count.
- **`CtrMode`** models AES-CTR.
  - Each output byte is recorded as the (counter, position) of the keystream byte XORed into it.
  - `CtrBlocks` is the `while` loop of `AES_CTR_EncryptBlock`: the batch is cut at the wrap of the low word, and the upper part carries when `beCtr32 = 0`.
  - `LastHandleLen` and `IncFull` model `MODES_CTR_LastHandle` and `MODE_IncCounter` from the spec, because they are outside src/.
  - The counter is HiBits + LoBits wide. A 2-bit low word wraps within a few blocks.
- **`CfbMode`** models CFB with ByteBits-bit bytes, so that every IV and byte can be enumerated.
  - The three feedback sizes are 1 bit, one byte (the code's 8) and one block (the code's 128).
  - `CfbBytes` is both loops of `MODES_CFB_BytesEncrypt/Decrypt`: the offset loop and the block step, including the short tail that sets the offset.
  - `Cfb1Crypt` and `CfbBitLoop` are the 1-bit path.
  - `alg` is AES or SM4. SM4 accepts only full-block feedback.
  - `fbMixed` records a feedback change in the middle of a message.
  - `fbLog` is a history of the feedback size in force from each position of the message on. `CfbMixedInvertible` runs the code's own `CfbCrypt` in the opposite direction, a byte at a time, applying the same changes at the same positions, and requires it to give back `stream`.
  - `alg` is the algId of the method `MODES_GetSymMethod` finds for the caller's cipher id, as in `MODES_CFB_NewCtx`. An id with no method creates no context.
  - `BitCount` is the `len * 8` that `CFB_Crypt` hands to the 1-bit path, kept in a uint32 of `LenBits` bits.
  - The lifecycle actions are `InitCtx`, `SetFeedbackSize`, `Update`, `Reinit`, `Final` (`*outLen = 0`), `DeInitCtx` and `FreeCtx` (a terminal `freed` phase).
  - In every mode model, `InitCtx` checks the IV length first. The key routine of the block primitive (outside src/) then accepts or rejects the key; a rejection leaves the context as it was.
- **`OfbMode`** models SM4-OFB with the same small bytes as `CfbMode`.
  - `OfbCrypt` is the assembly core that `MODE_SM4_OFB_Encrypt/Decrypt` hand the register and offset to. It is outside src/ and follows spec §4.5: at offset 0 the register is encrypted in place, and each byte uses the keystream byte at the offset.
  - `InitCtx`, `Update`, `Reinit` and `DeInitCtx` are the glue's and the engine's functions.
- **`SymMethod`** is `MODES_GetSymMethod` as an operator, reduced to the algId of the method table found.
- **`StreamCipher`** is the abstract contract of a stream-style mode, for one message at a time.
  - `Start` begins a message with an IV and a configuration (Init, Reinit or DeInit).
  - `Extend` is a successful Update: it appends the input, returns as many bytes, keeps the bytes already returned, and makes the output the mode's function `Cipher` of the whole message.
  - `Reconfigure` changes the configuration. In mid-message it makes the rest of the message unspecified, apart from its length and the bytes already returned.
  - `CtrMode`, `CfbMode` and `OfbMode` each instantiate it (`Stream == INSTANCE StreamCipher WITH ...`). The refinement mapping takes `ivStart`, the feedback configuration, `stream` (CTR: the keystream positions) and `out` to the abstract state, and `~fbMixed` to `defined`. The abstract `Spec` is checked as a PROPERTY.
  - CFB's DeInit ends the message, so the model restarts the history variables there, as at Init.
- **`CertPair`** is the ownership of the references a certificate pair holds.
  - A reference is named by the pair and field holding it. A dup creates a new reference.
  - `PairDup(s, fail)` is the whole of `SAL_CERT_PairDup`. `fail` chooses the step that fails: the calloc, the dup of a field the source holds, or none. `DupInto` is the body after the calloc, and `Cleanup` lists what each failure path frees.
  - `Clear(m, p)` and `PairFree(m, p)` are the caller's calls of `SAL_CERT_PairClear` and `SAL_CERT_PairFree` with manager `m`. Both go through `PairClear`. When `m` is NULL, `PairClear` returns at line 86 and does nothing. Otherwise it releases the fields and zeroes the pair. `PairFree` frees the structure either way (line 112).
  - `MgrCtxs` are the managers the caller passes to `SAL_CERT_PairClear`, here NULL or a real one. `FreeMgrCtxs` are those it passes to `SAL_CERT_PairFree`.
  - `held` is the set of pairs the caller holds. `doubleFree` records a release of a reference already released.
- **`UdpChannel`** is the UDP test transport, with the client's and the server's calls as two independent processes.
  - A descriptor is named by its role (`"cfd"`, `"lfd"`), and `open` is the set open.
  - `UdpConnectOpen` and `UdpBindOpen` are the socket and setsockopt steps. A failure of either returns -1, with the socket closed.
  - Each retry loop is two actions: `UdpConnectTry` / `UdpBindTry` (one connect() or bind(), then usleep) and `UdpConnectRetry` / `UdpBindRetry` (the loop condition, with its increment, and the check after the loop). `ok` is whether the kernel call succeeded, chosen freely.
  - `UdpFrameWrite` and `UdpFrameRead` reduce a frame to its length. `newLen` / `packLen` is what the callback `GetNewBuf` makes of it (0 means busy). The UDP method sends a datagram whole, not at all, or fails, and it always fails on a closed descriptor.
  - `io` records the last record I/O: the length asked for, the status, and the length reported.
- **`MCModesCipher`**, **`MCCfbMode`** and **`MCOfbMode`** give the model values for TLC.

## Runs

| Run | Checks | Shows |
|---|---|---|
| `cache_lifecycle` (`ModesCipher.cfg`) | `TypeOK`, `NoOutputOverrun`, `OutLenWithinWritten` | For every sequence of operations on a context, Update and Final never write beyond the capacity and never report more than they wrote. Padding is NONE, ISO7816, X9.23 or PKCS7; the capacity is one short, exact or one block over. The uint32 lengths are scaled to 2 bits, so an Update whose `inLen + cacheLen` wraps occurs, and it is rejected before anything is written. |
| `roundtrip` (`ModesRoundTrip.cfg`) | `RoundTrip`, `StreamConsistency` | Chunking on either side never loses, duplicates or reorders a byte. Decryption recovers the plaintext under every padding but ZEROS. |
| `padding_schemes` (`MCModesPadding.cfg`) | `UnpadOnlyPadded` | ISO7816 and PKCS7 unpadding accept a block only if `MODES_BlockPadding`, applied to the data returned, produces that block. The length returned is then below the block size. This is soundness only: the run does not show that every padded block is accepted. |
| `ctr_counter` (`CtrMode.cfg`) | `TypeOK`, `CtrRefinement` | AES-CTR implements `StreamCipher`. Over any chunking and any counter wrap, each call extends the keystream by its length, and byte i uses counter IV + (i-1)/16, as the NIST counter requires. |
| `cfb_stream` (`CfbMode.cfg`) | `TypeOK`, `CfbMixedInvertible`, `CfbRefinement` | CFB implements `StreamCipher`. Over any chunking, for 1-bit, byte and block feedback, in both directions, each call returns the textbook CFB (SP 800-38A) of the message so far. `SetFeedbackSize` (modes_cfb.c:269) may change the width mid-message without resetting the offset. Such a message has no textbook keystream, but a peer that makes the same changes at the same positions still inverts it. About 192,000 distinct states, a little over a minute. |
| `ofb_stream` (`OfbMode.cfg`) | `OfbRefinement` | SM4-OFB implements `StreamCipher`. Over any chunking and any Reinit, byte i uses keystream byte (i-1)%BS of E^((i-1)/BS+1)(IV). |
| `cert_pair_ownership` (`CertPair.cfg`) | `TypeOK`, `NoLeak`, `NoDoubleFree` | Over up to three dups, each able to fail at any step, and any clears and frees, nothing is released twice. Nothing leaks, provided `SAL_CERT_PairFree` is given a real manager (`FreeMgrCtxs = {mgr}`); clears with a NULL manager are included. |
| `udp_transport` (`UdpChannel.cfg`) | `TypeOK`, `NoFdLeak`, `FrameIoContract`, `CallsReturn` | No failed `UdpConnect` or `UdpBind` leaves its socket open. However the frame callback rewrites a datagram, a successful write reports nothing or the whole record, and a successful read never reports more than the buffer holds. Under weak fairness of the calling process, both retry loops end even when every kernel call fails. |
| `cfb1_bitlen_wrap` (violation) | `CfbRefinement` | With 1-bit feedback, an Update long enough to wrap `len * 8` processes only the wrapped number of bits but reports the full length. |
| `zeros_outlen` (violation) | `OutLenWithinWritten` | A decrypting Final under ZEROS reports the caller's capacity as the output length. |
| `reinit_cache` (violation) | `StreamConsistency` | After REINIT_STATUS, bytes cached from the previous message are processed as part of the new one. |
| `x923_zero_count` (violation) | `UnpadOnlyPadded` | X9.23 unpadding accepts a count byte of 0. |

Each property of a passing run has a mutant in `PROJECT.json`. A mutant is a plausible bug in the code the property is about, and TLC finds it:

- the capacity check without the cached bytes;
- a deferred block still counted in `*outLen`;
- a cache not emptied after processing;
- a last block never held back;
- an unclamped cache top-up;
- a count of 0 accepted;
- no carry at the counter wrap;
- a finished keystream block whose offset is not wrapped to 0;
- a 1-bit register rotated instead of fed the cipher bit;
- decryption's offset loop writing the output over the input before feeding it back (no `tmpInput`);
- an unvalidated feedback size;
- no check that `inLen + cacheLen` wrapped;
- a Reinit that keeps the OFB offset;
- a failed dup of the chain that does not free the key;
- a pair cleared without being zeroed;
- a calloc result used without a NULL check;
- a setsockopt failure that does not close the socket;
- a rewritten frame whose `writeLen` is not restored to `len`;
- a connect loop condition `<=` instead of `<`;
- a connect loop condition that drops its increment.

### Findings

1. **ZEROS decryption reports a wrong `*outLen` (code bug, `modes.c:294`).** `Mode_BlockUnPadding` has no routine for ZEROS. It writes back the length the caller passed in, which is the buffer capacity. A decrypting Final therefore reports its capacity (for example 2 blocks) after writing one block.
2. **REINIT_STATUS keeps the cache (`modes.c:551`).** `MODES_SetIv` resets `offset` but not `dataLen`. A partial block from the previous message, or the padded block that an encrypting Final leaves in `data`, is prepended to the next message. The spec (§8) says output after a reset no longer depends on the old partial-block state.
3. **X9.23 accepts a count of 0 (`modes.c:253`).** Only `len > padLen` is rejected. A final byte 0 makes `pos = padLen`, so no byte is checked and the whole block is returned as data. The spec asks for a valid count, and `MODES_BlockPadding` never writes 0 on a partial cache.
4. **1-bit CFB wraps its bit count (code bug, `modes_cfb.c:224`).** `CFB_Crypt` passes `len * 8` as a uint32 to `MODES_CFB_BitCrypt`. For an Update of 2^29 bytes or more, the count wraps and only `(len * 8) mod 2^32` bits are processed. `MODES_CipherStreamProcess` still reports `*outLen = len`, so the rest of `out` is whatever the caller's buffer held. The run scales the width to 2 bits, where an Update of 2 two-bit bytes already wraps it.

### Defects of the test transport

These are not kept as violation runs: they lie in the test framework, not in the library. Both are modelled by the actions and listed as hazards.

- **`UdpConnect` discards a connection made on its last try (`udp_channel.c:85`).** The loop condition `index++ < maxConnTime` allows `maxConnTime + 1` tries, and a success on the last one leaves `index = maxConnTime`. The check `index >= maxConnTime` then closes the connected socket and returns -1. With `MaxConnTime = 2`, `UdpConnectTry(TRUE)` after two failed tries reaches that state.
- **`UdpAccept(needClose)` returns the descriptor it has just closed (`udp_channel.c:141`).**

### `SAL_CERT_PairFree` with a NULL manager

`SAL_CERT_PairClear` returns at once when `mgrCtx` is NULL (`cert_pair.c:85-87`). `SAL_CERT_PairFree` then frees the pair structure anyway (line 112). The certificate, encryption certificate, private key and chain it held become unreachable and are never released. With `FreeMgrCtxs = {NULL, mgr}` in `CertPair.cfg`, TLC reports `NoLeak` violated after one `PairFree` step. No call of `SAL_CERT_PairFree` exists under src/, so it cannot be seen whether a NULL manager is ever passed. The kept run assumes a real one, and the case is listed as a hazard.

### Re-initialisation without DeInit

`MODES_CFB_InitCtx` (`modes_cfb.c:347`) sets the key, the IV and the direction, but not `offset`. The models let `InitCtx` follow only `NewCtx` or `DeInit`, as in the spec's lifecycle. Whether the EAL layer, outside src/, always calls DeInit before a second Init cannot be seen from this source.

To see what happens if it does not, `CfbMode` was also checked with `InitCtx` allowed in any live phase. That variant is not kept as a run. TLC violates `CfbMixedInvertible` and `CfbRefinement` in four steps:
1. Init with block feedback;
2. Update 1 byte, which leaves `offset = 1`;
3. Init again with an IV;
4. Update 1 byte.

That byte is XORed with byte 2 of the new IV itself, never with the block cipher's output. For a public IV, the output is the plaintext in the clear.

## Bounds, and why they are enough

- **Block size 2 (the code's 16).** Every case of the cache logic depends only on how a chunk compares with the room left in the cache and with whole blocks: a partial cache, an exactly full cache, a cache plus a block, and a held block. With `MaxChunk = 3` and `MaxStream = 4` (two blocks), every one of these occurs, including a full cache followed by more input.
- **Padding blocks of 3 bytes.** This makes the counts 1, 2 and 3 possible, and the byte set adds 0 and a count above padLen.
- **CTR: low word of 2 bits, `MaxChunk = 9`, `MaxStream = 16`.** A single Update can span the wrap (up to four blocks) and a message can wrap twice. The 2-bit upper part makes the carry observable. The model's batch size is `left / BlockSize`. The code hard-codes `left >> 4`, which is the same for AES's 16-byte block.
- **CFB: 2-bit bytes, block of 2.** Feedback of 1 bit, 1 byte and 1 block are all distinct. A 3-byte chunk covers a resumed offset, a full segment and a short tail. The two IVs and the input bytes 1 and 2 make both bit values reach the 1-bit path. The cipher ids are AES128-CFB, SM4-CFB and one with no method.
- **Scaled uint32 widths.** `LenBits` is the width of the code's uint32 lengths. In `roundtrip` and the engine's violation runs it is 4 bits, and in `cfb_stream` 3 bits, wide enough never to wrap within the bounds. `cache_lifecycle` and `cfb1_bitlen_wrap` narrow it to 2 bits. A 3-byte Update on a non-empty cache, or a 2-byte 1-bit CFB Update, then behaves like an input near 2^32. At 2 bits the capacities are those below 4, so Final is given one short of a block and exactly one block.
- **Certificate pairs: `MaxPairs = 3`.** The caller's pair starts with any subset of its four fields. There are up to three dups, of the original or of a dup, and each can fail at the calloc or at any field it copies. Clears and frees come in any order. So every failure path runs from every source shape, and a clear is followed by a second clear, a free or a dup.

- **UDP: `MaxConnTime = MaxBindTries = 2`, `MaxLen = 2`.** Two tries are enough to reach the case the loop conditions differ on: a success, or a failure, on the last try. The lengths 1 and 2, with callback lengths 0 to 3, give a frame that is busy, shorter, equal, or longer than the record or buffer.

## Fairness

The engine and the certificate pair are checked for safety only. They do nothing of their own accord: every step is a caller's call, and a caller may stop at any time. No fairness is assumed there, and no liveness property would be justified.

`UdpChannel` is the exception. Once a test has called `UdpConnect` or `UdpBind`, the call runs on: `usleep` returns and the loop condition is tested. So `Fairness` makes the try and retry actions weakly fair. It does not force connect() or bind() to succeed, and it gives no fairness to the test's own calls (Open, Accept, Close, I/O). Under it, `CallsReturn` checks that both loops end. The run sets `CHECK_DEADLOCK FALSE` because the test processes stop once their calls are done. The `roundtrip`, padding and certificate-pair runs set `CHECK_DEADLOCK FALSE` where the modelled caller really stops: both Finals done, one verdict computed, or every pair freed. `cfb_stream` does too, because the caller stops once it has freed the context. The refinement properties are safety properties: the abstract `Spec` has no fairness conjunct.

## Not modelled

- The primitives and the block modes outside src/ (CBC/ECB/GCM/XTS bodies, `MODES_CTR_LastHandle/RemHandle`, `MODE_IncCounter`, and the AES/SM4 CFB and OFB assembly). They appear only as the operators `ECB`, `EncryptIv`, `EncryptBlock`, `IncFull`, `LastHandleLen` and `OfbCrypt`, which are modelled from the spec.
- The DRBG map (`eal_rand_method.c`) and the provider tables. These are constant lookups that a table test covers.
- `ClientRecvServerKxProcess` (`recv_server_key_exchange.c`). It is one handshake transition whose callees and state machine are outside src/. A model would have a few dozen states and would restate its switch.
- The certificate-pair getters. They change no state. Also not modelled: the size of the allocation in `SAL_CERT_PairDup` (`sizeof(CERT_MgrCtx)`), since structure sizes are outside src/.
- `MODES_GetIv`, `GetFeedbackSize` and `GET_BLOCKSIZE`. These read state and change nothing; as actions they would only add status values, which doubles `cfb_stream`'s state space.
- Re-initialisation without DeInit. Neither `MODES_CipherInitCtx` nor `MODES_CFB_InitCtx` resets the cache or offset, but the spec's lifecycle has Init follow New or DeInit. The EAL layer that enforces this is outside src/. This is listed as a hazard, and its effect on CFB is shown above.
- The RSA API and X.509 CSR test cases. Each is a straight-line sequence of library calls and assertions, and the library code they exercise is outside src/.
- In the UDP transport, the content of frames. `GetNewBuf` is outside src/, so two of its hazards are not represented: a buffer it returns with length 0, which `UdpFrameWrite` and `UdpFrameRead` would not free, and the capacity, not the received length, that `UdpFrameRead` passes it.

## Plan

Done:

1. the padding operators;
2. the generic engine and its lifecycle;
3. the two-context round trip;
4. CTR;
5. CFB;
6. the abstract `StreamCipher` contract, which CTR, CFB and OFB refine;
7. the scaled uint32 widths (the Update wrap guard and the CFB bit count);
8. certificate-pair ownership;
9. SM4-OFB;
10. the UDP test transport, with the project's first liveness property.

Remaining:

11. **Re-initialisation without DeInit.** Its effect on CFB is described above. Once the EAL layer's lifecycle is known, keep the variant as a run.
