------------------------------ MODULE CertPair ------------------------------
(***************************************************************************)
(* Ownership of the references held by a TLS certificate pair, from       *)
(* src/tls/cert/cert_adapt/cert_pair.c: SAL_CERT_PairDup, which copies    *)
(* the certificate, private key and chain of a pair into a new one and    *)
(* undoes the copies made so far when a later step fails, and             *)
(* SAL_CERT_PairClear / SAL_CERT_PairFree, which release them.            *)
(*                                                                         *)
(* A reference is named by the pair that holds it and the field it is     *)
(* held in; a dup makes a new reference (a copy or a new count on a       *)
(* shared object: the X509/key/chain methods are outside src/).  Pair     *)
(* ids are allocated in order, 0 being the pair the caller starts with.   *)
(* The caller uses only the pairs it holds, and never one it has freed.   *)
(***************************************************************************)
EXTENDS Naturals, FiniteSets, TLC

CONSTANTS
  NULL,        \* the null pointer
  MaxPairs,    \* bound on the pair ids SAL_CERT_PairDup may allocate
  MgrCtxs,     \* the mgrCtx values the caller passes to SAL_CERT_PairClear
  FreeMgrCtxs  \* the mgrCtx values the caller passes to SAL_CERT_PairFree

ASSUME FreeMgrCtxs \subseteq MgrCtxs

Fields == {"cert", "encCert", "privateKey", "chain"}
PairIds == 0..MaxPairs
Refs == PairIds \X Fields

VARIABLES
  pair,        \* pair[p][g]: the reference field g of pair p holds, or NULL
  alivePairs,  \* the pair structures allocated and not yet freed
  refs,        \* the references taken and not yet released
  held,        \* history: the pairs the caller holds
  nextPair,    \* the id the next allocation gets
  doubleFree,  \* history: a reference was released twice
  ret          \* the result of the last SAL_CERT_PairDup

vars == <<pair, alivePairs, refs, held, nextPair, doubleFree, ret>>

NoFields == [g \in Fields |-> NULL]

(* The fields SAL_CERT_PairDup copies, in the order it copies them. *)
DupOrder == <<"cert", "privateKey", "chain">>
DupFields == {DupOrder[i] : i \in 1..3}
Before(f) == {DupOrder[i] : i \in {j \in 1..3 : \E k \in 1..3 : DupOrder[k] = f /\ j < k}}

(* Mutant of Cleanup: the chain-failure path forgets SAL_CERT_KeyFree. *)
CleanupNoKey(f) ==
  CASE f = "cert"       -> {}
    [] f = "privateKey" -> {"cert"}
    [] f = "chain"      -> {"cert"}

(* The fields of the new pair released when the dup of field f fails.   *)
Cleanup(f) ==
  CASE f = "cert"       -> {}
    [] f = "privateKey" -> {"cert"}
    [] f = "chain"      -> {"cert", "privateKey"}

(* Release the references rs: a double free if one is already released. *)
Release(rs) ==
  /\ refs' = refs \ rs
  /\ doubleFree' = (doubleFree \/ ~(rs \subseteq refs))

(***************************************************************************)
(* The body of SAL_CERT_PairDup after the allocation of pair d: copy the  *)
(* fields the source s holds in DupOrder; `fail` is the first copy that   *)
(* fails, if any.  A failed copy frees the copies already made and the    *)
(* new structure, and returns NULL.                                       *)
(***************************************************************************)
DupInto(s, d, fail) ==
  LET copied == {g \in DupFields : pair[s][g] # NULL /\
                                   (fail \notin DupFields \/ g \in Before(fail))}
      dest   == [g \in Fields |-> IF g \in copied THEN <<d, g>> ELSE NULL]
  IN  /\ nextPair' = nextPair + 1
      /\ IF fail \notin DupFields
           THEN /\ pair' = (d :> dest) @@ pair
                /\ alivePairs' = alivePairs \cup {d}
                /\ held' = held \cup {d}
                /\ refs' = refs \cup {dest[g] : g \in copied}
                /\ ret' = d
                /\ UNCHANGED doubleFree
           ELSE /\ refs' = refs \cup {dest[g] : g \in copied \ Cleanup(fail)}
                /\ ret' = NULL
                /\ UNCHANGED <<pair, alivePairs, held, doubleFree>>

DupGuard(s, fail) ==
  /\ s \in held
  /\ nextPair <= MaxPairs
  /\ fail \in {"none", "calloc"} \cup {g \in DupFields : pair[s][g] # NULL}

(* Mutant of PairDup: the result of BSL_SAL_Calloc is not checked. *)
PairDupNoCallocCheck(s, fail) ==
  /\ DupGuard(s, fail)
  /\ DupInto(s, IF fail = "calloc" THEN NULL ELSE nextPair, fail)

(* SAL_CERT_PairDup(mgrCtx, s): `fail` is "calloc" when the allocation of *)
(* the new pair fails, a field when the dup of that field fails, or        *)
(* "none".                                                                *)
PairDup(s, fail) ==
  /\ DupGuard(s, fail)
  /\ IF fail = "calloc"
       THEN /\ ret' = NULL
            /\ UNCHANGED <<pair, alivePairs, refs, held, nextPair, doubleFree>>
       ELSE DupInto(s, nextPair, fail)

(* Mutant of PairClear: the fields are released but not zeroed. *)
PairClearNoReset(m, p) ==
  \/ /\ m = NULL
     /\ UNCHANGED <<pair, refs, doubleFree>>
  \/ /\ m # NULL
     /\ Release({pair[p][g] : g \in Fields} \ {NULL})
     /\ UNCHANGED pair

(* SAL_CERT_PairClear(mgrCtx, certPair): nothing when mgrCtx is NULL (the  *)
(* caller never passes a NULL pair); otherwise release every field held   *)
(* and zero the pair.                                                     *)
PairClear(m, p) ==
  \/ /\ m = NULL
     /\ UNCHANGED <<pair, refs, doubleFree>>
  \/ /\ m # NULL
     /\ Release({pair[p][g] : g \in Fields} \ {NULL})
     /\ pair' = [pair EXCEPT ![p] = NoFields]

(* The caller clears a pair it holds and keeps it. *)
Clear(m, p) ==
  /\ p \in held
  /\ PairClear(m, p)
  /\ UNCHANGED <<alivePairs, held, nextPair, ret>>

(* SAL_CERT_PairFree: PairClear, then free the structure whatever         *)
(* PairClear did.                                                         *)
PairFree(m, p) ==
  /\ p \in held
  /\ PairClear(m, p)
  /\ alivePairs' = alivePairs \ {p}
  /\ held' = held \ {p}
  /\ UNCHANGED <<nextPair, ret>>

(* The caller's pair 0 holds some of the four references. *)
Init ==
  /\ \E present \in SUBSET Fields :
       pair = [p \in PairIds |->
                 IF p = 0 THEN [g \in Fields |-> IF g \in present THEN <<0, g>> ELSE NULL]
                 ELSE NoFields]
  /\ alivePairs = {0}
  /\ refs = {pair[0][g] : g \in Fields} \ {NULL}
  /\ held = {0}
  /\ nextPair = 1
  /\ doubleFree = FALSE
  /\ ret = NULL

Next ==
  \/ \E s \in PairIds, f \in {"none", "calloc"} \cup DupFields : PairDup(s, f)
  \/ \E m \in MgrCtxs, p \in PairIds : Clear(m, p)
  \/ \E m \in FreeMgrCtxs, p \in PairIds : PairFree(m, p)

Spec == Init /\ [][Next]_vars

(***************************************************************************)
(* Properties.                                                             *)
(***************************************************************************)
TypeOK ==
  /\ pair \in [PairIds -> [Fields -> Refs \cup {NULL}]]
  /\ alivePairs \subseteq PairIds /\ held \subseteq PairIds
  /\ refs \subseteq Refs
  /\ nextPair \in 1..(MaxPairs + 1)
  /\ doubleFree \in BOOLEAN
  /\ ret \in PairIds \cup {NULL}

(* The references held by the pairs P. *)
Owned(P) == {pair[p][g] : p \in P, g \in Fields} \ {NULL}

(* Whatever sequence of dups, partial failures, clears and frees the      *)
(* caller makes, nothing is leaked: every pair structure still allocated  *)
(* is one the caller holds, and every reference still taken is held by a  *)
(* field of such a pair.  This is what the cleanup on each failure path   *)
(* of SAL_CERT_PairDup (lines 55-77) has to achieve.  It holds only for a  *)
(* caller that passes a manager to SAL_CERT_PairFree: with a NULL mgrCtx  *)
(* PairClear returns at line 86 and line 112 frees the structure with     *)
(* every field still taken.                                               *)
NoLeak ==
  /\ alivePairs \subseteq held
  /\ refs \subseteq Owned(held)

(* No reference is ever released twice, however often the caller clears  *)
(* a pair, frees it, or clears and then frees it: SAL_CERT_PairClear      *)
(* leaves NULL behind (line 105), and a dup never shares a reference with *)
(* its source.                                                            *)
NoDoubleFree == ~doubleFree
=============================================================================
