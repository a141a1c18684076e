\* The caller's pair with any subset of its four fields, and up to three
\* dups (of pair 0 or of a dup), each of which may fail at any step.
\* Deadlock is not checked: once every pair is freed the caller has
\* nothing left to call.
\* SAL_CERT_PairClear is called with a NULL or a real manager; NoLeak is
\* checked for callers that pass a real one to SAL_CERT_PairFree (with
\* FreeMgrCtxs = {NULL, mgr} TLC reports the leak of a NULL-manager free).
CONSTANTS
  NULL = NULL
  MaxPairs = 3
  MgrCtxs = {NULL, mgr}
  FreeMgrCtxs = {mgr}
SPECIFICATION Spec
INVARIANTS
  TypeOK
  NoLeak
  NoDoubleFree
CHECK_DEADLOCK FALSE
