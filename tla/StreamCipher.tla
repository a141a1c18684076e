---------------------------- MODULE StreamCipher ----------------------------
(***************************************************************************)
(* What a stream-style mode (CTR, CFB, OFB through                         *)
(* MODES_CipherStreamProcess) promises its caller, per message: a message  *)
(* starts with an IV and a configuration, each Update appends its input    *)
(* to the message and returns exactly as many bytes, and the bytes         *)
(* returned so far are the mode's function of the IV, the configuration   *)
(* and the whole message, however it was split into calls.  Bytes already  *)
(* returned never change.                                                  *)
(*                                                                         *)
(* A configuration change in the middle of a message (which the code       *)
(* permits, e.g. a CFB feedback size) makes the rest of that message       *)
(* unspecified: only its length and the bytes already returned are kept.   *)
(***************************************************************************)
EXTENDS Sequences, SequencesExt

CONSTANTS
  IvSpace,      \* the IVs
  ParamSpace,   \* the configurations
  Cipher(_, _, _) \* Cipher(iv, param, msg): the output for a whole message

VARIABLES
  iv0,      \* the IV the message started with
  param,    \* the configuration in force
  msg,      \* the input of the message so far
  out,      \* the output returned so far
  defined   \* FALSE once the configuration changed in mid-message

vars == <<iv0, param, msg, out, defined>>

Init ==
  /\ iv0 \in IvSpace
  /\ param \in ParamSpace
  /\ msg = <<>>
  /\ out = <<>>
  /\ defined = TRUE

(* A new message: initialisation or a new IV. *)
Start(v, p) ==
  /\ iv0' = v
  /\ param' = p
  /\ msg' = <<>>
  /\ out' = <<>>
  /\ defined' = TRUE

(* One successful Update of a non-empty input. *)
Extend ==
  /\ msg # msg'
  /\ IsPrefix(msg, msg')
  /\ IsPrefix(out, out')
  /\ Len(out') = Len(msg')
  /\ defined => out' = Cipher(iv0, param, msg')
  /\ UNCHANGED <<iv0, param, defined>>

(* A change of configuration; harmless before the first byte. *)
Reconfigure(p) ==
  /\ param' = p
  /\ defined' = (defined /\ (msg = <<>> \/ p = param))
  /\ UNCHANGED <<iv0, msg, out>>

Next ==
  \/ \E v \in IvSpace, p \in ParamSpace : Start(v, p)
  \/ Extend
  \/ \E p \in ParamSpace : Reconfigure(p)

Spec == Init /\ [][Next]_vars
=============================================================================
