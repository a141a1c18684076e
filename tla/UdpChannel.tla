----------------------------- MODULE UdpChannel -----------------------------
(***************************************************************************)
(* The UDP transport of the TLS test framework,                          *)
(* src/testcode/framework/tls/transfer/src/udp_channel.c: a client       *)
(* process opens and connects a datagram socket (UdpConnect), a server   *)
(* process binds one (UdpBind) and takes it as its connection            *)
(* (UdpAccept); both retry a failing call every millisecond up to a      *)
(* bound.  Record I/O goes through the method UdpGetDefaultMethod        *)
(* installs: SelectUdpWrite/Read, which call a user method if one is     *)
(* set, else UdpFrameWrite/Read, which let a frame callback rewrite a    *)
(* datagram before it is sent or after it is received.                   *)
(*                                                                         *)
(* A descriptor is named by its role: "cfd" the client's, "lfd" the      *)
(* server's.  The kernel calls (socket, setsockopt, connect, bind), the  *)
(* UDP method and the frame callback GetNewBuf are outside src/: each    *)
(* call is a nondeterministic choice over the results it can return.     *)
(***************************************************************************)
EXTENDS Naturals

CONSTANTS
  MaxConnTime,   \* maxConnTime of UdpConnect (8000 in the code)
  MaxBindTries,  \* the retry bound of UdpBind (8000 in the code)
  MaxLen         \* bound on the length of a record written or read

ASSUME MaxConnTime \in Nat \ {0} /\ MaxBindTries \in Nat \ {0} /\ MaxLen \in Nat \ {0}

VARIABLES
  open,       \* the descriptors open
  cpc,        \* UdpConnect: "idle", "loop", "sleep" or "done"
  cIndex,     \* index of its retry loop
  cConnected, \* history: a connect() call succeeded
  cRet,       \* its result: "none", "error" or "cfd"
  bpc,        \* UdpBind: "idle", "loop", "sleep" or "done"
  bTry,       \* tryNum of its retry loop
  bBound,     \* ret == 0: the last bind() call succeeded
  bRet,       \* its result: "none", "error" or "lfd"
  aRet,       \* the result of UdpAccept: "none" or "lfd"
  method,     \* g_UdpUioMethodDefault: "none" until UdpGetDefaultMethod
  io          \* the last record I/O: [op, via, len, ret, n]

vars == <<open, cpc, cIndex, cConnected, cRet, bpc, bTry, bBound, bRet, aRet, method, io>>

connVars == <<cpc, cIndex, cConnected, cRet>>
bindVars == <<bpc, bTry, bBound, bRet>>

NoIo == [op |-> "none", via |-> "none", len |-> 0, ret |-> "SUCCESS", n |-> 0]

(* Mutant of UdpConnectOpen: the setsockopt failure path does not close. *)
UdpConnectOpenNoClose ==
  /\ cpc = "idle"
  /\ \/ /\ cRet' = "error" /\ cpc' = "done"
        /\ UNCHANGED <<open, cIndex, cConnected>>
     \/ /\ cRet' = "error" /\ cpc' = "done"
        /\ open' = open \cup {"cfd"}
        /\ UNCHANGED <<cIndex, cConnected>>
     \/ /\ open' = open \cup {"cfd"}
        /\ cpc' = "loop" /\ cIndex' = 0
        /\ UNCHANGED <<cConnected, cRet>>
  /\ UNCHANGED <<bindVars, aRet, method, io>>

(***************************************************************************)
(* UdpConnect, lines 53-74: socket() and setsockopt(); a failed          *)
(* setsockopt closes the socket.                                          *)
(***************************************************************************)
UdpConnectOpen ==
  /\ cpc = "idle"
  /\ \/ /\ cRet' = "error" /\ cpc' = "done"   \* socket() fails, or setsockopt()
        /\ UNCHANGED <<open, cIndex, cConnected>> \* fails and close() follows
     \/ /\ open' = open \cup {"cfd"}
        /\ cpc' = "loop" /\ cIndex' = 0
        /\ UNCHANGED <<cConnected, cRet>>
  /\ UNCHANGED <<bindVars, aRet, method, io>>

(* The check after the retry loop of UdpConnect, lines 85-91. *)
ConnectResult(idx) ==
  IF idx >= MaxConnTime
    THEN /\ open' = open \ {"cfd"} /\ cRet' = "error"
    ELSE /\ cRet' = "cfd" /\ UNCHANGED open

(***************************************************************************)
(* One connect() of the do-while loop of UdpConnect, lines 78-82: on     *)
(* success it breaks out to the check of lines 85-91, else usleep.       *)
(***************************************************************************)
UdpConnectTry(ok) ==
  /\ cpc = "loop"
  /\ cConnected' = ok
  /\ IF ok
       THEN /\ cpc' = "done" /\ ConnectResult(cIndex)
       ELSE /\ cpc' = "sleep" /\ UNCHANGED <<open, cRet>>
  /\ UNCHANGED <<cIndex, bindVars, aRet, method, io>>

(* Mutant of UdpConnectRetry: the loop condition is index++ <= maxConnTime. *)
UdpConnectRetryLe ==
  /\ cpc = "sleep"
  /\ cIndex' = cIndex + 1
  /\ IF cIndex <= MaxConnTime
       THEN /\ cpc' = "loop" /\ UNCHANGED <<open, cRet>>
       ELSE /\ cpc' = "done" /\ ConnectResult(cIndex + 1)
  /\ UNCHANGED <<cConnected, bindVars, aRet, method, io>>

(* Mutant of UdpConnectRetry: the loop condition drops the increment. *)
UdpConnectRetryNoIncrement ==
  /\ cpc = "sleep"
  /\ UNCHANGED cIndex
  /\ IF cIndex < MaxConnTime
       THEN /\ cpc' = "loop" /\ UNCHANGED <<open, cRet>>
       ELSE /\ cpc' = "done" /\ ConnectResult(cIndex)
  /\ UNCHANGED <<cConnected, bindVars, aRet, method, io>>

(* The condition of that loop, line 84: index++ < maxConnTime, which     *)
(* increments index whether or not the loop goes on; then lines 85-91.  *)
UdpConnectRetry ==
  /\ cpc = "sleep"
  /\ cIndex' = cIndex + 1
  /\ IF cIndex < MaxConnTime
       THEN /\ cpc' = "loop" /\ UNCHANGED <<open, cRet>>
       ELSE /\ cpc' = "done" /\ ConnectResult(cIndex + 1)
  /\ UNCHANGED <<cConnected, bindVars, aRet, method, io>>

(* UdpBind, lines 99-116: socket() and setsockopt() as in UdpConnect. *)
UdpBindOpen ==
  /\ bpc = "idle"
  /\ \/ /\ bRet' = "error" /\ bpc' = "done"
        /\ UNCHANGED <<open, bTry, bBound>>
     \/ /\ open' = open \cup {"lfd"}
        /\ bpc' = "loop" /\ bTry' = 0
        /\ UNCHANGED <<bBound, bRet>>
  /\ UNCHANGED <<connVars, aRet, method, io>>

(* One bind() and usleep of the do-while loop of UdpBind, lines 120-121. *)
UdpBindTry(ok) ==
  /\ bpc = "loop"
  /\ bBound' = ok
  /\ bpc' = "sleep"
  /\ UNCHANGED <<open, bTry, bRet, connVars, aRet, method, io>>

(***************************************************************************)
(* tryNum++ and the loop condition ret != 0 && tryNum < 8000, lines      *)
(* 122-123; on leaving the loop, lines 124-131 close the socket and      *)
(* return -1 if the last bind failed.                                    *)
(***************************************************************************)
UdpBindRetry ==
  /\ bpc = "sleep"
  /\ bTry' = bTry + 1
  /\ IF ~bBound /\ bTry + 1 < MaxBindTries
       THEN /\ bpc' = "loop" /\ UNCHANGED <<open, bRet>>
       ELSE /\ bpc' = "done"
            /\ IF ~bBound
                 THEN /\ open' = open \ {"lfd"} /\ bRet' = "error"
                 ELSE /\ bRet' = "lfd" /\ UNCHANGED open
  /\ UNCHANGED <<bBound, connVars, aRet, method, io>>

(* UdpAccept(ip, listenFd, isBlock, needClose), lines 134-144: the       *)
(* bound socket is the connection; with needClose it is closed first.    *)
UdpAccept(needClose) ==
  /\ bRet = "lfd" /\ aRet = "none"
  /\ open' = IF needClose THEN open \ {"lfd"} ELSE open
  /\ aRet' = "lfd"
  /\ UNCHANGED <<connVars, bindVars, method, io>>

(* UdpClose(sd), lines 147-150. *)
UdpClose(sd) ==
  /\ sd \in open
  /\ open' = open \ {sd}
  /\ UNCHANGED <<connVars, bindVars, aRet, method, io>>

(* UdpGetDefaultMethod, lines 228-235: the UDP method with its write and *)
(* read replaced by SelectUdpWrite and SelectUdpRead.                    *)
UdpGetDefaultMethod ==
  /\ method = "none"
  /\ method' = "default"
  /\ UNCHANGED <<open, connVars, bindVars, aRet, io>>

(* The descriptor a record I/O call is made on: the client's after a     *)
(* successful UdpConnect, the server's after UdpAccept.  A closed one     *)
(* makes the UDP method fail.                                            *)
IoFds == {fd \in {cRet, aRet} : fd \in {"cfd", "lfd"}}

(* Mutant of UdpFrameWrite: writeLen is not restored to len (171-173). *)
UdpFrameWriteNoFixup(fd, len, hook, newLen, sent) ==
  LET sendLen == IF hook THEN newLen ELSE len
      n0      == IF sent = "all" THEN sendLen ELSE 0
  IN  IF hook /\ sendLen = 0
        THEN io' = [op |-> "write", via |-> "frame", len |-> len, ret |-> "SUCCESS", n |-> 0]
        ELSE /\ sent = "error" \/ fd \in open
             /\ io' = [op |-> "write", via |-> "frame", len |-> len,
                       ret |-> IF sent = "error" THEN "IO_EXCEPTION" ELSE "SUCCESS", n |-> n0]

(***************************************************************************)
(* UdpFrameWrite(uio, buf, len, writeLen), lines 152-176.  With the send *)
(* callback set, GetNewBuf gives the rewritten frame's length newLen, 0  *)
(* meaning busy.  The UDP method sends a datagram whole ("all"), not at  *)
(* all ("none"), or fails ("error", certain on a closed descriptor).     *)
(* A rewritten frame sent is reported as len bytes.                      *)
(***************************************************************************)
UdpFrameWrite(fd, len, hook, newLen, sent) ==
  LET sendLen == IF hook THEN newLen ELSE len
      n0      == IF sent = "all" THEN sendLen ELSE 0
  IN  IF hook /\ sendLen = 0
        THEN io' = [op |-> "write", via |-> "frame", len |-> len, ret |-> "SUCCESS", n |-> 0]
        ELSE /\ sent = "error" \/ fd \in open
             /\ io' = [op |-> "write", via |-> "frame", len |-> len,
                       ret |-> IF sent = "error" THEN "IO_EXCEPTION" ELSE "SUCCESS",
                       n |-> IF sendLen # len /\ n0 # 0 THEN len ELSE n0]

(***************************************************************************)
(* UdpFrameRead(uio, buf, len, readLen), lines 178-205: the UDP method   *)
(* reads a datagram of got <= len bytes, or fails (~readOk).  With     *)
(* the receive callback set, GetNewBuf either leaves the frame (no buffer, packLen   *)
(* got) or reports busy (packLen 0), or returns a rewritten frame of     *)
(* packLen bytes, which memcpy_s copies into buf only if it fits.        *)
(***************************************************************************)
UdpFrameRead(fd, len, readOk, got, hook, hasBuf, packLen) ==
  /\ hasBuf \/ packLen \in {got, 0}
  /\ IF ~readOk \/ fd \notin open
       THEN io' = [op |-> "read", via |-> "frame", len |-> len, ret |-> "IO_EXCEPTION", n |-> 0]
     ELSE IF hook /\ packLen = 0
       THEN io' = [op |-> "read", via |-> "frame", len |-> len, ret |-> "SUCCESS", n |-> 0]
     ELSE IF hook /\ hasBuf /\ packLen > len
       THEN io' = [op |-> "read", via |-> "frame", len |-> len, ret |-> "IO_EXCEPTION", n |-> got]
     ELSE io' = [op |-> "read", via |-> "frame", len |-> len, ret |-> "SUCCESS",
                 n |-> IF hook /\ hasBuf THEN packLen ELSE got]

(* SelectUdpWrite, lines 207-214: a user write method, if set, instead. *)
SelectUdpWrite(fd, len) ==
  /\ method = "default"
  /\ \/ \E n \in 0..len, r \in {"SUCCESS", "IO_EXCEPTION"} :
          io' = [op |-> "write", via |-> "user", len |-> len, ret |-> r, n |-> n]
     \/ \E hook \in BOOLEAN, newLen \in 0..(MaxLen + 1), sent \in {"all", "none", "error"} :
          UdpFrameWrite(fd, len, hook, newLen, sent)
  /\ UNCHANGED <<open, connVars, bindVars, aRet, method>>

(* SelectUdpRead, lines 216-223: a user read method, if set, instead. *)
SelectUdpRead(fd, len) ==
  /\ method = "default"
  /\ \/ \E n \in 0..len, r \in {"SUCCESS", "IO_EXCEPTION"} :
          io' = [op |-> "read", via |-> "user", len |-> len, ret |-> r, n |-> n]
     \/ \E readOk, hook, hasBuf \in BOOLEAN, got \in 0..len, packLen \in 0..(MaxLen + 1) :
          UdpFrameRead(fd, len, readOk, got, hook, hasBuf, packLen)
  /\ UNCHANGED <<open, connVars, bindVars, aRet, method>>

Init ==
  /\ open = {}
  /\ cpc = "idle" /\ cIndex = 0 /\ cConnected = FALSE /\ cRet = "none"
  /\ bpc = "idle" /\ bTry = 0 /\ bBound = FALSE /\ bRet = "none"
  /\ aRet = "none"
  /\ method = "none"
  /\ io = NoIo

Next ==
  \/ UdpConnectOpen
  \/ \E ok \in BOOLEAN : UdpConnectTry(ok)
  \/ UdpConnectRetry
  \/ UdpBindOpen
  \/ \E ok \in BOOLEAN : UdpBindTry(ok)
  \/ UdpBindRetry
  \/ \E needClose \in BOOLEAN : UdpAccept(needClose)
  \/ \E sd \in {"cfd", "lfd"} : UdpClose(sd)
  \/ UdpGetDefaultMethod
  \/ \E fd \in IoFds, len \in 1..MaxLen : SelectUdpWrite(fd, len)
  \/ \E fd \in IoFds, len \in 1..MaxLen : SelectUdpRead(fd, len)

(* A call of UdpConnect or UdpBind, once made, keeps running: usleep     *)
(* returns and the loop condition is tested.  Whether connect() or bind() *)
(* succeeds is the system's choice, never forced.  Whether the test calls them, and    *)
(* the record I/O, are up to the test, so they get no fairness.          *)
Fairness ==
  /\ WF_vars(\E ok \in BOOLEAN : UdpConnectTry(ok))
  /\ WF_vars(UdpConnectRetry)
  /\ WF_vars(\E ok \in BOOLEAN : UdpBindTry(ok))
  /\ WF_vars(UdpBindRetry)

Spec == Init /\ [][Next]_vars /\ Fairness

(***************************************************************************)
(* Properties.                                                             *)
(***************************************************************************)
Results == {"none", "error"}
PCs == {"idle", "loop", "sleep", "done"}
IoRecs == [op : {"none", "write", "read"}, via : {"none", "user", "frame"},
           len : 0..MaxLen, ret : {"SUCCESS", "IO_EXCEPTION"}, n : 0..(MaxLen + 1)]

TypeOK ==
  /\ open \subseteq {"cfd", "lfd"}
  /\ cpc \in PCs /\ bpc \in PCs
  /\ cIndex \in 0..(MaxConnTime + 1) /\ bTry \in 0..MaxBindTries
  /\ cConnected \in BOOLEAN /\ bBound \in BOOLEAN
  /\ cRet \in Results \cup {"cfd"} /\ bRet \in Results \cup {"lfd"}
  /\ aRet \in {"none", "lfd"}
  /\ method \in {"none", "default"}
  /\ io \in IoRecs

(* No descriptor leaks out of a failed call: once UdpConnect or UdpBind  *)
(* has returned, its socket is open only if it was returned to the       *)
(* caller.  Every failure path after socket() (setsockopt, the retry     *)
(* loop running out) has to close it.                                    *)
NoFdLeak ==
  /\ (cpc = "done" /\ "cfd" \in open) => cRet = "cfd"
  /\ (bpc = "done" /\ "lfd" \in open) => bRet = "lfd"

(* The caller sees datagram semantics through UdpFrameWrite/Read however *)
(* the frame callback rewrites a frame: a successful write reports      *)
(* nothing or the whole record it was given, even when the frame sent   *)
(* was longer or shorter, and a successful read never reports more      *)
(* bytes than the caller's buffer holds.                                 *)
FrameIoContract ==
  (io.via = "frame" /\ io.ret = "SUCCESS") =>
    IF io.op = "write" THEN io.n \in {0, io.len} ELSE io.n <= io.len

(* Every call of UdpConnect and UdpBind returns: the retry loops are     *)
(* bounded however often connect() or bind() fails.                      *)
CallsReturn ==
  /\ cpc \in {"loop", "sleep"} ~> cpc = "done"
  /\ bpc \in {"loop", "sleep"} ~> bpc = "done"
=============================================================================
