--------------------------- MODULE TransportProofs ---------------------------
(***************************************************************************)
(* Safety of Transport for any number of readers, writers and closers, any *)
(* buffer cap and any frame sizes.                                         *)
(***************************************************************************)
EXTENDS Transport, TLAPS

AWP == INSTANCE AckWaiterProofs WITH
        Calls <- Writers, Cancellable <- {}, seq <- wSeq, full <- ackFull,
        closed <- ackClosed, at <- wAt, ret <- wRet

Closing(p) == pc[p] \in {"closeBuf", "closeIn"}

\* doneOnce: its body is run by one goroutine, which closes done first, then
\* bufCh, then inCh.
OnceInv ==
    /\ done <=> once # "new"
    /\ bufClosed => done
    /\ inClosed => done
    /\ \A p \in Procs : Closing(p) => once = "running"
    /\ \A p, q \in Procs : Closing(p) /\ Closing(q) => p = q
    /\ \A p \in Procs : pc[p] = "closeBuf" => ~bufClosed /\ ~inClosed

\* Who is between Lock and Unlock of inMx and of bufMx.
MutexInv ==
    /\ pc[Handler] \in {"check", "send"} <=> inMx = Handler
    /\ pc[Server] \in {"fwdCheck", "fwdSend"} <=> bufMx = Server

CloseInv == OnceInv /\ MutexInv /\ ChannelsUsedWhileOpen

-----------------------------------------------------------------------------
(* The ack waiter inside the transport                                     *)

\* The constants the transport gives the ack waiter satisfy its assumptions.
LEMMA AckWaiterConstants ==
    SeqMod \in Nat \ {0} /\ {} \subseteq Writers /\ None \notin Writers
BY SizesAssumption, ProcsAssumption, Zenon DEF Procs

\* Typing of the ack waiter, from the proof about ack_waiter.go.
LEMMA AckTypeStep == AW!TypeOK /\ [AW!Next]_ackVars => AW!TypeOK'
BY AWP!AWTypeStep, AckWaiterConstants, Zenon
   DEF ackVars, AWP!awVars, AW!TypeOK, AWP!TypeOK, AW!Next, AWP!Next, AW!Register,
       AWP!Register, AW!WaitStep, AWP!WaitStep, AW!Done, AWP!Done, AW!StopAll, AWP!StopAll,
       AW!Seqs, AWP!Seqs, AW!ActionOK, AWP!ActionOK, AW!ActionErr, AWP!ActionErr,
       AW!AckReceived, AWP!AckReceived, AW!WaiterStopped, AWP!WaiterStopped,
       AW!CtxDone, AWP!CtxDone, AW!StopOwn, AWP!StopOwn, AW!StopWaiters, AWP!StopWaiters,
       AW!Move, AWP!Move

\* Every step of the transport is a step of its ack waiter or leaves it alone.
LEMMA AckWaiterStep == TypeOK /\ [Next]_vars => [AW!Next]_ackVars
<1> SUFFICES ASSUME TypeOK, [Next]_vars
             PROVE  [AW!Next]_ackVars
    BY Zenon
<1>1. ASSUME NEW p \in Procs, CloseStep(p)
      PROVE  [AW!Next]_ackVars
    BY <1>1, Zenon DEF CloseStep, OnceFirst, CloseBuf, CloseIn, CloseTail, WriteClose, AW!Next
<1>2. ASSUME NEW p \in Closers, UserClose(p)
      PROVE  [AW!Next]_ackVars
    BY <1>2, Zenon DEF UserClose
<1>3. CASE ConnFails \/ ConnClose
    BY <1>3, Zenon DEF ConnFails, ConnClose
<1>4. ASSUME NEW f \in Frames, HandleFrame(f)
      PROVE  [AW!Next]_ackVars
    BY <1>4, Zenon DEF HandleFrame
<1>5. CASE HandlerStep
    BY <1>5, Zenon DEF HandlerStep, HandlerCheck, HandlerSend, HandlerRetry
<1>6. CASE ReadAcceptCtxDone \/ ServerStep
    <2>1. CASE ServeAck
        <3>1. frame.arg \in AW!Seqs
            BY <2>1 DEF ServeAck, Got, TypeOK, NetType, Frames, FwdFrames, AckFrames, ControlFrames,
                        NoFrame, AW!Seqs
        <3>2. QED
            BY <2>1, <3>1, Zenon DEF ServeAck, AW!Next
    <2>2. CASE ReadAcceptCtxDone \/ ReadAcceptClosed \/ ReadAcceptFrame
        BY <2>2, Zenon DEF ReadAcceptCtxDone, ReadAcceptClosed, ReadAcceptFrame
    <2>3. CASE ServeStart \/ ServeDone \/ ServeFwd \/ ServeFwdCheck \/ ServeFwdSend
        BY <2>3, Zenon DEF ServeStart, ServeDone, ServeFwd, ServeFwdCheck, ServeFwdSend
    <2>4. CASE ServeClose \/ ServeRequest \/ ServeBad \/ ServeOther \/ ServeDefer
        BY <2>4, Zenon DEF ServeClose, ServeRequest, ServeBad, ServeOther, ServeDefer
    <2>5. QED
        BY <1>6, <2>1, <2>2, <2>3, <2>4, Zenon DEF ServerStep
<1>7. CASE AckWrite \/ AckWriteErr
    BY <1>7, Zenon DEF AckWrite, AckWriteErr
<1>8. ASSUME NEW r \in Readers, ReadCall(r) \/ ReadStep(r)
      PROVE  [AW!Next]_ackVars
    BY <1>8, Zenon DEF ReadCall, ReadStep, ReadLock, ReadBuf, ReadReturn, ReadNotified, ReadClosed
<1>9. ASSUME NEW w \in Writers, WriteCall(w) \/ WriteStep(w)
      PROVE  [AW!Next]_ackVars
    BY <1>9, Zenon DEF WriteCall, WriteStep, WriteCheck, WriteRegister, WriteFwd, WriteFwdErr,
                WriteErrReturn, WriteSelect, WriteReturn, AW!Next, AW!WaitStep
<1>10. CASE Finished \/ UNCHANGED vars
    BY <1>10, Zenon DEF Finished, vars
<1>11. QED
    BY <1>1, <1>2, <1>3, <1>4, <1>5, <1>6, <1>7, <1>8, <1>9, <1>10, Zenon DEF Next

-----------------------------------------------------------------------------
(* Types                                                                   *)

\* The goroutines that have a name of their own are goroutines.
LEMMA ProcsIn ==
    /\ {Handler, Server, Acker, ConnCloser} \subseteq Procs
    /\ Readers \subseteq Procs /\ Writers \subseteq Procs /\ Closers \subseteq Procs
BY Zenon DEF Procs

\* Where the goroutines are, the locks and the channels of close().
LEMMA ControlTypeStep == TypeOK /\ [Next]_vars => ControlType'
<1> SUFFICES ASSUME TypeOK, [Next]_vars
             PROVE  ControlType'
    BY Zenon
<1> USE ProcsIn DEF TypeOK, ControlType, Labels, Goto, CallClose, closeVars
<1>1. ASSUME NEW p \in Procs, CloseStep(p)
      PROVE  ControlType'
    <2>1. CASE OnceFirst(p) \/ CloseBuf(p) \/ CloseIn(p)
        BY <2>1 DEF OnceFirst, CloseBuf, CloseIn
    <2>2. CASE CloseTail(p)
        BY <2>2, Zenon DEF CloseTail
    <2>3. CASE WriteClose(p)
        BY <2>3, Zenon DEF WriteClose
    <2>4. QED
        BY <1>1, <2>1, <2>2, <2>3, Zenon DEF CloseStep
<1>2. ASSUME NEW p \in Closers, UserClose(p)
      PROVE  ControlType'
    BY <1>2, Zenon DEF UserClose
<1>3. CASE ConnFails \/ ConnClose \/ Finished \/ UNCHANGED vars
    BY <1>3 DEF ConnFails, ConnClose, Finished, vars
<1>4. ASSUME NEW f \in Frames, HandleFrame(f)
      PROVE  ControlType'
    BY <1>4, Zenon DEF HandleFrame
<1>5. CASE HandlerStep
    <2>1. CASE HandlerCheck
        BY <2>1, Zenon DEF HandlerCheck
    <2>2. CASE HandlerSend
        BY <2>2, Zenon DEF HandlerSend
    <2>3. CASE HandlerRetry
        BY <2>3, Zenon DEF HandlerRetry
    <2>4. QED
        BY <1>5, <2>1, <2>2, <2>3, Zenon DEF HandlerStep
<1>6. CASE ReadAcceptCtxDone \/ ReadAcceptClosed \/ ReadAcceptFrame
    <2>1. CASE ReadAcceptCtxDone
        BY <2>1, Zenon DEF ReadAcceptCtxDone
    <2>2. CASE ReadAcceptClosed
        BY <2>2, Zenon DEF ReadAcceptClosed
    <2>3. CASE ReadAcceptFrame
        BY <2>3 DEF ReadAcceptFrame
    <2>4. QED
        BY <1>6, <2>1, <2>2, <2>3, Zenon
<1>7. CASE ServeStart \/ ServeDone \/ ServeFwdCheck \/ ServeFwdSend \/ ServeAck
    <2>1. CASE ServeStart
        BY <2>1, Zenon DEF ServeStart
    <2>2. CASE ServeDone
        BY <2>2, Zenon DEF ServeDone
    <2>3. CASE ServeFwdCheck
        BY <2>3, Zenon DEF ServeFwdCheck, Got
    <2>4. CASE ServeFwdSend
        BY <2>4, Zenon DEF ServeFwdSend, Got
    <2>5. CASE ServeAck
        BY <2>5, Zenon DEF ServeAck, Got
    <2>6. QED
        BY <1>7, <2>1, <2>2, <2>3, <2>4, <2>5, Zenon
<1>8. CASE ServeFwd
    BY <1>8, Zenon DEF ServeFwd, Got
<1>9. CASE ServeClose \/ ServeRequest \/ ServeBad \/ ServeOther \/ ServeDefer
    <2>1. CASE ServeClose
        BY <2>1, Zenon DEF ServeClose, Got
    <2>2. CASE ServeRequest
        BY <2>2, Zenon DEF ServeRequest, Got
    <2>3. CASE ServeBad
        BY <2>3, Zenon DEF ServeBad, Got
    <2>4. CASE ServeOther
        BY <2>4, Zenon DEF ServeOther, Got
    <2>5. CASE ServeDefer
        BY <2>5, Zenon DEF ServeDefer
    <2>6. QED
        BY <1>9, <2>1, <2>2, <2>3, <2>4, <2>5, Zenon
<1>10. CASE AckWrite \/ AckWriteErr
    BY <1>10 DEF AckWrite, AckWriteErr
<1>11. ASSUME NEW r \in Readers, ReadCall(r) \/ ReadStep(r)
       PROVE  ControlType'
    <2>1. CASE ReadCall(r)
        BY <2>1, Zenon DEF ReadCall
    <2>2. CASE ReadLock(r)
        BY <2>2, Zenon DEF ReadLock
    <2>3. CASE ReadBuf(r)
        BY <2>3, Zenon DEF ReadBuf
    <2>4. CASE ReadReturn(r)
        BY <2>4, Zenon DEF ReadReturn
    <2>5. CASE ReadNotified(r)
        BY <2>5, Zenon DEF ReadNotified
    <2>6. CASE ReadClosed(r)
        BY <2>6, Zenon DEF ReadClosed
    <2>7. QED
        BY <1>11, <2>1, <2>2, <2>3, <2>4, <2>5, <2>6, Zenon DEF ReadStep
<1>12. ASSUME NEW w \in Writers, WriteCall(w) \/ WriteStep(w)
       PROVE  ControlType'
    <2>1. CASE WriteCall(w)
        BY <2>1, Zenon DEF WriteCall
    <2>2. CASE WriteCheck(w)
        BY <2>2, Zenon DEF WriteCheck
    <2>3. CASE WriteRegister(w)
        BY <2>3, Zenon DEF WriteRegister
    <2>4. CASE WriteFwd(w)
        BY <2>4, Zenon DEF WriteFwd
    <2>5. CASE WriteFwdErr(w)
        BY <2>5, Zenon DEF WriteFwdErr
    <2>6. CASE WriteErrReturn(w)
        BY <2>6, Zenon DEF WriteErrReturn
    <2>7. CASE WriteSelect(w)
        BY <2>7, Zenon DEF WriteSelect
    <2>8. CASE WriteReturn(w)
        BY <2>8, Zenon DEF WriteReturn
    <2>9. QED
        BY <1>12, <2>1, <2>2, <2>3, <2>4, <2>5, <2>6, <2>7, <2>8, Zenon DEF WriteStep
<1>13. QED
    BY <1>1, <1>2, <1>3, <1>4, <1>5, <1>6, <1>7, <1>8, <1>9, <1>10, <1>11, <1>12, Zenon
       DEF Next, ServerStep

\* Read's mutex and locals.
LEMMA ReadTypeStep == TypeOK /\ [Next]_vars => ReadType'
<1> SUFFICES ASSUME TypeOK, [Next]_vars
             PROVE  ReadType'
    BY Zenon
<1> USE SizesAssumption DEF TypeOK, ReadType, readVars
<1>1. ASSUME NEW p \in Procs, CloseStep(p)
      PROVE  ReadType'
    BY <1>1, Zenon DEF CloseStep, OnceFirst, CloseBuf, CloseIn, CloseTail, WriteClose
<1>2. ASSUME NEW p \in Closers, UserClose(p)
      PROVE  ReadType'
    BY <1>2, Zenon DEF UserClose
<1>3. CASE ConnFails \/ ConnClose \/ Finished \/ UNCHANGED vars
    BY <1>3, Zenon DEF ConnFails, ConnClose, Finished, vars
<1>4. ASSUME NEW f \in Frames, HandleFrame(f)
      PROVE  ReadType'
    BY <1>4, Zenon DEF HandleFrame
<1>5. CASE HandlerStep
    BY <1>5, Zenon DEF HandlerStep, HandlerCheck, HandlerSend, HandlerRetry
<1>6. CASE ReadAcceptCtxDone \/ ReadAcceptClosed \/ ReadAcceptFrame
    BY <1>6, Zenon DEF ReadAcceptCtxDone, ReadAcceptClosed, ReadAcceptFrame
<1>7. CASE ServeStart \/ ServeDone \/ ServeFwdCheck \/ ServeFwdSend \/ ServeAck
    BY <1>7, Zenon DEF ServeStart, ServeDone, ServeFwdCheck, ServeFwdSend, ServeAck, Got
<1>8. CASE ServeFwd
    BY <1>8, Zenon DEF ServeFwd, Got
<1>9. CASE ServeClose \/ ServeRequest \/ ServeBad \/ ServeOther \/ ServeDefer
    BY <1>9, Zenon DEF ServeClose, ServeRequest, ServeBad, ServeOther, ServeDefer, Got
<1>10. CASE AckWrite \/ AckWriteErr
    BY <1>10, Zenon DEF AckWrite, AckWriteErr
<1>11. ASSUME NEW r \in Readers, ReadCall(r) \/ ReadStep(r)
       PROVE  ReadType'
    <2>1. CASE ReadCall(r) \/ ReadLock(r)
        BY <2>1, Zenon DEF ReadCall, ReadLock
    <2>2. CASE ReadBuf(r)
        BY <2>2, Zenon DEF ReadBuf
    <2>3. CASE ReadReturn(r) \/ ReadClosed(r)
        <3>1. /\ rMx' = None
              /\ want' = [want EXCEPT ![r] = 0] /\ drained' = [drained EXCEPT ![r] = FALSE]
            BY <2>3, Zenon DEF ReadReturn, ReadClosed
        <3>2. QED
            BY <3>1, Zenon
    <2>4. CASE ReadNotified(r)
        BY <2>4, Zenon DEF ReadNotified
    <2>5. QED
        BY <1>11, <2>1, <2>2, <2>3, <2>4, Zenon DEF ReadStep
<1>12. ASSUME NEW w \in Writers, WriteCall(w) \/ WriteStep(w)
       PROVE  ReadType'
    BY <1>12, Zenon DEF WriteCall, WriteStep, WriteCheck, WriteRegister, WriteFwd, WriteFwdErr,
                 WriteErrReturn, WriteSelect, WriteReturn
<1>13. QED
    BY <1>1, <1>2, <1>3, <1>4, <1>5, <1>6, <1>7, <1>8, <1>9, <1>10, <1>11, <1>12, Zenon
       DEF Next, ServerStep

\* The buffers; only Serve, Read and the ACK writers touch them.
LEMMA BufTypeStep == TypeOK /\ [Next]_vars => BufType'
<1> SUFFICES ASSUME TypeOK, [Next]_vars
             PROVE  BufType'
    BY Zenon
<1> USE SizesAssumption DEF TypeOK, BufType, bufVars
<1>1. ASSUME NEW p \in Procs, CloseStep(p)
      PROVE  BufType'
    BY <1>1, Zenon DEF CloseStep, OnceFirst, CloseBuf, CloseIn, CloseTail, WriteClose
<1>2. ASSUME NEW p \in Closers, UserClose(p)
      PROVE  BufType'
    BY <1>2, Zenon DEF UserClose
<1>3. CASE ConnFails \/ ConnClose \/ Finished \/ UNCHANGED vars
    BY <1>3, Zenon DEF ConnFails, ConnClose, Finished, vars
<1>4. ASSUME NEW f \in Frames, HandleFrame(f)
      PROVE  BufType'
    BY <1>4, Zenon DEF HandleFrame
<1>5. CASE HandlerStep
    BY <1>5, Zenon DEF HandlerStep, HandlerCheck, HandlerSend, HandlerRetry
<1>6. CASE ReadAcceptCtxDone \/ ReadAcceptClosed \/ ReadAcceptFrame
    BY <1>6, Zenon DEF ReadAcceptCtxDone, ReadAcceptClosed, ReadAcceptFrame
<1>7. CASE ServeStart \/ ServeDone \/ ServeFwdCheck \/ ServeFwdSend \/ ServeAck
    BY <1>7, Zenon DEF ServeStart, ServeDone, ServeFwdCheck, ServeFwdSend, ServeAck, Got
<1>8. CASE ServeFwd
    <2>1. frame.arg \in Nat
        BY <1>8 DEF ServeFwd, Got, NetType, Frames, FwdFrames, AckFrames, ControlFrames, NoFrame
    <2>2. unread' \in Nat /\ bufSize' \in Int /\ nFwd' = nFwd + 1
        BY <1>8, <2>1 DEF ServeFwd
    <2>3. 1 .. nFwd \subseteq 1 .. nFwd' /\ nFwd' \in 1 .. nFwd'
        BY <2>2
    <2>4. /\ ackBuf' \subseteq ackBuf \cup {nFwd'} /\ ackOut' \subseteq ackOut \cup {nFwd'}
          /\ acked' = acked /\ bufCh' = bufCh
        BY <1>8, Zenon DEF ServeFwd
    <2>5. QED
        BY <2>2, <2>3, <2>4
<1>9. CASE ServeClose \/ ServeRequest \/ ServeBad \/ ServeOther \/ ServeDefer
    BY <1>9, Zenon DEF ServeClose, ServeRequest, ServeBad, ServeOther, ServeDefer, Got
<1>10. CASE AckWrite \/ AckWriteErr
    BY <1>10, Zenon DEF AckWrite, AckWriteErr
<1>11. ASSUME NEW r \in Readers, ReadCall(r) \/ ReadStep(r)
       PROVE  BufType'
    <2>1. CASE ReadBuf(r)
        <3>1. want[r] \in Nat
            BY Zenon DEF ReadType
        <3>2. unread' \in Nat /\ bufSize' \in Int
            BY SMTT(60), <2>1, <3>1 DEF ReadBuf
        <3>3. QED
            BY <2>1, <3>2, Zenon DEF ReadBuf, FlushAcks
    <2>2. CASE ReadCall(r) \/ ReadLock(r) \/ ReadReturn(r) \/ ReadNotified(r) \/ ReadClosed(r)
        BY <2>2, Zenon DEF ReadCall, ReadLock, ReadReturn, ReadNotified, ReadClosed
    <2>3. QED
        BY <1>11, <2>1, <2>2, Zenon DEF ReadStep
<1>12. ASSUME NEW w \in Writers, WriteCall(w) \/ WriteStep(w)
       PROVE  BufType'
    BY <1>12, Zenon DEF WriteCall, WriteStep, WriteCheck, WriteRegister, WriteFwd, WriteFwdErr,
                 WriteErrReturn, WriteSelect, WriteReturn
<1>13. QED
    BY <1>1, <1>2, <1>3, <1>4, <1>5, <1>6, <1>7, <1>8, <1>9, <1>10, <1>11, <1>12, Zenon
       DEF Next, ServerStep

\* The connection and the frames in hand.
LEMMA NetTypeStep == TypeOK /\ [Next]_vars => NetType'
<1> SUFFICES ASSUME TypeOK, [Next]_vars
             PROVE  NetType'
    BY Zenon
<1> USE DEF TypeOK, NetType, connVars, netVars
<1>1. ASSUME NEW p \in Procs, CloseStep(p)
      PROVE  NetType'
    BY SMTT(60), <1>1 DEF CloseStep, OnceFirst, CloseBuf, CloseIn, CloseTail, WriteClose
<1>2. ASSUME NEW p \in Closers, UserClose(p)
      PROVE  NetType'
    BY <1>2, Zenon DEF UserClose
<1>3. CASE ConnFails \/ ConnClose \/ Finished \/ UNCHANGED vars
    BY <1>3, Zenon DEF ConnFails, ConnClose, Finished, vars
<1>4. ASSUME NEW f \in Frames, HandleFrame(f)
      PROVE  NetType'
    BY <1>4, Zenon DEF HandleFrame
<1>5. CASE HandlerStep
    BY <1>5, Zenon DEF HandlerStep, HandlerCheck, HandlerSend, HandlerRetry
<1>6. CASE ReadAcceptCtxDone \/ ReadAcceptClosed \/ ReadAcceptFrame
    BY <1>6, Zenon DEF ReadAcceptCtxDone, ReadAcceptClosed, ReadAcceptFrame
<1>7. CASE ServeStart \/ ServeDone \/ ServeFwdCheck \/ ServeFwdSend \/ ServeAck
    BY <1>7, Zenon DEF ServeStart, ServeDone, ServeFwdCheck, ServeFwdSend, ServeAck, Got
<1>8. CASE ServeFwd
    BY <1>8, Zenon DEF ServeFwd, Got
<1>9. CASE ServeClose \/ ServeRequest \/ ServeBad \/ ServeOther \/ ServeDefer
    BY <1>9, Zenon DEF ServeClose, ServeRequest, ServeBad, ServeOther, ServeDefer, Got
<1>10. CASE AckWrite \/ AckWriteErr
    BY <1>10, Zenon DEF AckWrite, AckWriteErr
<1>11. ASSUME NEW r \in Readers, ReadCall(r) \/ ReadStep(r)
       PROVE  NetType'
    BY <1>11, Zenon DEF ReadCall, ReadStep, ReadLock, ReadBuf, ReadReturn, ReadNotified, ReadClosed
<1>12. ASSUME NEW w \in Writers, WriteCall(w) \/ WriteStep(w)
       PROVE  NetType'
    BY <1>12, Zenon DEF WriteCall, WriteStep, WriteCheck, WriteRegister, WriteFwd, WriteFwdErr,
                 WriteErrReturn, WriteSelect, WriteReturn
<1>13. QED
    BY <1>1, <1>2, <1>3, <1>4, <1>5, <1>6, <1>7, <1>8, <1>9, <1>10, <1>11, <1>12, Zenon
       DEF Next, ServerStep

\* transport.go keeps every field of a transport in its type.
LEMMA TypeStep == TypeOK /\ [Next]_vars => TypeOK'
BY ControlTypeStep, ReadTypeStep, BufTypeStep, NetTypeStep, AckWaiterStep, AckTypeStep, Zenon
   DEF TypeOK

\* NewTransport returns a well-typed transport.
LEMMA TypeInit == Init => TypeOK
<1> SUFFICES ASSUME Init
             PROVE  TypeOK
    BY Zenon
<1>1. AW!TypeOK
    BY AckWaiterConstants DEF Init, AW!Init, AW!TypeOK, AW!Seqs
<1>2. ControlType
    BY Zenon DEF Init, ControlType, Labels
<1>3. BufType
    <2>1. /\ bufCh = FALSE /\ unread = 0 /\ bufSize = 0 /\ nFwd = 0
          /\ ackBuf = {} /\ ackOut = {} /\ acked = {}
        BY Zenon DEF Init
    <2>2. bufCh \in BOOLEAN
        BY <2>1, Zenon
    <2>3. unread \in Nat /\ bufSize \in Int /\ nFwd \in Nat
        BY <2>1
    <2>4. QED
        BY <2>1, <2>2, <2>3, Zenon DEF BufType
<1>4. ReadType
    BY Zenon DEF Init, ReadType
<1>5. NetType
    BY Zenon DEF Init, NetType
<1>6. QED
    BY <1>1, <1>2, <1>3, <1>4, <1>5, Zenon DEF TypeOK

-----------------------------------------------------------------------------
(* Channels                                                                *)

\* A goroutine that moves between labels outside the body of doneOnce and the
\* sections of inMx and bufMx disturbs nothing.
LEMMA OutsideMove ==
    ASSUME TypeOK, CloseInv, NEW p \in Procs, NEW l,
           pc' = [pc EXCEPT ![p] = l],
           ~Closing(p), pc[p] \notin {"check", "send", "fwdCheck", "fwdSend"},
           l \notin {"closeBuf", "closeIn", "check", "send", "fwdCheck", "fwdSend"},
           UNCHANGED <<done, once, inMx, inClosed, bufMx, bufClosed>>
    PROVE  CloseInv'
BY ProcsIn, Zenon DEF TypeOK, ControlType, CloseInv, OnceInv, MutexInv, ChannelsUsedWhileOpen, Closing

\* The argument of the comment above close(), in its four points.
LEMMA CloseInvStep == TypeOK /\ CloseInv /\ [Next]_vars => CloseInv'
<1> SUFFICES ASSUME TypeOK, CloseInv, [Next]_vars
             PROVE  CloseInv'
    BY Zenon
<1>h. Handler # Server /\ Handler # None /\ Server # None
    BY ProcsAssumption, ProcsIn, Zenon
<1> USE ProcsIn DEF Goto, closeVars
<1>1. ASSUME NEW p \in Procs, CloseStep(p)
      PROVE  CloseInv'
    <2> USE <1>h DEF TypeOK, ControlType, CloseInv, OnceInv, MutexInv, ChannelsUsedWhileOpen, Closing
    <2>1. CASE OnceFirst(p)
        BY <2>1 DEF OnceFirst
    <2>2. CASE CloseBuf(p)
        BY <2>2, Zenon DEF CloseBuf
    <2>3. CASE CloseIn(p)
        BY <2>3, Zenon DEF CloseIn
    <2>4. CASE CloseTail(p)
        BY <2>4 DEF CloseTail
    <2>5. CASE WriteClose(p)
        BY <2>5 DEF WriteClose
    <2>6. QED
        BY <1>1, <2>1, <2>2, <2>3, <2>4, <2>5, Zenon DEF CloseStep
<1>2. ASSUME NEW p \in Closers, UserClose(p)
      PROVE  CloseInv'
    BY <1>2, OutsideMove, Zenon DEF UserClose, CallClose, Closing
<1>3. CASE ConnClose
    BY <1>3, OutsideMove, Zenon DEF ConnClose, CallClose, Closing
<1>4. CASE ConnFails \/ AckWrite \/ Finished \/ UNCHANGED vars
    BY SMTT(60), <1>4 DEF ConnFails, AckWrite, Finished, vars, CloseInv, OnceInv, MutexInv,
                ChannelsUsedWhileOpen, Closing
<1>5. CASE AckWriteErr
    BY <1>5, OutsideMove, Zenon DEF AckWriteErr, CallClose, Closing
<1>6. ASSUME NEW f \in Frames, HandleFrame(f)
      PROVE  CloseInv'
    BY <1>6, <1>h, Zenon DEF HandleFrame, TypeOK, ControlType, CloseInv, OnceInv, MutexInv,
                ChannelsUsedWhileOpen, Closing
<1>7. CASE HandlerStep
    <2> USE <1>h DEF TypeOK, ControlType, CloseInv, OnceInv, MutexInv, ChannelsUsedWhileOpen, Closing
    <2>1. CASE HandlerCheck
        BY <2>1, Zenon DEF HandlerCheck
    <2>2. CASE HandlerSend
        BY <2>2, Zenon DEF HandlerSend, Receiving
    <2>3. CASE HandlerRetry
        BY <2>3, Zenon DEF HandlerRetry
    <2>4. QED
        BY <1>7, <2>1, <2>2, <2>3, Zenon DEF HandlerStep
<1>8. CASE ReadAcceptCtxDone \/ ReadAcceptClosed \/ ReadAcceptFrame \/ ServeDefer \/ ServeClose
    BY <1>8, OutsideMove, Zenon DEF ReadAcceptCtxDone, ReadAcceptClosed, ReadAcceptFrame, ServeDefer,
                             ServeClose, Got, CallClose, Closing
<1>9. CASE ServeStart \/ ServeDone \/ ServeAck \/ ServeRequest \/ ServeBad \/ ServeOther
    BY <1>9, OutsideMove, Zenon DEF ServeStart, ServeDone, ServeAck, ServeRequest, ServeBad, ServeOther,
                             Got, Closing
<1>10. CASE ServeFwd \/ ServeFwdCheck \/ ServeFwdSend
    <2> USE <1>h DEF TypeOK, ControlType, CloseInv, OnceInv, MutexInv, ChannelsUsedWhileOpen, Closing
    <2>1. CASE ServeFwd
        BY <2>1, Zenon DEF ServeFwd, Got
    <2>2. CASE ServeFwdCheck
        BY <2>2, Zenon DEF ServeFwdCheck
    <2>3. CASE ServeFwdSend
        BY <2>3, Zenon DEF ServeFwdSend
    <2>4. QED
        BY <1>10, <2>1, <2>2, <2>3, Zenon
<1>11. ASSUME NEW r \in Readers, ReadCall(r) \/ ReadStep(r)
       PROVE  CloseInv'
    <2>1. CASE ReadBuf(r)
        <3>1. PICK l \in {"rReturn", "rWait"} : Goto(r, l)
            BY <2>1, Zenon DEF ReadBuf
        <3>2. QED
            BY <2>1, <3>1, OutsideMove, Zenon DEF ReadBuf, Closing
    <2>2. CASE ReadCall(r) \/ ReadLock(r) \/ ReadReturn(r) \/ ReadNotified(r) \/ ReadClosed(r)
        BY <2>2, OutsideMove, Zenon DEF ReadCall, ReadLock, ReadReturn, ReadNotified, ReadClosed, Closing
    <2>3. QED
        BY <1>11, <2>1, <2>2, Zenon DEF ReadStep
<1>12. ASSUME NEW w \in Writers, WriteCall(w) \/ WriteStep(w)
       PROVE  CloseInv'
    <2>1. CASE WriteCall(w) \/ WriteCheck(w) \/ WriteFwdErr(w) \/ WriteErrReturn(w) \/ WriteReturn(w)
        BY <2>1, OutsideMove, Zenon DEF WriteCall, WriteCheck, WriteFwdErr, WriteErrReturn, WriteReturn,
                                 CallClose, Closing
    <2>2. CASE WriteRegister(w) \/ WriteFwd(w) \/ WriteSelect(w)
        BY SMTT(60), <2>2 DEF WriteRegister, WriteFwd, WriteSelect, CloseInv, OnceInv, MutexInv,
                    ChannelsUsedWhileOpen, Closing
    <2>3. QED
        BY <1>12, <2>1, <2>2, Zenon DEF WriteStep
<1>13. QED
    BY <1>1, <1>2, <1>3, <1>4, <1>5, <1>6, <1>7, <1>8, <1>9, <1>10, <1>11, <1>12, Zenon
       DEF Next, ServerStep

\* A new transport satisfies the invariant about closing.
LEMMA CloseInvInit == Init => CloseInv
BY SMTT(60), ProcsIn, ProcsAssumption
   DEF Init, CloseInv, OnceInv, MutexInv, ChannelsUsedWhileOpen, Closing

\* The fields of a transport keep their types.
THEOREM TransportTypeCorrect == Spec => []TypeOK
BY TypeInit, TypeStep, PTL DEF Spec

\* No goroutine of a transport ever panics on inCh or bufCh: none sends on one
\* of them after it was closed, and none closes one twice.
THEOREM TransportNoPanic == Spec => []ChannelsUsedWhileOpen
<1>1. CloseInv => ChannelsUsedWhileOpen
    BY Zenon DEF CloseInv
<1>2. QED
    BY <1>1, TypeInit, TypeStep, CloseInvInit, CloseInvStep, PTL DEF Spec

-----------------------------------------------------------------------------
(* The receive buffer and its ACK frames                                   *)

BufInv == BufSizeExact /\ AckHeldOnlyWhenFull /\ AckConserved

\* bufSize, buf and the ACK frames change together, under bufMx.
LEMMA BufInvStep == TypeOK /\ BufInv /\ [Next]_vars => BufInv'
<1> SUFFICES ASSUME TypeOK, BufInv, [Next]_vars
             PROVE  BufInv'
    BY Zenon
<1>u. ASSUME UNCHANGED bufVars, connOpen' => connOpen
      PROVE  BufInv'
    BY <1>u, Zenon DEF bufVars, BufInv, BufSizeExact, AckHeldOnlyWhenFull, AckConserved
<1>1. ASSUME NEW p \in Procs, CloseStep(p)
      PROVE  BufInv'
    BY SMTT(60), <1>1, <1>u DEF CloseStep, OnceFirst, CloseBuf, CloseIn, CloseTail, WriteClose,
                      netVars, connVars
<1>2. ASSUME NEW p \in Closers, UserClose(p)
      PROVE  BufInv'
    BY <1>2, <1>u, Zenon DEF UserClose, netVars, connVars
<1>3. CASE ConnFails \/ ConnClose \/ Finished \/ UNCHANGED vars
    BY <1>3, <1>u DEF ConnFails, ConnClose, Finished, vars, netVars, connVars
<1>4. ASSUME NEW f \in Frames, HandleFrame(f)
      PROVE  BufInv'
    BY <1>4, <1>u, Zenon DEF HandleFrame
<1>5. CASE HandlerStep
    BY <1>5, <1>u DEF HandlerStep, HandlerCheck, HandlerSend, HandlerRetry, netVars, connVars
<1>6. CASE ReadAcceptCtxDone \/ ReadAcceptClosed \/ ReadAcceptFrame
    BY <1>6, <1>u DEF ReadAcceptCtxDone, ReadAcceptClosed, ReadAcceptFrame, netVars, connVars
<1>7. CASE ServeStart \/ ServeDone \/ ServeFwdCheck \/ ServeAck
    BY <1>7, <1>u DEF ServeStart, ServeDone, ServeFwdCheck, ServeAck, Got, netVars, connVars
<1>8. CASE ServeClose \/ ServeRequest \/ ServeBad \/ ServeOther \/ ServeDefer
    BY <1>8, <1>u DEF ServeClose, ServeRequest, ServeBad, ServeOther, ServeDefer, Got,
                      netVars, connVars
<1>9. CASE ServeFwdSend
    BY <1>9, Zenon DEF ServeFwdSend, netVars, connVars, BufInv, BufSizeExact, AckHeldOnlyWhenFull,
                AckConserved
<1>10. CASE ServeFwd
    <2>1. frame.arg \in Nat
        BY SMTT(60), <1>10, SizesAssumption DEF ServeFwd, Got, TypeOK, NetType, Frames, FwdFrames, AckFrames,
                     ControlFrames, NoFrame
    <2>2. BufSizeExact'
        BY <1>10, <2>1, Zenon DEF ServeFwd, TypeOK, BufType, BufInv, BufSizeExact
    <2>3. AckHeldOnlyWhenFull'
        BY <1>10, <2>1, SizesAssumption
           DEF ServeFwd, TypeOK, BufType, BufInv, AckHeldOnlyWhenFull
    <2>4. nFwd' \notin 1 .. nFwd /\ 1 .. nFwd' = (1 .. nFwd) \cup {nFwd'}
        BY <1>10 DEF ServeFwd, TypeOK, BufType
    <2>5. AckConserved'
        <3>1. /\ nFwd' \notin ackBuf /\ nFwd' \notin ackOut /\ nFwd' \notin acked
              /\ acked' = acked /\ connOpen' = connOpen
            BY <1>10, <2>4, Zenon DEF ServeFwd, connVars, TypeOK, BufType
        <3>2. \/ ackBuf' = ackBuf \cup {nFwd'} /\ ackOut' = ackOut
              \/ ackOut' = ackOut \cup {nFwd'} /\ ackBuf' = ackBuf
            BY <1>10, Zenon DEF ServeFwd
        <3>3. QED
            BY <2>4, <3>1, <3>2, Zenon DEF BufInv, AckConserved
    <2>6. QED
        BY <2>2, <2>3, <2>5, Zenon DEF BufInv
<1>11. CASE AckWrite
    BY <1>11, Zenon DEF AckWrite, netVars, connVars, BufInv, BufSizeExact, AckHeldOnlyWhenFull,
                 AckConserved
<1>12. CASE AckWriteErr
    BY <1>12, Zenon DEF AckWriteErr, netVars, connVars, BufInv, BufSizeExact, AckHeldOnlyWhenFull,
                 AckConserved
<1>13. ASSUME NEW r \in Readers, ReadCall(r) \/ ReadStep(r)
       PROVE  BufInv'
    <2>1. CASE ReadBuf(r)
        <3>1. PICK n \in Nat : unread' = unread - n /\ bufSize' = bufSize - n
            BY <2>1, Zenon DEF ReadBuf, TypeOK, BufType, ReadType
        <3>2. BufSizeExact'
            BY <3>1, Zenon DEF TypeOK, BufType, BufInv, BufSizeExact
        <3>3. AckHeldOnlyWhenFull'
            BY SMTT(60), <2>1, <3>1, SizesAssumption
               DEF ReadBuf, FlushAcks, TypeOK, BufType, BufInv, AckHeldOnlyWhenFull
        <3>4. AckConserved'
            BY <2>1, Zenon DEF ReadBuf, FlushAcks, netVars, connVars, BufInv, AckConserved
        <3>5. QED
            BY <3>2, <3>3, <3>4, Zenon DEF BufInv
    <2>2. CASE ReadNotified(r)
        BY <2>2, Zenon DEF ReadNotified, netVars, connVars, BufInv, BufSizeExact,
                    AckHeldOnlyWhenFull, AckConserved
    <2>3. CASE ReadCall(r) \/ ReadLock(r) \/ ReadReturn(r) \/ ReadClosed(r)
        BY <2>3, <1>u DEF ReadCall, ReadLock, ReadReturn, ReadClosed, netVars, connVars
    <2>4. QED
        BY <1>13, <2>1, <2>2, <2>3, Zenon DEF ReadStep
<1>14. ASSUME NEW w \in Writers, WriteCall(w) \/ WriteStep(w)
       PROVE  BufInv'
    <2>1. UNCHANGED bufVars
        BY <1>14, Zenon DEF WriteCall, WriteStep, WriteCheck, WriteRegister, WriteFwd, WriteFwdErr,
                     WriteErrReturn, WriteSelect, WriteReturn
    <2>2. CASE WriteFwd(w)
        BY <2>1, <2>2, <1>u, Zenon DEF WriteFwd
    <2>3. CASE ~WriteFwd(w)
        <3>1. UNCHANGED netVars
            BY <1>14, <2>3, Zenon DEF WriteCall, WriteStep, WriteCheck, WriteRegister, WriteFwdErr,
                               WriteErrReturn, WriteSelect, WriteReturn
        <3>2. QED
            BY <2>1, <3>1, <1>u, Zenon DEF netVars, connVars
    <2>4. QED
        BY <2>2, <2>3, Zenon
<1>15. QED
    BY <1>1, <1>2, <1>3, <1>4, <1>5, <1>6, <1>7, <1>8, <1>9, <1>10, <1>11, <1>12, <1>13, <1>14, Zenon
       DEF Next, ServerStep

\* A new transport satisfies the invariant about its buffer.
LEMMA BufInvInit == Init => BufInv
<1> SUFFICES ASSUME Init
             PROVE  BufInv
    BY Zenon
<1>1. unread = 0 /\ bufSize = 0 /\ nFwd = 0 /\ ackBuf = {} /\ ackOut = {} /\ acked = {}
    BY Zenon DEF Init
<1>2. QED
    BY <1>1 DEF BufInv, BufSizeExact, AckHeldOnlyWhenFull, AckConserved

\* The accounting of the receive buffer always holds.
LEMMA BufInvHolds == Spec => []BufInv
BY TypeInit, TypeStep, BufInvInit, BufInvStep, PTL DEF Spec

\* bufSize counts the bytes in buf, whoever reads and however much at once.
THEOREM TransportBufSize == Spec => []BufSizeExact
<1>1. BufInv => BufSizeExact
    BY Zenon DEF BufInv
<1>2. QED
    BY <1>1, BufInvHolds, PTL

\* ACK frames are held back only at the cap of the buffer or above.
THEOREM TransportAckHeld == Spec => []AckHeldOnlyWhenFull
<1>1. BufInv => AckHeldOnlyWhenFull
    BY Zenon DEF BufInv
<1>2. QED
    BY <1>1, BufInvHolds, PTL

\* No ACK frame is lost or sent twice by Serve, Read and the goroutines that
\* write ACK frames.
THEOREM TransportAckConserved == Spec => []AckConserved
<1>1. BufInv => AckConserved
    BY Zenon DEF BufInv
<1>2. QED
    BY <1>1, BufInvHolds, PTL

-----------------------------------------------------------------------------
(* The CLOSE frame                                                         *)

\* The goroutine for which close() returns, or will return, true.
First(p) == pc[p] \in {"closeBuf", "closeIn", "tail", "writeClose"}

\* There is one at most, and no CLOSE frame was written while there is one.
FirstInv ==
    /\ once = "new" => closesSent = 0
    /\ closesSent <= 1
    /\ \A p \in Procs : First(p) => once # "new" /\ closesSent = 0
    /\ \A p, q \in Procs : First(p) /\ First(q) => p = q

\* Other goroutines do not matter.
LEMMA NotFirstMove ==
    ASSUME TypeOK, FirstInv, NEW p \in Procs, NEW l,
           pc' = [pc EXCEPT ![p] = l], ~First(p),
           l \notin {"closeBuf", "closeIn", "tail", "writeClose"},
           UNCHANGED <<once, closesSent>>
    PROVE  FirstInv'
BY Zenon DEF TypeOK, ControlType, FirstInv, First

\* doneOnce makes one goroutine the first, and only that one writes.
LEMMA FirstInvStep == TypeOK /\ FirstInv /\ [Next]_vars => FirstInv'
<1> SUFFICES ASSUME TypeOK, FirstInv, [Next]_vars
             PROVE  FirstInv'
    BY Zenon
<1> USE ProcsIn DEF Goto
<1>1. ASSUME NEW p \in Procs, CloseStep(p)
      PROVE  FirstInv'
    <2>1. CASE OnceFirst(p)
        BY <2>1 DEF OnceFirst, netVars, connVars, TypeOK, ControlType, FirstInv, First
    <2>2. CASE CloseBuf(p) \/ CloseIn(p)
        BY <2>2 DEF CloseBuf, CloseIn, netVars, connVars, TypeOK, ControlType, FirstInv, First
    <2>3. CASE CloseTail(p)
        <3>1. cont[p] \notin {"closeBuf", "closeIn", "tail", "writeClose"}
            BY Zenon DEF TypeOK, ControlType
        <3>2. UNCHANGED <<once, closesSent>>
            BY <2>3, Zenon DEF CloseTail, netVars, connVars
        <3>3. CASE pc[p] = "tail"
            <4>1. PICK l \in {cont[p], "writeClose"} : pc' = [pc EXCEPT ![p] = l]
                BY <2>3, <3>3, Zenon DEF CloseTail
            <4>2. QED
                BY <3>2, <3>3, <4>1, Zenon DEF TypeOK, ControlType, FirstInv, First
        <3>4. CASE pc[p] # "tail"
            <4>1. PICK l \in {cont[p], "end"} : pc' = [pc EXCEPT ![p] = l]
                BY <2>3, <3>4, Zenon DEF CloseTail
            <4>2. ~First(p)
                BY <2>3, <3>4, Zenon DEF CloseTail, First
            <4>3. QED
                BY <3>1, <3>2, <4>1, <4>2, NotFirstMove, Zenon
        <3>5. QED
            BY <3>3, <3>4, Zenon
    <2>4. CASE WriteClose(p)
        BY <2>4 DEF WriteClose, closeVars, TypeOK, ControlType, NetType, FirstInv, First
    <2>5. QED
        BY <1>1, <2>1, <2>2, <2>3, <2>4, Zenon DEF CloseStep
<1> USE DEF First, CallClose, closeVars, netVars, connVars
<1>2. ASSUME NEW p \in Closers, UserClose(p)
      PROVE  FirstInv'
    BY <1>2, NotFirstMove, Zenon DEF UserClose
<1>3. CASE ConnClose \/ AckWriteErr
    BY <1>3, NotFirstMove, Zenon DEF ConnClose, AckWriteErr
<1>4. CASE ConnFails \/ AckWrite \/ Finished \/ UNCHANGED vars
    BY <1>4, Zenon DEF ConnFails, AckWrite, Finished, vars, FirstInv
<1>5. ASSUME NEW f \in Frames, HandleFrame(f)
      PROVE  FirstInv'
    BY <1>5, NotFirstMove, Zenon DEF HandleFrame
<1>6. CASE HandlerCheck \/ HandlerRetry
    BY <1>6, NotFirstMove, Zenon DEF HandlerCheck, HandlerRetry
<1>7. CASE HandlerSend
    BY <1>7 DEF HandlerSend, Receiving, TypeOK, ControlType, FirstInv
<1>8. CASE ReadAcceptCtxDone \/ ReadAcceptClosed \/ ReadAcceptFrame \/ ServeDefer \/ ServeClose
    BY <1>8, NotFirstMove, Zenon DEF ReadAcceptCtxDone, ReadAcceptClosed, ReadAcceptFrame, ServeDefer,
                              ServeClose, Got
<1>9. CASE ServeStart \/ ServeDone \/ ServeAck \/ ServeRequest \/ ServeBad \/ ServeOther
    BY <1>9, NotFirstMove, Zenon DEF ServeStart, ServeDone, ServeAck, ServeRequest, ServeBad, ServeOther, Got
<1>10. CASE ServeFwd \/ ServeFwdCheck \/ ServeFwdSend
    BY <1>10, NotFirstMove, Zenon DEF ServeFwd, ServeFwdCheck, ServeFwdSend, Got
<1>11. ASSUME NEW r \in Readers, ReadCall(r) \/ ReadStep(r)
       PROVE  FirstInv'
    <2>1. CASE ReadBuf(r)
        <3>1. PICK l \in {"rReturn", "rWait"} : Goto(r, l)
            BY <2>1, Zenon DEF ReadBuf
        <3>2. QED
            BY <2>1, <3>1, NotFirstMove, Zenon DEF ReadBuf
    <2>2. CASE ReadCall(r) \/ ReadLock(r) \/ ReadReturn(r) \/ ReadNotified(r) \/ ReadClosed(r)
        BY <2>2, NotFirstMove, Zenon DEF ReadCall, ReadLock, ReadReturn, ReadNotified, ReadClosed
    <2>3. QED
        BY <1>11, <2>1, <2>2, Zenon DEF ReadStep
<1>12. ASSUME NEW w \in Writers, WriteCall(w) \/ WriteStep(w)
       PROVE  FirstInv'
    <2>1. CASE WriteCall(w) \/ WriteCheck(w) \/ WriteFwdErr(w) \/ WriteErrReturn(w) \/ WriteReturn(w)
        BY <2>1, NotFirstMove, Zenon DEF WriteCall, WriteCheck, WriteFwdErr, WriteErrReturn, WriteReturn
    <2>2. CASE WriteRegister(w) \/ WriteFwd(w) \/ WriteSelect(w)
        BY <2>2, Zenon DEF WriteRegister, WriteFwd, WriteSelect, FirstInv
    <2>3. QED
        BY <1>12, <2>1, <2>2, Zenon DEF WriteStep
<1>13. QED
    BY <1>1, <1>2, <1>3, <1>4, <1>5, <1>6, <1>7, <1>8, <1>9, <1>10, <1>11, <1>12, Zenon
       DEF Next, HandlerStep, ServerStep

\* However many goroutines call close() on a transport, and whatever fails, at
\* most one CLOSE frame is written.
THEOREM TransportOneCloseFrame == Spec => []OneCloseFrame
<1>1. Init => FirstInv
    BY DEF Init, FirstInv, First
<1>2. FirstInv => OneCloseFrame
    BY DEF FirstInv, First, OneCloseFrame
<1>3. QED
    BY <1>1, <1>2, TypeInit, TypeStep, FirstInvStep, PTL DEF Spec

-----------------------------------------------------------------------------
(* Notification of readers                                                 *)

InRead(r) == pc[r] \in {"rBuf", "rReturn", "rWait"}

\* rMx lets one reader in, so the reader that takes an element out of bufCh is
\* the only one that could wait for it.
NotifyInv ==
    /\ \A r \in Readers : InRead(r) => rMx = r
    /\ NoLostNotification

Notifying == pc[Server] \in {"fwdCheck", "fwdSend"}

\* What goroutines other than the readers do takes nothing from a reader.
LEMMA NotifyMove ==
    ASSUME TypeOK, NotifyInv, NEW p \in Procs, NEW l,
           pc' = [pc EXCEPT ![p] = l],
           ~InRead(p), l \notin {"rBuf", "rReturn", "rWait"},
           done => done', Notifying => Notifying' \/ done' \/ bufCh',
           bufCh' = bufCh \/ bufCh', unread' = unread, rMx' = rMx
    PROVE  NotifyInv'
BY ProcsIn, Zenon DEF TypeOK, ControlType, BufType, NotifyInv, NoLostNotification, InRead, Notifying

\* Serve puts an element into bufCh after it has put data into buf, and Read
\* looks into buf after it has taken one.
LEMMA NotifyInvStep == TypeOK /\ NotifyInv /\ [Next]_vars => NotifyInv'
<1> SUFFICES ASSUME TypeOK, NotifyInv, [Next]_vars
             PROVE  NotifyInv'
    BY Zenon
<1>p. /\ Server \notin Readers /\ Handler \notin Readers /\ None \notin Readers
      /\ Server # Handler
    BY ProcsAssumption, Zenon DEF Procs
<1> USE ProcsIn DEF Goto, closeVars, bufVars, readVars
<1>n. UNCHANGED <<pc, done, bufCh, unread, rMx>> => NotifyInv'
    BY DEF NotifyInv, NoLostNotification, InRead
<1>1. ASSUME NEW p \in Procs, CloseStep(p)
      PROVE  NotifyInv'
    <2>1. cont[p] \notin {"rBuf", "rReturn", "rWait"}
        BY Zenon DEF TypeOK, ControlType
    <2>2. UNCHANGED <<bufCh, unread, rMx>> /\ (done => done')
        <3>1. CASE OnceFirst(p)
            BY <3>1, Zenon DEF OnceFirst
        <3>2. CASE CloseBuf(p) \/ CloseIn(p)
            BY <3>2 DEF CloseBuf, CloseIn
        <3>3. CASE CloseTail(p) \/ WriteClose(p)
            BY <3>3 DEF CloseTail, WriteClose
        <3>4. QED
            BY <1>1, <3>1, <3>2, <3>3, Zenon DEF CloseStep
    <2>3. pc[p] \in {"once", "closeBuf", "closeIn", "tail", "writeClose"}
        BY <1>1, Zenon DEF CloseStep, OnceFirst, CloseBuf, CloseIn, CloseTail, WriteClose
    <2>4. PICK l \in {"closeBuf", "closeIn", "tail", "writeClose", "end", cont[p]} :
                 pc' = [pc EXCEPT ![p] = l]
        BY <1>1, Zenon DEF CloseStep, OnceFirst, CloseBuf, CloseIn, CloseTail, WriteClose
    <2>5. Notifying => Notifying'
        BY <2>3, <2>4, Zenon DEF Notifying, TypeOK, ControlType
    <2>6. QED
        BY <2>1, <2>2, <2>3, <2>4, <2>5, NotifyMove, Zenon DEF InRead
<1>2. ASSUME NEW p \in Closers, UserClose(p)
      PROVE  NotifyInv'
    BY <1>2, NotifyMove, Zenon DEF UserClose, CallClose, InRead, Notifying, TypeOK, ControlType
<1>3. CASE ConnClose \/ AckWriteErr
    BY <1>3, NotifyMove, Zenon DEF ConnClose, AckWriteErr, CallClose, InRead, Notifying, TypeOK, ControlType
<1>4. CASE ConnFails \/ AckWrite \/ Finished \/ UNCHANGED vars
    BY <1>4, <1>n, Zenon DEF ConnFails, AckWrite, Finished, vars
<1>5. ASSUME NEW f \in Frames, HandleFrame(f)
      PROVE  NotifyInv'
    BY <1>5, NotifyMove, Zenon DEF HandleFrame, InRead, Notifying, TypeOK, ControlType
<1>6. CASE HandlerCheck \/ HandlerRetry
    BY <1>6, NotifyMove, Zenon DEF HandlerCheck, HandlerRetry, InRead, Notifying, TypeOK, ControlType
<1>7. CASE HandlerSend
    <2>1. \A r \in Readers : pc'[r] = pc[r]
        BY <1>7, <1>p, Zenon DEF HandlerSend, TypeOK, ControlType
    <2>2. ~Notifying
        BY <1>7, Zenon DEF HandlerSend, Receiving, Notifying
    <2>3. UNCHANGED <<done, bufCh, unread, rMx>>
        BY <1>7, Zenon DEF HandlerSend
    <2>4. QED
        BY <2>1, <2>2, <2>3, Zenon DEF NotifyInv, NoLostNotification, InRead, Notifying
<1>8. CASE ReadAcceptCtxDone \/ ReadAcceptClosed \/ ReadAcceptFrame \/ ServeDefer \/ ServeClose
    <2>1. CASE ReadAcceptCtxDone \/ ReadAcceptClosed \/ ReadAcceptFrame
        BY <2>1, NotifyMove DEF ReadAcceptCtxDone, ReadAcceptClosed, ReadAcceptFrame, CallClose,
                                InRead, Notifying
    <2>2. CASE ServeDefer
        BY <2>2, NotifyMove DEF ServeDefer, CallClose, InRead, Notifying
    <2>3. CASE ServeClose
        BY <2>3, NotifyMove DEF ServeClose, Got, CallClose, InRead, Notifying
    <2>4. QED
        BY <1>8, <2>1, <2>2, <2>3, Zenon
<1>9. CASE ServeStart \/ ServeDone \/ ServeAck \/ ServeRequest \/ ServeBad \/ ServeOther
    <2>1. CASE ServeStart
        BY <2>1, NotifyMove DEF ServeStart, InRead, Notifying
    <2>2. CASE ServeDone
        BY <2>2, NotifyMove DEF ServeDone, InRead, Notifying
    <2>3. CASE ServeAck
        BY <2>3, NotifyMove DEF ServeAck, Got, InRead, Notifying
    <2>4. CASE ServeRequest
        BY <2>4, NotifyMove DEF ServeRequest, Got, InRead, Notifying
    <2>5. CASE ServeBad \/ ServeOther
        BY <2>5, NotifyMove DEF ServeBad, ServeOther, Got, InRead, Notifying
    <2>6. QED
        BY <1>9, <2>1, <2>2, <2>3, <2>4, <2>5, Zenon
<1>10. CASE ServeFwd
    <2>1. pc'[Server] = "fwdCheck" /\ \A r \in Readers : pc'[r] = pc[r]
        BY <1>10, <1>p, Zenon DEF ServeFwd, TypeOK, ControlType
    <2>2. rMx' = rMx
        BY <1>10, Zenon DEF ServeFwd
    <2>3. QED
        BY <2>1, <2>2, Zenon DEF NotifyInv, NoLostNotification, InRead
<1>11. CASE ServeFwdCheck
    <2>1. /\ \A r \in Readers : pc'[r] = pc[r]
          /\ done' \/ pc'[Server] = "fwdSend"
        BY <1>11, <1>p, Zenon DEF ServeFwdCheck, TypeOK, ControlType
    <2>2. rMx' = rMx
        BY <1>11, Zenon DEF ServeFwdCheck
    <2>3. QED
        BY <2>1, <2>2, Zenon DEF NotifyInv, NoLostNotification, InRead
<1>12. CASE ServeFwdSend
    <2>1. bufCh' /\ \A r \in Readers : pc'[r] = pc[r]
        BY <1>12, <1>p, Zenon DEF ServeFwdSend, TypeOK, ControlType
    <2>2. rMx' = rMx
        BY <1>12, Zenon DEF ServeFwdSend
    <2>3. QED
        BY <2>1, <2>2, Zenon DEF NotifyInv, NoLostNotification, InRead
<1>13. ASSUME NEW r \in Readers, ReadCall(r) \/ ReadStep(r)
       PROVE  NotifyInv'
    <2>0. pc'[Server] = pc[Server] /\ done' = done /\ \A q \in Readers \ {r} : pc'[q] = pc[q]
        BY <1>13, <1>p, Zenon DEF ReadCall, ReadStep, ReadLock, ReadBuf, ReadReturn, ReadNotified,
                           ReadClosed, TypeOK, ControlType
    <2>1. CASE ReadCall(r)
        <3>1. pc'[r] = "rLock" /\ UNCHANGED <<bufCh, unread, rMx>>
            BY <2>1, Zenon DEF ReadCall, TypeOK, ControlType
        <3>2. QED
            BY <2>0, <3>1, Zenon DEF NotifyInv, NoLostNotification, InRead
    <2>2. CASE ReadLock(r)
        <3>1. pc'[r] = "rBuf" /\ rMx = None /\ rMx' = r /\ UNCHANGED <<bufCh, unread>>
            BY <2>2, Zenon DEF ReadLock, TypeOK, ControlType
        <3>2. \A q \in Readers : ~InRead(q)
            BY <1>p, <3>1, Zenon DEF NotifyInv
        <3>3. QED
            BY <2>0, <3>1, <3>2, Zenon DEF NotifyInv, NoLostNotification, InRead
    <2>i. InRead(r) => rMx = r /\ \A q \in Readers \ {r} : ~InRead(q)
        BY Zenon DEF NotifyInv
    <2>3. CASE ReadBuf(r)
        <3>1. want[r] \in Nat /\ unread \in Nat
            BY Zenon DEF TypeOK, ReadType, BufType
        <3>2. pc'[r] \in {"rReturn", "rWait"} /\ (pc'[r] = "rWait" => unread' = 0)
            <4>1. PICK n : /\ n = (IF want[r] < unread THEN want[r] ELSE unread)
                           /\ unread' = unread - n
                           /\ pc' = [pc EXCEPT ![r] = IF n > 0 \/ want[r] = 0 THEN "rReturn" ELSE "rWait"]
                BY <2>3, Zenon DEF ReadBuf
            <4>2. pc'[r] = IF n > 0 \/ want[r] = 0 THEN "rReturn" ELSE "rWait"
                BY <4>1, Zenon DEF TypeOK, ControlType
            <4>3. ~(n > 0 \/ want[r] = 0) => unread' = 0
                BY <3>1, <4>1
            <4>4. QED
                BY <4>2, <4>3, Zenon
        <3>3. InRead(r) /\ UNCHANGED <<bufCh, rMx>>
            BY <2>3, Zenon DEF ReadBuf, InRead
        <3>4. QED
            BY <2>0, <2>i, <3>2, <3>3 DEF NotifyInv, NoLostNotification, InRead
    <2>4. CASE ReadReturn(r) \/ ReadClosed(r)
        <3>1. InRead(r) /\ pc'[r] \in {"idle", "eof"} /\ rMx' = None
            BY <2>4, Zenon DEF ReadReturn, ReadClosed, InRead, TypeOK, ControlType
        <3>2. QED
            BY <2>0, <2>i, <3>1, Zenon DEF NotifyInv, NoLostNotification, InRead
    <2>5. CASE ReadNotified(r)
        <3>1. InRead(r) /\ pc'[r] = "rBuf" /\ rMx' = rMx
            BY <2>5, Zenon DEF ReadNotified, InRead, TypeOK, ControlType
        <3>2. QED
            BY <2>0, <2>i, <3>1, Zenon DEF NotifyInv, NoLostNotification, InRead
    <2>6. QED
        BY <1>13, <2>1, <2>2, <2>3, <2>4, <2>5, Zenon DEF ReadStep
<1>14. ASSUME NEW w \in Writers, WriteCall(w) \/ WriteStep(w)
       PROVE  NotifyInv'
    <2>1. CASE WriteCall(w) \/ WriteCheck(w)
        BY <2>1, NotifyMove, Zenon DEF WriteCall, WriteCheck, InRead, Notifying, TypeOK, ControlType
    <2>2. CASE WriteFwdErr(w)
        BY <2>2, NotifyMove, Zenon DEF WriteFwdErr, CallClose, InRead, Notifying, TypeOK, ControlType
    <2>3. CASE WriteErrReturn(w) \/ WriteReturn(w)
        BY <2>3, NotifyMove, Zenon DEF WriteErrReturn, WriteReturn, InRead, Notifying, TypeOK, ControlType
    <2>4. CASE WriteRegister(w) \/ WriteFwd(w) \/ WriteSelect(w)
        BY <2>4, <1>n, Zenon DEF WriteRegister, WriteFwd, WriteSelect
    <2>5. QED
        BY <1>14, <2>1, <2>2, <2>3, <2>4, Zenon DEF WriteStep
<1>15. QED
    BY <1>1, <1>2, <1>3, <1>4, <1>5, <1>6, <1>7, <1>8, <1>9, <1>10, <1>11, <1>12, <1>13, <1>14, Zenon
       DEF Next, HandlerStep, ServerStep

\* No Read sleeps on bufCh over data that Serve has put into buf, unless Serve
\* is about to wake it or the transport is closed, which closes bufCh.
THEOREM TransportNotifies == Spec => []NoLostNotification
<1>1. Init => NotifyInv
    BY ProcsIn, ProcsAssumption, Zenon DEF Init, NotifyInv, NoLostNotification, InRead
<1>2. NotifyInv => NoLostNotification
    BY Zenon DEF NotifyInv
<1>3. QED
    BY <1>1, <1>2, TypeInit, TypeStep, NotifyInvStep, PTL DEF Spec

-----------------------------------------------------------------------------
(* The answers to Writes                                                   *)

\* The FWD frame of a Write is out, or could not be written.
Sent(w) == wAt[w] \in {"select", "stop", "end"}

\* The sequence number of a Write was issued twice.
Shared(w) == wAt[w] # "new" /\ \E d \in Writers \ {w} : wAt[d] # "new" /\ wSeq[d] = wSeq[w]

Answered(w) == (Sent(w) /\ w \notin unacked) \/ Shared(w)

\* An ACK frame on its way answers a frame that was sent.
Answers(f) == f.type = "ACK" => \E w \in Writers : Sent(w) /\ w \notin unacked /\ wSeq[w] = f.arg

\* The map leads from a number to a call that has it, so that the answer to a frame
\* reaches its own Write or one with the same number.
AnswerInv ==
    /\ \A s \in AW!Seqs : waiters[s] # None =>
          waiters[s] \in Writers /\ wAt[waiters[s]] # "new" /\ wSeq[waiters[s]] = s
    /\ \A w \in unacked : Sent(w)
    /\ Answers(inFrame) /\ Answers(frame)
    /\ \A w \in Writers : w \in ackFull \/ wRet[w] = "acked" => Answered(w)

\* Steps that neither use the ack waiter nor read a frame from the connection.
LEMMA AnswerKept ==
    ASSUME AnswerInv, UNCHANGED <<ackVars, unacked>>,
           inFrame' \in {inFrame, NoFrame}, frame' \in {frame, inFrame, NoFrame}
    PROVE  AnswerInv'
<1>1. UNCHANGED <<waiters, wSeq, ackFull, wAt, wRet, unacked>>
    BY Zenon DEF ackVars
<1>2. Answers(NoFrame)' /\ Answers(inFrame') /\ Answers(frame')
    BY DEF Answers, NoFrame, AnswerInv
<1>3. Answers(inFrame)' /\ Answers(frame)'
    BY <1>1, <1>2, Zenon DEF Answers, Sent
<1>4. QED
    BY <1>1, <1>3, Zenon DEF AnswerInv, Sent, Shared, Answered, AW!Seqs

\* What one Write does, when it is past its Register, takes no answer from another.
LEMMA AnswerWrite ==
    ASSUME TypeOK, AnswerInv, NEW w \in Writers, wAt[w] # "new", NEW l, l # "new",
           Sent(w) => l \in {"select", "stop", "end"}, wAt' = [wAt EXCEPT ![w] = l],
           UNCHANGED <<wSeq, inFrame, frame>>,
           unacked' \in {unacked, unacked \cup {w}}, w \in unacked' \ unacked => ~Sent(w) /\ l = "select",
           ackFull' \subseteq ackFull, \A s \in AW!Seqs : waiters'[s] \in {waiters[s], None},
           \A v \in Writers : wRet'[v] = "acked" => wRet[v] = "acked" \/ v \in ackFull
    PROVE  AnswerInv'
<1>1. wAt \in [Writers -> {"new", "action", "select", "stop", "end"}] /\ unacked \subseteq Writers
    BY Zenon DEF TypeOK, AW!TypeOK, NetType
<1>2. \A v \in Writers : (wAt[v] # "new" => wAt'[v] # "new") /\ (Sent(v) => Sent(v)')
    BY <1>1, Zenon DEF Sent
<1>3. \A v \in Writers : Sent(v) /\ v \notin unacked => v \notin unacked'
    BY Zenon
<1>4. ASSUME NEW v \in Writers, Answered(v) PROVE Answered(v)'
    <2>1. CASE Sent(v) /\ v \notin unacked
        BY <1>2, <1>3, <2>1, Zenon DEF Answered
    <2>2. CASE Shared(v)
        <3>1. PICK d \in Writers \ {v} : wAt[d] # "new" /\ wSeq[d] = wSeq[v]
            BY <2>2, Zenon DEF Shared
        <3>2. wAt'[d] # "new" /\ wAt'[v] # "new" /\ wSeq'[d] = wSeq'[v]
            BY <1>2, <2>2, <3>1, Zenon DEF Shared
        <3>3. QED
            BY <3>2, Zenon DEF Answered, Shared
    <2>3. QED
        BY <1>4, <2>1, <2>2, Zenon DEF Answered
<1>5. (\A s \in AW!Seqs : waiters[s] # None =>
          waiters[s] \in Writers /\ wAt[waiters[s]] # "new" /\ wSeq[waiters[s]] = s)'
    BY <1>2, Zenon DEF AnswerInv, AW!Seqs
<1>6. ASSUME NEW v \in unacked' PROVE Sent(v)'
    <2>1. CASE v \in unacked
        BY <1>1, <1>2, <2>1, Zenon DEF AnswerInv
    <2>2. CASE v \notin unacked
        <3>1. v = w /\ l = "select"
            BY <1>6, <2>2, Zenon
        <3>2. QED
            BY <1>1, <3>1, Zenon DEF Sent
    <2>3. QED
        BY <2>1, <2>2, Zenon
<1>7. Answers(inFrame)' /\ Answers(frame)'
    BY <1>2, <1>3, Zenon DEF AnswerInv, Answers
<1>8. \A v \in Writers : v \in ackFull' \/ wRet'[v] = "acked" => Answered(v)'
    BY <1>4, Zenon DEF AnswerInv
<1>9. QED
    BY <1>5, <1>6, <1>7, <1>8, Zenon DEF AnswerInv

\* A Write that registers takes a number, and no answer is on its way to it.
LEMMA AnswerRegister ==
    ASSUME TypeOK, AnswerInv, NEW w \in Writers, WriteRegister(w)
    PROVE  AnswerInv'
<1>1. wAt \in [Writers -> {"new", "action", "select", "stop", "end"}] /\ unacked \subseteq Writers
      /\ wSeq \in [Writers -> AW!Seqs] /\ waiters \in [AW!Seqs -> Writers \cup {None}]
    BY Zenon DEF TypeOK, AW!TypeOK, NetType
<1>2. wAt[w] = "new" /\ wAt' = [wAt EXCEPT ![w] = "action"] /\ wSeq' = [wSeq EXCEPT ![w] = nextSeq]
      /\ waiters' = [waiters EXCEPT ![nextSeq] = w]
      /\ UNCHANGED <<ackFull, wRet, unacked, inFrame, frame>>
    BY Zenon DEF WriteRegister, AW!Register, AW!Move, netVars, connVars
<1>3. \A v \in Writers : wAt[v] # "new" => wAt'[v] = wAt[v] /\ wSeq'[v] = wSeq[v]
    BY <1>1, <1>2, Zenon
<1>4. wAt'[w] = "action" /\ wSeq'[w] = nextSeq
    BY <1>1, <1>2, Zenon
<1>5. \A v \in Writers : Sent(v) => wAt[v] # "new" /\ Sent(v)'
    BY <1>3 DEF Sent
<1>6. ASSUME NEW v \in Writers, Answered(v) PROVE Answered(v)'
    <2>1. CASE Sent(v) /\ v \notin unacked
        BY <1>2, <1>5, <2>1, Zenon DEF Answered
    <2>2. CASE Shared(v)
        <3>1. PICK d \in Writers \ {v} : wAt[d] # "new" /\ wSeq[d] = wSeq[v]
            BY <2>2, Zenon DEF Shared
        <3>2. wAt'[d] # "new" /\ wAt'[v] # "new" /\ wSeq'[d] = wSeq'[v]
            BY <1>3, <2>2, <3>1, Zenon DEF Shared
        <3>3. QED
            BY <3>2, Zenon DEF Answered, Shared
    <2>3. QED
        BY <1>6, <2>1, <2>2, Zenon DEF Answered
<1>7. ASSUME NEW s \in AW!Seqs, waiters'[s] # None
      PROVE  waiters'[s] \in Writers /\ wAt'[waiters'[s]] # "new" /\ wSeq'[waiters'[s]] = s
    <2>1. CASE s = nextSeq
        <3>1. waiters'[s] = w
            BY <1>1, <1>2, <2>1, Zenon
        <3>2. QED
            BY <1>4, <2>1, <3>1
    <2>2. CASE s # nextSeq
        <3>1. waiters'[s] = waiters[s]
            BY <1>1, <1>2, <2>2, Zenon
        <3>2. QED
            BY <1>3, <1>7, <3>1, Zenon DEF AnswerInv
    <2>3. QED
        BY <2>1, <2>2, Zenon
<1>8. \A f : Answers(f) => (f.type = "ACK" => \E v \in Writers : Sent(v)' /\ v \notin unacked' /\ wSeq'[v] = f.arg)
    BY <1>2, <1>3, <1>5, Zenon DEF Answers
<1>9. Answers(inFrame)' /\ Answers(frame)'
    <2>1. Answers(inFrame) /\ Answers(frame)
        BY Zenon DEF AnswerInv
    <2>2. inFrame.type = "ACK" =>
              \E v \in Writers : Sent(v)' /\ v \notin unacked' /\ wSeq'[v] = inFrame.arg
        BY <1>8, <2>1, Zenon
    <2>3. frame.type = "ACK" =>
              \E v \in Writers : Sent(v)' /\ v \notin unacked' /\ wSeq'[v] = frame.arg
        BY <1>8, <2>1, Zenon
    <2>4. inFrame' = inFrame /\ frame' = frame
        BY <1>2, Zenon
    <2>5. Answers(inFrame)'
        BY <2>2, <2>4, Zenon DEF Answers
    <2>6. Answers(frame)'
        BY <2>3, <2>4, Zenon DEF Answers
    <2>7. QED
        BY <2>5, <2>6, Zenon
<1>10. \A v \in unacked' : Sent(v)'
    BY <1>1, <1>2, <1>5, Zenon DEF AnswerInv
<1>11. QED
    BY <1>2, <1>6, <1>7, <1>9, <1>10, Zenon DEF AnswerInv, AW!Seqs

\* Every step keeps the answers with the Writes they belong to.
LEMMA AnswerInvStep == TypeOK /\ AnswerInv /\ [Next]_vars => AnswerInv'
<1> SUFFICES ASSUME TypeOK, AnswerInv, [Next]_vars
             PROVE  AnswerInv'
    BY Zenon
<1> USE DEF netVars, connVars
<1>0. wAt \in [Writers -> {"new", "action", "select", "stop", "end"}] /\ wRet \in [Writers -> {"none", "acked", "closedPipe", "ctxErr", "actionErr"}]
      /\ wSeq \in [Writers -> AW!Seqs] /\ waiters \in [AW!Seqs -> Writers \cup {None}] /\ unacked \subseteq Writers
    BY Zenon DEF TypeOK, AW!TypeOK, NetType
<1>1. ASSUME NEW p \in Procs, CloseStep(p)
      PROVE  AnswerInv'
    <2>1. CASE CloseTail(p)
        <3>1. UNCHANGED <<wSeq, ackFull, wAt, wRet, unacked, inFrame, frame>>
            BY <2>1, Zenon DEF CloseTail, AW!StopAll
        <3>2. \A s \in AW!Seqs : waiters'[s] \in {waiters[s], None}
            BY <2>1, Zenon DEF CloseTail, AW!StopAll, AW!StopWaiters
        <3>3. (\A s \in AW!Seqs : waiters[s] # None =>
                  waiters[s] \in Writers /\ wAt[waiters[s]] # "new" /\ wSeq[waiters[s]] = s)'
            BY <3>1, <3>2, Zenon DEF AnswerInv, AW!Seqs
        <3>4. QED
            BY <3>1, <3>3, ZenonT(40) DEF AnswerInv, Sent, Shared, Answered, Answers
    <2>2. CASE OnceFirst(p) \/ CloseBuf(p) \/ CloseIn(p) \/ WriteClose(p)
        BY <2>2, AnswerKept, Zenon DEF OnceFirst, CloseBuf, CloseIn, WriteClose
    <2>3. QED
        BY <1>1, <2>1, <2>2, Zenon DEF CloseStep
<1>2. ASSUME NEW p \in Closers, UserClose(p)
      PROVE  AnswerInv'
    BY <1>2, AnswerKept, Zenon DEF UserClose
<1>3. CASE ConnFails \/ ConnClose \/ AckWrite \/ AckWriteErr \/ Finished \/ UNCHANGED vars
    BY <1>3, AnswerKept, Zenon DEF ConnFails, ConnClose, AckWrite, AckWriteErr, Finished, vars
<1>4. ASSUME NEW f \in Frames, HandleFrame(f)
      PROVE  AnswerInv'
    <2>1. inFrame' = f /\ UNCHANGED <<frame, waiters, wSeq, ackFull, wAt, wRet>>
          /\ unacked' \subseteq unacked
        BY <1>4, Zenon DEF HandleFrame, ackVars
    <2>2. Answers(f)'
        BY <1>0, <1>4, <2>1, Zenon DEF HandleFrame, Answers, AnswerInv, Sent
    <2>3. Answers(frame)'
        BY <2>1, Zenon DEF Answers, AnswerInv, Sent
    <2>4. \A w \in unacked' : Sent(w)'
        BY <2>1, Zenon DEF AnswerInv, Sent
    <2>5. \A w \in Writers : Answered(w) => Answered(w)'
        BY <2>1, Zenon DEF Answered, Shared, Sent
    <2>6. QED
        BY <2>1, <2>2, <2>3, <2>4, <2>5, Zenon DEF AnswerInv, AW!Seqs, Answers
<1>5. CASE HandlerStep
    BY <1>5, AnswerKept, Zenon DEF HandlerStep, HandlerCheck, HandlerSend, HandlerRetry
<1>6. CASE ServeAck
    <2>1. UNCHANGED <<waiters, wSeq, wAt, wRet, unacked, inFrame>> /\ frame' = NoFrame
          /\ ackFull' = ackFull \cup ({waiters[frame.arg]} \ {None})
        BY <1>6, Zenon DEF ServeAck, Got, AW!Done
    <2>2. frame.arg \in AW!Seqs
        BY <1>6 DEF ServeAck, Got, TypeOK, NetType, Frames, FwdFrames, AckFrames, ControlFrames,
                    NoFrame, AW!Seqs
    <2>3. PICK v \in Writers : Sent(v) /\ v \notin unacked /\ wSeq[v] = frame.arg
        BY <1>6, Zenon DEF ServeAck, Got, AnswerInv, Answers
    <2>4. ASSUME NEW w \in Writers, w \in ackFull' PROVE Answered(w)
        <3>1. CASE w \in ackFull
            BY <3>1, Zenon DEF AnswerInv
        <3>2. CASE w = waiters[frame.arg] /\ w # None
            <4>1. wAt[w] # "new" /\ wSeq[w] = frame.arg
                BY <2>2, <3>2, Zenon DEF AnswerInv
            <4>2. wAt[v] # "new"
                BY <2>3 DEF Sent
            <4>3. QED
                BY <2>3, <4>1, <4>2, Zenon DEF Answered, Shared
        <3>3. QED
            BY <2>1, <2>4, <3>1, <3>2, Zenon
    <2>5. Answers(frame)'
        BY <2>1 DEF Answers, NoFrame
    <2>6. QED
        BY <2>1, <2>4, <2>5, ZenonT(40) DEF AnswerInv, Answers, Sent, Answered, Shared, AW!Seqs
<1>7. CASE ReadAcceptCtxDone \/ (ServerStep /\ ~ServeAck)
    BY <1>7, AnswerKept, Zenon DEF ServerStep, ReadAcceptCtxDone, ReadAcceptClosed, ReadAcceptFrame,
       ServeStart, ServeDone, ServeFwd, ServeFwdCheck, ServeFwdSend, ServeClose, ServeRequest,
       ServeBad, ServeOther, ServeDefer, Got
<1>8. ASSUME NEW r \in Readers, ReadCall(r) \/ ReadStep(r)
      PROVE  AnswerInv'
    BY <1>8, AnswerKept, Zenon DEF ReadCall, ReadStep, ReadLock, ReadBuf, ReadReturn, ReadNotified,
       ReadClosed
<1>9. ASSUME NEW w \in Writers, WriteCall(w) \/ WriteStep(w)
      PROVE  AnswerInv'
    <2>1. CASE WriteCall(w) \/ WriteCheck(w) \/ WriteFwdErr(w)
        BY <2>1, AnswerKept, Zenon DEF WriteCall, WriteCheck, WriteFwdErr
    <2>2. CASE WriteRegister(w)
        BY <2>2, AnswerRegister, Zenon
    <2>3. CASE WriteFwd(w)
        <3>1. wAt[w] = "action" /\ wAt' = [wAt EXCEPT ![w] = "select"] /\ unacked' = unacked \cup {w}
              /\ UNCHANGED <<wSeq, inFrame, frame, ackFull, waiters, wRet>>
            BY <2>3, Zenon DEF WriteFwd, AW!ActionOK, AW!Move
        <3>2. ~Sent(w)
            BY <3>1 DEF Sent
        <3>3. QED
            BY <3>1, <3>2, AnswerWrite
    <2>4. CASE WriteErrReturn(w)
        <3>1. wAt[w] = "action" /\ wAt' = [wAt EXCEPT ![w] = "end"] /\ wRet' = [wRet EXCEPT ![w] = "actionErr"]
              /\ UNCHANGED <<wSeq, inFrame, frame, ackFull, waiters, unacked>>
            BY <2>4, Zenon DEF WriteErrReturn, AW!ActionErr, AW!Move
        <3>2. \A v \in Writers : wRet'[v] = "acked" => wRet[v] = "acked"
            BY <1>0, <3>1, Zenon
        <3>3. QED
            BY <3>1, <3>2, AnswerWrite
    <2>5. CASE WriteSelect(w)
        <3>1. wAt[w] = "select" /\ wAt' = [wAt EXCEPT ![w] = "stop"]
              /\ UNCHANGED <<wSeq, inFrame, frame, waiters, unacked>> /\ ackFull' \subseteq ackFull
            BY <2>5, Zenon DEF WriteSelect, AW!AckReceived, AW!WaiterStopped, AW!Move
        <3>2. \/ w \in ackFull /\ wRet' = [wRet EXCEPT ![w] = "acked"]
              \/ wRet' = [wRet EXCEPT ![w] = "closedPipe"]
            BY <2>5, Zenon DEF WriteSelect, AW!AckReceived, AW!WaiterStopped
        <3>3. \A v \in Writers : wRet'[v] = "acked" => wRet[v] = "acked" \/ v \in ackFull
            BY <1>0, <3>2, Zenon
        <3>4. QED
            BY <3>1, <3>3, AnswerWrite
    <2>6. CASE WriteReturn(w)
        <3>1. wAt[w] = "stop" /\ wAt' = [wAt EXCEPT ![w] = "end"]
              /\ UNCHANGED <<wSeq, inFrame, frame, ackFull, wRet, unacked>>
            BY <2>6, Zenon DEF WriteReturn, AW!StopOwn, AW!Move
        <3>2. \A s \in AW!Seqs : waiters'[s] \in {waiters[s], None}
            BY <2>6, Zenon DEF WriteReturn, AW!StopOwn, AW!StopWaiters
        <3>3. QED
            BY <3>1, <3>2, AnswerWrite
    <2>7. QED
        BY <1>9, <2>1, <2>2, <2>3, <2>4, <2>5, <2>6, Zenon DEF WriteStep
<1>10. QED
    BY <1>1, <1>2, <1>3, <1>4, <1>5, <1>6, <1>7, <1>8, <1>9, Zenon DEF Next, ServerStep

\* A Write that returned without an error was answered: its own FWD frame reached the
\* peer and came back as an ACK frame, unless another Write had the same number.
THEOREM TransportWriteAnswered == Spec => []WriteOKIsAnswered
<1>1. Init => AnswerInv
    <2> SUFFICES ASSUME Init PROVE AnswerInv
        BY Zenon
    <2>1. Answers(inFrame) /\ Answers(frame)
        BY DEF Init, Answers, NoFrame
    <2>2. \A w \in Writers : w \notin ackFull /\ wRet[w] # "acked"
        BY DEF Init, AW!Init
    <2>3. QED
        BY <2>1, <2>2, Zenon DEF Init, AW!Init, AnswerInv
<1>2. AnswerInv => WriteOKIsAnswered
    BY Zenon DEF AnswerInv, Answered, Shared, WriteOKIsAnswered
<1>3. QED
    BY <1>1, <1>2, TypeInit, TypeStep, AnswerInvStep, PTL DEF Spec
=============================================================================
