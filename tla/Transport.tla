------------------------------ MODULE Transport ------------------------------
(***************************************************************************)
(* One dmsg.Transport (src/transport.go) and the goroutines that share it: *)
(*                                                                         *)
(*   Handler     ClientConn.Serve, which hands frames over (HandleFrame)   *)
(*   Server      DialTransport's ReadAccept, and then Transport.Serve      *)
(*   Acker       the goroutines that write ACK frames                      *)
(*   ConnCloser  the goroutine ClientConn.close starts: go tp.Close()      *)
(*   Readers, Writers, Closers    users of Read, Write and Close           *)
(*                                                                         *)
(* A step is what a goroutine does between two points where another can    *)
(* interfere: a lock, a channel operation, a read of "done".  Data is      *)
(* abstracted to byte counts; ACK frames keep their identity.              *)
(***************************************************************************)
EXTENDS Integers

CONSTANTS
    Handler, Server, Acker, ConnCloser,  \* one goroutine each
    Readers, Writers, Closers,
    None,
    SeqMod,      \* number of ACK sequence numbers
    TpBufCap,    \* tpBufCap: from here on ACK frames are held back
    Sizes,       \* payload sizes of incoming FWD frames
    ReadSizes,   \* len(p) of Read
    MaxFwd       \* bound: the number of incoming FWD frames

Procs == {Handler, Server, Acker, ConnCloser} \cup Readers \cup Writers \cup Closers

ASSUME SizesAssumption ==
    /\ SeqMod \in Nat \ {0}
    /\ TpBufCap \in Nat \ {0}
    /\ MaxFwd \in Nat
    /\ Sizes \subseteq Nat
    /\ ReadSizes \subseteq Nat

ASSUME ProcsAssumption ==
    /\ Handler \notin {Server, Acker, ConnCloser} \cup Readers \cup Writers \cup Closers
    /\ Server \notin {Acker, ConnCloser} \cup Readers \cup Writers \cup Closers
    /\ Acker \notin {ConnCloser} \cup Readers \cup Writers \cup Closers
    /\ ConnCloser \notin Readers \cup Writers \cup Closers
    /\ Readers \cap Writers = {}
    /\ Readers \cap Closers = {}
    /\ Writers \cap Closers = {}
    /\ None \notin Procs

VARIABLES
    pc,          \* where each goroutine is
    cont,        \* close(): where the goroutine goes when it returns
    done,        \* tp.done is closed
    serving,     \* tp.serving is closed
    once,        \* doneOnce: "new", "running" or "over"
    inMx, inClosed,            \* inCh, closed or not, and its mutex
    bufMx, bufClosed, bufCh,   \* bufCh, closed or not, holding an element or not
    unread,      \* bytes in tp.buf
    bufSize,     \* tp.bufSize
    nFwd,        \* number of FWD frames put into tp.buf; they are 1 .. nFwd
    ackBuf,      \* the FWD frames whose ACK is held in tp.ackBuf
    ackOut,      \* the FWD frames whose ACK a goroutine is about to write
    acked,       \* the FWD frames whose ACK was written
    inFrame,     \* the frame Handler hands over
    frame,       \* the frame Server handles
    rMx, want, drained,        \* Read: mutex, len(p), buf was empty afterwards
    connOpen,    \* the connection to the server works
    unacked,     \* Writers whose FWD frame is out and not answered by an ACK
    closesSent,  \* number of CLOSE frames written
    nextSeq, waiters, wSeq, ackFull, ackClosed, wAt, wRet   \* tp.ackWaiter

AW == INSTANCE AckWaiter WITH
        Calls <- Writers, Cancellable <- {}, seq <- wSeq, full <- ackFull,
        closed <- ackClosed, at <- wAt, ret <- wRet

closeVars == <<done, serving, once, inMx, inClosed, bufMx, bufClosed>>
bufVars == <<bufCh, unread, bufSize, nFwd, ackBuf, ackOut, acked>>
readVars == <<rMx, want, drained>>
connVars == <<connOpen, unacked, closesSent, inFrame>>
netVars == <<connVars, frame>>
ackVars == <<nextSeq, waiters, wSeq, ackFull, ackClosed, wAt, wRet>>
vars == <<pc, cont, closeVars, bufVars, readVars, netVars, ackVars>>

\* Frames as the transport tells them apart: "BAD" is a FWD or ACK frame with
\* a payload of the wrong size; "ACCEPT" also stands for the types Serve ignores.
FwdFrames == {[type |-> "FWD", arg |-> n] : n \in Sizes}
AckFrames == {[type |-> "ACK", arg |-> s] : s \in 0 .. SeqMod - 1}
ControlFrames ==
    {[type |-> t, arg |-> 0] : t \in {"ACCEPT", "CLOSE", "REQUEST", "BAD"}}
Frames == FwdFrames \cup AckFrames \cup ControlFrames
NoFrame == [type |-> "NONE", arg |-> 0]

\* NewTransport; an initiated transport is then in ReadAccept, an accepted
\* one in Serve.
Init ==
    /\ \E start \in {"readAccept", "serve"} :
          pc = [p \in Procs |-> IF p = Server THEN start ELSE "idle"]
    /\ cont = [p \in Procs |-> "end"]
    /\ done = FALSE /\ serving = FALSE /\ once = "new"
    /\ inMx = None /\ inClosed = FALSE
    /\ bufMx = None /\ bufClosed = FALSE /\ bufCh = FALSE
    /\ unread = 0 /\ bufSize = 0 /\ nFwd = 0
    /\ ackBuf = {} /\ ackOut = {} /\ acked = {}
    /\ inFrame = NoFrame /\ frame = NoFrame
    /\ rMx = None /\ want = [r \in Readers |-> 0] /\ drained = [r \in Readers |-> FALSE]
    /\ connOpen = TRUE /\ unacked = {} /\ closesSent = 0
    /\ AW!Init

Goto(p, l) == pc' = [pc EXCEPT ![p] = l]

-----------------------------------------------------------------------------
(* close() and Close()                                                     *)

\* Call close(); afterwards the goroutine goes to l, where "frame" stands for
\* writing a CLOSE frame if close() returned true.
CallClose(p, l) == Goto(p, "once") /\ cont' = [cont EXCEPT ![p] = l]

\* The first caller runs the body of doneOnce: done is closed, and doneFunc
\* takes the transport out of ClientConn.tps (getTp also checks done).
OnceFirst(p) ==
    /\ pc[p] = "once" /\ once = "new"
    /\ once' = "running" /\ done' = TRUE
    /\ Goto(p, "closeBuf")
    /\ UNCHANGED <<cont, serving, inMx, inClosed, bufMx, bufClosed,
                   bufVars, readVars, netVars, ackVars>>

\* A plausible bug: bufCh is closed without bufMx.
CloseBufNoLock(p) ==
    /\ pc[p] = "closeBuf"
    /\ bufClosed' = TRUE
    /\ Goto(p, "closeIn")
    /\ UNCHANGED <<cont, done, serving, once, inMx, inClosed, bufMx,
                   bufVars, readVars, netVars, ackVars>>

CloseBuf(p) ==
    /\ pc[p] = "closeBuf"
    /\ bufMx = None
    /\ bufClosed' = TRUE
    /\ Goto(p, "closeIn")
    /\ UNCHANGED <<cont, done, serving, once, inMx, inClosed, bufMx,
                   bufVars, readVars, netVars, ackVars>>

CloseIn(p) ==
    /\ pc[p] = "closeIn"
    /\ inMx = None
    /\ inClosed' = TRUE /\ once' = "over"
    /\ Goto(p, "tail")
    /\ UNCHANGED <<cont, done, serving, inMx, bufMx, bufClosed,
                   bufVars, readVars, netVars, ackVars>>

\* A plausible bug: every caller of close() is told that it was the first.
CloseTailAlwaysFirst(p) ==
    /\ pc[p] = "tail" \/ (pc[p] = "once" /\ once = "over")
    /\ serving' = TRUE
    /\ AW!StopAll
    /\ Goto(p, IF cont[p] # "frame" THEN cont[p] ELSE "writeClose")
    /\ cont' = [cont EXCEPT ![p] = "end"]
    /\ UNCHANGED <<done, once, inMx, inClosed, bufMx, bufClosed, bufVars, readVars, netVars>>

\* A plausible bug: the serve() "just in case" is left out.
CloseTailNoServe(p) ==
    /\ pc[p] = "tail" \/ (pc[p] = "once" /\ once = "over")
    /\ AW!StopAll
    /\ Goto(p, IF cont[p] # "frame" THEN cont[p]
               ELSE IF pc[p] = "tail" THEN "writeClose" ELSE "end")
    /\ cont' = [cont EXCEPT ![p] = "end"]
    /\ UNCHANGED <<closeVars, bufVars, readVars, netVars>>

\* After doneOnce.Do, for which every caller but the first has to wait until
\* the first has finished: serve() "just in case", StopAll, and return.
CloseTail(p) ==
    /\ pc[p] = "tail" \/ (pc[p] = "once" /\ once = "over")
    /\ serving' = TRUE
    /\ AW!StopAll
    /\ Goto(p, IF cont[p] # "frame" THEN cont[p]
               ELSE IF pc[p] = "tail" THEN "writeClose" ELSE "end")
    /\ cont' = [cont EXCEPT ![p] = "end"]
    /\ UNCHANGED <<done, once, inMx, inClosed, bufMx, bufClosed, bufVars, readVars, netVars>>

WriteClose(p) ==
    /\ pc[p] = "writeClose"
    /\ closesSent' = IF connOpen THEN closesSent + 1 ELSE closesSent
    /\ Goto(p, "end")
    /\ UNCHANGED <<cont, closeVars, bufVars, readVars, connOpen, unacked, inFrame,
                   frame, ackVars>>

CloseStep(p) ==
    OnceFirst(p) \/ CloseBuf(p) \/ CloseIn(p) \/ CloseTail(p) \/ WriteClose(p)

\* A user calls Close.
UserClose(p) ==
    /\ pc[p] = "idle"
    /\ CallClose(p, "frame")
    /\ UNCHANGED <<closeVars, bufVars, readVars, netVars, ackVars>>

\* ClientConn.close, after the connection broke, starts tp.Close() for every
\* transport that is still in tps.
ConnClose ==
    /\ ~connOpen /\ ~done
    /\ pc[ConnCloser] = "idle"
    /\ CallClose(ConnCloser, "frame")
    /\ UNCHANGED <<closeVars, bufVars, readVars, netVars, ackVars>>

ConnFails ==
    /\ connOpen
    /\ connOpen' = FALSE
    /\ UNCHANGED <<pc, cont, closeVars, bufVars, readVars, unacked, closesSent,
                   inFrame, frame, ackVars>>

-----------------------------------------------------------------------------
(* HandleFrame                                                             *)

\* The FWD frames that were received and are not in buf yet.
FwdPending == IF frame.type = "FWD" THEN 1 ELSE 0

\* ClientConn.Serve read a frame, getTp found the transport open, HandleFrame
\* takes inMx.  The peer answers a FWD frame with one ACK frame.
HandleFrame(f) ==
    /\ pc[Handler] = "idle"
    /\ connOpen /\ ~done
    /\ f.type = "FWD" => nFwd + FwdPending < MaxFwd
    /\ IF f.type = "ACK"
       THEN \E w \in unacked : wSeq[w] = f.arg /\ unacked' = unacked \ {w}
       ELSE UNCHANGED unacked
    /\ inFrame' = f
    /\ inMx = None /\ inMx' = Handler
    /\ Goto(Handler, "check")
    /\ UNCHANGED <<cont, done, serving, once, inClosed, bufMx, bufClosed, bufVars, readVars,
                   connOpen, closesSent, frame, ackVars>>

\* A plausible bug: HandleFrame does not look whether the transport is closed.
HandlerCheckDropped ==
    /\ pc[Handler] = "check"
    /\ Goto(Handler, "send")
    /\ UNCHANGED <<cont, closeVars, bufVars, readVars, netVars, ackVars>>

\* Under inMx: return ErrClosedPipe if closed, else try to send.
HandlerCheck ==
    /\ pc[Handler] = "check"
    /\ Goto(Handler, IF done THEN "idle" ELSE "send")
    /\ inMx' = IF done THEN None ELSE inMx
    /\ inFrame' = IF done THEN NoFrame ELSE inFrame
    /\ UNCHANGED <<cont, done, serving, once, inClosed, bufMx, bufClosed,
                   bufVars, readVars, connOpen, unacked, closesSent, frame, ackVars>>

Receiving == pc[Server] \in {"readAccept", "select"}

\* The send on the unbuffered inCh succeeds if Server is receiving.
HandlerSend ==
    /\ pc[Handler] = "send" /\ Receiving
    /\ frame' = inFrame /\ inFrame' = NoFrame
    /\ pc' = [pc EXCEPT ![Handler] = "idle",
                        ![Server] = IF pc[Server] = "select" THEN "got" ELSE "gotReply"]
    /\ inMx' = None
    /\ UNCHANGED <<cont, done, serving, once, inClosed, bufMx, bufClosed,
                   bufVars, readVars, connOpen, unacked, closesSent, ackVars>>

HandlerRetry ==
    /\ pc[Handler] = "send" /\ ~Receiving
    /\ Goto(Handler, "check")
    /\ UNCHANGED <<cont, closeVars, bufVars, readVars, netVars, ackVars>>

HandlerStep == HandlerCheck \/ HandlerSend \/ HandlerRetry

-----------------------------------------------------------------------------
(* ReadAccept (an ACCEPT frame is one that passes its checks, "BAD" stands  *)
(* for one that does not)                                                  *)

ReadAcceptClosed ==
    /\ pc[Server] = "readAccept"
    /\ done \/ inClosed
    /\ CallClose(Server, "end")
    /\ UNCHANGED <<closeVars, bufVars, readVars, netVars, ackVars>>

ReadAcceptCtxDone ==
    /\ pc[Server] = "readAccept"
    /\ CallClose(Server, "frame")
    /\ UNCHANGED <<closeVars, bufVars, readVars, netVars, ackVars>>

ReadAcceptFrame ==
    /\ pc[Server] = "gotReply" /\ frame' = NoFrame
    /\ CASE frame.type = "ACCEPT" -> Goto(Server, "serve") /\ UNCHANGED cont
         [] frame.type = "CLOSE"  -> CallClose(Server, "end")
         [] OTHER                 -> CallClose(Server, "frame")
    /\ UNCHANGED <<closeVars, bufVars, readVars, connVars, ackVars>>

-----------------------------------------------------------------------------
(* Serve                                                                   *)

ServeStart ==
    /\ pc[Server] = "serve"
    /\ Goto(Server, IF serving THEN "end" ELSE "select")
    /\ serving' = TRUE
    /\ UNCHANGED <<cont, done, once, inMx, inClosed, bufMx, bufClosed,
                   bufVars, readVars, netVars, ackVars>>

ServeDone ==
    /\ pc[Server] = "select"
    /\ done \/ inClosed
    /\ Goto(Server, "defer")
    /\ UNCHANGED <<cont, closeVars, bufVars, readVars, netVars, ackVars>>

Got(t) == pc[Server] = "got" /\ frame.type = t /\ frame' = NoFrame

\* Under bufMx: count the payload, hold its ACK back or have it written, and
\* append the payload to buf.
ServeFwd ==
    /\ Got("FWD")
    /\ bufMx = None /\ bufMx' = Server
    /\ nFwd' = nFwd + 1
    /\ bufSize' = bufSize + frame.arg
    /\ unread' = unread + frame.arg
    /\ IF bufSize' > TpBufCap
       THEN ackBuf' = ackBuf \cup {nFwd'} /\ UNCHANGED ackOut
       ELSE ackOut' = ackOut \cup {nFwd'} /\ UNCHANGED ackBuf
    /\ Goto(Server, "fwdCheck")
    /\ UNCHANGED <<cont, done, serving, once, inMx, inClosed, bufClosed, bufCh, acked,
                   readVars, connVars, ackVars>>

\* Still under bufMx: notify a reader, only if the transport is not closed.
ServeFwdCheck ==
    /\ pc[Server] = "fwdCheck"
    /\ Goto(Server, IF done THEN "select" ELSE "fwdSend")
    /\ bufMx' = IF done THEN None ELSE bufMx
    /\ UNCHANGED <<cont, done, serving, once, inMx, inClosed, bufClosed,
                   bufVars, readVars, netVars, ackVars>>

\* A plausible bug: readers are not notified.
ServeFwdSendSilent ==
    /\ pc[Server] = "fwdSend"
    /\ bufMx' = None
    /\ Goto(Server, "select")
    /\ UNCHANGED <<cont, done, serving, once, inMx, inClosed, bufClosed, bufVars, readVars,
                   netVars, ackVars>>

ServeFwdSend ==
    /\ pc[Server] = "fwdSend"
    /\ bufCh' = TRUE
    /\ bufMx' = None
    /\ Goto(Server, "select")
    /\ UNCHANGED <<cont, done, serving, once, inMx, inClosed, bufClosed, unread,
                   bufSize, nFwd, ackBuf, ackOut, acked, readVars, netVars, ackVars>>

ServeAck ==
    /\ Got("ACK")
    /\ AW!Done(frame.arg)
    /\ Goto(Server, "select")
    /\ UNCHANGED <<cont, closeVars, bufVars, readVars, connVars>>

\* close() first, so that the deferred close() sends no CLOSE frame back.
ServeClose ==
    /\ Got("CLOSE")
    /\ CallClose(Server, "defer")
    /\ UNCHANGED <<closeVars, bufVars, readVars, connVars, ackVars>>

\* A REQUEST for an occupied id: close the connection to the server.
ServeRequest ==
    /\ Got("REQUEST")
    /\ connOpen' = FALSE
    /\ Goto(Server, "defer")
    /\ UNCHANGED <<cont, closeVars, bufVars, readVars, unacked, closesSent,
                   inFrame, ackVars>>

ServeBad ==
    /\ Got("BAD")
    /\ Goto(Server, "defer")
    /\ UNCHANGED <<cont, closeVars, bufVars, readVars, connVars, ackVars>>

ServeOther ==
    /\ Got("ACCEPT")
    /\ Goto(Server, "select")
    /\ UNCHANGED <<cont, closeVars, bufVars, readVars, connVars, ackVars>>

\* The deferred function of Serve.
ServeDefer ==
    /\ pc[Server] = "defer"
    /\ CallClose(Server, "frame")
    /\ UNCHANGED <<closeVars, bufVars, readVars, netVars, ackVars>>

ServerStep ==
    \/ ReadAcceptClosed \/ ReadAcceptFrame
    \/ ServeStart \/ ServeDone \/ ServeFwd \/ ServeFwdCheck \/ ServeFwdSend
    \/ ServeAck \/ ServeClose \/ ServeRequest \/ ServeBad \/ ServeOther \/ ServeDefer

-----------------------------------------------------------------------------
(* The goroutines that write ACK frames: each writes once, and calls        *)
(* close() if that fails.                                                  *)

AckWrite ==
    /\ pc[Acker] = "idle" /\ connOpen
    /\ \E n \in ackOut : ackOut' = ackOut \ {n} /\ acked' = acked \cup {n}
    /\ UNCHANGED <<pc, cont, closeVars, bufCh, unread, bufSize, nFwd, ackBuf,
                   readVars, netVars, ackVars>>

AckWriteErr ==
    /\ pc[Acker] = "idle" /\ ~connOpen
    /\ \E n \in ackOut : ackOut' = ackOut \ {n}
    /\ CallClose(Acker, "idle")
    /\ UNCHANGED <<closeVars, bufCh, unread, bufSize, nFwd, ackBuf, acked,
                   readVars, netVars, ackVars>>

-----------------------------------------------------------------------------
(* Read                                                                    *)

ReadCall(r) ==
    /\ pc[r] = "idle"
    /\ \E k \in ReadSizes : want' = [want EXCEPT ![r] = k]
    /\ Goto(r, "rLock")
    /\ UNCHANGED <<cont, closeVars, bufVars, rMx, drained, netVars, ackVars>>

\* <-tp.serving, then rMx.
ReadLock(r) ==
    /\ pc[r] = "rLock"
    /\ serving /\ rMx = None
    /\ rMx' = r
    /\ Goto(r, "rBuf")
    /\ UNCHANGED <<cont, closeVars, bufVars, want, drained, netVars, ackVars>>

\* Plausible bugs: held ACK frames stay held; they are written, but kept too.
FlushAcksNever == UNCHANGED <<ackOut, ackBuf>>
FlushAcksKeep ==
    IF bufSize' < TpBufCap /\ ackBuf # {}
    THEN ackOut' = ackOut \cup ackBuf /\ UNCHANGED ackBuf
    ELSE UNCHANGED <<ackOut, ackBuf>>

\* Held ACK frames are handed to a writing goroutine once there is room.
FlushAcks ==
    IF bufSize' < TpBufCap /\ ackBuf # {}
    THEN ackOut' = ackOut \cup ackBuf /\ ackBuf' = {}
    ELSE UNCHANGED <<ackOut, ackBuf>>

\* A plausible bug: len(p) bytes are taken from the count.
ReadBufCountsLen(r) ==
    /\ pc[r] = "rBuf"
    /\ bufMx = None
    /\ LET n == IF want[r] < unread THEN want[r] ELSE unread IN
          /\ unread' = unread - n
          /\ bufSize' = bufSize - want[r]
          /\ Goto(r, IF n > 0 \/ want[r] = 0 THEN "rReturn" ELSE "rWait")
    /\ drained' = [drained EXCEPT ![r] = (unread' = 0)]
    /\ FlushAcks
    /\ UNCHANGED <<cont, closeVars, bufCh, nFwd, acked, rMx, want, netVars, ackVars>>

\* One section of bufMx, from startRead on.
ReadBuf(r) ==
    /\ pc[r] = "rBuf"
    /\ bufMx = None
    /\ LET n == IF want[r] < unread THEN want[r] ELSE unread IN
          /\ unread' = unread - n
          /\ bufSize' = bufSize - n
          /\ Goto(r, IF n > 0 \/ want[r] = 0 THEN "rReturn" ELSE "rWait")
    /\ drained' = [drained EXCEPT ![r] = (unread' = 0)]
    /\ FlushAcks
    /\ UNCHANGED <<cont, closeVars, bufCh, nFwd, acked, rMx, want, netVars, ackVars>>

\* The error of buf.Read, io.EOF if buf is empty, is kept only if closed; a
\* reader that sees io.EOF stops reading.
ReadReturn(r) ==
    /\ pc[r] = "rReturn"
    /\ Goto(r, IF done /\ drained[r] THEN "eof" ELSE "idle")
    /\ rMx' = None
    /\ want' = [want EXCEPT ![r] = 0] /\ drained' = [drained EXCEPT ![r] = FALSE]
    /\ UNCHANGED <<cont, closeVars, bufVars, netVars, ackVars>>

ReadNotified(r) ==
    /\ pc[r] = "rWait"
    /\ bufCh
    /\ bufCh' = FALSE
    /\ Goto(r, "rBuf")
    /\ UNCHANGED <<cont, closeVars, unread, bufSize, nFwd, ackBuf, ackOut, acked,
                   readVars, netVars, ackVars>>

ReadClosed(r) ==
    /\ pc[r] = "rWait"
    /\ bufClosed /\ ~bufCh
    /\ Goto(r, "eof")
    /\ rMx' = None
    /\ want' = [want EXCEPT ![r] = 0] /\ drained' = [drained EXCEPT ![r] = FALSE]
    /\ UNCHANGED <<cont, closeVars, bufVars, netVars, ackVars>>

ReadStep(r) ==
    ReadLock(r) \/ ReadBuf(r) \/ ReadReturn(r) \/ ReadNotified(r) \/ ReadClosed(r)

-----------------------------------------------------------------------------
(* Write: one call per writer                                              *)

WriteCall(w) ==
    /\ pc[w] = "idle"
    /\ Goto(w, "wServing")
    /\ UNCHANGED <<cont, closeVars, bufVars, readVars, netVars, ackVars>>

\* <-tp.serving, then the check of done.
WriteCheck(w) ==
    /\ pc[w] = "wServing"
    /\ serving
    /\ Goto(w, IF done THEN "end" ELSE "wWait")
    /\ UNCHANGED <<cont, closeVars, bufVars, readVars, netVars, ackVars>>

WriteRegister(w) ==
    /\ pc[w] = "wWait"
    /\ AW!Register(w)
    /\ UNCHANGED <<pc, cont, closeVars, bufVars, readVars, netVars>>

WriteFwd(w) ==
    /\ pc[w] = "wWait" /\ connOpen
    /\ AW!ActionOK(w)
    /\ unacked' = unacked \cup {w}
    /\ UNCHANGED <<pc, cont, closeVars, bufVars, readVars, connOpen, closesSent,
                   inFrame, frame>>

WriteFwdErr(w) ==
    /\ pc[w] = "wWait" /\ ~connOpen
    /\ wAt[w] = "action"
    /\ CallClose(w, "wErr")
    /\ UNCHANGED <<closeVars, bufVars, readVars, netVars, ackVars>>

WriteErrReturn(w) ==
    /\ pc[w] = "wErr"
    /\ AW!ActionErr(w)
    /\ Goto(w, "end")
    /\ UNCHANGED <<cont, closeVars, bufVars, readVars, netVars>>

WriteSelect(w) ==
    /\ pc[w] = "wWait"
    /\ AW!AckReceived(w) \/ AW!WaiterStopped(w)
    /\ UNCHANGED <<pc, cont, closeVars, bufVars, readVars, netVars>>

WriteReturn(w) ==
    /\ pc[w] = "wWait"
    /\ AW!StopOwn(w)
    /\ Goto(w, "end")
    /\ UNCHANGED <<cont, closeVars, bufVars, readVars, netVars>>

WriteStep(w) ==
    \/ WriteCheck(w) \/ WriteRegister(w) \/ WriteFwd(w) \/ WriteFwdErr(w)
    \/ WriteErrReturn(w) \/ WriteSelect(w) \/ WriteReturn(w)

-----------------------------------------------------------------------------
\* The transport is closed and nobody is inside one of its methods.
Finished ==
    /\ done
    /\ \A p \in Procs : pc[p] \in {"idle", "end", "eof"}
    /\ UNCHANGED vars

Next ==
    \/ \E p \in Procs : CloseStep(p)
    \/ \E p \in Closers : UserClose(p)
    \/ ConnFails \/ ConnClose
    \/ \E f \in Frames : HandleFrame(f)
    \/ HandlerStep
    \/ ReadAcceptCtxDone \/ ServerStep
    \/ AckWrite \/ AckWriteErr
    \/ \E r \in Readers : ReadCall(r) \/ ReadStep(r)
    \/ \E w \in Writers : WriteCall(w) \/ WriteStep(w)
    \/ Finished

\* Goroutines that can run do run; nobody has to call Read, Write or Close,
\* to send a frame, to cancel a dial or to break the connection.
Fairness ==
    /\ \A p \in Procs : WF_vars(CloseStep(p))
    /\ WF_vars(ConnClose)
    /\ WF_vars(HandlerStep)
    /\ WF_vars(ServerStep)
    /\ WF_vars(AckWrite \/ AckWriteErr)
    /\ \A r \in Readers : WF_vars(ReadStep(r))
    /\ \A w \in Writers : WF_vars(WriteStep(w))

Spec == Init /\ [][Next]_vars /\ Fairness

-----------------------------------------------------------------------------
Labels ==
    {"idle", "end", "once", "closeBuf", "closeIn", "tail", "writeClose",
     "check", "send",
     "readAccept", "gotReply", "serve", "select", "got", "fwdCheck", "fwdSend", "defer",
     "rLock", "rBuf", "rReturn", "rWait", "eof", "wServing", "wWait", "wErr"}

ControlType ==
    /\ pc \in [Procs -> Labels]
    /\ cont \in [Procs -> {"end", "frame", "defer", "idle", "wErr"}]
    /\ done \in BOOLEAN /\ serving \in BOOLEAN
    /\ once \in {"new", "running", "over"}
    /\ inMx \in {None, Handler} /\ inClosed \in BOOLEAN
    /\ bufMx \in {None, Server} /\ bufClosed \in BOOLEAN

BufType ==
    /\ bufCh \in BOOLEAN
    /\ unread \in Nat /\ bufSize \in Int /\ nFwd \in Nat
    /\ ackBuf \subseteq 1 .. nFwd /\ ackOut \subseteq 1 .. nFwd /\ acked \subseteq 1 .. nFwd

ReadType ==
    /\ rMx \in Readers \cup {None}
    /\ want \in [Readers -> Nat] /\ drained \in [Readers -> BOOLEAN]

NetType ==
    /\ connOpen \in BOOLEAN /\ unacked \subseteq Writers /\ closesSent \in Nat
    /\ inFrame \in Frames \cup {NoFrame} /\ frame \in Frames \cup {NoFrame}

\* The fields of a transport, and where its goroutines are, have their types.
TypeOK == ControlType /\ BufType /\ ReadType /\ NetType /\ AW!TypeOK

\* The worry of the comment above close(): nobody sends on inCh or bufCh after
\* it was closed, and nobody closes one of them twice.
ChannelsUsedWhileOpen ==
    /\ pc[Handler] = "send" => ~inClosed
    /\ pc[Server] = "fwdSend" => ~bufClosed
    /\ \A p \in Procs : /\ pc[p] = "closeBuf" => ~bufClosed
                        /\ pc[p] = "closeIn" => ~inClosed

\* A Write returns without an error only after the peer has answered its own FWD
\* frame, whatever else closes or fails meanwhile; the only exception is a Write whose
\* sequence number was issued again after the uint16 counter came round.
WriteOKIsAnswered ==
    \A w \in Writers : wRet[w] = "acked" =>
        w \notin unacked \/ \E d \in Writers \ {w} : wAt[d] # "new" /\ wSeq[d] = wSeq[w]

\* However many goroutines call close(), at most one CLOSE frame is written.
OneCloseFrame ==
    /\ closesSent <= 1
    /\ closesSent = 1 => \A p \in Procs : pc[p] # "writeClose"

\* bufSize is the number of bytes in buf, whatever the interleaving of Serve
\* and Read, so it never goes negative.
BufSizeExact == bufSize = unread

\* ACK frames are held back only while the buffer is at its cap or above, so
\* that a peer that waits for one can always be released by a Read.
AckHeldOnlyWhenFull == ackBuf # {} => bufSize >= TpBufCap

\* While the connection works, each FWD frame put into buf has exactly one ACK
\* frame: held, about to be written, or written.
AckConserved ==
    /\ connOpen => ackBuf \cup ackOut \cup acked = 1 .. nFwd
    /\ ackBuf \cap ackOut = {} /\ ackBuf \cap acked = {} /\ ackOut \cap acked = {}

\* A reader that waits on bufCh although there is data has a notification
\* coming, or the transport is closed.
NoLostNotification ==
    \A r \in Readers : (pc[r] = "rWait" /\ unread > 0) =>
        bufCh \/ done \/ pc[Server] \in {"fwdCheck", "fwdSend"}

\* close() gets through its locks: it never waits forever for a HandleFrame, a
\* Serve or a Read that holds one.
CloseCompletes == (once = "running") ~> (once = "over")

\* Closing releases every Read, those at <-tp.serving included.
CloseReleasesReaders ==
    \A r \in Readers : (done /\ pc[r] \notin {"idle", "eof"}) ~> (pc[r] \in {"idle", "eof"})

\* HandleFrame always returns, so ClientConn.Serve goes on reading frames for
\* the other transports.
HandleFrameReturns == (pc[Handler] # "idle") ~> (pc[Handler] = "idle")

\* Closing releases every Write ("closing a transport unblocks its Write").
CloseReleasesWriters ==
    \A w \in Writers : (done /\ pc[w] # "idle") ~> (pc[w] = "end")
=============================================================================
