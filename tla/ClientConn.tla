----------------------------- MODULE ClientConn ------------------------------
(***************************************************************************)
(* One connection of a client to a server, with all that runs on it: the   *)
(* Serve loop, a goroutine for every REQUEST frame, the callers of         *)
(* DialTransport and Close (src/client_conn.go), the listener that request *)
(* goroutines hand their transports to (src/listener.go) and the port      *)
(* table it is found in (src/port_manager.go).                             *)
(*                                                                         *)
(* A transport is named by the dial or the REQUEST frame it belongs to.    *)
(* Ids of locally initiated transports are 0 .. InitIds - 1 (the even ids, *)
(* halved); the server gives every REQUEST frame an id of its own.  What a *)
(* transport does with payload is the subject of Transport: here it is     *)
(* open, closing (tp.done is closed, tp.doneFunc has still to take mx) or  *)
(* closed.                                                                 *)
(***************************************************************************)
EXTENDS Integers, Sequences

CONSTANTS
    Dials, Requests,
    Parties,           \* sets of dials and requests; those of one of them happen
    InitIds,           \* the number of ids that dials take turns on
    AcceptBufferSize,
    MaxFrames,         \* bound: the number of frames the server sends
    None

Transports == Dials \cup Requests
Ids == (0 .. InitIds - 1) \cup Requests
Threads == {"serve", "user"} \cup Transports

ASSUME ClientConnAssumption ==
    /\ InitIds \in Nat \ {0} /\ AcceptBufferSize \in Nat /\ MaxFrames \in Nat
    /\ Dials \cap Requests = {} /\ Parties \subseteq SUBSET Transports
    /\ {"serve", "user"} \cap Transports = {} /\ Requests \cap Nat = {}
    /\ None \notin Transports

VARIABLES
    at,         \* where each thread is
    frame,      \* the frame that Serve has in hand: [type, tp]
    tps,        \* ClientConn.tps
    nextInitID,
    mx,         \* the dial that keeps ClientConn.mx while it looks for an id
    done,       \* ClientConn.done is closed
    once,       \* ClientConn.once: "no", "running" or "over"
    connUp,     \* ClientConn.Conn
    cancelled,  \* the dials whose context is done
    tp,         \* the transports
    tpID,       \* their ids
    serving,    \* the transports whose Serve goroutine was started
    got,        \* the frame that a transport's goroutine took from inCh
    toClose,    \* the transports that close() started a goroutine to close
    lis,        \* the listener of the port: "none", "open" or "closed"
    lisMx,      \* the request goroutine that holds Listener.mx
    accept,     \* Listener.accept
    given,      \* the transports that AcceptTransport returned
    peer,       \* what the server knows of a transport
    frames,     \* the number of frames read
    party,      \* the dials and requests that happen
    orphans     \* history: open transports that tps lost, or got too late

tpVars == <<tp, tpID, serving, got, toClose>>
lisVars == <<lis, lisMx, accept, given>>
mapVars == <<tps, nextInitID, orphans>>
closeVars == <<done, once, connUp>>
peerVars == <<peer, frames, party>>
vars == <<at, frame, mx, cancelled, tpVars, lisVars, mapVars, closeVars, peerVars>>

Init ==
    /\ at = [p \in Threads |-> IF p = "serve" THEN "read"
                               ELSE IF p \in Requests THEN "none" ELSE "idle"]
    /\ frame = None /\ nextInitID \in 0 .. InitIds - 1
    /\ tps = [i \in Ids |-> None] /\ mx = None
    /\ done = FALSE /\ once = "no" /\ connUp = TRUE /\ cancelled = {}
    /\ tp = [t \in Transports |-> "none"]
    /\ tpID = [t \in Transports |-> IF t \in Requests THEN t ELSE None]
    /\ serving = {} /\ got = [t \in Transports |-> None] /\ toClose = {}
    /\ lis = "none" /\ lisMx = None /\ accept = <<>> /\ given = {}
    /\ peer = [t \in Transports |-> "none"] /\ frames = 0
    /\ party \in Parties /\ orphans = {}

Goto(p, l) == at' = [at EXCEPT ![p] = l]
Open(t) == t # None /\ tp[t] = "open"
Peer(t, from, to) == peer' = [peer EXCEPT ![t] = IF @ \in from THEN to ELSE @]

\* tp.close up to doneFunc; DoneFunc is the rest.
CloseTp(t) == tp' = [tp EXCEPT ![t] = IF @ = "open" THEN "closing" ELSE @]

\* delTp: whatever transport the map holds for this id
DelTp(i) ==
    /\ mx = None
    /\ tps' = [tps EXCEPT ![i] = None]
    /\ orphans' = IF Open(tps[i]) THEN orphans \cup {tps[i]} ELSE orphans

-----------------------------------------------------------------------------
(* Serve                                                                   *)

\* readFrame: what the server may send next.
ReadFrame ==
    /\ at["serve"] = "read" /\ connUp /\ frames < MaxFrames
    /\ \E t \in Transports :
          \/ t \in Requests \cap party /\ peer[t] = "none"
                /\ frame' = [type |-> "REQUEST", tp |-> t] /\ Peer(t, {"none"}, "asked")
          \/ t \in Dials /\ peer[t] = "asked"
                /\ frame' = [type |-> "ACCEPT", tp |-> t] /\ Peer(t, {"asked"}, "open")
          \/ peer[t] = "open" /\ frame' = [type |-> "FWD", tp |-> t] /\ UNCHANGED peer
          \/ peer[t] \in {"asked", "open", "unknown"}
                /\ frame' = [type |-> "CLOSE", tp |-> t]
                /\ Peer(t, {"asked", "open", "unknown"}, "ended")
    /\ frames' = frames + 1 /\ UNCHANGED party
    /\ Goto("serve", "getTp")
    /\ UNCHANGED <<mx, cancelled, tpVars, lisVars, mapVars, closeVars>>

ReadFails ==
    /\ at["serve"] = "read" /\ ~connUp
    /\ Goto("serve", "close")
    /\ UNCHANGED <<frame, mx, cancelled, tpVars, lisVars, mapVars, closeVars, peerVars>>

GetTp ==
    /\ at["serve"] = "getTp" /\ mx = None
    /\ Goto("serve", IF Open(tps[tpID[frame.tp]]) THEN "handle" ELSE "delTp")
    /\ frame' = IF Open(tps[tpID[frame.tp]])
                THEN [frame EXCEPT !.tp = tps[tpID[frame.tp]]] ELSE frame
    /\ UNCHANGED <<mx, cancelled, tpVars, lisVars, mapVars, closeVars, peerVars>>

\* tp.HandleFrame: inCh has no buffer, so the transport's goroutine takes the frame.
HandleFrame ==
    /\ at["serve"] = "handle"
    /\ frame.tp \in serving \/ at[frame.tp] = "readAccept"
    /\ Open(frame.tp) /\ got[frame.tp] = None
    /\ got' = [got EXCEPT ![frame.tp] = frame.type]
    /\ Goto("serve", "read") /\ frame' = None
    /\ UNCHANGED <<mx, cancelled, tp, tpID, serving, toClose, lisVars, mapVars, closeVars, peerVars>>

HandleFrameClosed ==
    /\ at["serve"] = "handle" /\ ~Open(frame.tp)
    /\ Goto("serve", "read") /\ frame' = None
    /\ UNCHANGED <<mx, cancelled, tpVars, lisVars, mapVars, closeVars, peerVars>>

\* No transport of this id: delTp, and the switch on the frame's type.
NoTp ==
    /\ at["serve"] = "delTp" /\ DelTp(tpID[frame.tp])
    /\ at' = IF frame.type = "REQUEST"
             THEN [at EXCEPT !["serve"] = "read", ![frame.tp] = "check"]
             ELSE [at EXCEPT !["serve"] = IF frame.type = "CLOSE" THEN "read" ELSE "writeClose"]
    /\ frame' = IF frame.type \in {"REQUEST", "CLOSE"} THEN None ELSE frame
    /\ UNCHANGED <<mx, cancelled, nextInitID, tpVars, lisVars, closeVars, peerVars>>

WriteClose ==
    /\ at["serve"] = "writeClose"
    /\ Goto("serve", IF connUp THEN "read" ELSE "close")
    /\ IF connUp THEN Peer(frame.tp, {"open"}, "ended") ELSE UNCHANGED peer
    /\ frame' = None
    /\ UNCHANGED <<mx, cancelled, tpVars, lisVars, mapVars, closeVars, frames, party>>

ServeStep == ReadFails \/ GetTp \/ HandleFrame \/ HandleFrameClosed \/ NoTp \/ WriteClose

-----------------------------------------------------------------------------
(* handleRequestFrame, in a goroutine of its own                           *)

\* The payload or the id is wrong, or nobody listens on the port: a CLOSE frame
\* is written, and the connection closed if that fails.
RejectRequest(r) ==
    /\ at[r] = "check"
    /\ Goto(r, IF connUp THEN "end" ELSE "close")
    /\ IF connUp THEN Peer(r, {"asked"}, "ended") ELSE UNCHANGED peer
    /\ UNCHANGED <<frame, mx, cancelled, tpVars, lisVars, mapVars, closeVars, frames, party>>

\* pm.Listener and NewTransport
FindListener(r) ==
    /\ at[r] = "check" /\ lis # "none"
    /\ tp' = [tp EXCEPT ![r] = "open"]
    /\ Goto(r, "select")
    /\ UNCHANGED <<frame, mx, cancelled, tpID, serving, got, toClose, lisVars, mapVars,
                   closeVars, peerVars>>

SelectDone(r) ==
    /\ at[r] = "select" /\ done
    /\ CloseTp(r) /\ Goto(r, "closeDone")
    /\ UNCHANGED <<frame, mx, cancelled, tpID, serving, got, toClose, lisVars, mapVars,
                   closeVars, peerVars>>

SelectDefault(r) ==
    /\ at[r] = "select" /\ ~done
    /\ Goto(r, "introduce")
    /\ UNCHANGED <<frame, mx, cancelled, tpVars, lisVars, mapVars, closeVars, peerVars>>

\* IntroduceTransport: a closed listener makes it ErrClientClosed.
IntroduceClosed(r) ==
    /\ at[r] = "introduce" /\ lisMx = None /\ lis = "closed"
    /\ Goto(r, "close")
    /\ UNCHANGED <<frame, mx, cancelled, tpVars, lisVars, mapVars, closeVars, peerVars>>

Introduce(r) ==
    /\ at[r] = "introduce" /\ lisMx = None /\ lis # "closed"
    /\ lisMx' = r /\ Goto(r, "send")
    /\ UNCHANGED <<frame, mx, cancelled, tpVars, lis, accept, given, mapVars, closeVars, peerVars>>

\* The select of IntroduceTransport: a full queue closes the transport.
SendAccept(r) ==
    /\ at[r] = "send" /\ Len(accept) < AcceptBufferSize
    /\ accept' = Append(accept, r) /\ Goto(r, "writeAccept")
    /\ UNCHANGED <<frame, mx, cancelled, tpVars, lis, lisMx, given, mapVars, closeVars, peerVars>>

AcceptMaxed(r) ==
    /\ at[r] = "send" /\ Len(accept) >= AcceptBufferSize
    /\ CloseTp(r) /\ Goto(r, "closeMaxed")
    /\ UNCHANGED <<frame, mx, cancelled, tpID, serving, got, toClose, lisVars, mapVars,
                   closeVars, peerVars>>

\* tp.WriteAccept, and the transport's Serve goroutine is started.
WriteAccept(r) ==
    /\ at[r] = "writeAccept" /\ connUp
    /\ peer' = [peer EXCEPT ![r] = IF @ = "asked" THEN "open" ELSE "unknown"]
    /\ serving' = serving \cup {r}
    /\ lisMx' = None /\ Goto(r, "setTp")
    /\ UNCHANGED <<frame, mx, cancelled, tp, tpID, got, toClose, lis, accept, given, mapVars,
                   closeVars, frames, party>>

WriteAcceptFails(r) ==
    /\ at[r] = "writeAccept" /\ ~connUp
    /\ CloseTp(r) /\ Goto(r, "closeFailed")
    /\ UNCHANGED <<frame, mx, cancelled, tpID, serving, got, toClose, lisVars, mapVars,
                   closeVars, peerVars>>

\* tp.Close has returned.
RequestTpClosed(r) ==
    /\ at[r] \in {"closeDone", "closeMaxed", "closeFailed"} /\ tp[r] = "closed"
    /\ Goto(r, IF at[r] = "closeMaxed" THEN "setTp" ELSE "close")
    /\ lisMx' = IF at[r] = "closeDone" THEN lisMx ELSE None
    /\ UNCHANGED <<frame, mx, cancelled, tpVars, lis, accept, given, mapVars, closeVars, peerVars>>

SetTp(r) ==
    /\ at[r] = "setTp" /\ mx = None
    /\ tps' = [tps EXCEPT ![r] = r]
    /\ orphans' = IF once = "over" /\ Open(r) THEN orphans \cup {r} ELSE orphans
    /\ Goto(r, "end")
    /\ UNCHANGED <<frame, mx, cancelled, nextInitID, tpVars, lisVars, closeVars, peerVars>>

RequestStep(r) ==
    \/ RejectRequest(r) \/ FindListener(r) \/ SelectDone(r) \/ SelectDefault(r)
    \/ IntroduceClosed(r) \/ Introduce(r) \/ SendAccept(r) \/ AcceptMaxed(r)
    \/ WriteAccept(r) \/ WriteAcceptFails(r) \/ RequestTpClosed(r) \/ SetTp(r)

-----------------------------------------------------------------------------
(* DialTransport                                                           *)

Dial(d) ==
    /\ at[d] = "idle" /\ d \in party
    /\ Goto(d, "addTp")
    /\ UNCHANGED <<frame, mx, cancelled, tpVars, lisVars, mapVars, closeVars, peerVars>>

Cancel(d) ==
    /\ d \notin cancelled
    /\ at[d] \in {"addTp", "getNextInitID", "writeRequest", "readAccept"}
    /\ cancelled' = cancelled \cup {d}
    /\ UNCHANGED <<at, frame, mx, tpVars, lisVars, mapVars, closeVars, peerVars>>

\* addTp takes mx and keeps it while getNextInitID looks for an id.
LockMx(d) ==
    /\ at[d] = "addTp" /\ mx = None
    /\ mx' = d /\ Goto(d, "getNextInitID")
    /\ UNCHANGED <<frame, cancelled, tpVars, lisVars, mapVars, closeVars, peerVars>>

GiveUp(d) ==
    /\ at[d] = "getNextInitID" /\ (done \/ d \in cancelled)
    /\ mx' = None /\ Goto(d, "end")
    /\ UNCHANGED <<frame, cancelled, tpVars, lisVars, mapVars, closeVars, peerVars>>

\* A plausible bug: the next id is taken even if it is in use.
GetNextInitIDUnchecked(d) ==
    /\ at[d] = "getNextInitID" /\ ~done /\ d \notin cancelled
    /\ nextInitID' = (nextInitID + 1) % InitIds
    /\ tp' = [tp EXCEPT ![d] = "open"]
    /\ tpID' = [tpID EXCEPT ![d] = nextInitID]
    /\ tps' = [tps EXCEPT ![nextInitID] = d]
    /\ mx' = None /\ Goto(d, "writeRequest")
    /\ UNCHANGED <<frame, cancelled, serving, got, toClose, lisVars, orphans, closeVars, peerVars>>

\* One turn of getNextInitID, with the rest of addTp when the id is free ...
GetNextInitID(d) ==
    /\ at[d] = "getNextInitID" /\ ~done /\ d \notin cancelled
    /\ ~Open(tps[nextInitID])
    /\ nextInitID' = (nextInitID + 1) % InitIds
    /\ tp' = [tp EXCEPT ![d] = "open"]
    /\ tpID' = [tpID EXCEPT ![d] = nextInitID]
    /\ tps' = [tps EXCEPT ![nextInitID] = d]
    /\ mx' = None /\ Goto(d, "writeRequest")
    /\ UNCHANGED <<frame, cancelled, serving, got, toClose, lisVars, orphans, closeVars, peerVars>>

\* ... and when it is in use.
InitIDInUse(d) ==
    /\ at[d] = "getNextInitID" /\ ~done /\ d \notin cancelled
    /\ Open(tps[nextInitID])
    /\ nextInitID' = (nextInitID + 1) % InitIds
    /\ UNCHANGED <<at, frame, mx, cancelled, tpVars, lisVars, tps, orphans, closeVars, peerVars>>

WriteRequest(d) ==
    /\ at[d] = "writeRequest" /\ connUp
    /\ Peer(d, {"none"}, "asked") /\ Goto(d, "readAccept")
    /\ UNCHANGED <<frame, mx, cancelled, tpVars, lisVars, mapVars, closeVars, frames, party>>

WriteRequestFails(d) ==
    /\ at[d] = "writeRequest" /\ ~connUp
    /\ CloseTp(d) /\ Goto(d, "closeTp")
    /\ UNCHANGED <<frame, mx, cancelled, tpID, serving, got, toClose, lisVars, mapVars,
                   closeVars, peerVars>>

\* ReadAccept gets an ACCEPT frame, after which the transport's Serve goroutine is
\* started ...
ReadAccept(d) ==
    /\ at[d] = "readAccept" /\ got[d] = "ACCEPT"
    /\ got' = [got EXCEPT ![d] = None]
    /\ serving' = serving \cup {d} /\ Goto(d, "up")
    /\ UNCHANGED <<frame, mx, cancelled, tp, tpID, toClose, lisVars, mapVars, closeVars, peerVars>>

\* ... or another frame, or an ACCEPT that does not pass the checks.
ReadAcceptFails(d) ==
    /\ at[d] = "readAccept" /\ got[d] # None
    /\ got' = [got EXCEPT ![d] = None]
    /\ CloseTp(d) /\ Goto(d, "closeTp")
    /\ UNCHANGED <<frame, mx, cancelled, tpID, serving, toClose, lisVars, mapVars, closeVars, peerVars>>

\* ReadAccept sees tp.done or ctx.Done.
ReadAcceptEnds(d) ==
    /\ at[d] = "readAccept" /\ got[d] = None /\ (d \in cancelled \/ ~Open(d))
    /\ CloseTp(d) /\ Goto(d, "closeTp")
    /\ UNCHANGED <<frame, mx, cancelled, tpID, serving, got, toClose, lisVars, mapVars,
                   closeVars, peerVars>>

DialTpClosed(d) ==
    /\ at[d] = "closeTp" /\ tp[d] = "closed"
    /\ Goto(d, "end")
    /\ UNCHANGED <<frame, mx, cancelled, tpVars, lisVars, mapVars, closeVars, peerVars>>

DialStep(d) ==
    \/ LockMx(d) \/ GiveUp(d) \/ GetNextInitID(d) \/ InitIDInUse(d)
    \/ WriteRequest(d) \/ WriteRequestFails(d)
    \/ ReadAccept(d) \/ ReadAcceptFails(d) \/ ReadAcceptEnds(d) \/ DialTpClosed(d)

-----------------------------------------------------------------------------
(* Transports                                                              *)

\* The Serve goroutine of a transport handles a frame: CLOSE closes it, and so does
\* FWD if it is malformed or its ACK cannot be written.
ServeTp(t) ==
    /\ t \in serving /\ got[t] # None
    /\ got' = [got EXCEPT ![t] = None]
    /\ \/ got[t] \in {"CLOSE", "FWD"} /\ CloseTp(t)
       \/ got[t] # "CLOSE" /\ UNCHANGED tp
    /\ UNCHANGED <<at, frame, mx, cancelled, tpID, serving, toClose, lisVars, mapVars,
                   closeVars, peerVars>>

\* The goroutine that close() started for t.
CloseGoroutine(t) ==
    /\ t \in toClose
    /\ toClose' = toClose \ {t} /\ CloseTp(t)
    /\ UNCHANGED <<at, frame, mx, cancelled, tpID, serving, got, lisVars, mapVars, closeVars, peerVars>>

\* tp.doneFunc is delTp of the transport's id.
DoneFunc(t) ==
    /\ tp[t] = "closing"
    /\ DelTp(tpID[t])
    /\ tp' = [tp EXCEPT ![t] = "closed"]
    /\ UNCHANGED <<at, frame, mx, cancelled, nextInitID, tpID, serving, got, toClose, lisVars,
                   closeVars, peerVars>>

\* The user closes a transport that Dial or AcceptTransport returned.
UserCloseTp(t) ==
    /\ at[t] = "up" \/ t \in given
    /\ Open(t) /\ CloseTp(t)
    /\ UNCHANGED <<at, frame, mx, cancelled, tpID, serving, got, toClose, lisVars, mapVars,
                   closeVars, peerVars>>

TpStep(t) == ServeTp(t) \/ CloseGoroutine(t) \/ DoneFunc(t)

-----------------------------------------------------------------------------
(* close and Close                                                         *)

\* A plausible bug: done is closed under mx.
CloseOnceUnderMx(p) ==
    /\ at[p] = "close" /\ once = "no" /\ mx = None
    /\ once' = "running" /\ done' = TRUE
    /\ Goto(p, "closeMx")
    /\ UNCHANGED <<frame, mx, cancelled, tpVars, lisVars, mapVars, connUp, peerVars>>

\* once.Do: the first caller closes done ...
CloseOnce(p) ==
    /\ at[p] = "close" /\ once = "no"
    /\ once' = "running" /\ done' = TRUE
    /\ Goto(p, "closeMx")
    /\ UNCHANGED <<frame, mx, cancelled, tpVars, lisVars, mapVars, connUp, peerVars>>

\* ... and the others wait for it to finish.
CloseAgain(p) ==
    /\ at[p] = "close" /\ once = "over"
    /\ Goto(p, IF p = "user" THEN "lisClose" ELSE "end")
    /\ UNCHANGED <<frame, mx, cancelled, tpVars, lisVars, mapVars, closeVars, peerVars>>

\* A plausible bug: only the connection is closed.
CloseMxOnlyConn(p) ==
    /\ at[p] = "closeMx" /\ mx = None
    /\ connUp' = FALSE /\ once' = "over"
    /\ Goto(p, IF p = "serve" THEN "end" ELSE "wgWait")
    /\ UNCHANGED <<frame, mx, cancelled, tpVars, lisVars, mapVars, done, peerVars>>

\* The rest of close, under mx.  Close then waits for the WaitGroup if it was
\* first; Serve's own close does not.
CloseMx(p) ==
    /\ at[p] = "closeMx" /\ mx = None
    /\ toClose' = {tps[i] : i \in Ids} \ {None}
    /\ connUp' = FALSE /\ once' = "over"
    /\ Goto(p, IF p = "serve" THEN "end" ELSE "wgWait")
    /\ UNCHANGED <<frame, mx, cancelled, tp, tpID, serving, got, lisVars, mapVars, done, peerVars>>

\* wg counts Serve and the request goroutines, the waiting one included.
WgWait(p) ==
    /\ at[p] = "wgWait"
    /\ at["serve"] = "end" /\ \A r \in Requests : at[r] \in {"none", "end"}
    /\ Goto(p, IF p = "user" THEN "lisClose" ELSE "end")
    /\ UNCHANGED <<frame, mx, cancelled, tpVars, lisVars, mapVars, closeVars, peerVars>>

\* Client.Close
UserClose ==
    /\ at["user"] = "idle"
    /\ Goto("user", "close")
    /\ UNCHANGED <<frame, mx, cancelled, tpVars, lisVars, mapVars, closeVars, peerVars>>

\* A plausible bug: the channels are closed without the lock.
CloseListenerUnlocked ==
    /\ lis = "open"
    /\ lis' = "closed" /\ accept' = <<>>
    /\ UNCHANGED <<lisMx, given>>

\* Listener.close: under mx, the queue is emptied and the channels closed.
CloseListener ==
    /\ lis = "open" /\ lisMx = None
    /\ lis' = "closed" /\ accept' = <<>>
    /\ UNCHANGED <<lisMx, given>>

UserCloseListeners ==
    /\ at["user"] = "lisClose"
    /\ CloseListener
    /\ Goto("user", "end")
    /\ UNCHANGED <<frame, mx, cancelled, tpVars, mapVars, closeVars, peerVars>>

UserNoListeners ==
    /\ at["user"] = "lisClose" /\ lis # "open"
    /\ Goto("user", "end")
    /\ UNCHANGED <<frame, mx, cancelled, tpVars, lisVars, mapVars, closeVars, peerVars>>

CloseStep(p) ==
    \/ CloseOnce(p) \/ CloseAgain(p) \/ CloseMx(p) \/ WgWait(p)
    \/ p = "user" /\ (UserCloseListeners \/ UserNoListeners)

-----------------------------------------------------------------------------
(* Listener and network                                                    *)

\* pm.NewListener; the port stays taken once the listener is closed.
Listen ==
    /\ lis = "none" /\ party \cap Requests # {}
    /\ lis' = "open"
    /\ UNCHANGED <<at, frame, mx, cancelled, tpVars, lisMx, accept, given, mapVars, closeVars, peerVars>>

ListenerClose ==
    /\ CloseListener
    /\ UNCHANGED <<at, frame, mx, cancelled, tpVars, mapVars, closeVars, peerVars>>

AcceptTransport ==
    /\ accept # <<>>
    /\ given' = given \cup {Head(accept)} /\ accept' = Tail(accept)
    /\ UNCHANGED <<at, frame, mx, cancelled, tpVars, lis, lisMx, mapVars, closeVars, peerVars>>

BreakConn ==
    /\ connUp
    /\ connUp' = FALSE
    /\ UNCHANGED <<at, frame, mx, cancelled, tpVars, lisVars, mapVars, done, once, peerVars>>

-----------------------------------------------------------------------------

\* Nothing is left to do but what users and the network may do.
Settled ==
    /\ at["serve"] = "end"
    /\ \A p \in Threads : at[p] \in {"none", "idle", "end", "up", "wgWait"}
    /\ toClose = {} /\ \A t \in Transports : tp[t] # "closing" /\ got[t] = None

Idle == (at["serve"] = "read" \/ Settled) /\ UNCHANGED vars

Next ==
    \/ ReadFrame \/ ServeStep
    \/ \E r \in Requests : RequestStep(r)
    \/ \E d \in Dials : Dial(d) \/ Cancel(d) \/ DialStep(d)
    \/ \E t \in Transports : TpStep(t) \/ UserCloseTp(t)
    \/ \E p \in Threads : CloseStep(p)
    \/ UserClose \/ Listen \/ ListenerClose \/ AcceptTransport \/ BreakConn
    \/ Idle

\* Goroutines run; nobody has to send, dial, cancel, accept, listen or close.
Fairness ==
    /\ WF_vars(ServeStep)
    /\ \A r \in Requests : WF_vars(RequestStep(r))
    /\ \A d \in Dials : WF_vars(DialStep(d))
    /\ \A t \in Transports : WF_vars(TpStep(t))
    /\ \A p \in Threads : WF_vars(CloseStep(p))

Spec == Init /\ [][Next]_vars /\ Fairness
-----------------------------------------------------------------------------
(* Properties                                                              *)

Labels == {"none", "idle", "end", "read", "getTp", "handle", "delTp", "writeClose", "check",
           "select", "introduce", "send", "writeAccept", "closeDone", "closeMaxed",
           "closeFailed", "setTp", "addTp", "getNextInitID", "writeRequest", "readAccept",
           "closeTp", "up", "close", "closeMx", "wgWait", "lisClose"}

\* Threads, map and listener are well formed: a transport in use has an id, and
\* the accept queue stays within its buffer, as the select in IntroduceTransport
\* makes sure.
TypeOK ==
    /\ at \in [Threads -> Labels]
    /\ tps \in [Ids -> Transports \cup {None}]
    /\ tp \in [Transports -> {"none", "open", "closing", "closed"}]
    /\ \A t \in Transports : tp[t] # "none" => tpID[t] \in Ids
    /\ Len(accept) <= AcceptBufferSize /\ lis \in {"none", "open", "closed"}
    /\ nextInitID \in 0 .. InitIds - 1

\* IntroduceTransport never sends on the closed accept channel (a panic in Go).
NoSendOnClosed == \A r \in Requests : at[r] = "send" => lis = "open"

\* A transport that Dial entered or setTp entered is found by its id as long as it
\* is open, unless delTp of the same id took it out.
OpenTpIsMapped ==
    \A t \in Transports :
        Open(t) /\ t \notin orphans /\ (t \in Dials \/ (at[t] = "end" /\ t \in serving))
            => tps[tpID[t]] = t

\* Once the connection is closed and everything has settled, the transports that
\* were dialled on it or handed to the user are closed, except the orphans.
ConnCloseClosesTps ==
    Settled => \A t \in serving : ~Open(t) \/ t \in orphans

\* As the tests state it: once the connection is closed and everything has
\* settled, the transports that the user was handed on it are closed.
TransportsClosed == Settled => \A t \in given : ~Open(t)

\* What may be left of a closed connection: a request goroutine that was the first
\* to call Close waits for its own WaitGroup, the dial of an orphan for its context.
LeftBehind(p) ==
    \/ p \in Requests /\ at[p] = "wgWait"
    \/ p \in orphans /\ at[p] = "readAccept"

\* Once Close was called or done is closed, all that goes on on the connection comes
\* to its end, the user's Close, Serve, dials and requests, but for what LeftBehind
\* names.
CloseEndsGoroutines ==
    <>[]((done \/ at["user"] # "idle") =>
            \A p \in Threads : at[p] \in {"none", "idle", "end", "up"} \/ LeftBehind(p))

=============================================================================
