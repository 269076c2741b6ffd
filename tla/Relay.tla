-------------------------------- MODULE Relay --------------------------------
(***************************************************************************)
(* Clients that dial, use and close transports through one dmsg server:    *)
(* ServerConn (src/server.go) forwards frames between connections along    *)
(* the associations in nextConns, ClientConn (src/client_conn.go) keeps    *)
(* the transports of a connection in tps.                                  *)
(*                                                                         *)
(* A transport is named by its dial and its side.  Each client has one     *)
(* connection, which may be lost; up[c] and down[c] are the frames in      *)
(* flight.  The critical sections of ServerConn.mx and ClientConn.mx are   *)
(* single steps, and the server goroutine of a connection can be           *)
(* interrupted between them.                                               *)
(***************************************************************************)
EXTENDS Integers, Sequences, FiniteSets

CONSTANTS
    Clients,
    Dials,      \* names of the dials
    Scenarios,  \* the instances checked together, as records with the fields
                \*   plan: who may dial whom,
                \*   drop: clients whose connection may be lost or listener close,
                \*   writes: bound on the FWD frames written,
                \*   ids: number of transport ids (2^16 in the code)
    None

ASSUME ScenariosAssumption ==
    \A s \in Scenarios :
        /\ DOMAIN s.plan \subseteq Dials /\ \A d \in DOMAIN s.plan : s.plan[d] \in Clients \X Clients
        /\ s.drop \subseteq Clients /\ s.writes \in Nat
        /\ s.ids \in Nat /\ s.ids > 0 /\ s.ids % 2 = 0
        /\ None \notin Clients \X (0 .. s.ids - 1) /\ None \notin Dials \X {"init", "resp"}
        /\ IsFiniteSet(DOMAIN s.plan)

VARIABLES
    scenario,    \* the scenario at hand
    connected,   \* the clients whose ClientConn is open
    up, down,    \* frames from client to server and from server to client
    nextInitID, tps,       \* ClientConn
    tpState, tpId,         \* the transports: where they are, and their id
    requests,    \* the goroutines in handleRequestFrame
    acks,        \* transports with an ACK frame about to be written
    wrote,       \* transports that have written a FWD frame
    conns,       \* Server.conns
    open,        \* the ServerConns whose net.Conn is open
    nextRespID, nextConns, \* ServerConn
    at, next     \* ServerConn.Serve: where it is, the association in hand

clientVars == <<nextInitID, tps, tpState, tpId, requests, acks, wrote>>
serverVars == <<conns, open, nextRespID, nextConns, at, next>>
vars == <<scenario, connected, up, down, clientVars, serverVars>>

plan == scenario.plan    \* plan[d]: initiator and responder of dial d
Droppable == scenario.drop
MaxWrites == scenario.writes
IdMod == scenario.ids

Ids == 0 .. IdMod - 1
Tps == Dials \X {"init", "resp"}
Peer(t) == <<t[1], IF t[2] = "init" THEN "resp" ELSE "init">>
Owner(t) == plan[t[1]][IF t[2] = "init" THEN 1 ELSE 2]
isInitiatorID(id) == id % 2 = 0

\* A frame; tp is the transport it stems from (for a frame the server makes
\* up, None): the source of its payload, not part of the header.
Frame(type, id, t) == [type |-> type, id |-> id, tp |-> t]

\* The ids tried from "from" on, in steps of two, that are not in "used".
FreeSteps(from, used) == {k \in 0 .. IdMod \div 2 - 1 : (from + 2 * k) % IdMod \notin used}
\* The first of them, if there is one.
NextFree(from, used) ==
    LET free == FreeSteps(from, used) IN
    {(from + 2 * k) % IdMod : k \in {m \in free : \A l \in free : m <= l}}

\* A plausible bug: ids wider than a uint16.
AfterNoWrap(id) == id + 2

\* nextInitID and nextRespID go up by two, as uint16 values.
After(id) == (id + 2) % IdMod

\* Everybody is connected.  The first ids are random in the code: all choices
\* are alike up to a rotation of the ids.
Init ==
    /\ scenario \in Scenarios
    /\ connected = Clients /\ conns = Clients /\ open = Clients
    /\ up = [c \in Clients |-> <<>>] /\ down = [c \in Clients |-> <<>>]
    /\ nextInitID = [c \in Clients |-> 0] /\ nextRespID = [c \in Clients |-> 1]
    /\ tps = [c \in Clients |-> [i \in Ids |-> None]]
    /\ tpState = [t \in Tps |-> "none"] /\ tpId = [t \in Tps |-> 0]
    /\ requests = {} /\ acks = {} /\ wrote = {}
    /\ nextConns = [c \in Clients |-> [i \in Ids |-> None]]
    /\ at = [c \in Clients |-> "read"] /\ next = [c \in Clients |-> None]

-----------------------------------------------------------------------------
(* ClientConn                                                              *)

\* A client's write fails without effect once its connection is closed.
Send(c, f) == up' = IF c \in connected THEN [up EXCEPT ![c] = Append(@, f)] ELSE up

\* getTp
TpAt(c, id) == tps[c][id]
Live(t) == t # None /\ tpState[t] # "closed"

\* close() of transport t: it is closed, and delTp empties the place of its id.
CloseTp(t) ==
    /\ tpState' = [tpState EXCEPT ![t] = "closed"]
    /\ tps' = [tps EXCEPT ![Owner(t)][tpId[t]] = None]

\* DialTransport: addTp, with getNextInitID, and WriteRequest.
DialTransport(d) ==
    LET t == <<d, "init">>
        c == Owner(t)
        used == {i \in Ids : Live(TpAt(c, i))} IN
    /\ d \in DOMAIN plan /\ tpState[t] = "none"
    /\ c \in connected
    /\ \E id \in NextFree(nextInitID[c], used) :
          /\ nextInitID' = [nextInitID EXCEPT ![c] = After(id)]
          /\ tps' = [tps EXCEPT ![c][id] = t]
          /\ tpId' = [tpId EXCEPT ![t] = id]
          /\ Send(c, Frame("REQUEST", id, t))
    /\ tpState' = [tpState EXCEPT ![t] = "dialing"]
    /\ UNCHANGED <<scenario, connected, down, requests, acks, wrote, serverVars>>

\* Close by the user, or ReadAccept's context is done.
Close(t) ==
    /\ tpState[t] \in {"dialing", "open"}
    /\ CloseTp(t)
    /\ Send(Owner(t), Frame("CLOSE", tpId[t], t))
    /\ UNCHANGED <<scenario, connected, down, nextInitID, tpId, requests, acks, wrote, serverVars>>

\* Each transport writes one FWD frame at most.
Write(t) ==
    /\ tpState[t] = "open" /\ t \notin wrote /\ Cardinality(wrote) < MaxWrites
    /\ wrote' = wrote \cup {t}
    /\ Send(Owner(t), Frame("FWD", tpId[t], t))
    /\ UNCHANGED <<scenario, connected, down, nextInitID, tps, tpState, tpId, requests, acks,
                   serverVars>>

\* The goroutine that writes an ACK frame, maybe after the transport closed.
WriteAck(t) ==
    /\ t \in acks
    /\ acks' = acks \ {t}
    /\ Send(Owner(t), Frame("ACK", tpId[t], t))
    /\ UNCHANGED <<scenario, connected, down, nextInitID, tps, tpState, tpId, requests, wrote,
                   serverVars>>

\* ClientConn.close: every transport in tps is closed, the connection too.
Disconnect(c) ==
    /\ connected' = connected \ {c}
    /\ tpState' = [t \in Tps |-> IF \E i \in Ids : TpAt(c, i) = t THEN "closed" ELSE tpState[t]]
    /\ tps' = [tps EXCEPT ![c] = [i \in Ids |-> None]]
    /\ down' = [down EXCEPT ![c] = <<>>]

LoseConn(c) ==
    /\ c \in Droppable \cap connected
    /\ Disconnect(c)
    /\ UNCHANGED <<scenario, up, nextInitID, tpId, requests, acks, wrote, serverVars>>

Received(c) == c \in connected /\ down[c] # <<>>

Pop(c) == down' = [down EXCEPT ![c] = Tail(@)]

\* ClientConn.Serve hands a frame to a transport that is in ReadAccept.
AcceptOK(t, f) == f.tp # None /\ plan[f.tp[1]] = plan[t[1]] /\ isInitiatorID(f.id)

RecvReply(c) ==
    LET f == Head(down[c])
        t == TpAt(c, f.id)
        accepted == f.type = "ACCEPT" /\ AcceptOK(t, f) IN
    /\ Received(c) /\ Live(t)
    /\ tpState[t] = "dialing"
    /\ Pop(c)
    /\ IF accepted
       THEN tpState' = [tpState EXCEPT ![t] = "open"] /\ UNCHANGED tps
       ELSE CloseTp(t)
    /\ IF accepted \/ f.type = "CLOSE"
       THEN UNCHANGED up
       ELSE Send(c, Frame("CLOSE", f.id, t))
    /\ UNCHANGED <<scenario, connected, nextInitID, tpId, requests, acks, wrote, serverVars>>

\* ... or to a transport that is in Serve.
RecvFwd(c) ==
    LET f == Head(down[c]) IN
    /\ Received(c) /\ Live(TpAt(c, f.id))
    /\ tpState[TpAt(c, f.id)] = "open" /\ f.type = "FWD"
    /\ Pop(c)
    /\ acks' = acks \cup {TpAt(c, f.id)}
    /\ UNCHANGED <<scenario, connected, up, nextInitID, tps, tpState, tpId, requests, wrote,
                   serverVars>>

RecvClose(c) ==
    LET f == Head(down[c]) IN
    /\ Received(c) /\ Live(TpAt(c, f.id))
    /\ tpState[TpAt(c, f.id)] = "open" /\ f.type = "CLOSE"
    /\ Pop(c)
    /\ CloseTp(TpAt(c, f.id))
    /\ UNCHANGED <<scenario, connected, up, nextInitID, tpId, requests, acks, wrote, serverVars>>

\* An ACK frame ends a Write; an ACCEPT frame is ignored.
RecvAckOrAccept(c) ==
    LET f == Head(down[c]) IN
    /\ Received(c) /\ Live(TpAt(c, f.id))
    /\ tpState[TpAt(c, f.id)] = "open" /\ f.type \in {"ACK", "ACCEPT"}
    /\ Pop(c)
    /\ UNCHANGED <<scenario, connected, up, clientVars, serverVars>>

\* A REQUEST frame for an id in use: Serve closes the whole connection.
RecvRequestInUse(c) ==
    LET f == Head(down[c]) IN
    /\ Received(c) /\ Live(TpAt(c, f.id))
    /\ tpState[TpAt(c, f.id)] = "open" /\ f.type = "REQUEST"
    /\ Disconnect(c)
    /\ UNCHANGED <<scenario, up, nextInitID, tpId, requests, acks, wrote, serverVars>>

\* No transport of that id: the frame should be a REQUEST.
RecvRequest(c) ==
    LET f == Head(down[c]) IN
    /\ Received(c) /\ ~Live(TpAt(c, f.id)) /\ f.type = "REQUEST"
    /\ Pop(c)
    /\ tps' = [tps EXCEPT ![c][f.id] = None]
    /\ requests' = requests \cup {[conn |-> c, id |-> f.id, dial |-> f.tp[1], at |-> "introduce"]}
    /\ UNCHANGED <<scenario, connected, up, nextInitID, tpState, tpId, acks, wrote, serverVars>>

\* A plausible bug: a CLOSE frame is answered by a CLOSE frame.
RecvIgnoredAlwaysReplies(c) ==
    LET f == Head(down[c]) IN
    /\ Received(c) /\ ~Live(TpAt(c, f.id)) /\ f.type # "REQUEST"
    /\ Pop(c)
    /\ tps' = [tps EXCEPT ![c][f.id] = None]
    /\ Send(c, Frame("CLOSE", f.id, None))
    /\ UNCHANGED <<scenario, connected, nextInitID, tpState, tpId, requests, acks, wrote, serverVars>>

RecvIgnored(c) ==
    LET f == Head(down[c]) IN
    /\ Received(c) /\ ~Live(TpAt(c, f.id)) /\ f.type # "REQUEST"
    /\ Pop(c)
    /\ tps' = [tps EXCEPT ![c][f.id] = None]
    /\ IF f.type = "CLOSE" THEN UNCHANGED up ELSE Send(c, Frame("CLOSE", f.id, None))
    /\ UNCHANGED <<scenario, connected, nextInitID, tpState, tpId, requests, acks, wrote, serverVars>>

\* A plausible bug: a request is dropped without an answer.
RejectRequestSilently(r) ==
    /\ r \in requests /\ r.at = "introduce"
    /\ requests' = requests \ {r}
    /\ UNCHANGED <<scenario, connected, up, down, nextInitID, tps, tpState, tpId, acks, wrote,
                   serverVars>>

\* handleRequestFrame: the checks fail or the port is not listening.
RejectRequest(r) ==
    /\ r \in requests /\ r.at = "introduce"
    /\ requests' = requests \ {r}
    /\ Send(r.conn, Frame("CLOSE", r.id, None))
    /\ UNCHANGED <<scenario, connected, down, nextInitID, tps, tpState, tpId, acks, wrote, serverVars>>

\* IntroduceTransport: the listener's owner has the transport, the ACCEPT frame
\* is written, Serve is started.  It fails when the connection is closed.
IntroduceTransport(r) ==
    LET t == <<r.dial, "resp">> IN
    /\ r \in requests /\ r.at = "introduce"
    /\ Owner(t) = r.conn /\ ~isInitiatorID(r.id)
    /\ tpId' = [tpId EXCEPT ![t] = r.id]
    /\ tpState' = [tpState EXCEPT ![t] = IF r.conn \in connected THEN "open" ELSE "closed"]
    /\ requests' = IF r.conn \in connected
                   THEN (requests \ {r}) \cup {[r EXCEPT !.at = "setTp"]}
                   ELSE requests \ {r}
    /\ Send(r.conn, Frame("ACCEPT", r.id, t))
    /\ UNCHANGED <<scenario, connected, down, nextInitID, tps, acks, wrote, serverVars>>

\* The listener's accept queue is full: the transport is closed, and setTp puts
\* it into tps all the same.
AcceptMaxed(r) ==
    LET t == <<r.dial, "resp">> IN
    /\ r \in requests /\ r.at = "introduce" /\ r.conn \in connected
    /\ Owner(t) = r.conn /\ ~isInitiatorID(r.id)
    /\ tpId' = [tpId EXCEPT ![t] = r.id]
    /\ tpState' = [tpState EXCEPT ![t] = "closed"]
    /\ tps' = [tps EXCEPT ![r.conn][r.id] = None]
    /\ requests' = (requests \ {r}) \cup {[r EXCEPT !.at = "setTp"]}
    /\ Send(r.conn, Frame("CLOSE", r.id, t))
    /\ UNCHANGED <<scenario, connected, down, nextInitID, acks, wrote, serverVars>>

\* The listener is closed: handleRequestFrame returns ErrClientClosed, for which
\* Serve closes the whole connection.
ListenerClosed(r) ==
    /\ r \in requests /\ r.at = "introduce"
    /\ r.conn \in Droppable \cap connected
    /\ requests' = requests \ {r}
    /\ Disconnect(r.conn)
    /\ UNCHANGED <<scenario, up, nextInitID, tpId, acks, wrote, serverVars>>

\* A plausible bug: the accepted transport is not entered.
SetTpForgotten(r) ==
    /\ r \in requests /\ r.at = "setTp"
    /\ requests' = requests \ {r}
    /\ UNCHANGED <<scenario, connected, up, down, nextInitID, tps, tpState, tpId, acks, wrote, serverVars>>

SetTp(r) ==
    /\ r \in requests /\ r.at = "setTp"
    /\ requests' = requests \ {r}
    /\ tps' = [tps EXCEPT ![r.conn][r.id] = <<r.dial, "resp">>]
    /\ UNCHANGED <<scenario, connected, up, down, nextInitID, tpState, tpId, acks, wrote, serverVars>>

ClientStep(c) ==
    \/ \E t \in acks : Owner(t) = c /\ WriteAck(t)
    \/ RecvReply(c) \/ RecvFwd(c) \/ RecvClose(c) \/ RecvAckOrAccept(c)
    \/ RecvRequestInUse(c) \/ RecvRequest(c) \/ RecvIgnored(c)
    \/ \E r \in requests :
          /\ r.conn = c
          /\ \/ RejectRequest(r) \/ IntroduceTransport(r) \/ AcceptMaxed(r) \/ ListenerClosed(r)
             \/ SetTp(r)

-----------------------------------------------------------------------------
(* ServerConn                                                              *)

Goto(c, label) == at' = [at EXCEPT ![c] = label]

\* The frame that Serve has in hand stays at the head of up[c] until Serve is
\* done with it.
InFrame(c) == Head(up[c])

Reading(c) == at[c] = "read" /\ c \in open /\ up[c] # <<>>

DoneWith(c) == up' = [up EXCEPT ![c] = Tail(@)] /\ next' = [next EXCEPT ![c] = None]

\* A write to a client that is gone may be lost or may fail.
WriteOK(c, f) ==
    /\ c \in open
    /\ down' = IF c \in connected THEN [down EXCEPT ![c] = Append(@, f)] ELSE down
WriteFails(c) == c \notin open \cap connected

\* A plausible bug: the frame keeps its id.
RewriteNothing(f, n) == f

\* What NextConn.writeFrame writes: the frame under the id of the next connection.
Rewrite(f, n) == [f EXCEPT !.id = n[2]]

delChan(c, id) ==
    /\ nextConns' = [nextConns EXCEPT ![c][id] = None]
    /\ \/ WriteOK(c, Frame("CLOSE", id, None)) /\ Goto(c, "read")
       \/ WriteFails(c) /\ Goto(c, "cleanup") /\ UNCHANGED down

\* NextConn.writeFrame fails: the connection written to is closed.
NextFails(n) == WriteFails(n[1]) /\ open' = open \ {n[1]}

\* The client that a REQUEST frame asks for.
Responder(f) == plan[f.tp[1]][2]

\* handleRequest, up to addNext on the responder's connection.
RefuseRequest(c) ==
    LET f == InFrame(c)
        r == Responder(f)
        used == {i \in Ids : nextConns[r][i] # None} IN
    /\ Reading(c) /\ f.type = "REQUEST"
    /\ r \notin conns \/ FreeSteps(nextRespID[r], used) = {}
    /\ delChan(c, f.id) /\ DoneWith(c)
    /\ UNCHANGED <<scenario, connected, clientVars, conns, open, nextRespID>>

addNext(c) ==
    LET f == InFrame(c)
        r == Responder(f)
        used == {i \in Ids : nextConns[r][i] # None} IN
    /\ Reading(c) /\ f.type = "REQUEST"
    /\ r \in conns
    /\ \E id \in NextFree(nextRespID[r], used) :
          /\ nextConns' = [nextConns EXCEPT ![r][id] = <<c, f.id>>]
          /\ nextRespID' = [nextRespID EXCEPT ![r] = After(id)]
          /\ next' = [next EXCEPT ![c] = <<r, id>>]
    /\ Goto(c, "setNext")
    /\ UNCHANGED <<scenario, connected, up, down, clientVars, conns, open>>

setNext(c) ==
    /\ at[c] = "setNext"
    /\ nextConns' = [nextConns EXCEPT ![c][InFrame(c).id] = next[c]]
    /\ Goto(c, "forward")
    /\ UNCHANGED <<scenario, connected, up, down, clientVars, conns, open, nextRespID, next>>

\* The REQUEST frame goes to the responder, under the responder's id.
ForwardRequest(c) ==
    LET f == InFrame(c)
        n == next[c] IN
    /\ at[c] = "forward"
    /\ \/ WriteOK(n[1], Rewrite(f, n)) /\ Goto(c, "read") /\ UNCHANGED <<open, nextConns>>
       \/ NextFails(n) /\ delChan(c, f.id)
    /\ DoneWith(c)
    /\ UNCHANGED <<scenario, connected, clientVars, conns, nextRespID>>

\* forwardFrame, for a frame other than CLOSE that has a next connection.
ForwardFrame(c) ==
    LET f == InFrame(c)
        n == nextConns[c][f.id] IN
    /\ Reading(c) /\ f.type \notin {"REQUEST", "CLOSE"} /\ n # None
    /\ WriteOK(n[1], Rewrite(f, n))
    /\ DoneWith(c)
    /\ UNCHANGED <<scenario, connected, clientVars, conns, open, nextRespID, nextConns, at>>

\* The same for a CLOSE frame: the associations are deleted next.
ForwardClose(c) ==
    LET f == InFrame(c)
        n == nextConns[c][f.id] IN
    /\ Reading(c) /\ f.type = "CLOSE" /\ n # None
    /\ WriteOK(n[1], Rewrite(f, n))
    /\ next' = [next EXCEPT ![c] = n]
    /\ Goto(c, "delNext")
    /\ UNCHANGED <<scenario, connected, up, clientVars, conns, open, nextRespID, nextConns>>

\* forwardFrame fails: there is no next connection or the write to it failed.
ForwardFails(c) ==
    LET f == InFrame(c)
        n == nextConns[c][f.id] IN
    /\ Reading(c) /\ f.type # "REQUEST"
    /\ \/ n = None /\ UNCHANGED open
       \/ n # None /\ NextFails(n)
    /\ delChan(c, f.id) /\ DoneWith(c)
    /\ UNCHANGED <<scenario, connected, clientVars, conns, nextRespID>>

\* A plausible bug: this connection's association stays after a CLOSE frame.
delNextKeeps(c) ==
    /\ at[c] = "delNext"
    /\ Goto(c, "delPeer")
    /\ UNCHANGED <<scenario, connected, up, down, clientVars, conns, open, nextRespID, nextConns, next>>

delNext(c) ==
    /\ at[c] = "delNext"
    /\ nextConns' = [nextConns EXCEPT ![c][InFrame(c).id] = None]
    /\ Goto(c, "delPeer")
    /\ UNCHANGED <<scenario, connected, up, down, clientVars, conns, open, nextRespID, next>>

\* A plausible bug: the other connection's association stays.
delNextOfPeerKeeps(c) ==
    /\ at[c] = "delPeer"
    /\ DoneWith(c) /\ Goto(c, "read")
    /\ UNCHANGED <<scenario, connected, down, clientVars, conns, open, nextRespID, nextConns>>

delNextOfPeer(c) ==
    /\ at[c] = "delPeer"
    /\ nextConns' = [nextConns EXCEPT ![next[c][1]][next[c][2]] = None]
    /\ DoneWith(c) /\ Goto(c, "read")
    /\ UNCHANGED <<scenario, connected, down, clientVars, conns, open, nextRespID>>

\* The connection is gone; the frames left in it may be lost.
ReadFails(c) ==
    /\ at[c] = "read" /\ c \notin open \cap connected
    /\ Goto(c, "cleanup")
    /\ UNCHANGED <<scenario, connected, up, down, clientVars, conns, open, nextRespID, nextConns, next>>

\* A plausible bug: Serve returns without telling the peers.
SendClosesSkipped(c) ==
    /\ at[c] = "cleanup"
    /\ Goto(c, "closeConn")
    /\ UNCHANGED <<scenario, connected, up, down, clientVars, conns, open, nextRespID, nextConns, next>>

\* The orders in which the keys S of a map can be met.
Orders(S) ==
    {o \in UNION {[1 .. n -> S] : n \in 0 .. IdMod} :
        \A i \in S : Cardinality({k \in DOMAIN o : o[k] = i}) = 1}

\* The deferred function of Serve: under mx, a CLOSE frame to every next
\* connection (a failed write closes that connection) ...
SendCloses(c) ==
    LET to(d) == {i \in Ids : nextConns[c][i] # None /\ nextConns[c][i][1] = d}
        closes(o) == [k \in DOMAIN o |-> Frame("CLOSE", nextConns[c][o[k]][2], None)] IN
    /\ at[c] = "cleanup"
    /\ \E order \in [Clients -> UNION {Orders(to(d)) : d \in Clients}] :
          /\ \A d \in Clients : order[d] \in Orders(to(d))
          /\ down' = [d \in Clients |-> IF d \in open \cap connected
                                       THEN down[d] \o closes(order[d]) ELSE down[d]]
    /\ \E lost \in SUBSET {d \in Clients \ (open \cap connected) : to(d) # {}} : open' = open \ lost
    /\ Goto(c, "closeConn")
    /\ UNCHANGED <<scenario, connected, up, clientVars, conns, nextRespID, nextConns, next>>

\* ... then the connection is closed ...
CloseConn(c) ==
    /\ at[c] = "closeConn"
    /\ open' = open \ {c}
    /\ Goto(c, "delConn")
    /\ UNCHANGED <<scenario, connected, up, down, clientVars, conns, nextRespID, nextConns, next>>

\* ... and Server.Serve deletes it from conns.
delConn(c) ==
    /\ at[c] = "delConn"
    /\ conns' = conns \ {c}
    /\ up' = [up EXCEPT ![c] = <<>>]
    /\ Goto(c, "gone")
    /\ UNCHANGED <<scenario, connected, down, clientVars, open, nextRespID, nextConns, next>>

ServerStep(c) ==
    \/ RefuseRequest(c) \/ addNext(c)
    \/ ForwardFrame(c) \/ ForwardClose(c) \/ ForwardFails(c)
    \/ setNext(c) \/ ForwardRequest(c) \/ delNext(c) \/ delNextOfPeer(c)
    \/ ReadFails(c) \/ SendCloses(c) \/ CloseConn(c) \/ delConn(c)

-----------------------------------------------------------------------------

\* Nothing is in flight and no goroutine has work left.
Quiet ==
    /\ \A c \in Clients : down[c] = <<>> /\ (at[c] = "gone" \/ (at[c] = "read" /\ up[c] = <<>> /\ c \in connected))
    /\ requests = {} /\ acks = {}

Idle == Quiet /\ (\A t \in Tps : tpState[t] \notin {"dialing", "open"}) /\ UNCHANGED vars

Next ==
    \/ \E d \in Dials : DialTransport(d)
    \/ \E t \in Tps : Close(t) \/ Write(t)
    \/ \E c \in Clients : LoseConn(c) \/ ClientStep(c) \/ ServerStep(c)
    \/ Idle

\* Goroutines run and the network delivers; users dial, write and close, and
\* connections are lost, or not.
Fairness == \A c \in Clients : WF_vars(ClientStep(c)) /\ WF_vars(ServerStep(c))

Spec == Init /\ [][Next]_vars /\ Fairness
-----------------------------------------------------------------------------
(* Properties                                                              *)

Frames == [type : {"REQUEST", "ACCEPT", "FWD", "ACK", "CLOSE"}, id : Ids, tp : Tps \cup {None}]

\* Every map, queue and goroutine of clients and server is well formed, and a
\* server goroutine that is past reading a frame has that frame in hand.
TypeOK ==
    /\ scenario \in Scenarios
    /\ connected \subseteq Clients /\ conns \subseteq Clients /\ open \subseteq Clients
    /\ up \in [Clients -> Seq(Frames)] /\ down \in [Clients -> Seq(Frames)]
    /\ nextInitID \in [Clients -> Ids] /\ nextRespID \in [Clients -> Ids]
    /\ tps \in [Clients -> [Ids -> Tps \cup {None}]]
    /\ tpState \in [Tps -> {"none", "dialing", "open", "closed"}]
    /\ tpId \in [Tps -> Ids]
    /\ requests \subseteq [conn : Clients, id : Ids, dial : Dials, at : {"introduce", "setTp"}]
    /\ acks \subseteq Tps /\ wrote \subseteq Tps
    /\ nextConns \in [Clients -> [Ids -> (Clients \X Ids) \cup {None}]]
    /\ next \in [Clients -> (Clients \X Ids) \cup {None}]
    /\ at \in [Clients -> {"read", "setNext", "forward", "delNext", "delPeer",
                           "cleanup", "closeConn", "delConn", "gone"}]
    /\ \A c \in Clients : at[c] \in {"setNext", "forward", "delNext", "delPeer"}
                          => up[c] # <<>> /\ next[c] # None

\* A frame that a transport sent, and that a client is about to hand to one of
\* its transports by the id in the header, belongs to that transport: it comes
\* from the other end of the same dial (forwardFrame rewrites ids hop by hop).
NoCrossTalk ==
    \A c \in Clients : \A k \in DOMAIN down[c] :
        LET f == down[c][k] IN
        f.tp # None /\ Live(TpAt(c, f.id)) => TpAt(c, f.id) = Peer(f.tp)

\* No client makes or gets more dials than it has ids: none comes back while
\* something of the dial that had it before may be under way.
IdsNotReused ==
    \A c \in Clients, side \in {1, 2} :
        Cardinality({d \in DOMAIN plan : plan[d][side] = c}) <= IdMod \div 2

\* The associations of two connections agree: what one leads to leads back,
\* unless the goroutine of the other is between its two updates (addNext and
\* setNext, delNext and delNext) or the connection has been lost.  (When an id
\* comes back too early, delNext can hit the association of the next dial.)
RoutesPaired ==
    IdsNotReused => \A c \in connected, i \in Ids :
        LET n == nextConns[c][i] IN
        n # None =>
            \/ nextConns[n[1]][n[2]] = <<c, i>>
            \/ at[n[1]] \in {"setNext", "delPeer"} /\ next[n[1]] = <<c, i>>

\* Once nothing is in flight, an accepted transport that its initiator still
\* holds open is open and registered at the responder too, and the server
\* still has its association: nobody is left talking to nobody, as long as ids
\* do not come back.
OpenMeansServed ==
    IdsNotReused /\ Quiet => \A d \in Dials :
        LET i == <<d, "init">>  r == <<d, "resp">> IN
        tpState[i] = "open" =>
            /\ tpState[r] = "open" /\ tps[Owner(r)][tpId[r]] = r
            /\ nextConns[Owner(i)][tpId[i]] = <<Owner(r), tpId[r]>>

\* Once nothing is in flight, an association between two live connections
\* belongs to a dial whose initiator still holds its transport: associations
\* are not leaked while their connections live.
RoutesReclaimed ==
    Quiet => \A c \in connected, i \in Ids :
        LET n == nextConns[c][i] IN
        n # None /\ n[1] \in connected =>
            \E d \in Dials :
                /\ tpState[<<d, "init">>] \in {"dialing", "open"}
                /\ <<Owner(<<d, "init">>), tpId[<<d, "init">>]>> \in {<<c, i>>, n}

\* Clients and server do not answer each other's CLOSE frames for ever: after
\* the last dial, write and close, the network falls silent.
FramesDrain == <>[]Quiet

\* A dial ends, with an open transport or an error and without help from its
\* context, unless the responder loses its connection: a request that comes when
\* the server has sent the CLOSE frames of that connection is not answered.  Nor
\* is one whose association is deleted for a dial that had the id before.
DialResolves ==
    \A d \in Dials :
        LET t == <<d, "init">> IN
        (IdsNotReused /\ tpState[t] = "dialing") ~> (tpState[t] # "dialing" \/ Owner(Peer(t)) \notin connected)

\* A FWD frame that reaches the client of an open responder finds its transport
\* registered, so that it is met with an ACK frame, unless the goroutine that
\* accepted the request has still to run setTp.
FwdFindsTransport ==
    \A c \in connected :
        LET f == Head(down[c])  r == Peer(f.tp) IN
        down[c] # <<>> /\ f.type = "FWD" /\ f.tp[2] = "init" /\ tpState[r] = "open" =>
            \/ Live(TpAt(c, f.id))
            \/ \E q \in requests : q.at = "setTp" /\ q.dial = r[1]

=============================================================================
