------------------------------ MODULE Sessions -------------------------------
(***************************************************************************)
(* The connections of one client to one server: findOrConnectToServer with *)
(* its reconnecting goroutine, setConn, delConn and Close (src/client.go), *)
(* and the accept loop, setConn, delConn and Close of Server               *)
(* (src/server.go).  Connections are numbered in the order of their dials, *)
(* which is the order the server accepts them in.                          *)
(*                                                                         *)
(* Threads are the callers of Dial or InitiateServerConnections and, for   *)
(* each connection the client set up, the goroutine that serves it and     *)
(* then reconnects (its "keeper", named by the connection).                *)
(***************************************************************************)
EXTENDS Integers, FiniteSets

CONSTANTS
    Callers,
    Cancellable,  \* the callers whose context may be cancelled
    MaxConns,     \* bound: the number of connections
    Scenarios,    \* who calls and how many faults there may be (fields callers and
                  \* faults): connections or dials that the network breaks, restarts
                  \* of the server, requests of others that overtake the OK frame
    None

Conns == 1 .. MaxConns
Threads == Callers \cup Conns

ASSUME SessionsAssumption ==
    /\ MaxConns \in Nat
    /\ \A s \in Scenarios : s.callers \subseteq Callers /\ s.faults \in Nat
    /\ Cancellable \subseteq Callers
    /\ Callers \cap Conns = {} /\ None \notin Threads

VARIABLES
    at,        \* where each thread is
    mine,      \* the connection that a thread is setting up
    root,      \* root[k]: the caller whose context the keeper of k was given
    cancelled, \* the callers whose context is done
    cConn,     \* Client.conns[server]
    closing,   \* Client.Close: "no", "done closed" or "over"
    listed,    \* the client's discovery entry names the server
    stale,     \* the last update of that entry failed
    link,      \* the connections themselves: "none", "up" or "down"
    first,     \* the first frame the server wrote to a connection
    serverUp,  \* the server listens
    toDo,      \* what follows the closing of the listener: Close is to empty the
               \* map ("reset"), the accept loop is to notice and return ("return")
    sConn,     \* Server.conns[client]
    sAt,       \* where the server is with each connection
    faults     \* how many more faults there may be

clientVars == <<at, mine, root, cancelled, cConn, closing, listed, stale>>
serverVars == <<serverUp, toDo, sConn, sAt>>
vars == <<clientVars, serverVars, link, first, faults>>

Init ==
    /\ \E s \in Scenarios :
          /\ at = [p \in Threads |-> IF p \in s.callers THEN "idle" ELSE "none"]
          /\ faults = s.faults
    /\ mine = [p \in Threads |-> None]
    /\ root = [k \in Conns |-> None]
    /\ cancelled = {} /\ cConn = None /\ closing = "no"
    /\ listed = FALSE /\ stale = FALSE
    /\ link = [k \in Conns |-> "none"] /\ first = [k \in Conns |-> None]
    /\ serverUp = TRUE /\ toDo = {} /\ sConn = None /\ sAt = [k \in Conns |-> "none"]

Fault == faults > 0 /\ faults' = faults - 1

Goto(p, l) == at' = [at EXCEPT ![p] = l]

\* c.done or the context of the keeper of k is done.
Stopped(k) == closing # "no" \/ root[k] \in cancelled

-----------------------------------------------------------------------------
(* Client                                                                  *)

\* A plausible bug: the entry is not updated.
UpdateDiscEntryForgotten == UNCHANGED <<listed, stale>>

\* updateDiscEntry, with the connections as they will be; its failure is only
\* logged.
UpdateDiscEntry ==
    \/ listed' = (cConn' # None) /\ stale' = FALSE
    \/ stale' = TRUE /\ UNCHANGED listed

\* Dial looks up the remote client's entry, InitiateServerConnections the servers,
\* until it finds some; then both call findOrConnectToServer.
Call(p) ==
    /\ at[p] = "idle"
    /\ Goto(p, "find")
    /\ UNCHANGED <<mine, root, cancelled, cConn, closing, listed, stale, serverVars,
                   link, first, faults>>

\* Dial gives up when its lookup fails, and both do when the context is done.
CallFails(p) ==
    /\ at[p] = "idle"
    /\ (p \in cancelled /\ UNCHANGED faults) \/ Fault
    /\ Goto(p, "end")
    /\ UNCHANGED <<mine, root, cancelled, cConn, closing, listed, stale, serverVars, link, first>>

Cancel(p) ==
    /\ p \in Cancellable \ cancelled
    /\ cancelled' = cancelled \cup {p}
    /\ UNCHANGED <<at, mine, root, cConn, closing, listed, stale, serverVars, link, first, faults>>

\* findOrConnectToServer: getConn
Find(p) ==
    /\ at[p] = "find"
    /\ Goto(p, IF cConn # None THEN "end" ELSE "dial")
    /\ UNCHANGED <<mine, root, cancelled, cConn, closing, listed, stale, serverVars,
                   link, first, faults>>

\* A plausible bug: a keeper gives up.
FailGivesUp(p) == Goto(p, "end") /\ mine' = [mine EXCEPT ![p] = None]

\* An error ends a call; a keeper waits and tries again.
Fail(p) == Goto(p, IF p \in Callers THEN "end" ELSE "wait") /\ mine' = [mine EXCEPT ![p] = None]

\* net.Dial and the client's part of the noise handshake; the accept loop does its
\* part with one connection at a time
DialServer(p) ==
    /\ at[p] = "dial" /\ serverUp /\ \A j \in Conns : sAt[j] # "accept"
    /\ \E k \in Conns :
          /\ link[k] = "none" /\ \A j \in 1 .. k - 1 : link[j] # "none"
          /\ link' = [link EXCEPT ![k] = "up"]
          /\ sAt' = [sAt EXCEPT ![k] = "accept"]
          /\ mine' = [mine EXCEPT ![p] = k]
    /\ Goto(p, "readOK")
    /\ UNCHANGED <<root, cancelled, cConn, closing, listed, stale, serverUp, toDo, sConn, first, faults>>

\* The lookup of the server's entry, the dial or the handshake fails: because the
\* server is down, or because something was lost on the way.
DialFails(p) ==
    /\ at[p] = "dial"
    /\ (~serverUp /\ UNCHANGED faults) \/ Fault
    /\ Fail(p)
    /\ UNCHANGED <<root, cancelled, cConn, closing, listed, stale, serverVars, link, first>>

\* readOK: the first frame must be OK.
ReadOK(p) ==
    /\ at[p] = "readOK" /\ first[mine[p]] = "OK"
    /\ Goto(p, "setConn")
    /\ UNCHANGED <<mine, root, cancelled, cConn, closing, listed, stale, serverVars,
                   link, first, faults>>

\* The failed connection is dropped without being closed.
ReadOKFails(p) ==
    /\ at[p] = "readOK"
    /\ first[mine[p]] = "REQUEST" \/ link[mine[p]] = "down"
    /\ Fail(p)
    /\ UNCHANGED <<root, cancelled, cConn, closing, listed, stale, serverVars, link, first, faults>>

\* The runtime finalizes a net.Conn that nothing refers to any more, on the client or
\* on the server.
Finalize(k) ==
    /\ link[k] = "up"
    /\ (at[k] = "none" /\ \A p \in Threads : mine[p] # k) \/ sAt[k] = "gone"
    /\ link' = [link EXCEPT ![k] = "down"]
    /\ UNCHANGED <<clientVars, serverVars, first, faults>>

\* setConn, and the goroutine is started
SetConn(p) ==
    /\ at[p] = "setConn"
    /\ cConn' = mine[p]
    /\ UpdateDiscEntry
    /\ at' = [at EXCEPT ![p] = "end", ![mine[p]] = "serve"]
    /\ root' = [root EXCEPT ![mine[p]] = IF p \in Callers THEN p ELSE root[p]]
    /\ mine' = [mine EXCEPT ![p] = None]
    /\ UNCHANGED <<cancelled, closing, serverVars, link, first, faults>>

ServeReturns(k) ==
    /\ at[k] = "serve" /\ link[k] = "down"
    /\ Goto(k, "delConn")
    /\ UNCHANGED <<mine, root, cancelled, cConn, closing, listed, stale, serverVars,
                   link, first, faults>>

\* A plausible bug: the broken connection stays in the map.
DelConnSkipped(k) ==
    /\ at[k] = "delConn"
    /\ Goto(k, "wait")
    /\ UNCHANGED <<mine, root, cancelled, cConn, closing, listed, stale, serverVars,
                   link, first, faults>>

\* delConn: whatever connection the map holds for this server
DelConn(k) ==
    /\ at[k] = "delConn"
    /\ cConn' = None
    /\ UpdateDiscEntry
    /\ Goto(k, "wait")
    /\ UNCHANGED <<mine, root, cancelled, closing, serverVars, link, first, faults>>

\* The select of the reconnect logic
Reconnect(k) ==
    /\ at[k] = "wait" /\ ~Stopped(k)
    /\ Goto(k, "find")
    /\ UNCHANGED <<mine, root, cancelled, cConn, closing, listed, stale, serverVars,
                   link, first, faults>>

\* A plausible bug: only the context ends the retries.
StopReconnectingOnCtx(k) ==
    /\ at[k] = "wait" /\ root[k] \in cancelled
    /\ Goto(k, "end")
    /\ UNCHANGED <<mine, root, cancelled, cConn, closing, listed, stale, serverVars,
                   link, first, faults>>

StopReconnecting(k) ==
    /\ at[k] = "wait" /\ Stopped(k)
    /\ Goto(k, "end")
    /\ UNCHANGED <<mine, root, cancelled, cConn, closing, listed, stale, serverVars,
                   link, first, faults>>

ConnectStep(p) ==
    Find(p) \/ DialServer(p) \/ DialFails(p) \/ ReadOK(p) \/ ReadOKFails(p) \/ SetConn(p)

KeeperStep(k) == ServeReturns(k) \/ DelConn(k) \/ Reconnect(k) \/ StopReconnecting(k)

\* Client.Close: close(c.done), then the connections under mx
CloseDone ==
    /\ closing = "no"
    /\ closing' = "done closed"
    /\ UNCHANGED <<at, mine, root, cancelled, cConn, listed, stale, serverVars, link, first, faults>>

CloseConns ==
    /\ closing = "done closed"
    /\ closing' = "over"
    /\ link' = [k \in Conns |-> IF k = cConn THEN "down" ELSE link[k]]
    /\ cConn' = None
    /\ UNCHANGED <<at, mine, root, cancelled, listed, stale, serverVars, first, faults>>

-----------------------------------------------------------------------------
(* Server                                                                  *)

\* lis.Accept, setConn, and the goroutine is started; with the last connection this
\* may be after Close has emptied the map
Accept(k) ==
    /\ sAt[k] = "accept"
    /\ sConn' = k
    /\ sAt' = [sAt EXCEPT ![k] = "writeOK"]
    /\ UNCHANGED <<clientVars, serverUp, toDo, link, first, faults>>

\* The handshake fails for the server only, which drops the connection without
\* closing it.
AcceptFails(k) ==
    /\ sAt[k] = "accept"
    /\ (link[k] = "down" /\ UNCHANGED faults) \/ Fault
    /\ sAt' = [sAt EXCEPT ![k] = "gone"]
    /\ UNCHANGED <<clientVars, serverUp, toDo, sConn, link, first>>

FirstFrame(k, type) == first' = [first EXCEPT ![k] = IF @ = None THEN type ELSE @]

WriteOK(k) ==
    /\ sAt[k] = "writeOK" /\ link[k] = "up"
    /\ FirstFrame(k, "OK")
    /\ sAt' = [sAt EXCEPT ![k] = "serve"]
    /\ UNCHANGED <<clientVars, serverUp, toDo, sConn, link, faults>>

\* handleRequest of another client's connection finds this one.
PeerRequest(k) ==
    /\ sConn = k /\ first[k] = None /\ Fault
    /\ FirstFrame(k, "REQUEST")
    /\ UNCHANGED <<clientVars, serverVars, link>>

\* ServerConn.Serve fails to write OK or to read, and closes the connection.
ServerConnEnds(k) ==
    /\ sAt[k] \in {"writeOK", "serve"} /\ link[k] = "down"
    /\ sAt' = [sAt EXCEPT ![k] = "delConn"]
    /\ UNCHANGED <<clientVars, serverUp, toDo, sConn, link, first, faults>>

\* A plausible bug: the dead connection stays registered.
ServerDelConnSkipped(k) ==
    /\ sAt[k] = "delConn"
    /\ sAt' = [sAt EXCEPT ![k] = "gone"]
    /\ UNCHANGED <<clientVars, serverUp, toDo, sConn, link, first, faults>>

\* delConn: whatever connection the map holds for this client
ServerDelConn(k) ==
    /\ sAt[k] = "delConn"
    /\ sConn' = None
    /\ sAt' = [sAt EXCEPT ![k] = "gone"]
    /\ UNCHANGED <<clientVars, serverUp, toDo, link, first, faults>>

\* Server.close: the listener is closed, then the map emptied.
ServerClose ==
    /\ serverUp /\ Fault
    /\ serverUp' = FALSE /\ toDo' = {"reset", "return"}
    /\ UNCHANGED <<clientVars, sConn, sAt, link, first>>

EmptyConns ==
    /\ "reset" \in toDo /\ toDo' = toDo \ {"reset"}
    /\ sConn' = None
    /\ UNCHANGED <<clientVars, serverUp, sAt, link, first, faults>>

\* lis.Accept fails, when the accept loop comes back to it, and Serve returns.
ServerServeReturns ==
    /\ "return" \in toDo /\ \A k \in Conns : sAt[k] # "accept"
    /\ toDo' = toDo \ {"return"}
    /\ UNCHANGED <<clientVars, serverUp, sConn, sAt, link, first, faults>>

\* That cancels the context of every connection, whose goroutine closes it.
CtxDone(k) ==
    /\ ~serverUp /\ "return" \notin toDo
    /\ sAt[k] \in {"writeOK", "serve"} /\ link[k] = "up"
    /\ link' = [link EXCEPT ![k] = "down"]
    /\ UNCHANGED <<clientVars, serverVars, first, faults>>

ServerStep ==
    \/ \E k \in Conns : \/ Accept(k) \/ AcceptFails(k) \/ WriteOK(k)
                        \/ ServerConnEnds(k) \/ ServerDelConn(k) \/ CtxDone(k)
    \/ EmptyConns \/ ServerServeReturns

\* Close waits for the connections' goroutines; then a new server is started. If its
\* entry cannot be updated in time, Serve returns and it has to be started again.
ServerStart ==
    /\ ~serverUp /\ toDo = {} /\ \A k \in Conns : sAt[k] \in {"none", "gone"}
    /\ (serverUp' = TRUE /\ UNCHANGED faults) \/ (Fault /\ UNCHANGED serverUp)
    /\ UNCHANGED <<clientVars, toDo, sConn, sAt, link, first>>

LoseLink(k) ==
    /\ link[k] = "up" /\ Fault
    /\ link' = [link EXCEPT ![k] = "down"]
    /\ UNCHANGED <<clientVars, serverVars, first>>

-----------------------------------------------------------------------------

\* No thread of the client is on its way and the server has caught up.
Quiet ==
    /\ \A p \in Threads : at[p] \in {"none", "idle", "end"} \/ (at[p] = "serve" /\ link[p] = "up")
    /\ \A k \in Conns : sAt[k] \in {"none", "gone"} \/ (sAt[k] = "serve" /\ link[k] = "up" /\ serverUp)
    /\ closing # "done closed" /\ toDo = {}

\* The bound on connections keeps a thread at its dial.
AtBound ==
    /\ \A k \in Conns : link[k] # "none"
    /\ \E p \in Threads : at[p] = "dial"

Idle == (Quiet \/ AtBound) /\ UNCHANGED vars

Next ==
    \/ \E p \in Callers : Call(p) \/ CallFails(p) \/ Cancel(p)
    \/ \E p \in Threads : ConnectStep(p)
    \/ CloseDone \/ CloseConns
    \/ ServerStep \/ ServerClose \/ ServerStart
    \/ \E k \in Conns : KeeperStep(k) \/ PeerRequest(k) \/ LoseLink(k) \/ Finalize(k)
    \/ Idle

\* Goroutines run, the reconnect timer fires, a closed server is started again
\* and garbage is collected; nobody has to call, cancel, close or lose anything.
Fairness ==
    /\ \A p \in Threads : WF_vars(ConnectStep(p))
    /\ WF_vars(CloseConns) /\ WF_vars(ServerStep) /\ WF_vars(ServerStart)
    /\ \A k \in Conns : WF_vars(KeeperStep(k)) /\ WF_vars(Finalize(k))

Spec == Init /\ [][Next]_vars /\ Fairness
-----------------------------------------------------------------------------
(* Properties                                                              *)

ThreadType ==
    /\ at \in [Threads -> {"none", "idle", "find", "dial", "readOK", "setConn", "end",
                           "serve", "delConn", "wait"}]
    /\ mine \in [Threads -> Conns \cup {None}]
    /\ \A p \in Threads : at[p] \in {"readOK", "setConn"} <=> mine[p] # None

ConnType ==
    /\ link \in [Conns -> {"none", "up", "down"}]
    /\ first \in [Conns -> {None, "OK", "REQUEST"}]
    /\ root \in [Conns -> Callers \cup {None}]
    /\ sAt \in [Conns -> {"none", "accept", "writeOK", "serve", "delConn", "gone"}]
    /\ cConn \in Conns \cup {None} /\ sConn \in Conns \cup {None}

FlagType ==
    /\ cancelled \subseteq Callers /\ closing \in {"no", "done closed", "over"}
    /\ listed \in BOOLEAN /\ stale \in BOOLEAN
    /\ serverUp \in BOOLEAN /\ toDo \subseteq {"reset", "return"}
    /\ faults \in Nat

\* Threads, maps and connections are well formed, and exactly the threads that
\* are past the dial have a connection in hand.
TypeOK == ThreadType /\ ConnType /\ FlagType

\* The connection that Dial would use has a goroutine that will take it out of
\* the map when it breaks: the client never keeps a dead connection.
CachedConnIsServed == cConn # None => at[cConn] \in {"serve", "delConn"}

\* The connection that REQUEST frames for this client are written to is still
\* in the hands of a goroutine of the server.
RegisteredConnIsServed == sConn # None => sAt[sConn] \in {"writeOK", "serve", "delConn"}

\* When everything has settled, the discovery entry names the server if and
\* only if the client has a connection to it, unless the last update failed.
EntryMatchesConns == Quiet /\ ~stale => (listed <=> cConn # None)

\* A lost connection is replaced by itself, whoever closes the server for a
\* while, until the client is closed or the context is done (or the model runs
\* out of connections).
LostConnReplaced ==
    \A k \in Conns : (at[k] = "wait") ~> (cConn # None \/ Stopped(k) \/ AtBound)

\* After Close, no goroutine goes on reconnecting.
CloseStopsReconnecting ==
    \A k \in Conns : (closing = "over" /\ at[k] = "wait") ~> (at[k] = "end")

\* Once everything has settled, a client that is connected to the server can be
\* reached through it: one of its connections is the registered one.
ConnectedIsReachable == Quiet /\ cConn # None => sConn # None

=============================================================================
