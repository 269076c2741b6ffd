--------------------------- MODULE SessionsProofs ----------------------------
(***************************************************************************)
(* The two connection maps never hold a connection that no goroutine       *)
(* looks after, for any number of callers, connections and faults, and     *)
(* the discovery entry follows the client's map.                           *)
(***************************************************************************)
EXTENDS Sessions, TLAPS

\* A connection that is being set up has no goroutine yet, and one thread sets
\* it up.
OneKeeperPerConn ==
    \A p \in Threads : mine[p] # None =>
        /\ link[mine[p]] # "none" /\ at[mine[p]] = "none"
        /\ \A q \in Threads : mine[p] = mine[q] => p = q

\* A connection that was not dialled is unknown on both sides.
UndialledUnknown ==
    \A k \in Conns : link[k] = "none" => at[k] = "none" /\ sAt[k] = "none"

\* The discovery entry agrees with the client's map, or Close has emptied the map
\* and the goroutine of a connection is still to call delConn.
EntryFollows ==
    ~stale => \/ listed <=> cConn # None
              \/ /\ cConn = None
                 /\ \E k \in Conns : at[k] = "delConn" \/ (at[k] = "serve" /\ link[k] = "down")

SInv ==
    /\ TypeOK
    /\ OneKeeperPerConn
    /\ UndialledUnknown
    /\ CachedConnIsServed
    /\ RegisteredConnIsServed
    /\ EntryFollows

\* The initial states satisfy the invariant.
LEMMA SInvInit == Init => SInv
  <1> SUFFICES ASSUME Init PROVE SInv
    BY Zenon
  <1>1. ThreadType
    BY SessionsAssumption, Zenon DEF Init, ThreadType, Threads
  <1>2. ConnType
    BY SessionsAssumption, Zenon DEF Init, ConnType
  <1>3. FlagType
    BY SessionsAssumption, Zenon DEF Init, FlagType
  <1>4. OneKeeperPerConn /\ UndialledUnknown
    BY SessionsAssumption, Zenon DEF Init, OneKeeperPerConn, UndialledUnknown, Threads
  <1>5. CachedConnIsServed /\ RegisteredConnIsServed
    BY Zenon DEF Init, CachedConnIsServed, RegisteredConnIsServed
  <1>6. EntryFollows
    BY Zenon DEF Init, EntryFollows
  <1> QED
    BY <1>1, <1>2, <1>3, <1>4, <1>5, <1>6, Zenon DEF SInv, TypeOK

\* Every step keeps the types of the threads.
LEMMA ThreadTypeStep == SInv /\ [Next]_vars => ThreadType'
  <1> SUFFICES ASSUME SInv, [Next]_vars PROVE ThreadType'
    BY Zenon
  <1>1. CASE UNCHANGED <<at, mine>>
    BY <1>1, Zenon DEF SInv, TypeOK, ThreadType
  <1>2. ASSUME NEW p \in Callers, Call(p) PROVE ThreadType'
    BY <1>2, SessionsAssumption, Zenon
    DEF Call, SInv, TypeOK, ThreadType, OneKeeperPerConn, Threads, serverVars,
        Goto
  <1>3. ASSUME NEW p \in Threads, Find(p) PROVE ThreadType'
    BY <1>3, SessionsAssumption, Zenon
    DEF Find, SInv, TypeOK, ThreadType, OneKeeperPerConn, Threads, serverVars,
        Goto
  <1>4. ASSUME NEW p \in Threads, DialServer(p) PROVE ThreadType'
    BY <1>4, SessionsAssumption
    DEF DialServer, SInv, TypeOK, ThreadType, OneKeeperPerConn, Threads, Goto
  <1>5. ASSUME NEW p \in Threads, DialFails(p) PROVE ThreadType'
    BY <1>5, SessionsAssumption, Zenon
    DEF DialFails, SInv, TypeOK, ThreadType, OneKeeperPerConn, Threads, serverVars,
        Goto, Fail
  <1>6. ASSUME NEW p \in Threads, ReadOK(p) PROVE ThreadType'
    BY <1>6, SessionsAssumption, Zenon
    DEF ReadOK, SInv, TypeOK, ThreadType, OneKeeperPerConn, Threads, serverVars,
        Goto
  <1>7. ASSUME NEW p \in Threads, ReadOKFails(p) PROVE ThreadType'
    BY <1>7, SessionsAssumption, Zenon
    DEF ReadOKFails, SInv, TypeOK, ThreadType, OneKeeperPerConn, Threads, serverVars,
        Goto, Fail
  <1>8. ASSUME NEW p \in Threads, SetConn(p) PROVE ThreadType'
    BY <1>8, SessionsAssumption, Zenon
    DEF SetConn, SInv, TypeOK, ThreadType, OneKeeperPerConn, Threads, serverVars
  <1>9. ASSUME NEW k \in Conns, ServeReturns(k) PROVE ThreadType'
    BY <1>9, SessionsAssumption, Zenon
    DEF ServeReturns, SInv, TypeOK, ThreadType, OneKeeperPerConn, Threads, serverVars,
        Goto
  <1>10. ASSUME NEW k \in Conns, DelConn(k) PROVE ThreadType'
    BY <1>10, SessionsAssumption, Zenon
    DEF DelConn, SInv, TypeOK, ThreadType, OneKeeperPerConn, Threads, serverVars,
        Goto
  <1>11. ASSUME NEW k \in Conns, Reconnect(k) PROVE ThreadType'
    BY <1>11, SessionsAssumption, Zenon
    DEF Reconnect, SInv, TypeOK, ThreadType, OneKeeperPerConn, Threads, serverVars,
        Goto
  <1>12. ASSUME NEW k \in Conns, StopReconnecting(k) PROVE ThreadType'
    BY <1>12, SessionsAssumption, Zenon
    DEF StopReconnecting, SInv, TypeOK, ThreadType, OneKeeperPerConn, Threads,
        serverVars, Goto
  <1>13. ASSUME NEW p \in Callers, CallFails(p) PROVE ThreadType'
    BY <1>13, SessionsAssumption, Zenon
    DEF CallFails, SInv, TypeOK, ThreadType, OneKeeperPerConn, Threads, serverVars,
        Goto
  <1> QED
    BY <1>1, <1>2, <1>3, <1>4, <1>5, <1>6, <1>7, <1>8, <1>9, <1>10, <1>11, <1>12, <1>13, Zenon
    DEF Next, ConnectStep, KeeperStep, ServerStep, Idle, vars, clientVars, serverVars,
        Cancel, PeerRequest, LoseLink, Finalize, Accept, WriteOK,
        ServerConnEnds, ServerDelConn, CloseDone, CloseConns, ServerClose, ServerStart,
        AcceptFails, CtxDone, EmptyConns, ServerServeReturns

\* Every step keeps the types of the maps and connections.
LEMMA ConnTypeStep == SInv /\ [Next]_vars => ConnType'
  <1> SUFFICES ASSUME SInv, [Next]_vars PROVE ConnType'
    BY Zenon
  <1>1. CASE UNCHANGED <<link, first, root, sAt, cConn, sConn>>
    BY <1>1, Zenon DEF SInv, TypeOK, ConnType
  <1>2. ASSUME NEW p \in Threads, DialServer(p) PROVE ConnType'
    BY <1>2, SessionsAssumption
    DEF DialServer, SInv, TypeOK, ThreadType, ConnType, Threads
  <1>3. ASSUME NEW p \in Threads, SetConn(p) PROVE ConnType'
    BY <1>3, SessionsAssumption, Zenon
    DEF SetConn, SInv, TypeOK, ThreadType, ConnType, Threads, serverVars
  <1>4. ASSUME NEW k \in Conns, DelConn(k) PROVE ConnType'
    BY <1>4, SessionsAssumption, Zenon
    DEF DelConn, SInv, TypeOK, ThreadType, ConnType, Threads, serverVars
  <1>5. ASSUME NEW k \in Conns, PeerRequest(k) PROVE ConnType'
    BY <1>5, SessionsAssumption, Zenon
    DEF PeerRequest, SInv, TypeOK, ThreadType, ConnType, Threads, clientVars,
        serverVars, FirstFrame
  <1>6. ASSUME NEW k \in Conns, LoseLink(k) PROVE ConnType'
    BY <1>6, SessionsAssumption, Zenon
    DEF LoseLink, SInv, TypeOK, ThreadType, ConnType, Threads, clientVars, serverVars
  <1>7. ASSUME NEW k \in Conns, Finalize(k) PROVE ConnType'
    BY <1>7, SessionsAssumption, Zenon
    DEF Finalize, SInv, TypeOK, ThreadType, ConnType, Threads, clientVars, serverVars
  <1>8. ASSUME NEW k \in Conns, Accept(k) PROVE ConnType'
    BY <1>8, SessionsAssumption, Zenon
    DEF Accept, SInv, TypeOK, ThreadType, ConnType, Threads, clientVars
  <1>9. ASSUME NEW k \in Conns, WriteOK(k) PROVE ConnType'
    BY <1>9, SessionsAssumption, Zenon
    DEF WriteOK, SInv, TypeOK, ThreadType, ConnType, Threads, clientVars,
        FirstFrame
  <1>10. ASSUME NEW k \in Conns, ServerConnEnds(k) PROVE ConnType'
    BY <1>10, SessionsAssumption, Zenon
    DEF ServerConnEnds, SInv, TypeOK, ThreadType, ConnType, Threads, clientVars
  <1>11. ASSUME NEW k \in Conns, ServerDelConn(k) PROVE ConnType'
    BY <1>11, SessionsAssumption, Zenon
    DEF ServerDelConn, SInv, TypeOK, ThreadType, ConnType, Threads, clientVars
  <1>12. CASE CloseConns
    BY <1>12, SessionsAssumption, Zenon
    DEF CloseConns, SInv, TypeOK, ThreadType, ConnType, Threads, serverVars
  <1>13. ASSUME NEW k \in Conns, AcceptFails(k) PROVE ConnType'
    BY <1>13, SessionsAssumption, Zenon
    DEF AcceptFails, SInv, TypeOK, ThreadType, ConnType, Threads, clientVars, serverVars
  <1>14. ASSUME NEW k \in Conns, CtxDone(k) PROVE ConnType'
    BY <1>14, SessionsAssumption, Zenon
    DEF CtxDone, SInv, TypeOK, ThreadType, ConnType, Threads, clientVars, serverVars
  <1>15. CASE EmptyConns
    BY <1>15, SessionsAssumption, Zenon
    DEF EmptyConns, SInv, TypeOK, ThreadType, ConnType, Threads, clientVars, serverVars
  <1> QED
    BY <1>1, <1>2, <1>3, <1>4, <1>5, <1>6, <1>7, <1>8, <1>9, <1>10, <1>11, <1>12, <1>13, <1>14, <1>15, Zenon
    DEF Next, ConnectStep, KeeperStep, ServerStep, Idle, vars, clientVars, serverVars,
        Call, Cancel, Find, DialFails, ReadOK, ReadOKFails, ServeReturns,
        Reconnect, StopReconnecting, CloseDone, ServerStart, CallFails,
        ServerClose, ServerServeReturns

\* A fault leaves the number of faults to come a natural number.
LEMMA FaultType == ASSUME faults \in Nat, Fault \/ UNCHANGED faults PROVE faults' \in Nat
  BY DEF Fault

\* Every step keeps the types of flags and counters.
LEMMA FlagTypeStep == SInv /\ [Next]_vars => FlagType'
  <1> SUFFICES ASSUME SInv, [Next]_vars PROVE FlagType'
    BY Zenon
  <1>1. CASE UNCHANGED <<cancelled, closing, listed, stale, serverUp, toDo, faults>>
    BY <1>1, Zenon DEF SInv, TypeOK, FlagType
  <1>2. ASSUME NEW p \in Callers, Cancel(p) PROVE FlagType'
    BY <1>2, SessionsAssumption, Zenon
    DEF Cancel, SInv, TypeOK, FlagType, serverVars
  <1>3. ASSUME NEW p \in Threads, SetConn(p) PROVE FlagType'
    BY <1>3, SessionsAssumption, Zenon
    DEF SetConn, SInv, TypeOK, FlagType, serverVars, UpdateDiscEntry
  <1>4. ASSUME NEW k \in Conns, DelConn(k) PROVE FlagType'
    BY <1>4, SessionsAssumption, Zenon
    DEF DelConn, SInv, TypeOK, FlagType, serverVars, UpdateDiscEntry
  <1>5. ASSUME NEW k \in Conns, LoseLink(k) PROVE FlagType'
    <2>1. faults' \in Nat
      BY <1>5, FaultType, Zenon DEF LoseLink, SInv, TypeOK, FlagType
    <2> QED
      BY <1>5, <2>1, Zenon DEF LoseLink, SInv, TypeOK, FlagType, clientVars, serverVars
  <1>6. CASE CloseDone
    BY <1>6, SessionsAssumption, Zenon
    DEF CloseDone, SInv, TypeOK, FlagType, serverVars
  <1>7. CASE CloseConns
    BY <1>7, SessionsAssumption, Zenon
    DEF CloseConns, SInv, TypeOK, FlagType, serverVars
  <1>8. CASE ServerClose
    <2>1. faults' \in Nat
      BY <1>8, FaultType, Zenon DEF ServerClose, SInv, TypeOK, FlagType
    <2> QED
      BY <1>8, <2>1, Zenon DEF ServerClose, SInv, TypeOK, FlagType, clientVars
  <1>9. CASE ServerStart
    <2>1. faults' \in Nat
      BY <1>9, FaultType, Zenon DEF ServerStart, SInv, TypeOK, FlagType
    <2> QED
      BY <1>9, <2>1, Zenon DEF ServerStart, SInv, TypeOK, FlagType, clientVars
  <1>10. ASSUME NEW p \in Threads, DialFails(p) PROVE FlagType'
    <2>1. faults' \in Nat
      BY <1>10, FaultType, Zenon DEF DialFails, SInv, TypeOK, FlagType
    <2> QED
      BY <1>10, <2>1, Zenon DEF DialFails, SInv, TypeOK, FlagType, serverVars
  <1>11. ASSUME NEW k \in Conns, PeerRequest(k) PROVE FlagType'
    <2>1. faults' \in Nat
      BY <1>11, FaultType, Zenon DEF PeerRequest, SInv, TypeOK, FlagType
    <2> QED
      BY <1>11, <2>1, Zenon DEF PeerRequest, SInv, TypeOK, FlagType, clientVars, serverVars
  <1>12. ASSUME NEW p \in Callers, CallFails(p) PROVE FlagType'
    <2>1. faults' \in Nat
      BY <1>12, FaultType, Zenon DEF CallFails, SInv, TypeOK, FlagType
    <2> QED
      BY <1>12, <2>1, Zenon DEF CallFails, SInv, TypeOK, FlagType, clientVars, serverVars
  <1>13. ASSUME NEW k \in Conns, AcceptFails(k) PROVE FlagType'
    <2>1. faults' \in Nat
      BY <1>13, FaultType, Zenon DEF AcceptFails, SInv, TypeOK, FlagType
    <2> QED
      BY <1>13, <2>1, Zenon DEF AcceptFails, SInv, TypeOK, FlagType, clientVars, serverVars
  <1>14. CASE EmptyConns \/ ServerServeReturns
    BY <1>14, Zenon DEF EmptyConns, ServerServeReturns, SInv, TypeOK, FlagType, clientVars
  <1> QED
    BY <1>1, <1>2, <1>3, <1>4, <1>5, <1>6, <1>7, <1>8, <1>9, <1>10, <1>11, <1>12, <1>13, <1>14, Zenon
    DEF Next, ConnectStep, KeeperStep, ServerStep, Idle, vars, clientVars, serverVars,
        Call, Find, DialServer, ReadOK, ReadOKFails, ServeReturns,
        Reconnect, StopReconnecting, Finalize, Accept, WriteOK,
        ServerConnEnds, ServerDelConn, CtxDone

\* Every step keeps a connection in one pair of hands (findOrConnectToServer).
LEMMA OneKeeperStep == SInv /\ [Next]_vars => OneKeeperPerConn'
  <1> SUFFICES ASSUME SInv, [Next]_vars PROVE OneKeeperPerConn'
    BY Zenon
  <1>1. CASE UNCHANGED <<at, mine, link>>
    BY <1>1, Zenon DEF SInv, OneKeeperPerConn
  <1>2. ASSUME NEW p \in Callers, Call(p) PROVE OneKeeperPerConn'
    BY <1>2, SessionsAssumption
    DEF Call, SInv, TypeOK, ThreadType, ConnType, OneKeeperPerConn, UndialledUnknown,
        Threads, serverVars, Goto
  <1>3. ASSUME NEW p \in Threads, Find(p) PROVE OneKeeperPerConn'
    BY <1>3, SessionsAssumption
    DEF Find, SInv, TypeOK, ThreadType, ConnType, OneKeeperPerConn, UndialledUnknown,
        Threads, serverVars, Goto
  <1>4. ASSUME NEW p \in Threads, DialServer(p) PROVE OneKeeperPerConn'
    BY <1>4, SessionsAssumption
    DEF DialServer, SInv, TypeOK, ThreadType, ConnType, OneKeeperPerConn,
        UndialledUnknown, Threads, Goto
  <1>5. ASSUME NEW p \in Threads, DialFails(p) PROVE OneKeeperPerConn'
    BY <1>5, SessionsAssumption
    DEF DialFails, SInv, TypeOK, ThreadType, ConnType, OneKeeperPerConn,
        UndialledUnknown, Threads, serverVars, Goto, Fail
  <1>6. ASSUME NEW p \in Threads, ReadOK(p) PROVE OneKeeperPerConn'
    BY <1>6, SessionsAssumption
    DEF ReadOK, SInv, TypeOK, ThreadType, ConnType, OneKeeperPerConn, UndialledUnknown,
        Threads, serverVars, Goto
  <1>7. ASSUME NEW p \in Threads, ReadOKFails(p) PROVE OneKeeperPerConn'
    BY <1>7, SessionsAssumption
    DEF ReadOKFails, SInv, TypeOK, ThreadType, ConnType, OneKeeperPerConn,
        UndialledUnknown, Threads, serverVars, Goto, Fail
  <1>8. ASSUME NEW p \in Threads, SetConn(p) PROVE OneKeeperPerConn'
    BY <1>8, SessionsAssumption
    DEF SetConn, SInv, TypeOK, ThreadType, ConnType, OneKeeperPerConn, UndialledUnknown,
        Threads, serverVars
  <1>9. ASSUME NEW k \in Conns, ServeReturns(k) PROVE OneKeeperPerConn'
    BY <1>9, SessionsAssumption
    DEF ServeReturns, SInv, TypeOK, ThreadType, ConnType, OneKeeperPerConn,
        UndialledUnknown, Threads, serverVars, Goto
  <1>10. ASSUME NEW k \in Conns, DelConn(k) PROVE OneKeeperPerConn'
    BY <1>10, SessionsAssumption
    DEF DelConn, SInv, TypeOK, ThreadType, ConnType, OneKeeperPerConn, UndialledUnknown,
        Threads, serverVars, Goto
  <1>11. ASSUME NEW k \in Conns, Reconnect(k) PROVE OneKeeperPerConn'
    BY <1>11, SessionsAssumption
    DEF Reconnect, SInv, TypeOK, ThreadType, ConnType, OneKeeperPerConn,
        UndialledUnknown, Threads, serverVars, Goto
  <1>12. ASSUME NEW k \in Conns, StopReconnecting(k) PROVE OneKeeperPerConn'
    BY <1>12, SessionsAssumption
    DEF StopReconnecting, SInv, TypeOK, ThreadType, ConnType, OneKeeperPerConn,
        UndialledUnknown, Threads, serverVars, Goto
  <1>13. ASSUME NEW k \in Conns, LoseLink(k) PROVE OneKeeperPerConn'
    BY <1>13, SessionsAssumption
    DEF LoseLink, SInv, TypeOK, ThreadType, ConnType, OneKeeperPerConn,
        UndialledUnknown, Threads, clientVars, serverVars
  <1>14. ASSUME NEW k \in Conns, Finalize(k) PROVE OneKeeperPerConn'
    BY <1>14, SessionsAssumption
    DEF Finalize, SInv, TypeOK, ThreadType, ConnType, OneKeeperPerConn,
        UndialledUnknown, Threads, clientVars, serverVars
  <1>15. CASE CloseConns
    <2>1. \A k \in Conns : link[k] # "none" => link'[k] # "none"
      BY <1>15, Zenon DEF CloseConns
    <2>2. UNCHANGED <<at, mine>>
      BY <1>15, Zenon DEF CloseConns
    <2> QED
      BY <2>1, <2>2, Zenon DEF SInv, TypeOK, ThreadType, OneKeeperPerConn
  <1>16. ASSUME NEW k \in Conns, CtxDone(k) PROVE OneKeeperPerConn'
    BY <1>16, SessionsAssumption
    DEF CtxDone, SInv, TypeOK, ThreadType, ConnType, OneKeeperPerConn,
        UndialledUnknown, Threads, clientVars, serverVars
  <1>17. ASSUME NEW p \in Callers, CallFails(p) PROVE OneKeeperPerConn'
    BY <1>17, SessionsAssumption
    DEF CallFails, SInv, TypeOK, ThreadType, ConnType, OneKeeperPerConn, UndialledUnknown,
        Threads, serverVars, Goto
  <1> QED
    BY Zenon, <1>1, <1>2, <1>3, <1>4, <1>5, <1>6, <1>7, <1>8, <1>9, <1>10, <1>11, <1>12, <1>13,
       <1>14, <1>15, <1>16, <1>17
    DEF Next, ConnectStep, KeeperStep, ServerStep, Idle, vars, clientVars, serverVars,
        Cancel, PeerRequest, Accept, WriteOK, ServerConnEnds, ServerDelConn,
        CloseDone, ServerStart, AcceptFails, EmptyConns, ServerServeReturns, ServerClose

\* Every step leaves connections that were not dialled alone.
LEMMA UndialledStep == SInv /\ [Next]_vars => UndialledUnknown'
  <1> SUFFICES ASSUME SInv, [Next]_vars PROVE UndialledUnknown'
    BY Zenon
  <1>1. CASE UNCHANGED <<at, link, sAt>>
    BY <1>1, Zenon DEF SInv, UndialledUnknown
  <1>2. ASSUME NEW p \in Callers, Call(p) PROVE UndialledUnknown'
    BY <1>2, SessionsAssumption, Zenon
    DEF Call, SInv, TypeOK, ThreadType, ConnType, OneKeeperPerConn, UndialledUnknown,
        Threads, serverVars, Goto
  <1>3. ASSUME NEW p \in Threads, Find(p) PROVE UndialledUnknown'
    BY <1>3, SessionsAssumption, Zenon
    DEF Find, SInv, TypeOK, ThreadType, ConnType, OneKeeperPerConn, UndialledUnknown,
        Threads, serverVars, Goto
  <1>4. ASSUME NEW p \in Threads, DialServer(p) PROVE UndialledUnknown'
    BY <1>4, SessionsAssumption
    DEF DialServer, SInv, TypeOK, ThreadType, ConnType, OneKeeperPerConn,
        UndialledUnknown, Threads, Goto
  <1>5. ASSUME NEW p \in Threads, DialFails(p) PROVE UndialledUnknown'
    BY <1>5, SessionsAssumption, Zenon
    DEF DialFails, SInv, TypeOK, ThreadType, ConnType, OneKeeperPerConn,
        UndialledUnknown, Threads, serverVars, Goto, Fail
  <1>6. ASSUME NEW p \in Threads, ReadOK(p) PROVE UndialledUnknown'
    BY <1>6, SessionsAssumption, Zenon
    DEF ReadOK, SInv, TypeOK, ThreadType, ConnType, OneKeeperPerConn, UndialledUnknown,
        Threads, serverVars, Goto
  <1>7. ASSUME NEW p \in Threads, ReadOKFails(p) PROVE UndialledUnknown'
    BY <1>7, SessionsAssumption, Zenon
    DEF ReadOKFails, SInv, TypeOK, ThreadType, ConnType, OneKeeperPerConn,
        UndialledUnknown, Threads, serverVars, Goto, Fail
  <1>8. ASSUME NEW p \in Threads, SetConn(p) PROVE UndialledUnknown'
    BY <1>8, SessionsAssumption
    DEF SetConn, SInv, TypeOK, ThreadType, ConnType, OneKeeperPerConn, UndialledUnknown,
        Threads, serverVars
  <1>9. ASSUME NEW k \in Conns, ServeReturns(k) PROVE UndialledUnknown'
    BY <1>9, SessionsAssumption, Zenon
    DEF ServeReturns, SInv, TypeOK, ThreadType, ConnType, OneKeeperPerConn,
        UndialledUnknown, Threads, serverVars, Goto
  <1>10. ASSUME NEW k \in Conns, DelConn(k) PROVE UndialledUnknown'
    BY <1>10, SessionsAssumption, Zenon
    DEF DelConn, SInv, TypeOK, ThreadType, ConnType, OneKeeperPerConn, UndialledUnknown,
        Threads, serverVars, Goto
  <1>11. ASSUME NEW k \in Conns, Reconnect(k) PROVE UndialledUnknown'
    BY <1>11, SessionsAssumption, Zenon
    DEF Reconnect, SInv, TypeOK, ThreadType, ConnType, OneKeeperPerConn,
        UndialledUnknown, Threads, serverVars, Goto
  <1>12. ASSUME NEW k \in Conns, StopReconnecting(k) PROVE UndialledUnknown'
    BY <1>12, SessionsAssumption, Zenon
    DEF StopReconnecting, SInv, TypeOK, ThreadType, ConnType, OneKeeperPerConn,
        UndialledUnknown, Threads, serverVars, Goto
  <1>13. ASSUME NEW k \in Conns, LoseLink(k) PROVE UndialledUnknown'
    BY <1>13, SessionsAssumption
    DEF LoseLink, SInv, TypeOK, ThreadType, ConnType, OneKeeperPerConn,
        UndialledUnknown, Threads, clientVars, serverVars
  <1>14. ASSUME NEW k \in Conns, Finalize(k) PROVE UndialledUnknown'
    BY <1>14, SessionsAssumption
    DEF Finalize, SInv, TypeOK, ThreadType, ConnType, OneKeeperPerConn,
        UndialledUnknown, Threads, clientVars, serverVars
  <1>15. ASSUME NEW k \in Conns, Accept(k) PROVE UndialledUnknown'
    BY <1>15, SessionsAssumption, Zenon
    DEF Accept, SInv, TypeOK, ThreadType, ConnType, OneKeeperPerConn, UndialledUnknown,
        Threads, clientVars
  <1>16. ASSUME NEW k \in Conns, WriteOK(k) PROVE UndialledUnknown'
    BY <1>16, SessionsAssumption, Zenon
    DEF WriteOK, SInv, TypeOK, ThreadType, ConnType, OneKeeperPerConn, UndialledUnknown,
        Threads, clientVars
  <1>17. ASSUME NEW k \in Conns, ServerConnEnds(k) PROVE UndialledUnknown'
    BY <1>17, SessionsAssumption, Zenon
    DEF ServerConnEnds, SInv, TypeOK, ThreadType, ConnType, OneKeeperPerConn,
        UndialledUnknown, Threads, clientVars
  <1>18. ASSUME NEW k \in Conns, ServerDelConn(k) PROVE UndialledUnknown'
    BY <1>18, SessionsAssumption, Zenon
    DEF ServerDelConn, SInv, TypeOK, ThreadType, ConnType, OneKeeperPerConn,
        UndialledUnknown, Threads, clientVars
  <1>19. CASE CloseConns
    BY <1>19, SessionsAssumption, Zenon
    DEF CloseConns, SInv, TypeOK, ThreadType, ConnType, OneKeeperPerConn,
        UndialledUnknown, Threads, serverVars
  <1>20. ASSUME NEW k \in Conns, CtxDone(k) PROVE UndialledUnknown'
    BY <1>20, SessionsAssumption
    DEF CtxDone, SInv, TypeOK, ThreadType, ConnType, OneKeeperPerConn,
        UndialledUnknown, Threads, clientVars, serverVars
  <1>21. ASSUME NEW p \in Callers, CallFails(p) PROVE UndialledUnknown'
    BY <1>21, SessionsAssumption, Zenon
    DEF CallFails, SInv, TypeOK, ThreadType, ConnType, OneKeeperPerConn, UndialledUnknown,
        Threads, serverVars, Goto
  <1>22. ASSUME NEW k \in Conns, AcceptFails(k) PROVE UndialledUnknown'
    BY <1>22, SessionsAssumption, Zenon
    DEF AcceptFails, SInv, TypeOK, ThreadType, ConnType, OneKeeperPerConn,
        UndialledUnknown, Threads, clientVars, serverVars
  <1> QED
    BY Zenon, <1>1, <1>2, <1>3, <1>4, <1>5, <1>6, <1>7, <1>8, <1>9, <1>10, <1>11, <1>12, <1>13,
       <1>14, <1>15, <1>16, <1>17, <1>18, <1>19, <1>20, <1>21, <1>22
    DEF Next, ConnectStep, KeeperStep, ServerStep, Idle, vars, clientVars, serverVars,
        Cancel, PeerRequest, CloseDone, ServerStart, EmptyConns, ServerServeReturns, ServerClose

\* Every step keeps a goroutine behind the cached connection (setConn, delConn).
LEMMA CachedStep == SInv /\ [Next]_vars => CachedConnIsServed'
  <1> SUFFICES ASSUME SInv, [Next]_vars PROVE CachedConnIsServed'
    BY Zenon
  <1>1. CASE UNCHANGED <<at, cConn>>
    BY <1>1, Zenon DEF SInv, CachedConnIsServed
  <1>2. ASSUME NEW p \in Callers, Call(p) PROVE CachedConnIsServed'
    BY <1>2, SessionsAssumption, Zenon
    DEF Call, SInv, TypeOK, ThreadType, ConnType, OneKeeperPerConn, CachedConnIsServed,
        Threads, serverVars, Goto
  <1>3. ASSUME NEW p \in Threads, Find(p) PROVE CachedConnIsServed'
    BY <1>3, SessionsAssumption, Zenon
    DEF Find, SInv, TypeOK, ThreadType, ConnType, OneKeeperPerConn, CachedConnIsServed,
        Threads, serverVars, Goto
  <1>4. ASSUME NEW p \in Threads, DialServer(p) PROVE CachedConnIsServed'
    BY <1>4, SessionsAssumption, Zenon
    DEF DialServer, SInv, TypeOK, ThreadType, ConnType, OneKeeperPerConn,
        CachedConnIsServed, Threads, Goto
  <1>5. ASSUME NEW p \in Threads, DialFails(p) PROVE CachedConnIsServed'
    BY <1>5, SessionsAssumption, Zenon
    DEF DialFails, SInv, TypeOK, ThreadType, ConnType, OneKeeperPerConn,
        CachedConnIsServed, Threads, serverVars, Goto, Fail
  <1>6. ASSUME NEW p \in Threads, ReadOK(p) PROVE CachedConnIsServed'
    BY <1>6, SessionsAssumption, Zenon
    DEF ReadOK, SInv, TypeOK, ThreadType, ConnType, OneKeeperPerConn,
        CachedConnIsServed, Threads, serverVars, Goto
  <1>7. ASSUME NEW p \in Threads, ReadOKFails(p) PROVE CachedConnIsServed'
    BY <1>7, SessionsAssumption, Zenon
    DEF ReadOKFails, SInv, TypeOK, ThreadType, ConnType, OneKeeperPerConn,
        CachedConnIsServed, Threads, serverVars, Goto, Fail
  <1>8. ASSUME NEW p \in Threads, SetConn(p) PROVE CachedConnIsServed'
    BY <1>8, SessionsAssumption
    DEF SetConn, SInv, TypeOK, ThreadType, ConnType, OneKeeperPerConn,
        CachedConnIsServed, Threads, serverVars
  <1>9. ASSUME NEW k \in Conns, ServeReturns(k) PROVE CachedConnIsServed'
    BY <1>9, SessionsAssumption, Zenon
    DEF ServeReturns, SInv, TypeOK, ThreadType, ConnType, OneKeeperPerConn,
        CachedConnIsServed, Threads, serverVars, Goto
  <1>10. ASSUME NEW k \in Conns, DelConn(k) PROVE CachedConnIsServed'
    BY <1>10, SessionsAssumption, Zenon
    DEF DelConn, SInv, TypeOK, ThreadType, ConnType, OneKeeperPerConn,
        CachedConnIsServed, Threads, serverVars, Goto
  <1>11. ASSUME NEW k \in Conns, Reconnect(k) PROVE CachedConnIsServed'
    BY <1>11, SessionsAssumption, Zenon
    DEF Reconnect, SInv, TypeOK, ThreadType, ConnType, OneKeeperPerConn,
        CachedConnIsServed, Threads, serverVars, Goto
  <1>12. ASSUME NEW k \in Conns, StopReconnecting(k) PROVE CachedConnIsServed'
    BY <1>12, SessionsAssumption, Zenon
    DEF StopReconnecting, SInv, TypeOK, ThreadType, ConnType, OneKeeperPerConn,
        CachedConnIsServed, Threads, serverVars, Goto
  <1>13. CASE CloseConns
    BY <1>13, SessionsAssumption, Zenon
    DEF CloseConns, SInv, TypeOK, ThreadType, ConnType, OneKeeperPerConn,
        CachedConnIsServed, Threads, serverVars
  <1>14. ASSUME NEW p \in Callers, CallFails(p) PROVE CachedConnIsServed'
    BY <1>14, SessionsAssumption, Zenon
    DEF CallFails, SInv, TypeOK, ThreadType, ConnType, OneKeeperPerConn, CachedConnIsServed,
        Threads, serverVars, Goto
  <1> QED
    BY <1>1, <1>2, <1>3, <1>4, <1>5, <1>6, <1>7, <1>8, <1>9, <1>10, <1>11, <1>12, <1>13, <1>14, Zenon
    DEF Next, ConnectStep, KeeperStep, ServerStep, Idle, vars, clientVars, serverVars,
        Cancel, PeerRequest, LoseLink, Finalize, Accept, WriteOK,
        ServerConnEnds, ServerDelConn, CloseDone, ServerClose, ServerStart,
        AcceptFails, CtxDone, EmptyConns, ServerServeReturns

\* Every step keeps a goroutine behind the registered connection (Server.setConn, delConn).
LEMMA RegisteredStep == SInv /\ [Next]_vars => RegisteredConnIsServed'
  <1> SUFFICES ASSUME SInv, [Next]_vars PROVE RegisteredConnIsServed'
    BY Zenon
  <1>1. CASE UNCHANGED <<sConn, sAt>>
    BY <1>1, Zenon DEF SInv, RegisteredConnIsServed
  <1>2. ASSUME NEW p \in Threads, DialServer(p) PROVE RegisteredConnIsServed'
    BY <1>2, SessionsAssumption, Zenon
    DEF DialServer, SInv, TypeOK, ConnType, UndialledUnknown, RegisteredConnIsServed
  <1>3. ASSUME NEW k \in Conns, Accept(k) PROVE RegisteredConnIsServed'
    BY <1>3, SessionsAssumption, Zenon
    DEF Accept, SInv, TypeOK, ConnType, UndialledUnknown, RegisteredConnIsServed,
        clientVars
  <1>4. ASSUME NEW k \in Conns, WriteOK(k) PROVE RegisteredConnIsServed'
    BY <1>4, SessionsAssumption, Zenon
    DEF WriteOK, SInv, TypeOK, ConnType, UndialledUnknown, RegisteredConnIsServed,
        clientVars
  <1>5. ASSUME NEW k \in Conns, ServerConnEnds(k) PROVE RegisteredConnIsServed'
    BY <1>5, SessionsAssumption, Zenon
    DEF ServerConnEnds, SInv, TypeOK, ConnType, UndialledUnknown,
        RegisteredConnIsServed, clientVars
  <1>6. ASSUME NEW k \in Conns, ServerDelConn(k) PROVE RegisteredConnIsServed'
    BY <1>6, SessionsAssumption, Zenon
    DEF ServerDelConn, SInv, TypeOK, ConnType, UndialledUnknown, RegisteredConnIsServed,
        clientVars
  <1>7. CASE EmptyConns
    BY <1>7, SessionsAssumption, Zenon
    DEF EmptyConns, SInv, TypeOK, ConnType, UndialledUnknown, RegisteredConnIsServed,
        clientVars
  <1>8. ASSUME NEW k \in Conns, AcceptFails(k) PROVE RegisteredConnIsServed'
    BY <1>8, SessionsAssumption, Zenon
    DEF AcceptFails, SInv, TypeOK, ConnType, UndialledUnknown, RegisteredConnIsServed,
        clientVars
  <1> QED
    BY <1>1, <1>2, <1>3, <1>4, <1>5, <1>6, <1>7, <1>8, Zenon
    DEF Next, ConnectStep, KeeperStep, ServerStep, Idle, vars, clientVars, serverVars,
        Call, Cancel, Find, DialFails, ReadOK, ReadOKFails, SetConn,
        ServeReturns, DelConn, Reconnect, StopReconnecting, PeerRequest, LoseLink,
        Finalize, CloseDone, CloseConns, ServerStart, CallFails, CtxDone, ServerClose,
        ServerServeReturns

\* Every step keeps the discovery entry in agreement (updateDiscEntry under mx).
LEMMA EntryStep == SInv /\ [Next]_vars => EntryFollows'
  <1> SUFFICES ASSUME SInv, [Next]_vars PROVE EntryFollows'
    BY Zenon
  <1> USE SessionsAssumption DEF SInv, TypeOK, ThreadType, ConnType, EntryFollows, Threads
  <1>1. CASE UNCHANGED <<at, link, cConn, listed, stale>>
    BY <1>1, Zenon
  <1>2. ASSUME NEW p \in Callers, Call(p) PROVE EntryFollows'
    BY <1>2, Zenon DEF Call, Goto
  <1>3. ASSUME NEW p \in Threads, Find(p) PROVE EntryFollows'
    BY <1>3, Zenon DEF Find, Goto
  <1>4. ASSUME NEW p \in Threads, DialServer(p) PROVE EntryFollows'
    BY <1>4, ZenonT(40) DEF DialServer, Goto
  <1>5. ASSUME NEW p \in Threads, DialFails(p) PROVE EntryFollows'
    BY <1>5, Zenon DEF DialFails, Fail, Goto
  <1>6. ASSUME NEW p \in Threads, ReadOK(p) PROVE EntryFollows'
    BY <1>6, Zenon DEF ReadOK, Goto
  <1>7. ASSUME NEW p \in Threads, ReadOKFails(p) PROVE EntryFollows'
    BY <1>7, Zenon DEF ReadOKFails, Fail, Goto
  <1>8. ASSUME NEW p \in Threads, SetConn(p) PROVE EntryFollows'
    BY <1>8, Zenon DEF SetConn, UpdateDiscEntry
  <1>9. ASSUME NEW k \in Conns, ServeReturns(k) PROVE EntryFollows'
    BY <1>9, Zenon DEF ServeReturns, Goto
  <1>10. ASSUME NEW k \in Conns, DelConn(k) PROVE EntryFollows'
    BY <1>10, Zenon DEF DelConn, UpdateDiscEntry
  <1>11. ASSUME NEW k \in Conns, Reconnect(k) PROVE EntryFollows'
    BY <1>11, Zenon DEF Reconnect, Goto
  <1>12. ASSUME NEW k \in Conns, StopReconnecting(k) PROVE EntryFollows'
    BY <1>12, Zenon DEF StopReconnecting, Goto
  <1>13. ASSUME NEW k \in Conns, LoseLink(k) PROVE EntryFollows'
    BY <1>13, Zenon DEF LoseLink, clientVars
  <1>14. ASSUME NEW k \in Conns, Finalize(k) PROVE EntryFollows'
    BY <1>14, Zenon DEF Finalize, clientVars
  <1>15. CASE CloseConns
    BY <1>15, Zenon DEF CloseConns, CachedConnIsServed
  <1>16. ASSUME NEW k \in Conns, CtxDone(k) PROVE EntryFollows'
    BY <1>16, Zenon DEF CtxDone, clientVars
  <1>17. ASSUME NEW p \in Callers, CallFails(p) PROVE EntryFollows'
    BY <1>17, Zenon DEF CallFails, Goto
  <1> QED
    BY <1>1, <1>2, <1>3, <1>4, <1>5, <1>6, <1>7, <1>8, <1>9, <1>10, <1>11, <1>12, <1>13, <1>14, <1>15, <1>16, <1>17, Zenon
    DEF Next, ConnectStep, KeeperStep, ServerStep, Idle, vars, clientVars, serverVars, Cancel,
        PeerRequest, Accept, WriteOK, ServerConnEnds, ServerDelConn, CloseDone, ServerStart,
        AcceptFails, EmptyConns, ServerServeReturns, ServerClose

\* The invariant holds throughout.
LEMMA SInvHolds == Spec => []SInv
  <1>1. SInv /\ [Next]_vars => SInv'
    BY Zenon, ThreadTypeStep, ConnTypeStep, FlagTypeStep, OneKeeperStep, UndialledStep, CachedStep,
       RegisteredStep, EntryStep
    DEF SInv, TypeOK
  <1> QED
    BY SInvInit, <1>1, PTL DEF Spec

\* The client's and the server's connection state is well typed at all times.
THEOREM SessionsTypeCorrect == Spec => []TypeOK
  BY SInvHolds, PTL DEF SInv

\* Client.conns never holds a connection whose goroutine is past delConn, so
\* that a broken connection is always taken out of the map.
THEOREM SessionsCached == Spec => []CachedConnIsServed
  BY SInvHolds, PTL DEF SInv

\* Server.conns never holds a connection whose goroutine is past delConn, so
\* that REQUEST frames are not written to an abandoned connection.
THEOREM SessionsRegistered == Spec => []RegisteredConnIsServed
  BY SInvHolds, PTL DEF SInv

\* Whenever everything has settled, the discovery entry names the server if and
\* only if the client's map has a connection to it, unless the last
\* updateDiscEntry failed: neither Close nor a reconnect leaves a wrong entry.
THEOREM SessionsEntry == Spec => []EntryMatchesConns
  <1>1. SInv => EntryMatchesConns
    BY SessionsAssumption, Zenon DEF SInv, EntryFollows, EntryMatchesConns, Quiet, Threads
  <1> QED
    BY SInvHolds, <1>1, PTL

=============================================================================
