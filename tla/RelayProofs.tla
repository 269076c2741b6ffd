----------------------------- MODULE RelayProofs -----------------------------
(***************************************************************************)
(* The routing theorems of Relay, for any clients, dials and scenarios,    *)
(* with the steps of the clients and the steps that give an id.            *)
(***************************************************************************)
EXTENDS RelayStepProofs

-----------------------------------------------------------------------------
(* The steps of the clients.                                               *)

\* Every step of a client that gives no id.
LEMMA ClientKeepsRouted ==
    /\ \A t \in Tps : KeepsRouted(Close(t)) /\ KeepsRouted(Write(t))
    /\ \A c \in Clients : KeepsRouted(LoseConn(c)) /\ KeepsRouted(ClientStep(c))
  \* A client sends a frame other than REQUEST.
  <1>UpSend. ASSUME NEW s, NEW ids, NEW given, NEW told, TInv(s), UpOK(s, ids, given, told),
                    NEW c \in Clients, NEW f \in FrameSet(s), Send(c, f), UNCHANGED at,
                    f.type # "REQUEST", UpFrame(s, ids, told, c, f)
             PROVE  UpOK(s, ids, given, told)'
    <2> USE <1>UpSend
    <2>1. CASE c \notin connected
      BY <2>1 DEF UpOK, UpQueue, Send
    <2>2. CASE c \in connected
      <3>1. up' = [up EXCEPT ![c] = Append(up[c], f)] /\ up[c] \in Seq(FrameSet(s))
        BY <2>2, Zenon DEF Send, TInv, QueueTypes
      <3>2. ASSUME NEW d \in Clients, d # c
            PROVE  up'[d] = up[d]
        BY <3>1, <3>2, Zenon DEF TInv, QueueTypes
      <3>3. up'[c] = Append(up[c], f)
        BY <3>1, Zenon DEF TInv, QueueTypes
      <3>4. /\ DOMAIN up'[c] = DOMAIN up[c] \cup {Len(up[c]) + 1} /\ up'[c][Len(up[c]) + 1] = f
            /\ \A k \in DOMAIN up[c] : up'[c][k] = up[c][k]
        BY <3>1, <3>3, SeqAppend
      <3> QED BY <3>2, <3>4 DEF UpOK, UpQueue
    <2> QED BY <2>1, <2>2, Zenon
  \* A client takes or drops frames; no transport and no request appears.
  <1>DownPop. ASSUME NEW s, NEW ids, NEW told, TInv(s), DownOK(s, ids, told),
                     NEW c \in Clients, Received(c), Pop(c),
                     \A t \in Tps : tpState[t] = "none" => tpState'[t] = "none",
                     \A r \in requests' : \E q \in requests : q.dial = r.dial
              PROVE  DownOK(s, ids, told)'
    <2> USE <1>DownPop
    <2>1. down[c] \in Seq(FrameSet(s)) /\ down[c] # <<>> /\ down'[c] = Tail(down[c])
      BY Zenon DEF TInv, QueueTypes, Received, Pop
    <2>2. \A d \in Clients : d # c => down'[d] = down[d]
      BY Zenon DEF TInv, QueueTypes, Pop
    <2>3. \A k \in DOMAIN down'[c] : k \in Nat /\ k + 1 \in DOMAIN down[c] /\ down'[c][k] = down[c][k + 1]
      BY <2>1, SeqTail
    <2>4. \A d \in Clients : \A k \in DOMAIN down[d] : down[d][k].type = "REQUEST" => Peer(down[d][k].tp) \in Tps
      BY FrameFields, ScenarioFacts DEF TInv, QueueTypes
    <2>5. ASSUME NEW k \in DOMAIN down'[c]
          PROVE  /\ DownFrame(s, ids, told, c, down'[c][k])
                 /\ down'[c][k].type = "REQUEST" =>
                      /\ tpState'[Peer(down'[c][k].tp)] = "none"
                      /\ \A r \in requests' : r.dial # down'[c][k].tp[1]
                      /\ \A j \in DOMAIN down'[c] :
                            down'[c][j].type = "REQUEST" /\ down'[c][j].tp = down'[c][k].tp => j = k
      BY <2>3, <2>4 DEF DownOK
    <2>6. ASSUME NEW d \in Clients, d # c, NEW k \in DOMAIN down'[d]
          PROVE  /\ DownFrame(s, ids, told, d, down'[d][k])
                 /\ down'[d][k].type = "REQUEST" =>
                      /\ tpState'[Peer(down'[d][k].tp)] = "none"
                      /\ \A r \in requests' : r.dial # down'[d][k].tp[1]
                      /\ \A j \in DOMAIN down'[d] :
                            down'[d][j].type = "REQUEST" /\ down'[d][j].tp = down'[d][k].tp => j = k
      BY <2>2, <2>4, <2>6 DEF DownOK
    <2> QED BY <2>5, <2>6 DEF DownOK, DownFrame
  <1>DownSame. ASSUME NEW s, NEW ids, NEW told, TInv(s), DownOK(s, ids, told),
                      \A c \in Clients : down'[c] \in {down[c], <<>>},
                      \A t \in Tps : tpState[t] = "none" => tpState'[t] = "none",
                      \A r \in requests' : \E q \in requests : q.dial = r.dial
               PROVE  DownOK(s, ids, told)'
    <2> USE <1>DownSame
    <2>1. \A d \in Clients : \A k \in DOMAIN down[d] : down[d][k].type = "REQUEST" => Peer(down[d][k].tp) \in Tps
      BY FrameFields, ScenarioFacts DEF TInv, QueueTypes
    <2>2. \A d \in Clients : \A k \in DOMAIN down'[d] : down'[d] = down[d]
      OBVIOUS
    <2> QED BY <2>1, <2>2 DEF DownOK, DownFrame
  \* close() of a transport leaves the entries of all others alone.
  <1>CloseTpOK. ASSUME NEW s, NEW ids, NEW given, NEW told, RInv(s, ids, given, told),
                       NEW t \in Tps, tpState[t] # "none", CloseTp(t),
                       UNCHANGED <<tpId, requests, acks, connected>>
                PROVE  /\ TpsOK(s, ids, given, told)' /\ RequestsOK(s, ids, told)' /\ Registered(s, ids)'
                       /\ \A u \in Tps : tpState[u] = "none" <=> tpState'[u] = "none"
    <2> USE <1>CloseTpOK
    <2>1. /\ t \in PlanTps(s) /\ t \in told /\ tpId[t] = ids[t] /\ ids[t] \in IdsOf(s)
          /\ Owner(t) = OwnerOf(s, t) /\ OwnerOf(s, t) \in Clients
      BY TpTypes DEF RInv, TInv, ClientTypes, TpsOK, Ghosts
    <2>2. /\ tpState' = [tpState EXCEPT ![t] = "closed"]
          /\ tps' = [tps EXCEPT ![OwnerOf(s, t)][ids[t]] = None]
      BY <2>1, Zenon DEF CloseTp
    <2>3. \A c \in Clients, i \in IdsOf(s) :
              tps'[c][i] = IF <<c, i>> = End(s, ids, t) THEN None ELSE tps[c][i]
      BY <2>1, <2>2, Zenon DEF RInv, TInv, ClientTypes, End
    <2>4. \A u \in Tps : tpState'[u] = IF u = t THEN "closed" ELSE tpState[u]
      BY <2>2, Zenon DEF RInv, TInv, ClientTypes
    <2>5. \A u \in told : u \in Tps /\ u \in given /\ ids[u] \in IdsOf(s) /\ OwnerOf(s, u) \in Clients
      BY ScenarioFacts, Zenon DEF RInv, TInv, Ghosts
    <2>6. TpsOK(s, ids, given, told)'
      <3>1. ASSUME NEW c \in Clients, NEW i \in IdsOf(s), tps'[c][i] # None
            PROVE  /\ tps'[c][i] \in told /\ End(s, ids, tps'[c][i]) = <<c, i>>
                   /\ tpState'[tps'[c][i]] # "none"
        BY <2>3, <2>4, <2>5, <3>1 DEF RInv, TpsOK
      <3>2. given \subseteq Tps /\ acks \subseteq Tps
        BY ScenarioFacts, Zenon DEF RInv, TInv, Ghosts, ClientTypes
      <3> QED BY <2>1, <2>4, <3>1, <3>2, Zenon DEF RInv, TpsOK
    <2>7. RequestsOK(s, ids, told)'
      BY <2>4, <2>5, Zenon DEF RInv, RequestsOK
    <2>8. Registered(s, ids)'
      <3> SUFFICES ASSUME NEW u \in Tps, u[2] = "resp", tpState'[u] = "open",
                          OwnerOf(s, u) \in connected
                   PROVE  \/ tps'[OwnerOf(s, u)][ids[u]] = u
                          \/ \E q \in requests : q.at = "setTp" /\ q.dial = u[1]
        BY Zenon DEF Registered
      <3>1. u # t /\ tpState[u] = "open"
        BY <2>4, Zenon
      <3>2. u \in told
        BY <3>1, Zenon DEF RInv, TpsOK
      <3>3. End(s, ids, u) # End(s, ids, t)
        BY <2>1, <2>5, <3>1, <3>2, Zenon DEF RInv, Ghosts
      <3> QED BY <2>3, <2>5, <3>1, <3>2, <3>3, Zenon DEF RInv, Registered, End
    <2> QED BY <2>4, <2>6, <2>7, <2>8, Zenon
  \* What a client's step leaves alone, whether it sends a frame or not.
  <1>NoSendOK. ASSUME NEW s, NEW ids, NEW given, NEW told, RInv(s, ids, given, told),
                      UNCHANGED <<up, nextInitID, serverVars>>, connected' \subseteq connected
               PROVE  /\ Ghosts(s, ids, given, told)' /\ Counted(s, ids, given)'
                      /\ UpOK(s, ids, given, told)' /\ ServerOK(s, ids, given, told)'
    <2> USE <1>NoSendOK
    <2>1. ServerOK(s, ids, given, told)'
      BY ServerSame, Zenon DEF RInv, serverVars, InFrame
    <2>2. Ghosts(s, ids, given, told)'
      BY Zenon DEF RInv, Ghosts
    <2>3. Counted(s, ids, given)'
      BY Zenon DEF RInv, Counted, serverVars
    <2>4. UpOK(s, ids, given, told)'
      BY DEF RInv, UpOK, UpQueue, serverVars
    <2> QED BY <2>1, <2>2, <2>3, <2>4, Zenon
  <1>SendOK. ASSUME NEW s, NEW ids, NEW given, NEW told, RInv(s, ids, given, told),
                    NEW c \in Clients, NEW f \in FrameSet(s), f.type # "REQUEST",
                    UpFrame(s, ids, told, c, f), Send(c, f),
                    UNCHANGED <<connected, nextInitID, serverVars>>
             PROVE  /\ Ghosts(s, ids, given, told)' /\ Counted(s, ids, given)'
                    /\ UpOK(s, ids, given, told)' /\ ServerOK(s, ids, given, told)'
    <2> USE <1>SendOK
    <2>1. \A d \in Clients : up[d] # <<>> => InFrame(d)' = InFrame(d)
      BY SendTypes, Zenon DEF RInv, TInv
    <2>2. ServerOK(s, ids, given, told)'
      BY <2>1, ServerSame, Zenon DEF RInv, serverVars
    <2>3. Ghosts(s, ids, given, told)'
      BY Zenon DEF RInv, Ghosts
    <2>4. Counted(s, ids, given)'
      BY Zenon DEF RInv, Counted, serverVars
    <2>5. UpOK(s, ids, given, told)'
      BY <1>UpSend, Zenon DEF RInv, serverVars
    <2> QED BY <2>2, <2>3, <2>4, <2>5, Zenon
  \* A transport that exists has its id, and the frames it sends carry it.
  <1>OwnFrame. ASSUME NEW s, NEW ids, NEW given, NEW told, RInv(s, ids, given, told),
                      NEW t \in Tps, tpState[t] # "none", NEW type \in {"ACCEPT", "FWD", "ACK", "CLOSE"}
               PROVE  /\ Owner(t) \in Clients
                      /\ Frame(type, tpId[t], t) \in FrameSet(s) /\ Frame(type, tpId[t], t).type # "REQUEST"
                      /\ UpFrame(s, ids, told, Owner(t), Frame(type, tpId[t], t))
    <2> USE <1>OwnFrame
    <2>1. /\ t \in PlanTps(s) /\ t \in told /\ tpId[t] = ids[t] /\ tpId[t] \in IdsOf(s)
          /\ Owner(t) = OwnerOf(s, t) /\ OwnerOf(s, t) \in Clients /\ t # None
      BY TpTypes DEF RInv, TInv, ClientTypes, TpsOK
    <2> QED BY <2>1, FrameSetHas, Zenon DEF UpFrame, End, Frame
  <1>RInvClose. ASSUME NEW t \in Tps
                PROVE  KeepsRouting(Close(t))
    <2> USE <1>RInvClose
    <2> SUFFICES ASSUME NEW s, NEW ids, NEW given, NEW told, RInv(s, ids, given, told), TInv(s)', Close(t)
                 PROVE  RInv(s, ids, given, told)'
      BY Zenon DEF KeepsRouting
    <2>1. TInv(s)'
      BY Zenon DEF RInv
    <2>2. /\ Ghosts(s, ids, given, told)' /\ Counted(s, ids, given)'
          /\ UpOK(s, ids, given, told)' /\ ServerOK(s, ids, given, told)'
      BY <1>OwnFrame, <1>SendOK, Zenon DEF Close
    <2>3. /\ TpsOK(s, ids, given, told)' /\ RequestsOK(s, ids, told)' /\ Registered(s, ids)'
          /\ \A u \in Tps : tpState[u] = "none" => tpState'[u] = "none"
      BY <1>CloseTpOK, Zenon DEF Close
    <2>4. DownOK(s, ids, told)'
      BY <2>3, <1>DownSame, Zenon DEF RInv, Close
    <2> QED BY <2>1, <2>2, <2>3, <2>4, Zenon DEF RInv
  <1>RInvWrite. ASSUME NEW t \in Tps
                PROVE  KeepsRouting(Write(t))
    <2> USE <1>RInvWrite
    <2> SUFFICES ASSUME NEW s, NEW ids, NEW given, NEW told, RInv(s, ids, given, told), TInv(s)', Write(t)
                 PROVE  RInv(s, ids, given, told)'
      BY Zenon DEF KeepsRouting
    <2>1. TInv(s)'
      BY Zenon DEF RInv
    <2>2. /\ Ghosts(s, ids, given, told)' /\ Counted(s, ids, given)'
          /\ UpOK(s, ids, given, told)' /\ ServerOK(s, ids, given, told)'
      BY <1>OwnFrame, <1>SendOK, Zenon DEF Write
    <2>3. TpsOK(s, ids, given, told)' /\ RequestsOK(s, ids, told)' /\ Registered(s, ids)'
      BY ClientSame, Zenon DEF RInv, Write
    <2>4. DownOK(s, ids, told)'
      BY <1>DownSame, Zenon DEF RInv, Write
    <2> QED BY <2>1, <2>2, <2>3, <2>4, Zenon DEF RInv
  <1>RInvWriteAck. ASSUME NEW t
                   PROVE  KeepsRouting(WriteAck(t))
    <2> SUFFICES ASSUME NEW s, NEW ids, NEW given, NEW told, RInv(s, ids, given, told), TInv(s)', WriteAck(t)
                 PROVE  RInv(s, ids, given, told)'
      BY Zenon DEF KeepsRouting
    <2>1. TInv(s)'
      BY Zenon DEF RInv
    <2>2. t \in Tps /\ tpState[t] # "none"
      BY ScenarioFacts, Zenon DEF RInv, TInv, ClientTypes, TpsOK, WriteAck
    <2>3. /\ Ghosts(s, ids, given, told)' /\ Counted(s, ids, given)'
          /\ UpOK(s, ids, given, told)' /\ ServerOK(s, ids, given, told)'
      BY <2>2, <1>OwnFrame, <1>SendOK, Zenon DEF WriteAck
    <2>4. TpsOK(s, ids, given, told)' /\ RequestsOK(s, ids, told)' /\ Registered(s, ids)'
      BY Zenon DEF RInv, TpsOK, RequestsOK, Registered, WriteAck
    <2>5. DownOK(s, ids, told)'
      BY <1>DownSame, Zenon DEF RInv, WriteAck
    <2> QED BY <2>1, <2>3, <2>4, <2>5, Zenon DEF RInv
  \* A connection that is lost takes its own transports with it, and no other.
  <1>RInvDisconnect. ASSUME NEW s, NEW ids, NEW given, NEW told, RInv(s, ids, given, told), NEW c \in Clients,
                            Disconnect(c), requests' \subseteq requests, TInv(s)',
                            \A r \in requests : r.at = "setTp" => r \in requests',
                            UNCHANGED <<up, nextInitID, tpId, acks, serverVars>>
                     PROVE  RInv(s, ids, given, told)'
    <2> USE <1>RInvDisconnect
    <2>1. /\ Ghosts(s, ids, given, told)' /\ Counted(s, ids, given)'
          /\ UpOK(s, ids, given, told)' /\ ServerOK(s, ids, given, told)'
      BY <1>NoSendOK, Zenon DEF Disconnect
    <2>2. \A d \in Clients, i \in IdsOf(s) : tps'[d][i] = IF d = c THEN None ELSE tps[d][i]
      BY Zenon DEF RInv, TInv, ClientTypes, Disconnect, Ids, IdsOf, IdMod
    <2>3. \A t \in Tps : tpState'[t] = IF \E i \in IdsOf(s) : tps[c][i] = t THEN "closed" ELSE tpState[t]
      BY Zenon DEF RInv, TInv, ClientTypes, Disconnect, TpAt, Ids, IdsOf, IdMod
    <2>4. None \notin Tps /\ told \subseteq Tps /\ given \subseteq Tps /\ acks \subseteq Tps
      BY ScenarioFacts, Zenon DEF RInv, TInv, Ghosts, ClientTypes
    <2>5. \A t \in Tps : /\ tpState[t] = "none" <=> tpState'[t] = "none"
                         /\ tpState'[t] = "open" => tpState[t] = "open"
      BY <2>3, <2>4 DEF RInv, TpsOK
    <2>6. TpsOK(s, ids, given, told)'
      BY <2>2, <2>4, <2>5 DEF RInv, TpsOK
    <2>7. RequestsOK(s, ids, told)'
      BY <2>4, <2>5, Zenon DEF RInv, RequestsOK
    <2>8. Registered(s, ids)'
      <3> SUFFICES ASSUME NEW t \in Tps, t[2] = "resp", tpState[t] = "open",
                          OwnerOf(s, t) \in connected \ {c}
                   PROVE  \/ tps'[OwnerOf(s, t)][ids[t]] = t
                          \/ \E q \in requests' : q.at = "setTp" /\ q.dial = t[1]
        BY <2>5, Zenon DEF Registered, Disconnect
      <3>1. OwnerOf(s, t) \in Clients /\ ids[t] \in IdsOf(s) /\ OwnerOf(s, t) # c
        BY ScenarioFacts, Zenon DEF RInv, TInv, TpsOK, Ghosts
      <3> QED BY <2>2, <3>1, Zenon DEF RInv, Registered
    <2>9. DownOK(s, ids, told)'
      <3>1. \A d \in Clients : down'[d] \in {down[d], <<>>}
        BY Zenon DEF Disconnect, RInv, TInv, QueueTypes
      <3> QED BY <2>5, <3>1, <1>DownSame, Zenon DEF RInv
    <2> QED BY <2>1, <2>6, <2>7, <2>8, <2>9, Zenon DEF RInv
  <1>RInvLoseConn. ASSUME NEW c \in Clients
                   PROVE  KeepsRouting(LoseConn(c))
    <2> USE <1>RInvLoseConn
    <2> SUFFICES ASSUME NEW s, NEW ids, NEW given, NEW told, RInv(s, ids, given, told), TInv(s)', LoseConn(c)
                 PROVE  RInv(s, ids, given, told)'
      BY Zenon DEF KeepsRouting
    <2> QED BY <1>RInvDisconnect, Zenon DEF LoseConn, RInv
  <1>RInvRecvRequestInUse. ASSUME NEW c \in Clients
                           PROVE  KeepsRouting(RecvRequestInUse(c))
    <2> USE <1>RInvRecvRequestInUse
    <2> SUFFICES ASSUME NEW s, NEW ids, NEW given, NEW told, RInv(s, ids, given, told), TInv(s)', RecvRequestInUse(c)
                 PROVE  RInv(s, ids, given, told)'
      BY Zenon DEF KeepsRouting
    <2> QED BY <1>RInvDisconnect, Zenon DEF RecvRequestInUse, RInv
  <1>RInvListenerClosed. ASSUME NEW r
                         PROVE  KeepsRouting(ListenerClosed(r))
    <2> SUFFICES ASSUME NEW s, NEW ids, NEW given, NEW told, RInv(s, ids, given, told), TInv(s)', ListenerClosed(r)
                 PROVE  RInv(s, ids, given, told)'
      BY Zenon DEF KeepsRouting
    <2>1. r.conn \in Clients /\ TInv(s)'
      BY RequestTypes, Zenon DEF ListenerClosed, RInv
    <2>2. requests' \subseteq requests /\ \A q \in requests : q.at = "setTp" => q \in requests'
      BY Zenon DEF ListenerClosed
    <2> QED BY <2>1, <2>2, <1>RInvDisconnect, Zenon DEF ListenerClosed
  \* The transport that a client finds for a frame has the frame's id.
  <1>FoundOK. ASSUME NEW s, NEW ids, NEW given, NEW told, RInv(s, ids, given, told), NEW c \in Clients,
                     Received(c)
              PROVE  LET f == Head(down[c])
                         t == TpAt(c, f.id) IN
                     /\ f \in FrameSet(s) /\ f.id \in IdsOf(s) /\ DownFrame(s, ids, told, c, f)
                     /\ 1 \in DOMAIN down[c] /\ f = down[c][1]
                     /\ t = tps[c][f.id]
                     /\ t # None => /\ t \in PlanTps(s) /\ t \in Tps /\ t \in told /\ End(s, ids, t) = <<c, f.id>>
                                    /\ tpState[t] # "none"
    <2> USE <1>FoundOK
    <2>1. down[c] \in Seq(FrameSet(s)) /\ down[c] # <<>>
      BY Zenon DEF RInv, TInv, QueueTypes, Received
    <2>2. Head(down[c]) \in FrameSet(s) /\ 1 \in DOMAIN down[c] /\ Head(down[c]) = down[c][1]
      BY <2>1, SeqTail, Zenon
    <2>3. Head(down[c]).id \in IdsOf(s) /\ DownFrame(s, ids, told, c, Head(down[c]))
      BY <2>2, FrameFields, Zenon DEF RInv, DownOK
    <2> QED BY <2>2, <2>3, ScenarioFacts, Zenon DEF RInv, TInv, Ghosts, TpsOK, TpAt
  <1>RInvRecvReply. ASSUME NEW c \in Clients
                    PROVE  KeepsRouting(RecvReply(c))
    <2> USE <1>RInvRecvReply
    <2> SUFFICES ASSUME NEW s, NEW ids, NEW given, NEW told, RInv(s, ids, given, told), TInv(s)', RecvReply(c)
                 PROVE  RInv(s, ids, given, told)'
      BY Zenon DEF KeepsRouting
    <2> DEFINE f == Head(down[c])
               t == TpAt(c, f.id)
               g == Frame("CLOSE", f.id, t)
    <2>1. TInv(s)'
      BY Zenon DEF RInv
    <2>2. /\ f.id \in IdsOf(s) /\ t = tps[c][f.id] /\ t # None /\ Received(c)
          /\ t \in PlanTps(s) /\ t \in Tps /\ t \in told /\ End(s, ids, t) = <<c, f.id>>
          /\ tpState[t] # "none"
      BY <1>FoundOK, Zenon DEF RecvReply, Live
    <2>3. g \in FrameSet(s) /\ g.type # "REQUEST" /\ UpFrame(s, ids, told, c, g)
      BY <2>2, FrameSetHas, Zenon DEF UpFrame, Frame
    <2> HIDE DEF g
    <2>4. /\ Ghosts(s, ids, given, told)' /\ Counted(s, ids, given)'
          /\ UpOK(s, ids, given, told)' /\ ServerOK(s, ids, given, told)'
      <3>1. CASE UNCHANGED up
        BY <3>1, <1>NoSendOK, Zenon DEF RecvReply
      <3>2. CASE Send(c, g)
        BY <2>3, <3>2, <1>SendOK, Zenon DEF RecvReply
      <3> QED BY <3>1, <3>2, Zenon DEF RecvReply, g
    <2>5. /\ TpsOK(s, ids, given, told)' /\ RequestsOK(s, ids, told)' /\ Registered(s, ids)'
          /\ \A u \in Tps : tpState[u] = "none" => tpState'[u] = "none"
      <3>1. CASE CloseTp(t)
        BY <2>2, <3>1, <1>CloseTpOK, Zenon DEF RecvReply
      <3>2. CASE tpState' = [tpState EXCEPT ![t] = "open"] /\ UNCHANGED tps
        <4>0. UNCHANGED <<connected, tpId, requests, acks>>
          BY Zenon DEF RecvReply
        <4> HIDE DEF f, t
        <4>1. \A u \in Tps : tpState'[u] = IF u = t THEN "open" ELSE tpState[u]
          BY <3>2, Zenon DEF RInv, TInv, ClientTypes
        <4>2. None \notin Tps /\ told \subseteq Tps /\ given \subseteq Tps /\ acks \subseteq Tps
          BY ScenarioFacts, Zenon DEF RInv, TInv, Ghosts, ClientTypes
        <4>3. TpsOK(s, ids, given, told)'
          BY <2>2, <3>2, <4>0, <4>1, <4>2 DEF RInv, TpsOK
        <4>4. RequestsOK(s, ids, told)'
          BY <2>2, <4>0, <4>1, <4>2, Zenon DEF RInv, RequestsOK
        <4>5. tps[OwnerOf(s, t)][ids[t]] = t
          BY <2>2, Zenon DEF End
        <4>6. Registered(s, ids)'
          BY <3>2, <4>0, <4>1, <4>5 DEF RInv, Registered
        <4> QED BY <2>2, <4>1, <4>3, <4>4, <4>6, Zenon
      <3> QED BY <3>1, <3>2, Zenon DEF RecvReply
    <2>6. DownOK(s, ids, told)'
      BY <2>2, <2>5, <1>DownPop, Zenon DEF RInv, RecvReply
    <2> QED BY <2>1, <2>4, <2>5, <2>6, Zenon DEF RInv
  <1>RInvRecvFwd. ASSUME NEW c \in Clients
                  PROVE  KeepsRouting(RecvFwd(c))
    <2> USE <1>RInvRecvFwd
    <2> SUFFICES ASSUME NEW s, NEW ids, NEW given, NEW told, RInv(s, ids, given, told), TInv(s)', RecvFwd(c)
                 PROVE  RInv(s, ids, given, told)'
      BY Zenon DEF KeepsRouting
    <2>1. TInv(s)'
      BY Zenon DEF RInv
    <2>2. /\ Ghosts(s, ids, given, told)' /\ Counted(s, ids, given)'
          /\ UpOK(s, ids, given, told)' /\ ServerOK(s, ids, given, told)'
      BY <1>NoSendOK, Zenon DEF RecvFwd
    <2>3. TpsOK(s, ids, given, told)' /\ RequestsOK(s, ids, told)' /\ Registered(s, ids)'
      BY Zenon DEF RInv, TpsOK, RequestsOK, Registered, RecvFwd
    <2>4. DownOK(s, ids, told)'
      BY <1>DownPop, Zenon DEF RInv, RecvFwd
    <2> QED BY <2>1, <2>2, <2>3, <2>4, Zenon DEF RInv
  <1>RInvRecvClose. ASSUME NEW c \in Clients
                    PROVE  KeepsRouting(RecvClose(c))
    <2> USE <1>RInvRecvClose
    <2> SUFFICES ASSUME NEW s, NEW ids, NEW given, NEW told, RInv(s, ids, given, told), TInv(s)', RecvClose(c)
                 PROVE  RInv(s, ids, given, told)'
      BY Zenon DEF KeepsRouting
    <2>1. TInv(s)'
      BY Zenon DEF RInv
    <2>2. /\ Ghosts(s, ids, given, told)' /\ Counted(s, ids, given)'
          /\ UpOK(s, ids, given, told)' /\ ServerOK(s, ids, given, told)'
      BY <1>NoSendOK, Zenon DEF RecvClose
    <2>3. TpAt(c, Head(down[c]).id) \in Tps /\ tpState[TpAt(c, Head(down[c]).id)] # "none"
      BY <1>FoundOK, Zenon DEF RecvClose, Live
    <2>4. /\ TpsOK(s, ids, given, told)' /\ RequestsOK(s, ids, told)' /\ Registered(s, ids)'
          /\ \A u \in Tps : tpState[u] = "none" => tpState'[u] = "none"
      BY <2>3, <1>CloseTpOK, Zenon DEF RecvClose
    <2>5. DownOK(s, ids, told)'
      BY <2>4, <1>DownPop, Zenon DEF RInv, RecvClose
    <2> QED BY <2>1, <2>2, <2>4, <2>5, Zenon DEF RInv
  <1>RInvRecvAckOrAccept. ASSUME NEW c \in Clients
                          PROVE  KeepsRouting(RecvAckOrAccept(c))
    <2> USE <1>RInvRecvAckOrAccept
    <2> SUFFICES ASSUME NEW s, NEW ids, NEW given, NEW told, RInv(s, ids, given, told), TInv(s)', RecvAckOrAccept(c)
                 PROVE  RInv(s, ids, given, told)'
      BY Zenon DEF KeepsRouting
    <2>1. TInv(s)'
      BY Zenon DEF RInv
    <2>2. /\ Ghosts(s, ids, given, told)' /\ Counted(s, ids, given)'
          /\ UpOK(s, ids, given, told)' /\ ServerOK(s, ids, given, told)'
      BY <1>NoSendOK, Zenon DEF RecvAckOrAccept, clientVars
    <2>3. TpsOK(s, ids, given, told)' /\ RequestsOK(s, ids, told)' /\ Registered(s, ids)'
      BY ClientSame, Zenon DEF RInv, RecvAckOrAccept, clientVars
    <2>4. DownOK(s, ids, told)'
      BY <1>DownPop, Zenon DEF RInv, RecvAckOrAccept, clientVars
    <2> QED BY <2>1, <2>2, <2>3, <2>4, Zenon DEF RInv
  \* delTp for an id without a live transport takes nothing away.
  <1>EmptyPlaceOK. ASSUME NEW s, NEW ids, NEW given, NEW told, RInv(s, ids, given, told),
                          NEW c \in Clients, NEW i \in IdsOf(s), ~Live(tps[c][i]),
                          tps' = [tps EXCEPT ![c][i] = None], UNCHANGED <<tpState, tpId, acks, connected>>,
                          \A r \in requests : r.at = "setTp" => r \in requests'
                   PROVE  TpsOK(s, ids, given, told)' /\ Registered(s, ids)'
    <2> USE <1>EmptyPlaceOK
    <2>1. \A d \in Clients, j \in IdsOf(s) :
              tps'[d][j] = IF d = c /\ j = i THEN None ELSE tps[d][j]
      BY Zenon DEF RInv, TInv, ClientTypes
    <2>2. TpsOK(s, ids, given, told)'
      BY <2>1 DEF RInv, TpsOK
    <2>3. Registered(s, ids)'
      <3> SUFFICES ASSUME NEW t \in Tps, t[2] = "resp", tpState[t] = "open", OwnerOf(s, t) \in connected
                   PROVE  \/ tps'[OwnerOf(s, t)][ids[t]] = t
                          \/ \E q \in requests' : q.at = "setTp" /\ q.dial = t[1]
        BY Zenon DEF Registered
      <3>1. OwnerOf(s, t) \in Clients /\ ids[t] \in IdsOf(s) /\ t # None
        BY ScenarioFacts, Zenon DEF RInv, TInv, TpsOK, Ghosts
      <3> QED BY <2>1, <3>1 DEF RInv, Registered, Live
    <2> QED BY <2>2, <2>3, Zenon
  <1>RInvRecvIgnored. ASSUME NEW c \in Clients
                      PROVE  KeepsRouting(RecvIgnored(c))
    <2> USE <1>RInvRecvIgnored
    <2> SUFFICES ASSUME NEW s, NEW ids, NEW given, NEW told, RInv(s, ids, given, told), TInv(s)', RecvIgnored(c)
                 PROVE  RInv(s, ids, given, told)'
      BY Zenon DEF KeepsRouting
    <2> DEFINE f == Head(down[c])
               g == Frame("CLOSE", f.id, None)
    <2>1. TInv(s)'
      BY Zenon DEF RInv
    <2>2. Received(c) /\ f.id \in IdsOf(s) /\ DownFrame(s, ids, told, c, f) /\ ~Live(tps[c][f.id])
      BY <1>FoundOK, Zenon DEF RecvIgnored
    <2>3. g \in FrameSet(s) /\ g.type # "REQUEST" /\ UpFrame(s, ids, told, c, g)
      BY <2>2, FrameSetHas, Zenon DEF UpFrame, DownFrame, Frame
    <2> HIDE DEF g
    <2>4. /\ Ghosts(s, ids, given, told)' /\ Counted(s, ids, given)'
          /\ UpOK(s, ids, given, told)' /\ ServerOK(s, ids, given, told)'
      <3>1. CASE UNCHANGED up
        BY <3>1, <1>NoSendOK, Zenon DEF RecvIgnored
      <3>2. CASE Send(c, g)
        BY <2>3, <3>2, <1>SendOK, Zenon DEF RecvIgnored
      <3> QED BY <3>1, <3>2, Zenon DEF RecvIgnored, g
    <2>5. TpsOK(s, ids, given, told)' /\ Registered(s, ids)'
      BY <2>2, <1>EmptyPlaceOK, Zenon DEF RecvIgnored
    <2>6. RequestsOK(s, ids, told)'
      BY Zenon DEF RInv, RequestsOK, RecvIgnored
    <2>7. DownOK(s, ids, told)'
      BY <2>2, <1>DownPop, Zenon DEF RInv, RecvIgnored
    <2> QED BY <2>1, <2>4, <2>5, <2>6, <2>7, Zenon DEF RInv
  <1>RInvRecvRequest. ASSUME NEW c \in Clients
                      PROVE  KeepsRouting(RecvRequest(c))
    <2> USE <1>RInvRecvRequest
    <2> SUFFICES ASSUME NEW s, NEW ids, NEW given, NEW told, RInv(s, ids, given, told), TInv(s)', RecvRequest(c)
                 PROVE  RInv(s, ids, given, told)'
      BY Zenon DEF KeepsRouting
    <2> DEFINE f == Head(down[c])
               t == Peer(f.tp)
               q == [conn |-> c, id |-> f.id, dial |-> f.tp[1], at |-> "introduce"]
    <2>1. TInv(s)'
      BY Zenon DEF RInv
    <2>2. /\ Received(c) /\ f.id \in IdsOf(s) /\ DownFrame(s, ids, told, c, f) /\ ~Live(tps[c][f.id])
          /\ f \in FrameSet(s) /\ 1 \in DOMAIN down[c] /\ f = down[c][1] /\ f.type = "REQUEST"
      BY <1>FoundOK, Zenon DEF RecvRequest
    <2>3. f.tp \in PlanTps(s) /\ f.tp[2] = "init" /\ f.tp # None
      BY <2>2, FrameFields, ScenarioFacts, Zenon DEF RInv, TInv
    <2>4. t = <<f.tp[1], "resp">> /\ f.tp = <<f.tp[1], "init">>
      BY <2>3, PeerFacts, Zenon DEF RInv, TInv
    <2>5. t \in told /\ End(s, ids, t) = <<c, f.id>>
      <3>1. PICK u \in told : End(s, ids, u) = <<c, f.id>> /\ f.tp = Peer(u)
        BY <2>2, <2>3, Zenon DEF DownFrame
      <3>2. u \in PlanTps(s)
        BY Zenon DEF RInv, Ghosts
      <3> QED BY <3>1, <3>2, PeerFacts DEF RInv, TInv
    <2>6. tpState[t] = "none" /\ \A r \in requests : r.dial # f.tp[1]
      BY <2>2, Zenon DEF RInv, DownOK
    <2>7. /\ Ghosts(s, ids, given, told)' /\ Counted(s, ids, given)'
          /\ UpOK(s, ids, given, told)' /\ ServerOK(s, ids, given, told)'
      BY <1>NoSendOK, Zenon DEF RecvRequest
    <2>8. TpsOK(s, ids, given, told)' /\ Registered(s, ids)'
      BY <2>2, <1>EmptyPlaceOK, Zenon DEF RecvRequest
    <2>9. requests' = requests \cup {q} /\ UNCHANGED tpState
      BY Zenon DEF RecvRequest
    <2>10. RequestsOK(s, ids, told)'
      <3>1. q.conn = c /\ q.id = f.id /\ q.dial = f.tp[1] /\ q.at = "introduce"
        BY Zenon
      <3> HIDE DEF q, f, t
      <3>2. ASSUME NEW r \in requests'
            PROVE  /\ <<r.dial, "resp">> \in told /\ End(s, ids, <<r.dial, "resp">>) = <<r.conn, r.id>>
                   /\ r.at = "introduce" <=> tpState[<<r.dial, "resp">>] = "none"
        BY <2>4, <2>5, <2>6, <2>9, <3>1, Zenon DEF RInv, RequestsOK
      <3>3. \A r, p \in requests' : r.dial = p.dial => r = p
        BY <2>6, <2>9, <3>1 DEF RInv, RequestsOK
      <3> QED BY <2>9, <3>2, <3>3, Zenon DEF RequestsOK
    <2>11. DownOK(s, ids, told)'
      <3>1. down[c] \in Seq(FrameSet(s)) /\ down[c] # <<>> /\ down'[c] = Tail(down[c])
        BY Zenon DEF RInv, TInv, QueueTypes, RecvRequest, Received, Pop
      <3>2. \A d \in Clients : d # c => down'[d] = down[d]
        BY Zenon DEF RInv, TInv, QueueTypes, RecvRequest, Pop
      <3>3. \A k \in DOMAIN down'[c] : /\ k \in Nat /\ k + 1 \in DOMAIN down[c] /\ k + 1 # 1
                                       /\ down'[c][k] = down[c][k + 1]
        BY <3>1, SeqTail
      <3>4. ASSUME NEW d \in Clients, NEW k \in DOMAIN down[d], down[d][k].type = "REQUEST",
                   down[d][k].tp[1] = f.tp[1]
            PROVE  d = c /\ k = 1
        <4>1. down[d][k] \in FrameSet(s)
          BY DEF RInv, TInv, QueueTypes
        <4>2. down[d][k].tp \in PlanTps(s) /\ down[d][k].tp[2] = "init" /\ down[d][k].tp # None
          BY <3>4, <4>1, FrameFields, ScenarioFacts DEF RInv, TInv
        <4>3. down[d][k].tp = f.tp
          BY <2>4, <3>4, <4>2, PeerFacts DEF RInv, TInv
        <4>4. PICK u \in told : End(s, ids, u) = <<d, down[d][k].id>> /\ f.tp = Peer(u)
          BY <4>2, <4>3 DEF RInv, DownOK, DownFrame
        <4>5. u = t
          BY <4>4, PeerFacts, Zenon DEF RInv, TInv, Ghosts
        <4>6. d = c
          BY <2>5, <4>4, <4>5
        <4> QED BY <2>2, <3>4, <4>3, <4>6 DEF RInv, DownOK
      <3>5. ASSUME NEW k \in DOMAIN down'[c]
            PROVE  /\ DownFrame(s, ids, told, c, down'[c][k])
                   /\ down'[c][k].type = "REQUEST" =>
                        /\ tpState[Peer(down'[c][k].tp)] = "none"
                        /\ \A r \in requests' : r.dial # down'[c][k].tp[1]
                        /\ \A j \in DOMAIN down'[c] :
                              down'[c][j].type = "REQUEST" /\ down'[c][j].tp = down'[c][k].tp => j = k
        BY <2>9, <3>3, <3>4 DEF RInv, DownOK
      <3>6. ASSUME NEW d \in Clients, d # c, NEW k \in DOMAIN down'[d]
            PROVE  /\ DownFrame(s, ids, told, d, down'[d][k])
                   /\ down'[d][k].type = "REQUEST" =>
                        /\ tpState[Peer(down'[d][k].tp)] = "none"
                        /\ \A r \in requests' : r.dial # down'[d][k].tp[1]
                        /\ \A j \in DOMAIN down'[d] :
                              down'[d][j].type = "REQUEST" /\ down'[d][j].tp = down'[d][k].tp => j = k
        BY <2>9, <3>2, <3>4, <3>6 DEF RInv, DownOK
      <3> QED BY <2>9, <3>5, <3>6 DEF DownOK, DownFrame
    <2> QED BY <2>1, <2>7, <2>8, <2>10, <2>11, Zenon DEF RInv
  \* The goroutine r works for the responder of its dial.
  <1>RequestOK. ASSUME NEW s, NEW ids, NEW given, NEW told, RInv(s, ids, given, told), NEW r \in requests
                PROVE  LET t == <<r.dial, "resp">> IN
                       /\ r.conn \in Clients /\ r.id \in IdsOf(s) /\ t \in PlanTps(s) /\ t \in Tps
                       /\ t \in told /\ t \in given /\ ids[t] = r.id /\ OwnerOf(s, t) = r.conn /\ t # None
                       /\ \A type \in {"ACCEPT", "CLOSE"} :
                             /\ Frame(type, r.id, t) \in FrameSet(s) /\ Frame(type, r.id, t).type # "REQUEST"
                             /\ UpFrame(s, ids, told, r.conn, Frame(type, r.id, t))
                       /\ Frame("CLOSE", r.id, None) \in FrameSet(s) /\ Frame("CLOSE", r.id, None).type # "REQUEST"
                       /\ UpFrame(s, ids, told, r.conn, Frame("CLOSE", r.id, None))
    <2> USE <1>RequestOK
    <2> DEFINE t == <<r.dial, "resp">>
    <2>1. /\ r.conn \in Clients /\ r.id \in IdsOf(s) /\ t \in PlanTps(s) /\ t \in Tps /\ t # None
      BY RequestTypes, TpTypes, Zenon DEF RInv
    <2>2. t \in told /\ t \in given /\ End(s, ids, t) = <<r.conn, r.id>>
      BY Zenon DEF RInv, RequestsOK, Ghosts
    <2>3. \A type \in {"ACCEPT", "CLOSE"} : Frame(type, r.id, t) \in FrameSet(s)
      BY <2>1, FrameSetHas, Zenon
    <2>4. Frame("CLOSE", r.id, None) \in FrameSet(s)
      BY <2>1, FrameSetHas, Zenon
    <2> HIDE DEF t
    <2>5. /\ \A type \in {"ACCEPT", "CLOSE"} :
               /\ Frame(type, r.id, t).type # "REQUEST"
               /\ UpFrame(s, ids, told, r.conn, Frame(type, r.id, t))
          /\ Frame("CLOSE", r.id, None).type # "REQUEST"
          /\ UpFrame(s, ids, told, r.conn, Frame("CLOSE", r.id, None))
      BY <2>2, Zenon DEF UpFrame, Frame
    <2>6. ids[t] = r.id /\ OwnerOf(s, t) = r.conn
      BY <2>2, Zenon DEF End
    <2> QED BY <2>1, <2>2, <2>3, <2>4, <2>5, <2>6, Zenon DEF t
  <1>RInvRejectRequest. ASSUME NEW r
                        PROVE  KeepsRouting(RejectRequest(r))
    <2> SUFFICES ASSUME NEW s, NEW ids, NEW given, NEW told, RInv(s, ids, given, told), TInv(s)', RejectRequest(r)
                 PROVE  RInv(s, ids, given, told)'
      BY Zenon DEF KeepsRouting
    <2>1. TInv(s)' /\ r \in requests /\ r.at = "introduce" /\ requests' = requests \ {r}
      BY Zenon DEF RInv, RejectRequest
    <2>2. /\ Ghosts(s, ids, given, told)' /\ Counted(s, ids, given)'
          /\ UpOK(s, ids, given, told)' /\ ServerOK(s, ids, given, told)'
      BY <2>1, <1>RequestOK, <1>SendOK, Zenon DEF RejectRequest
    <2>3. TpsOK(s, ids, given, told)' /\ RequestsOK(s, ids, told)' /\ Registered(s, ids)'
      BY <2>1, Zenon DEF RInv, TpsOK, RequestsOK, Registered, RejectRequest
    <2>4. DownOK(s, ids, told)'
      BY <2>1, <1>DownSame, Zenon DEF RInv, RejectRequest
    <2> QED BY <2>1, <2>2, <2>3, <2>4, Zenon DEF RInv
  \* The responder comes to be: no REQUEST frame of its dial is left.
  <1>DownIntroduced. ASSUME NEW s, NEW ids, NEW given, NEW told, RInv(s, ids, given, told), NEW r \in requests,
                            \A t \in Tps : t # <<r.dial, "resp">> => tpState'[t] = tpState[t],
                            \A q \in requests' : \E p \in requests : p.dial = q.dial,
                            UNCHANGED down
                     PROVE  DownOK(s, ids, told)'
    <2> USE <1>DownIntroduced
    <2>1. ASSUME NEW d \in Clients, NEW k \in DOMAIN down[d], down[d][k].type = "REQUEST"
          PROVE  tpState'[Peer(down[d][k].tp)] = tpState[Peer(down[d][k].tp)]
      <3>1. down[d][k] \in FrameSet(s)
        BY DEF RInv, TInv, QueueTypes
      <3>2. down[d][k].tp \in PlanTps(s) /\ r.dial # down[d][k].tp[1]
        BY <2>1, <3>1, FrameFields DEF RInv, DownOK
      <3>3. Peer(down[d][k].tp) \in Tps /\ Peer(down[d][k].tp)[1] = down[d][k].tp[1]
        BY <3>2, PeerFacts, ScenarioFacts, Zenon DEF RInv, TInv
      <3> QED BY <3>2, <3>3
    <2> QED BY <2>1 DEF RInv, DownOK, DownFrame
  <1>RInvIntroduceTransport. ASSUME NEW r
                             PROVE  KeepsRouting(IntroduceTransport(r))
    <2> SUFFICES ASSUME NEW s, NEW ids, NEW given, NEW told, RInv(s, ids, given, told), TInv(s)', IntroduceTransport(r)
                 PROVE  RInv(s, ids, given, told)'
      BY Zenon DEF KeepsRouting
    <2> DEFINE t == <<r.dial, "resp">>
               q == [r EXCEPT !.at = "setTp"]
    <2>1. TInv(s)' /\ r \in requests /\ r.at = "introduce" /\ UNCHANGED <<tps, acks, connected, down>>
      BY Zenon DEF RInv, IntroduceTransport
    <2>2. /\ Ghosts(s, ids, given, told)' /\ Counted(s, ids, given)'
          /\ UpOK(s, ids, given, told)' /\ ServerOK(s, ids, given, told)'
      BY <2>1, <1>RequestOK, <1>SendOK, Zenon DEF IntroduceTransport
    <2>3. /\ t \in Tps /\ t \in told /\ t \in given /\ ids[t] = r.id /\ OwnerOf(s, t) = r.conn
          /\ told \subseteq Tps /\ given \subseteq Tps /\ acks \subseteq Tps
      <3>1. t \in Tps /\ t \in told /\ ids[t] = r.id /\ OwnerOf(s, t) = r.conn
        BY <2>1, <1>RequestOK, Zenon
      <3>2. s \in Scenarios /\ told \subseteq given /\ given \subseteq PlanTps(s) /\ acks \subseteq PlanTps(s)
        BY Zenon DEF RInv, TInv, Ghosts, ClientTypes
      <3> QED BY <3>1, <3>2, ScenarioFacts, Zenon
    <2>4. q.conn = r.conn /\ q.id = r.id /\ q.dial = r.dial /\ q.at = "setTp"
      BY <2>1, Zenon DEF RInv, TInv, ClientTypes
    <2>5. /\ \A u \in Tps : u # t => tpState'[u] = tpState[u] /\ tpId'[u] = tpId[u]
          /\ tpState'[t] = (IF r.conn \in connected THEN "open" ELSE "closed") /\ tpId'[t] = r.id
          /\ requests' = IF r.conn \in connected THEN (requests \ {r}) \cup {q} ELSE requests \ {r}
      BY <2>3, Zenon DEF IntroduceTransport, RInv, TInv, ClientTypes
    <2>6. tpState[t] = "none" /\ t[2] = "resp" /\ t[1] = r.dial
      BY <2>1, Zenon DEF RInv, RequestsOK
    <2>7. DownOK(s, ids, told)'
      <3>1. \A p \in requests' : \E o \in requests : o.dial = p.dial
        <4> HIDE DEF q
        <4> QED BY <2>1, <2>4, <2>5, Zenon
      <3>2. \A u \in Tps : u # <<r.dial, "resp">> => tpState'[u] = tpState[u]
        BY <2>5, Zenon
      <3> QED BY <2>1, <3>1, <3>2, <1>DownIntroduced, Zenon
    <2>8. RequestsOK(s, ids, told)'
      <3>1. ASSUME NEW p \in requests'
            PROVE  /\ <<p.dial, "resp">> \in told /\ End(s, ids, <<p.dial, "resp">>) = <<p.conn, p.id>>
                   /\ p.at = "introduce" <=> tpState'[<<p.dial, "resp">>] = "none"
        <4>1. CASE p \in requests /\ p # r
          <5>1. p.dial # r.dial
            BY <2>1, <4>1, Zenon DEF RInv, RequestsOK
          <5>2. <<p.dial, "resp">> \in Tps /\ <<p.dial, "resp">> # t
            BY <4>1, <5>1, <1>RequestOK, Zenon
          <5> QED BY <2>5, <4>1, <5>2, Zenon DEF RInv, RequestsOK
        <4>2. CASE p = q /\ r.conn \in connected
          BY <2>1, <2>3, <2>4, <2>5, <4>2, Zenon DEF RInv, RequestsOK
        <4> QED BY <2>5, <4>1, <4>2, Zenon
      <3>2. \A p, o \in requests' : p.dial = o.dial => p = o
        <4> HIDE DEF q
        <4> QED BY <2>1, <2>4, <2>5 DEF RInv, RequestsOK
      <3> QED BY <3>1, <3>2, Zenon DEF RequestsOK
    <2> HIDE DEF t, q
    <2>9. TpsOK(s, ids, given, told)'
      BY <2>1, <2>3, <2>5, <2>6, Zenon DEF RInv, TpsOK
    <2>10. Registered(s, ids)'
      <3> SUFFICES ASSUME NEW u \in Tps, u[2] = "resp", tpState'[u] = "open", OwnerOf(s, u) \in connected
                   PROVE  \/ tps[OwnerOf(s, u)][ids[u]] = u
                          \/ \E p \in requests' : p.at = "setTp" /\ p.dial = u[1]
        BY <2>1, Zenon DEF Registered
      <3>1. CASE u = t
        BY <2>3, <2>4, <2>5, <2>6, <3>1, Zenon
      <3>2. CASE u # t
        BY <2>1, <2>5, <3>2, Zenon DEF RInv, Registered
      <3> QED BY <3>1, <3>2, Zenon
    <2> QED BY <2>1, <2>2, <2>7, <2>8, <2>9, <2>10, Zenon DEF RInv
  <1>RInvAcceptMaxed. ASSUME NEW r
                      PROVE  KeepsRouting(AcceptMaxed(r))
    <2> SUFFICES ASSUME NEW s, NEW ids, NEW given, NEW told, RInv(s, ids, given, told), TInv(s)', AcceptMaxed(r)
                 PROVE  RInv(s, ids, given, told)'
      BY Zenon DEF KeepsRouting
    <2> DEFINE t == <<r.dial, "resp">>
               q == [r EXCEPT !.at = "setTp"]
    <2>1. TInv(s)' /\ r \in requests /\ r.at = "introduce" /\ UNCHANGED <<acks, connected, down>>
      BY Zenon DEF RInv, AcceptMaxed
    <2>2. /\ Ghosts(s, ids, given, told)' /\ Counted(s, ids, given)'
          /\ UpOK(s, ids, given, told)' /\ ServerOK(s, ids, given, told)'
      BY <2>1, <1>RequestOK, <1>SendOK, Zenon DEF AcceptMaxed
    <2>3. /\ t \in Tps /\ t \in told /\ t \in given /\ ids[t] = r.id /\ OwnerOf(s, t) = r.conn
          /\ r.conn \in Clients /\ r.id \in IdsOf(s)
          /\ told \subseteq given /\ given \subseteq Tps /\ acks \subseteq Tps
      <3>1. told \subseteq given /\ given \subseteq Tps /\ acks \subseteq Tps
        BY ScenarioFacts, Zenon DEF RInv, TInv, Ghosts, ClientTypes
      <3> QED BY <2>1, <3>1, <1>RequestOK, Zenon
    <2>4. q.conn = r.conn /\ q.id = r.id /\ q.dial = r.dial /\ q.at = "setTp"
      BY <2>1, Zenon DEF RInv, TInv, ClientTypes
    <2>5. /\ \A u \in Tps : u # t => tpState'[u] = tpState[u] /\ tpId'[u] = tpId[u]
          /\ tpState'[t] = "closed" /\ tpId'[t] = r.id
          /\ requests' = (requests \ {r}) \cup {q}
      BY <2>3, Zenon DEF AcceptMaxed, RInv, TInv, ClientTypes
    <2>6. tpState[t] = "none" /\ t[2] = "resp" /\ t[1] = r.dial
      BY <2>1, Zenon DEF RInv, RequestsOK
    <2>7. \A c \in Clients, i \in IdsOf(s) :
              tps'[c][i] = IF <<c, i>> = End(s, ids, t) THEN None ELSE tps[c][i]
      BY <2>3, Zenon DEF AcceptMaxed, RInv, TInv, ClientTypes, End
    <2>8. DownOK(s, ids, told)'
      <3>1. \A p \in requests' : \E o \in requests : o.dial = p.dial
        <4> HIDE DEF q
        <4> QED BY <2>1, <2>4, <2>5, Zenon
      <3>2. \A u \in Tps : u # <<r.dial, "resp">> => tpState'[u] = tpState[u]
        BY <2>5, Zenon
      <3> QED BY <2>1, <3>1, <3>2, <1>DownIntroduced, Zenon
    <2>9. RequestsOK(s, ids, told)'
      <3>1. ASSUME NEW p \in requests'
            PROVE  /\ <<p.dial, "resp">> \in told /\ End(s, ids, <<p.dial, "resp">>) = <<p.conn, p.id>>
                   /\ p.at = "introduce" <=> tpState'[<<p.dial, "resp">>] = "none"
        <4>1. CASE p \in requests /\ p # r
          <5>1. p.dial # r.dial
            BY <2>1, <4>1, Zenon DEF RInv, RequestsOK
          <5>2. <<p.dial, "resp">> \in Tps /\ <<p.dial, "resp">> # t
            BY <4>1, <5>1, <1>RequestOK, Zenon
          <5> QED BY <2>5, <4>1, <5>2, Zenon DEF RInv, RequestsOK
        <4>2. CASE p = q
          BY <2>1, <2>3, <2>4, <2>5, <4>2, Zenon DEF RInv, RequestsOK
        <4> QED BY <2>5, <4>1, <4>2, Zenon
      <3>2. \A p, o \in requests' : p.dial = o.dial => p = o
        <4> HIDE DEF q
        <4> QED BY <2>1, <2>4, <2>5 DEF RInv, RequestsOK
      <3> QED BY <3>1, <3>2, Zenon DEF RequestsOK
    <2> HIDE DEF t, q
    <2>10. TpsOK(s, ids, given, told)'
      <3>1. ASSUME NEW c \in Clients, NEW i \in IdsOf(s), tps'[c][i] # None
            PROVE  /\ tps'[c][i] \in told /\ End(s, ids, tps'[c][i]) = <<c, i>>
                   /\ tpState'[tps'[c][i]] # "none"
        BY <2>3, <2>5, <2>6, <2>7, <3>1 DEF RInv, TpsOK
      <3> QED BY <2>1, <2>3, <2>5, <2>6, <3>1, Zenon DEF RInv, TpsOK
    <2>11. Registered(s, ids)'
      <3> SUFFICES ASSUME NEW u \in Tps, u[2] = "resp", tpState'[u] = "open", OwnerOf(s, u) \in connected
                   PROVE  \/ tps'[OwnerOf(s, u)][ids[u]] = u
                          \/ \E p \in requests' : p.at = "setTp" /\ p.dial = u[1]
        BY <2>1, Zenon DEF Registered
      <3>1. u # t /\ tpState[u] = "open"
        BY <2>5, Zenon
      <3>2. u \in told /\ ids[u] \in IdsOf(s) /\ OwnerOf(s, u) \in Clients
        BY <3>1, ScenarioFacts, Zenon DEF RInv, TInv, TpsOK, Ghosts
      <3>3. End(s, ids, u) # End(s, ids, t)
        BY <2>3, <3>1, <3>2, Zenon DEF RInv, Ghosts
      <3>4. tps'[OwnerOf(s, u)][ids[u]] = tps[OwnerOf(s, u)][ids[u]]
        BY <2>7, <3>2, <3>3, Zenon DEF End
      <3>5. \A p \in requests : p.at = "setTp" => p \in requests'
        BY <2>1, <2>5, Zenon
      <3> QED BY <3>1, <3>4, <3>5, Zenon DEF RInv, Registered
    <2> QED BY <2>1, <2>2, <2>8, <2>9, <2>10, <2>11, Zenon DEF RInv
  <1>RInvSetTp. ASSUME NEW r
                PROVE  KeepsRouting(SetTp(r))
    <2> SUFFICES ASSUME NEW s, NEW ids, NEW given, NEW told, RInv(s, ids, given, told), TInv(s)', SetTp(r)
                 PROVE  RInv(s, ids, given, told)'
      BY Zenon DEF KeepsRouting
    <2> DEFINE t == <<r.dial, "resp">>
    <2>1. /\ TInv(s)' /\ r \in requests /\ r.at = "setTp" /\ requests' = requests \ {r}
          /\ UNCHANGED <<acks, connected, down, tpState, tpId>>
      BY Zenon DEF RInv, SetTp
    <2>2. /\ Ghosts(s, ids, given, told)' /\ Counted(s, ids, given)'
          /\ UpOK(s, ids, given, told)' /\ ServerOK(s, ids, given, told)'
      BY <1>NoSendOK, Zenon DEF SetTp
    <2>3. /\ t \in Tps /\ t \in told /\ t \in given /\ ids[t] = r.id /\ OwnerOf(s, t) = r.conn
          /\ r.conn \in Clients /\ r.id \in IdsOf(s) /\ t[1] = r.dial /\ tpState[t] # "none"
          /\ told \subseteq given /\ given \subseteq PlanTps(s)
      BY <2>1, <1>RequestOK DEF RInv, Ghosts, RequestsOK
    <2>4. \A c \in Clients, i \in IdsOf(s) :
              tps'[c][i] = IF <<c, i>> = End(s, ids, t) THEN t ELSE tps[c][i]
      BY <2>3, Zenon DEF SetTp, RInv, TInv, ClientTypes, End
    <2> HIDE DEF t
    <2>5. TpsOK(s, ids, given, told)'
      BY <2>1, <2>3, <2>4 DEF RInv, TpsOK
    <2>6. RequestsOK(s, ids, told)'
      BY <2>1, Zenon DEF RInv, RequestsOK
    <2>7. Registered(s, ids)'
      <3> SUFFICES ASSUME NEW u \in Tps, u[2] = "resp", tpState[u] = "open", OwnerOf(s, u) \in connected
                   PROVE  \/ tps'[OwnerOf(s, u)][ids[u]] = u
                          \/ \E p \in requests' : p.at = "setTp" /\ p.dial = u[1]
        BY <2>1, Zenon DEF Registered
      <3>1. u \in told /\ ids[u] \in IdsOf(s) /\ OwnerOf(s, u) \in Clients /\ u \in PlanTps(s)
        BY <2>3, ScenarioFacts, Zenon DEF RInv, TInv, TpsOK, Ghosts
      <3>2. CASE u = t
        BY <2>4, <3>1, <3>2, Zenon DEF End
      <3>3. CASE u # t
        <4>1. End(s, ids, u) # End(s, ids, t)
          BY <2>3, <3>1, <3>3, Zenon DEF RInv, Ghosts
        <4>2. tps'[OwnerOf(s, u)][ids[u]] = tps[OwnerOf(s, u)][ids[u]]
          BY <2>4, <3>1, <4>1, Zenon DEF End
        <4>3. u[1] # r.dial
          BY <3>1, <3>3, PeerFacts, Zenon DEF RInv, TInv, t
        <4> QED BY <2>1, <4>2, <4>3, Zenon DEF RInv, Registered
      <3> QED BY <3>2, <3>3, Zenon
    <2>8. DownOK(s, ids, told)'
      BY <2>1, <1>DownSame, Zenon DEF RInv
    <2> QED BY <2>1, <2>2, <2>5, <2>6, <2>7, <2>8, Zenon DEF RInv
  <1> QED
    <2>1. ASSUME NEW t \in Tps PROVE KeepsRouted(Close(t)) /\ KeepsRouted(Write(t))
      BY <2>1, <1>RInvClose, <1>RInvWrite, Zenon DEF KeepsRouted, KeepsRouting, Routed
    <2>2. ASSUME NEW c \in Clients PROVE KeepsRouted(LoseConn(c))
      BY <2>2, <1>RInvLoseConn, Zenon DEF KeepsRouted, KeepsRouting, Routed
    <2>3. ASSUME NEW c \in Clients PROVE KeepsRouted(ClientStep(c))
      <3> SUFFICES ASSUME NEW s, Routed(s), TInv(s)', ClientStep(c)
                   PROVE  Routed(s)'
        BY Zenon DEF KeepsRouted
      <3> USE <2>3
      <3>1. PICK ids, given, told : RInv(s, ids, given, told)
        BY Zenon DEF Routed
      <3>2. RInv(s, ids, given, told)'
        <4>1. ASSUME NEW t \in acks, WriteAck(t)
              PROVE  RInv(s, ids, given, told)'
          BY <3>1, <4>1, <1>RInvWriteAck, Zenon DEF KeepsRouting
        <4>2. CASE RecvReply(c)
          BY <3>1, <4>2, <1>RInvRecvReply, Zenon DEF KeepsRouting
        <4>3. CASE RecvFwd(c)
          BY <3>1, <4>3, <1>RInvRecvFwd, Zenon DEF KeepsRouting
        <4>4. CASE RecvClose(c)
          BY <3>1, <4>4, <1>RInvRecvClose, Zenon DEF KeepsRouting
        <4>5. CASE RecvAckOrAccept(c)
          BY <3>1, <4>5, <1>RInvRecvAckOrAccept, Zenon DEF KeepsRouting
        <4>6. CASE RecvRequestInUse(c)
          BY <3>1, <4>6, <1>RInvRecvRequestInUse, Zenon DEF KeepsRouting
        <4>7. CASE RecvRequest(c)
          BY <3>1, <4>7, <1>RInvRecvRequest, Zenon DEF KeepsRouting
        <4>8. CASE RecvIgnored(c)
          BY <3>1, <4>8, <1>RInvRecvIgnored, Zenon DEF KeepsRouting
        <4>9. ASSUME NEW r \in requests, RejectRequest(r)
              PROVE  RInv(s, ids, given, told)'
          BY <3>1, <4>9, <1>RInvRejectRequest, Zenon DEF KeepsRouting
        <4>10. ASSUME NEW r \in requests, IntroduceTransport(r)
               PROVE  RInv(s, ids, given, told)'
          BY <3>1, <4>10, <1>RInvIntroduceTransport, Zenon DEF KeepsRouting
        <4>11. ASSUME NEW r \in requests, AcceptMaxed(r)
               PROVE  RInv(s, ids, given, told)'
          BY <3>1, <4>11, <1>RInvAcceptMaxed, Zenon DEF KeepsRouting
        <4>12. ASSUME NEW r \in requests, ListenerClosed(r)
               PROVE  RInv(s, ids, given, told)'
          BY <3>1, <4>12, <1>RInvListenerClosed, Zenon DEF KeepsRouting
        <4>13. ASSUME NEW r \in requests, SetTp(r)
               PROVE  RInv(s, ids, given, told)'
          BY <3>1, <4>13, <1>RInvSetTp, Zenon DEF KeepsRouting
        <4> QED BY <4>1, <4>2, <4>3, <4>4, <4>5, <4>6, <4>7, <4>8, <4>9, <4>10, <4>11, <4>12, <4>13, Zenon
            DEF ClientStep
      <3> QED BY <3>2, Zenon DEF Routed
    <2> QED BY <2>1, <2>2, <2>3, Zenon

-----------------------------------------------------------------------------
(* A new id.                                                               *)

LEMMA ModSmall ==
    ASSUME NEW x \in Nat, NEW m \in Nat, x < m
    PROVE  x % m = x
  OBVIOUS

LEMMA Halves ==
    ASSUME NEW n \in Nat, NEW m \in Nat, m % 2 = 0, n + 1 <= m \div 2
    PROVE  2 * n + 2 <= m
  OBVIOUS

LEMMA Parity ==
    ASSUME NEW n \in Nat, NEW p \in {0, 1}
    PROVE  (2 * n + p) % 2 = p
  OBVIOUS

\* Of the transports of s, one more with an id is counted as one more, and the
\* count leaves room for it among the ids.
CountsUp(s) ==
    \A given \in SUBSET PlanTps(s) : \A t \in PlanTps(s) \ given :
        LET G == GivenAt(s, given, OwnerOf(s, t), t[2]) IN
        /\ Cardinality(G) \in Nat /\ Cardinality(G) + 1 <= s.ids \div 2
        /\ Cardinality(GivenAt(s, given \cup {t}, OwnerOf(s, t), t[2])) = Cardinality(G) + 1

\* id is the next in order for t, and no end at the client of t has it.
Fresh(s, ids, given, t, id) ==
    LET n == Cardinality(GivenAt(s, given, OwnerOf(s, t), t[2])) IN
    /\ n \in Nat /\ id = 2 * n + First(t[2]) /\ id \in IdsOf(s)
    /\ After(id) = (2 * (n + 1) + First(t[2])) % s.ids
    /\ Cardinality(GivenAt(s, given \cup {t}, OwnerOf(s, t), t[2])) = n + 1
    /\ \A u \in given : End(s, ids, u) # <<OwnerOf(s, t), id>>

\* Such an id is found.
LEMMA FreshId ==
    ASSUME NEW s \in Scenarios, scenario = s, CountsUp(s),
           NEW ids, NEW given, NEW told, Ghosts(s, ids, given, told), Counted(s, ids, given),
           NEW t \in PlanTps(s), t \notin given,
           NEW from,
           from = (2 * Cardinality(GivenAt(s, given, OwnerOf(s, t), t[2])) + First(t[2])) % s.ids,
           NEW used, \A i \in used : \E u \in given : End(s, ids, u) = <<OwnerOf(s, t), i>>,
           NEW id \in NextFree(from, used)
    PROVE  Fresh(s, ids, given, t, id)
  <1> DEFINE n == Cardinality(GivenAt(s, given, OwnerOf(s, t), t[2]))
             p == First(t[2])
  <1>1. /\ n \in Nat /\ n + 1 <= s.ids \div 2
        /\ Cardinality(GivenAt(s, given \cup {t}, OwnerOf(s, t), t[2])) = n + 1
    BY Zenon DEF Ghosts, CountsUp
  <1>2. s.ids \in Nat /\ s.ids > 0 /\ s.ids % 2 = 0 /\ p \in {0, 1}
    BY ScenarioFacts, Zenon DEF First
  <1>3. from = (2 * n + p) % s.ids
    BY Zenon
  <1>4. \A u \in given : /\ ids[u] \in Nat /\ ids[u] % 2 = First(u[2])
                         /\ u[2] = t[2] /\ OwnerOf(s, u) = OwnerOf(s, t) => ids[u] < 2 * n + p
                         /\ u[2] # t[2] => First(u[2]) # p
    <2>1. \A u \in given : ids[u] \in Nat /\ u \in PlanTps(s)
      BY DEF Ghosts, IdsOf
    <2>2. \A u \in given : u[2] # t[2] => First(u[2]) # p
      BY <2>1 DEF First, PlanTps
    <2> QED BY <2>1, <2>2, Zenon DEF Counted
  <1> HIDE DEF n, p
  <1>5. 2 * n + 2 <= s.ids
    BY <1>1, <1>2, Halves, Zenon
  <1>6. 2 * n + p \in Nat /\ 2 * n + p < s.ids
    BY <1>1, <1>2, <1>5
  <1>7. from = 2 * n + p
    BY <1>2, <1>3, <1>6, ModSmall, Zenon
  <1>8. ASSUME NEW u \in given, End(s, ids, u) = <<OwnerOf(s, t), from>>
        PROVE  FALSE
    <2>1. ids[u] = from /\ OwnerOf(s, u) = OwnerOf(s, t)
      BY <1>8, Zenon DEF End
    <2>2. u[2] # t[2]
      BY <1>1, <1>2, <1>4, <1>7, <2>1
    <2>3. from % 2 = p
      BY <1>1, <1>2, <1>7, Parity, Zenon
    <2> QED BY <1>4, <2>1, <2>2, <2>3, Zenon
  <1>9. 0 \in FreeSteps(from, used)
    <2>1. from \notin used
      BY <1>8, Zenon
    <2>2. (from + 2 * 0) % s.ids = from
      BY <1>2, <1>6, <1>7, ModSmall
    <2>3. 0 \in 0 .. s.ids \div 2 - 1
      BY <1>1, <1>2
    <2> QED BY <2>1, <2>2, <2>3, Zenon DEF FreeSteps, IdMod
  <1>10. PICK k \in FreeSteps(from, used) : /\ \A l \in FreeSteps(from, used) : k <= l
                                            /\ id = (from + 2 * k) % s.ids
    BY Zenon DEF NextFree, IdMod
  <1>11. k = 0
    <2>1. k \in Nat
      BY <1>1, <1>2 DEF FreeSteps, IdMod
    <2> QED BY <1>9, <1>10, <2>1
  <1>12. id = from
    BY <1>2, <1>6, <1>7, <1>10, <1>11, ModSmall
  <1>13. id \in IdsOf(s)
    BY <1>2, <1>6, <1>7, <1>12 DEF IdsOf
  <1>14. After(id) = (2 * (n + 1) + p) % s.ids
    <2>1. id + 2 = 2 * (n + 1) + p
      BY <1>1, <1>2, <1>7, <1>12
    <2> QED BY <2>1, Zenon DEF After, IdMod
  <1> QED BY <1>1, <1>7, <1>8, <1>12, <1>13, <1>14, Zenon DEF n, p, Fresh

\* Only the count of the client and side that got the id goes up.
LEMMA GivenElsewhere ==
    ASSUME NEW s \in Scenarios, NEW given, given \subseteq PlanTps(s), NEW t \in PlanTps(s),
           NEW c, NEW side, ~(c = OwnerOf(s, t) /\ side = t[2])
    PROVE  GivenAt(s, given \cup {t}, c, side) = GivenAt(s, given, c, side)
  <1>1. \A d : <<d, side>> = t => OwnerOf(s, <<d, side>>) = OwnerOf(s, t) /\ side = t[2]
    BY DEF PlanTps
  <1> QED BY <1>1, Zenon DEF GivenAt

\* The ends that had an id before keep it, and the new one has its own.
Grown(s, ids, given, ids2, t, id) ==
    /\ \A u \in given : ids2[u] = ids[u] /\ End(s, ids2, u) = End(s, ids, u)
    /\ id \in IdsOf(s) /\ ids2[t] = id /\ End(s, ids2, t) = <<OwnerOf(s, t), id>>
    /\ \A u \in given : End(s, ids, u) # <<OwnerOf(s, t), id>>

LEMMA GhostsGrow ==
    ASSUME NEW s \in Scenarios, NEW ids, NEW given, NEW told, Ghosts(s, ids, given, told),
           NEW t \in PlanTps(s), t \notin given, t[2] = "resp" => Peer(t) \in given,
           NEW id, Fresh(s, ids, given, t, id), NEW ids2, ids2 = [ids EXCEPT ![t] = id],
           NEW told2, told \subseteq told2, told2 \subseteq told \cup {t}, t[2] = "init" => t \in told2
    PROVE  Grown(s, ids, given, ids2, t, id) /\ Ghosts(s, ids2, given \cup {t}, told2)
  <1>0. id \in IdsOf(s) /\ \A u \in given : End(s, ids, u) # <<OwnerOf(s, t), id>>
    BY Zenon DEF Fresh
  <1>1. \A u \in given : ids2[u] = ids[u]
    BY Zenon DEF Ghosts
  <1>2. ids2[t] = id /\ ids2 \in [PlanTps(s) -> IdsOf(s)]
    BY <1>0, Zenon DEF Ghosts
  <1>3. \A u \in given : End(s, ids2, u) = End(s, ids, u)
    BY <1>1, Zenon DEF End
  <1>4. End(s, ids2, t) = <<OwnerOf(s, t), id>>
    BY <1>2, Zenon DEF End
  <1>5. \A u, v \in given \cup {t} : End(s, ids2, u) = End(s, ids2, v) => u = v
    BY <1>0, <1>3, <1>4, Zenon DEF Ghosts
  <1>6. Ghosts(s, ids2, given \cup {t}, told2)
    BY <1>2, <1>5, Zenon DEF Ghosts
  <1> QED BY <1>0, <1>1, <1>2, <1>3, <1>4, <1>6, Zenon DEF Grown

LEMMA CountedGrows ==
    ASSUME NEW s \in Scenarios, NEW ids, NEW given, NEW told, TInv(s),
           Ghosts(s, ids, given, told), Counted(s, ids, given),
           NEW t \in PlanTps(s), t \notin given,
           NEW id, Fresh(s, ids, given, t, id), NEW ids2, ids2 = [ids EXCEPT ![t] = id],
           nextInitID' = IF t[2] = "init" THEN [nextInitID EXCEPT ![OwnerOf(s, t)] = After(id)]
                                          ELSE nextInitID,
           nextRespID' = IF t[2] = "init" THEN nextRespID
                                          ELSE [nextRespID EXCEPT ![OwnerOf(s, t)] = After(id)]
    PROVE  Counted(s, ids2, given \cup {t})'
  <1> DEFINE N(c, side) == Cardinality(GivenAt(s, given, c, side))
             M(c, side) == Cardinality(GivenAt(s, given \cup {t}, c, side))
             me == OwnerOf(s, t)
  <1>1. \A c, side : ~(c = me /\ side = t[2]) => M(c, side) = N(c, side)
    <2>1. given \subseteq PlanTps(s)
      BY Zenon DEF Ghosts
    <2>2. ASSUME NEW c, NEW side, ~(c = OwnerOf(s, t) /\ side = t[2])
          PROVE  GivenAt(s, given \cup {t}, c, side) = GivenAt(s, given, c, side)
      BY <2>1, <2>2, GivenElsewhere
    <2> QED BY <2>2, Zenon
  <1>2. /\ N(me, t[2]) \in Nat /\ id = 2 * N(me, t[2]) + First(t[2])
        /\ After(id) = (2 * M(me, t[2]) + First(t[2])) % s.ids /\ M(me, t[2]) = N(me, t[2]) + 1
    BY Zenon DEF Fresh
  <1>3. me \in Clients /\ t[2] \in {"init", "resp"} /\ First(t[2]) \in {0, 1}
    BY ScenarioFacts, Zenon DEF PlanTps, First
  <1>4. /\ \A u \in given : ids2[u] = ids[u] /\ ids[u] \in Nat /\ First(u[2]) \in {0, 1}
        /\ ids2[t] = id
    BY DEF Ghosts, IdsOf, First
  <1>5. /\ \A c \in Clients : /\ nextInitID[c] = (2 * N(c, "init") + First("init")) % s.ids
                              /\ nextRespID[c] = (2 * N(c, "resp") + First("resp")) % s.ids
        /\ \A u \in given : /\ ids[u] % 2 = First(u[2])
                            /\ ids[u] < 2 * N(OwnerOf(s, u), u[2]) + First(u[2])
    BY Zenon DEF Counted
  <1> SUFFICES /\ \A c \in Clients : /\ nextInitID'[c] = (2 * M(c, "init") + First("init")) % s.ids
                                     /\ nextRespID'[c] = (2 * M(c, "resp") + First("resp")) % s.ids
               /\ \A u \in given \cup {t} :
                     /\ ids2[u] % 2 = First(u[2])
                     /\ ids2[u] < 2 * M(OwnerOf(s, u), u[2]) + First(u[2])
    BY Zenon DEF Counted
  <1> HIDE DEF N, M, me
  <1>6. ASSUME NEW c \in Clients
        PROVE  /\ nextInitID'[c] = (2 * M(c, "init") + First("init")) % s.ids
               /\ nextRespID'[c] = (2 * M(c, "resp") + First("resp")) % s.ids
    BY <1>1, <1>2, <1>3, <1>5 DEF TInv, ClientTypes, ServerTypes, me
  <1>7. ASSUME NEW u \in given
        PROVE  /\ ids2[u] % 2 = First(u[2])
               /\ ids2[u] < 2 * M(OwnerOf(s, u), u[2]) + First(u[2])
    <2>1. CASE OwnerOf(s, u) = me /\ u[2] = t[2]
      BY <1>2, <1>4, <1>5, <2>1
    <2>2. CASE ~(OwnerOf(s, u) = me /\ u[2] = t[2])
      BY <1>1, <1>4, <1>5, <2>2
    <2> QED BY <2>1, <2>2, Zenon
  <1>8. ids2[t] % 2 = First(t[2]) /\ ids2[t] < 2 * M(me, t[2]) + First(t[2])
    BY <1>2, <1>3, <1>4, Parity
  <1> QED BY <1>6, <1>7, <1>8, Zenon DEF me

\* A dial enters its transport t of client c under the fresh id, and sends f.
Dialled(s, ids, given, told, ids2, given2, told2, t, c, id, f) ==
    /\ t \in PlanTps(s) /\ t[2] = "init" /\ t \notin given /\ c = OwnerOf(s, t)
    /\ given2 = given \cup {t} /\ told2 = told \cup {t}
    /\ \A u \in given : ids2[u] = ids[u] /\ End(s, ids2, u) = End(s, ids, u)
    /\ id \in IdsOf(s) /\ ids2[t] = id /\ End(s, ids2, t) = <<c, id>>
    /\ \A u \in given : End(s, ids, u) # <<c, id>>
    /\ f \in FrameSet(s) /\ f.tp = t /\ f.id = id
    /\ \A b \in Clients, i \in IdsOf(s) : tps'[b][i] = IF b = c /\ i = id THEN t ELSE tps[b][i]
    /\ \A u \in Tps : /\ tpState'[u] = IF u = t THEN "dialing" ELSE tpState[u]
                      /\ tpId'[u] = IF u = t THEN id ELSE tpId[u]
    /\ \A b \in Clients : up'[b] = IF b = c THEN Append(up[c], f) ELSE up[b]
    /\ connected' = connected /\ down' = down /\ requests' = requests /\ acks' = acks
    /\ nextConns' = nextConns /\ at' = at /\ next' = next

LEMMA RInvDialled ==
    ASSUME NEW s, NEW ids, NEW given, NEW told, RInv(s, ids, given, told),
           NEW t, NEW c, NEW id, NEW f, NEW ids2, NEW given2, NEW told2,
           Dialled(s, ids, given, told, ids2, given2, told2, t, c, id, f)
    PROVE  /\ TpsOK(s, ids2, given2, told2)' /\ RequestsOK(s, ids2, told2)' /\ Registered(s, ids2)'
           /\ UpOK(s, ids2, given2, told2)' /\ DownOK(s, ids2, told2)'
           /\ ServerOK(s, ids2, given2, told2)'
  <1>a. t \in PlanTps(s) /\ t[2] = "init" /\ t \notin given /\ c = OwnerOf(s, t)
    BY Zenon DEF Dialled
  <1>b. given2 = given \cup {t} /\ told2 = told \cup {t}
    BY Zenon DEF Dialled
  <1>c. \A u \in given : ids2[u] = ids[u] /\ End(s, ids2, u) = End(s, ids, u)
    BY Zenon DEF Dialled
  <1>d. id \in IdsOf(s) /\ ids2[t] = id /\ End(s, ids2, t) = <<c, id>>
    BY Zenon DEF Dialled
  <1>e. \A u \in given : End(s, ids, u) # <<c, id>>
    BY Zenon DEF Dialled
  <1>f. f \in FrameSet(s) /\ f.tp = t /\ f.id = id
    BY Zenon DEF Dialled
  <1>g. \A b \in Clients, i \in IdsOf(s) : tps'[b][i] = IF b = c /\ i = id THEN t ELSE tps[b][i]
    BY Zenon DEF Dialled
  <1>h. \A u \in Tps : /\ tpState'[u] = IF u = t THEN "dialing" ELSE tpState[u]
                       /\ tpId'[u] = IF u = t THEN id ELSE tpId[u]
    BY Zenon DEF Dialled
  <1>i. \A b \in Clients : up'[b] = IF b = c THEN Append(up[c], f) ELSE up[b]
    BY Zenon DEF Dialled
  <1>j. /\ connected' = connected /\ down' = down /\ requests' = requests /\ acks' = acks
        /\ nextConns' = nextConns /\ at' = at /\ next' = next
    BY Zenon DEF Dialled
  <1>1. TInv(s) /\ s \in Scenarios /\ c \in Clients /\ t \in Tps /\ t \in told2 /\ t \in given2
    BY <1>a, <1>b, ScenarioFacts, Zenon DEF RInv, TInv, ConnTypes
  <1>9. /\ told \subseteq given /\ given \subseteq Tps /\ acks \subseteq Tps /\ None \notin Tps
        /\ told \subseteq told2 /\ given \subseteq given2
    BY <1>1, <1>b, ScenarioFacts, Zenon DEF RInv, Ghosts, TInv, ClientTypes
  <1>11. Peer(t) \notin given2
    BY <1>1, <1>a, <1>b, PeerFacts, Zenon DEF RInv, Ghosts
  <1>13. TpsOK(s, ids2, given2, told2)'
    <2>1. TpsOK(s, ids, given, told)
      BY Zenon DEF RInv
    <2>2. ASSUME NEW b \in Clients, NEW i \in IdsOf(s), tps'[b][i] # None
          PROVE  /\ tps'[b][i] \in told2 /\ End(s, ids2, tps'[b][i]) = <<b, i>>
                 /\ tpState'[tps'[b][i]] # "none"
      <3>1. CASE b = c /\ i = id
        BY <1>1, <1>a, <1>d, <1>g, <1>h, <3>1, Zenon
      <3>2. CASE ~(b = c /\ i = id)
        <4>1. tps'[b][i] = tps[b][i]
          BY <1>g, <3>2, Zenon
        <4>2. /\ tps[b][i] \in told /\ End(s, ids, tps[b][i]) = <<b, i>> /\ tpState[tps[b][i]] # "none"
          BY <2>1, <2>2, <4>1, Zenon DEF TpsOK
        <4> QED BY <1>9, <1>a, <1>c, <1>h, <4>1, <4>2, Zenon
      <3> QED BY <3>1, <3>2, Zenon
    <2>3. ASSUME NEW u \in Tps, tpState'[u] # "none"
          PROVE  u \in told2 /\ tpId'[u] = ids2[u]
      <3>1. CASE u = t
        <4>1. tpId'[t] = id
          BY <1>1, <1>h, Zenon
        <4> QED BY <1>1, <1>d, <3>1, <4>1, Zenon
      <3>2. CASE u # t
        <4>1. u \in told /\ tpId[u] = ids[u]
          BY <1>h, <2>1, <2>3, <3>2, Zenon DEF TpsOK
        <4> QED BY <1>9, <1>c, <1>h, <3>2, <4>1, Zenon
      <3> QED BY <3>1, <3>2, Zenon
    <2>4. \A u \in given2 : u[2] = "init" => tpState'[u] # "none"
      BY <1>1, <1>9, <1>b, <1>h, <2>1, Zenon DEF TpsOK
    <2>5. \A u \in acks' : tpState'[u] # "none"
      BY <1>9, <1>h, <1>j, <2>1, Zenon DEF TpsOK
    <2> QED BY <2>2, <2>3, <2>4, <2>5, Zenon DEF TpsOK, End
  <1>14. RequestsOK(s, ids2, told2)'
    <2>1. RequestsOK(s, ids, told)
      BY Zenon DEF RInv
    <2>2. ASSUME NEW r \in requests
          PROVE  /\ <<r.dial, "resp">> \in told2 /\ End(s, ids2, <<r.dial, "resp">>) = <<r.conn, r.id>>
                 /\ r.at = "introduce" <=> tpState'[<<r.dial, "resp">>] = "none"
      <3>1. <<r.dial, "resp">> \in told /\ <<r.dial, "resp">> # t
        BY <1>a, <2>1 DEF RequestsOK
      <3>2. tpState'[<<r.dial, "resp">>] = tpState[<<r.dial, "resp">>]
        BY <1>9, <1>h, <3>1, Zenon
      <3>3. End(s, ids2, <<r.dial, "resp">>) = End(s, ids, <<r.dial, "resp">>)
        BY <1>9, <1>c, <3>1, Zenon
      <3> QED BY <1>9, <2>1, <3>1, <3>2, <3>3, Zenon DEF RequestsOK
    <2>3. requests' = requests
      BY <1>j, Zenon
    <2> QED BY <2>1, <2>2, <2>3, Zenon DEF RequestsOK, End
  <1>15. Registered(s, ids2)'
    <2> SUFFICES ASSUME NEW u \in Tps, u[2] = "resp", tpState'[u] = "open", OwnerOf(s, u) \in connected
                 PROVE  \/ tps'[OwnerOf(s, u)][ids2[u]] = u
                        \/ \E p \in requests : p.at = "setTp" /\ p.dial = u[1]
      BY <1>j, Zenon DEF Registered
    <2>1. u # t /\ tpState[u] = "open"
      BY <1>a, <1>h, Zenon
    <2>2. u \in given /\ ids[u] \in IdsOf(s) /\ OwnerOf(s, u) \in Clients
      <3>1. TpsOK(s, ids, given, told) /\ Ghosts(s, ids, given, told)
        BY Zenon DEF RInv
      <3>2. u \in given /\ given \subseteq PlanTps(s) /\ ids[u] \in IdsOf(s)
        BY <2>1, <3>1, Zenon DEF TpsOK, Ghosts
      <3> QED BY <1>1, <3>2, ScenarioFacts, Zenon
    <2>3. tps'[OwnerOf(s, u)][ids2[u]] = tps[OwnerOf(s, u)][ids[u]]
      BY <1>c, <1>e, <1>g, <2>2 DEF End
    <2> QED BY <2>1, <2>3, Zenon DEF RInv, Registered
  <1>16. DownOK(s, ids2, told2)'
    <2>1. ASSUME NEW b \in Clients, NEW k \in DOMAIN down[b], down[b][k].type = "REQUEST"
          PROVE  tpState'[Peer(down[b][k].tp)] = tpState[Peer(down[b][k].tp)]
      <3>1. down[b][k] \in FrameSet(s)
        BY <1>1 DEF TInv, QueueTypes
      <3>2. down[b][k].tp \in PlanTps(s) /\ down[b][k].tp[2] = "init"
        BY <2>1, <3>1, FrameFields, Zenon
      <3>3. Peer(down[b][k].tp) \in Tps /\ Peer(down[b][k].tp)[2] = "resp"
        BY <1>1, <3>2, PeerFacts, ScenarioFacts
      <3> QED BY <1>a, <1>h, <3>3, Zenon
    <2>2. \A b \in Clients : \A k \in DOMAIN down[b] : DownFrame(s, ids2, told2, b, down[b][k])
      <3>1. DownOK(s, ids, told)
        BY Zenon DEF RInv
      <3>2. \A b \in Clients : \A k \in DOMAIN down[b] : DownFrame(s, ids, told, b, down[b][k])
        BY <3>1, Zenon DEF DownOK
      <3> QED BY <1>9, <1>c, <3>2 DEF DownFrame
    <2>3. DownOK(s, ids2, told2)' <=>
            \A b \in Clients : \A k \in DOMAIN down[b] :
               /\ DownFrame(s, ids2, told2, b, down[b][k])
               /\ down[b][k].type = "REQUEST" =>
                    /\ tpState'[Peer(down[b][k].tp)] = "none"
                    /\ \A r \in requests : r.dial # down[b][k].tp[1]
                    /\ \A j \in DOMAIN down[b] :
                          down[b][j].type = "REQUEST" /\ down[b][j].tp = down[b][k].tp => j = k
      <3>1. down' = down /\ requests' = requests
        BY <1>j, Zenon
      <3> QED BY <3>1 DEF DownOK, DownFrame, End
    <2>4. DownOK(s, ids, told)
      BY Zenon DEF RInv
    <2>5. ASSUME NEW b \in Clients, NEW k \in DOMAIN down[b], down[b][k].type = "REQUEST"
          PROVE  /\ tpState'[Peer(down[b][k].tp)] = "none"
                 /\ \A r \in requests : r.dial # down[b][k].tp[1]
                 /\ \A j \in DOMAIN down[b] :
                       down[b][j].type = "REQUEST" /\ down[b][j].tp = down[b][k].tp => j = k
      BY <2>1, <2>4, <2>5 DEF DownOK
    <2> QED BY <2>2, <2>3, <2>5, Zenon
  <1>17. ServerOK(s, ids2, given2, told2)'
    <2>1. \A b \in Clients : up[b] # <<>> => InFrame(b)' = InFrame(b)
      <3>1. ASSUME NEW b \in Clients, up[b] # <<>>
            PROVE  InFrame(b)' = InFrame(b)
        <4>1. up[b] \in Seq(FrameSet(s))
          BY <1>1, Zenon DEF TInv, QueueTypes
        <4>2. Head(Append(up[b], f)) = InFrame(b)
          BY <1>f, <3>1, <4>1, SeqAppend DEF InFrame
        <4> QED BY <1>i, <4>2, Zenon DEF InFrame
      <3> QED BY <3>1, Zenon
    <2>2. ServerOK(s, ids2, given2, told2)
      <3>1. ServerOK(s, ids, given, told)
        BY Zenon DEF RInv
      <3> QED BY <1>9, <1>c, <3>1, ServerGrow, Zenon
    <2>3. UNCHANGED <<nextConns, at, next>> /\ connected' \subseteq connected
      BY <1>j, Zenon
    <2> QED BY <1>1, <2>1, <2>2, <2>3, ServerSame, Zenon
  <1>18. UpOK(s, ids2, given2, told2)'
    <2>1. up[c] \in Seq(FrameSet(s))
      BY <1>1, Zenon DEF TInv, QueueTypes
    <2>2. \A b \in Clients : b # c => up'[b] = up[b]
      BY <1>i, Zenon
    <2>3. up'[c] = Append(up[c], f)
      BY <1>1, <1>i, Zenon
    <2>4. /\ DOMAIN up'[c] = DOMAIN up[c] \cup {Len(up[c]) + 1} /\ up'[c][Len(up[c]) + 1] = f
          /\ \A k \in DOMAIN up[c] : up'[c][k] = up[c][k]
      BY <1>f, <2>1, <2>3, SeqAppend
    <2>5. ASSUME NEW b \in Clients, NEW k \in DOMAIN up[b]
          PROVE  /\ UpFrame(s, ids2, told2, b, up[b][k])
                 /\ up[b][k].tp # t
                 /\ up[b][k].type = "REQUEST" =>
                      /\ Peer(up[b][k].tp) \notin told2
                      /\ Peer(up[b][k].tp) \in given2 => k = 1 /\ at[b] \in {"setNext", "forward"}
      <3>1. UpFrame(s, ids, told, b, up[b][k]) /\ up[b][k] \in FrameSet(s)
        <4>1. UpQueue(s, ids, given, told, b, up[b], at[b])
          BY Zenon DEF RInv, UpOK
        <4>2. up[b] \in Seq(FrameSet(s))
          BY <1>1, Zenon DEF TInv, QueueTypes
        <4> QED BY <4>1, <4>2 DEF UpQueue
      <3>2. UpFrame(s, ids2, told2, b, up[b][k]) /\ up[b][k].tp # t
        <4>1. PICK u \in told : End(s, ids, u) = <<b, up[b][k].id>> /\ up[b][k].tp \in {u, None}
          BY <3>1, Zenon DEF UpFrame
        <4>2. u \in told2 /\ u # t /\ End(s, ids2, u) = <<b, up[b][k].id>> /\ None # t
          BY <1>1, <1>9, <1>a, <1>c, <4>1, Zenon
        <4> QED BY <4>1, <4>2, Zenon DEF UpFrame
      <3>3. up[b][k].type = "REQUEST" => Peer(up[b][k].tp) # t
        BY <1>1, <1>a, <3>1, FrameFields, PeerFacts
      <3>4. UpOK(s, ids, given, told)
        BY Zenon DEF RInv
      <3> QED BY <1>b, <3>2, <3>3, <3>4, Zenon DEF UpOK, UpQueue
    <2>6. UpFrame(s, ids2, told2, c, f)
      BY <1>1, <1>d, <1>f, Zenon DEF UpFrame
    <2>7. UpQueue(s, ids2, given2, told2, c, up'[c], at[c])
      <3> SUFFICES ASSUME NEW k \in DOMAIN up'[c]
                   PROVE  /\ UpFrame(s, ids2, told2, c, up'[c][k])
                          /\ up'[c][k].type = "REQUEST" =>
                               /\ Peer(up'[c][k].tp) \notin told2
                               /\ Peer(up'[c][k].tp) \in given2 => k = 1 /\ at[c] \in {"setNext", "forward"}
                               /\ \A j \in DOMAIN up'[c] :
                                     up'[c][j].type = "REQUEST" /\ up'[c][j].tp = up'[c][k].tp => j = k
        BY Zenon DEF UpQueue
      <3>1. CASE k \in DOMAIN up[c]
        <4>1. UpOK(s, ids, given, told)
          BY Zenon DEF RInv
        <4>2. up[c][k].type = "REQUEST" => \A j \in DOMAIN up[c] : up[c][j].type = "REQUEST" /\ up[c][j].tp = up[c][k].tp => j = k
          BY <1>1, <3>1, <4>1, Zenon DEF UpOK, UpQueue
        <4>3. up[c][k].tp # t
          BY <1>1, <2>5, <3>1, Zenon
        <4>4. /\ UpFrame(s, ids2, told2, c, up[c][k])
              /\ up[c][k].type = "REQUEST" =>
                   /\ Peer(up[c][k].tp) \notin told2
                   /\ Peer(up[c][k].tp) \in given2 => k = 1 /\ at[c] \in {"setNext", "forward"}
          BY <1>1, <2>5, <3>1, Zenon
        <4> QED BY <1>f, <2>4, <3>1, <4>2, <4>3, <4>4, Zenon
      <3>2. CASE k = Len(up[c]) + 1
        <4>1. Peer(t) \notin told2
          BY <1>9, <1>11, <1>b, Zenon
        <4>2. up'[c][k] = f /\ \A j \in DOMAIN up[c] : up'[c][j].tp # f.tp
          BY <1>1, <1>f, <2>4, <2>5, <3>2
        <4> QED BY <1>11, <1>f, <2>4, <2>6, <3>2, <4>1, <4>2, Zenon
      <3> QED BY <2>4, <3>1, <3>2, Zenon
    <2>8. ASSUME NEW b \in Clients, b # c
          PROVE  UpQueue(s, ids2, given2, told2, b, up'[b], at[b])
      <3>1. UpQueue(s, ids, given, told, b, up[b], at[b]) /\ up'[b] = up[b]
        BY <2>2, <2>8, Zenon DEF RInv, UpOK
      <3>2. UpQueue(s, ids2, given2, told2, b, up[b], at[b])
        <4>1. \A k \in DOMAIN up[b] :
                 /\ UpFrame(s, ids2, told2, b, up[b][k])
                 /\ up[b][k].type = "REQUEST" =>
                      /\ Peer(up[b][k].tp) \notin told2
                      /\ Peer(up[b][k].tp) \in given2 => k = 1 /\ at[b] \in {"setNext", "forward"}
          BY <2>5, Zenon
        <4> QED BY <3>1, <4>1, Zenon DEF UpQueue
      <3> QED BY <3>1, <3>2, Zenon
    <2>9. at' = at
      BY <1>j, Zenon
    <2> QED BY <2>7, <2>8, <2>9, Zenon DEF UpOK
  <1> QED BY <1>13, <1>14, <1>15, <1>16, <1>17, <1>18, Zenon

LEMMA RInvDialTransport ==
    ASSUME NEW s, NEW ids, NEW given, NEW told, RInv(s, ids, given, told), TInv(s)', CountsUp(s),
           NEW d \in Dials, DialTransport(d)
    PROVE  \E ids2, given2, told2 : RInv(s, ids2, given2, told2)'
  <1>1. TInv(s) /\ TInv(s)' /\ s \in Scenarios /\ scenario = s
    <2>1. TInv(s) /\ TInv(s)'
      BY Zenon DEF RInv
    <2> QED BY <2>1, Zenon DEF RInv, TInv
  <1>a. PICK t : t = <<d, "init">>
    BY Zenon
  <1>b. PICK c : c = OwnerOf(s, t)
    BY Zenon
  <1>2. t \in PlanTps(s) /\ t \in Tps /\ Owner(t) = c /\ t[1] = d /\ t[2] = "init" /\ tpState[t] = "none"
    <2>1. d \in DOMAIN s.plan /\ tpState[t] = "none"
      BY <1>1, <1>a, Zenon DEF DialTransport, plan
    <2> QED BY <1>1, <1>a, <1>b, <2>1, ScenarioFacts, Zenon DEF plan, Owner, OwnerOf, PlanTps, Tps
  <1>3. t \notin given /\ c \in Clients /\ c \in connected /\ t # None
    <2>1. TpsOK(s, ids, given, told)
      BY Zenon DEF RInv
    <2>2. c \in connected
      BY <1>2, <1>a, Zenon DEF DialTransport
    <2> QED BY <1>1, <1>2, <1>b, <2>1, <2>2, ScenarioFacts, Zenon DEF TpsOK
  <1>4. PICK id \in NextFree(nextInitID[c], {i \in Ids : Live(TpAt(c, i))}) :
            /\ nextInitID' = [nextInitID EXCEPT ![c] = After(id)]
            /\ tps' = [tps EXCEPT ![c][id] = t]
            /\ tpId' = [tpId EXCEPT ![t] = id]
            /\ Send(c, Frame("REQUEST", id, t))
    BY <1>2, <1>a, Zenon DEF DialTransport
  <1>5. /\ tpState' = [tpState EXCEPT ![t] = "dialing"]
        /\ connected' = connected /\ down' = down /\ requests' = requests /\ acks' = acks
        /\ nextConns' = nextConns /\ at' = at /\ next' = next /\ nextRespID' = nextRespID
    BY <1>a, Zenon DEF DialTransport, serverVars
  <1>6. Fresh(s, ids, given, t, id)
    <2>1. Ghosts(s, ids, given, told) /\ Counted(s, ids, given)
      BY Zenon DEF RInv
    <2>2. PICK from : from = nextInitID[c]
      BY Zenon
    <2>3. PICK used : used = {i \in Ids : Live(TpAt(c, i))}
      BY Zenon
    <2>4. \A i \in used : \E u \in given : End(s, ids, u) = <<c, i>>
      <3>1. TpsOK(s, ids, given, told) /\ told \subseteq given
        BY <2>1, Zenon DEF RInv, Ghosts
      <3>2. Ids = IdsOf(s)
        BY <1>1, Zenon DEF Ids, IdMod, IdsOf
      <3> QED BY <1>3, <2>3, <3>1, <3>2 DEF TpsOK, Live, TpAt
    <2>5. from = (2 * Cardinality(GivenAt(s, given, OwnerOf(s, t), t[2])) + First(t[2])) % s.ids
      BY <1>2, <1>3, <1>b, <2>1, <2>2, Zenon DEF Counted
    <2>6. id \in NextFree(from, used)
      BY <1>4, <2>2, <2>3, Zenon
    <2>7. \A i \in used : \E u \in given : End(s, ids, u) = <<OwnerOf(s, t), i>>
      BY <1>b, <2>4, Zenon
    <2> QED BY <1>1, <1>2, <1>3, <2>1, <2>5, <2>6, <2>7, FreshId, Zenon
  <1>c. PICK ids2 : ids2 = [ids EXCEPT ![t] = id]
    BY Zenon
  <1>e. PICK given2 : given2 = given \cup {t}
    BY Zenon
  <1>f. PICK told2 : told2 = told \cup {t}
    BY Zenon
  <1>g. PICK f : f = Frame("REQUEST", id, t)
    BY Zenon
  <1>8. /\ \A u \in given : ids2[u] = ids[u] /\ End(s, ids2, u) = End(s, ids, u)
        /\ id \in IdsOf(s) /\ ids2[t] = id /\ End(s, ids2, t) = <<c, id>>
        /\ \A u \in given : End(s, ids, u) # <<c, id>>
        /\ Ghosts(s, ids2, given2, told2)
    <2>1. Ghosts(s, ids, given, told) /\ (t[2] = "resp" => Peer(t) \in given) /\ (t[2] = "init" => t \in told2)
          /\ told \subseteq told2 /\ told2 \subseteq told \cup {t}
      BY <1>2, <1>f, Zenon DEF RInv
    <2>2. Grown(s, ids, given, ids2, t, id) /\ Ghosts(s, ids2, given \cup {t}, told2)
      BY <1>1, <1>2, <1>3, <1>6, <1>c, <2>1, GhostsGrow, Zenon
    <2>3. Ghosts(s, ids2, given2, told2)
      BY <2>2, <1>e, Zenon
    <2> QED BY <2>2, <2>3, <1>b, Zenon DEF Grown
  <1>9. f \in FrameSet(s) /\ f.tp = t /\ f.id = id
    BY <1>2, <1>3, <1>8, <1>g, Zenon DEF FrameSet, Frame
  <1>10. /\ \A b \in Clients, i \in IdsOf(s) : tps'[b][i] = IF b = c /\ i = id THEN t ELSE tps[b][i]
         /\ \A u \in Tps : /\ tpState'[u] = IF u = t THEN "dialing" ELSE tpState[u]
                           /\ tpId'[u] = IF u = t THEN id ELSE tpId[u]
    BY <1>1, <1>2, <1>3, <1>4, <1>5, <1>8 DEF TInv, ClientTypes
  <1>11. \A b \in Clients : up'[b] = IF b = c THEN Append(up[c], f) ELSE up[b]
    BY <1>1, <1>3, <1>4, <1>g, Zenon DEF Send, TInv, QueueTypes
  <1>12. /\ TpsOK(s, ids2, given2, told2)' /\ RequestsOK(s, ids2, told2)' /\ Registered(s, ids2)'
         /\ UpOK(s, ids2, given2, told2)' /\ DownOK(s, ids2, told2)'
         /\ ServerOK(s, ids2, given2, told2)'
    <2>1. Dialled(s, ids, given, told, ids2, given2, told2, t, c, id, f)
      BY <1>2, <1>3, <1>5, <1>8, <1>9, <1>10, <1>11, <1>b, <1>e, <1>f, Zenon DEF Dialled
    <2> QED BY <2>1, RInvDialled, Zenon
  <1>13. Counted(s, ids2, given2)'
    <2>1. Ghosts(s, ids, given, told) /\ Counted(s, ids, given)
      BY Zenon DEF RInv
    <2>2. /\ nextInitID' = IF t[2] = "init" THEN [nextInitID EXCEPT ![OwnerOf(s, t)] = After(id)]
                                            ELSE nextInitID
          /\ nextRespID' = IF t[2] = "init" THEN nextRespID
                                            ELSE [nextRespID EXCEPT ![OwnerOf(s, t)] = After(id)]
      BY <1>2, <1>4, <1>5, <1>b, Zenon
    <2>3. Counted(s, ids2, given \cup {t})'
      BY <1>1, <1>2, <1>3, <1>6, <1>c, <2>1, <2>2, CountedGrows, Zenon
    <2> QED BY <2>3, <1>e, Zenon
  <1>14. Ghosts(s, ids2, given2, told2)'
    BY <1>8, Zenon DEF Ghosts, End
  <1>15. RInv(s, ids2, given2, told2)'
    BY <1>1, <1>12, <1>13, <1>14, Zenon DEF RInv
  <1> QED BY <1>15, Zenon

\* A responder has got an id: what the clients hold is about other ends.
LEMMA ClientsGrow ==
    ASSUME NEW s, NEW ids, NEW given, NEW told, RInv(s, ids, given, told),
           NEW t, t[2] = "resp", NEW id, NEW ids2, Grown(s, ids, given, ids2, t, id)
    PROVE  /\ TpsOK(s, ids2, given \cup {t}, told) /\ RequestsOK(s, ids2, told) /\ Registered(s, ids2)
           /\ DownOK(s, ids2, told)
  <1>1. \A u \in told : ids2[u] = ids[u] /\ End(s, ids2, u) = End(s, ids, u)
    BY Zenon DEF RInv, Ghosts, Grown
  <1>2. TpsOK(s, ids, given, told) /\ RequestsOK(s, ids, told) /\ Registered(s, ids) /\ DownOK(s, ids, told)
    BY Zenon DEF RInv
  <1>3. TpsOK(s, ids2, given \cup {t}, told)
    BY <1>1, <1>2, Zenon DEF TpsOK
  <1>4. RequestsOK(s, ids2, told)
    BY <1>1, <1>2, Zenon DEF RequestsOK
  <1>5. Registered(s, ids2)
    <2>1. \A u \in Tps : tpState[u] = "open" => ids2[u] = ids[u]
      BY <1>1, <1>2, Zenon DEF TpsOK
    <2> QED BY <1>2, <2>1, Zenon DEF Registered
  <1>6. DownOK(s, ids2, told)
    <2>1. \A d \in Clients : \A f : DownFrame(s, ids, told, d, f) => DownFrame(s, ids2, told, d, f)
      BY <1>1, Zenon DEF DownFrame
    <2> QED BY <1>2, <2>1, Zenon DEF DownOK
  <1> QED BY <1>3, <1>4, <1>5, <1>6, Zenon

\* addNext: Serve of c turns to the REQUEST frame with id i of transport a; the
\* responder t of client r gets an id.
Added(s, ids, given, ids2, c, a, i, t, r, id) ==
    /\ up[c] # <<>> /\ at[c] = "read" /\ InFrame(c).type = "REQUEST"
    /\ a = InFrame(c).tp /\ i = InFrame(c).id /\ i \in IdsOf(s)
    /\ a \in PlanTps(s) /\ t = Peer(a) /\ t \in PlanTps(s) /\ t \notin given /\ t[2] = "resp"
    /\ r = OwnerOf(s, t) /\ r \in Clients /\ Grown(s, ids, given, ids2, t, id)
    /\ StepOf(c) /\ connected' = connected /\ up' = up /\ at'[c] = "setNext" /\ next'[c] = <<r, id>>
    /\ \A b \in Clients, j \in IdsOf(s) :
          nextConns'[b][j] = IF b = r /\ j = id THEN <<c, i>> ELSE nextConns[b][j]

LEMMA UpAdded ==
    ASSUME NEW s, NEW ids, NEW given, NEW told, RInv(s, ids, given, told), NEW ids2,
           NEW c \in Clients, NEW a, NEW i, NEW t, NEW r, NEW id,
           Added(s, ids, given, ids2, c, a, i, t, r, id),
           NEW given2, given2 = given \cup {t}
    PROVE  UpOK(s, ids2, given2, told)'
  <1>1. UpOK(s, ids, given, told) /\ s \in Scenarios /\ told \subseteq given /\ up[c] \in Seq(FrameSet(s))
    BY Zenon DEF RInv, UpOK, TInv, Ghosts, QueueTypes
  <1>2. /\ up[c] # <<>> /\ at[c] = "read" /\ InFrame(c).type = "REQUEST" /\ a = InFrame(c).tp
        /\ a \in PlanTps(s) /\ t = Peer(a) /\ t \notin given
        /\ StepOf(c) /\ up' = up /\ at'[c] = "setNext"
    BY Zenon DEF Added
  <1>3. 1 \in DOMAIN up[c] /\ up[c][1] = InFrame(c)
    BY <1>1, <1>2, SeqTail, Zenon DEF InFrame
  <1>4. OwnerOf(s, a) = c
    BY <1>2, <1>3, QueuedRequest
  <1>5. \A d \in Clients : \A f : UpFrame(s, ids, told, d, f) => UpFrame(s, ids2, told, d, f)
    <2>1. \A u \in told : End(s, ids2, u) = End(s, ids, u)
      BY <1>1, Zenon DEF Added, Grown
    <2> QED BY <2>1, Zenon DEF UpFrame
  <1>6. ASSUME NEW d \in Clients, NEW k \in DOMAIN up[d], up[d][k].type = "REQUEST", Peer(up[d][k].tp) = t
        PROVE  d = c /\ k = 1
    <2>1. up[d][k].tp \in PlanTps(s) /\ OwnerOf(s, up[d][k].tp) = d
      BY <1>6, QueuedRequest, Zenon
    <2>2. up[d][k].tp = a
      BY <1>1, <1>2, <1>6, <2>1, PeerFacts
    <2>3. d = c
      BY <1>4, <2>1, <2>2, Zenon
    <2>4. UpQueue(s, ids, given, told, c, up[c], at[c])
      BY <1>1, Zenon DEF UpOK
    <2> QED BY <1>2, <1>3, <1>6, <2>2, <2>3, <2>4, Zenon DEF UpQueue
  <1>7. ASSUME NEW d \in Clients
        PROVE  UpQueue(s, ids2, given2, told, d, up'[d], at'[d])
    <2>1. UpQueue(s, ids, given, told, d, up[d], at[d])
      BY <1>1, Zenon DEF UpOK
    <2>2. at[d] \in {"setNext", "forward"} => at'[d] \in {"setNext", "forward"}
      BY <1>2, Zenon DEF StepOf
    <2>3. ASSUME NEW k \in DOMAIN up[d], up[d][k].type = "REQUEST", Peer(up[d][k].tp) \in given2
          PROVE  k = 1 /\ at'[d] \in {"setNext", "forward"}
      <3>1. CASE Peer(up[d][k].tp) = t
        BY <1>2, <1>6, <2>3, <3>1, Zenon
      <3>2. CASE Peer(up[d][k].tp) \in given
        BY <2>1, <2>2, <2>3, <3>2, Zenon DEF UpQueue
      <3> QED BY <2>3, <3>1, <3>2, Zenon
    <2> QED BY <1>2, <1>5, <2>1, <2>3, Zenon DEF UpQueue
  <1> QED BY <1>7, Zenon DEF UpOK, UpQueue, UpFrame, End

LEMMA ServerAdded ==
    ASSUME NEW s, NEW ids, NEW given, NEW told, RInv(s, ids, given, told), NEW ids2,
           NEW c \in Clients, NEW a, NEW i, NEW t, NEW r, NEW id,
           Added(s, ids, given, ids2, c, a, i, t, r, id),
           NEW given2, given2 = given \cup {t}
    PROVE  ServerOK(s, ids2, given2, told)'
  <1>1. /\ TInv(s) /\ s \in Scenarios /\ told \subseteq given
        /\ RoutesOK(s, ids, given, told) /\ InHand(s, ids, given, told) /\ Paired(s)
    BY Zenon DEF RInv, TInv, Ghosts, ServerOK
  <1>2. /\ up[c] # <<>> /\ at[c] = "read" /\ InFrame(c).type = "REQUEST"
        /\ a = InFrame(c).tp /\ i = InFrame(c).id /\ i \in IdsOf(s)
        /\ a \in PlanTps(s) /\ t = Peer(a) /\ t \in PlanTps(s)
        /\ r \in Clients /\ r = OwnerOf(s, t)
    BY Zenon DEF Added
  <1>3. StepOf(c) /\ connected' = connected /\ up' = up /\ at'[c] = "setNext" /\ next'[c] = <<r, id>>
    BY Zenon DEF Added
  <1>4. \A b \in Clients, j \in IdsOf(s) :
            nextConns'[b][j] = IF b = r /\ j = id THEN <<c, i>> ELSE nextConns[b][j]
    BY Zenon DEF Added
  <1>5. /\ \A u \in given : End(s, ids2, u) = End(s, ids, u) /\ End(s, ids, u) # <<r, id>>
        /\ id \in IdsOf(s) /\ End(s, ids2, t) = <<r, id>>
    BY <1>2, Zenon DEF Added, Grown
  <1>6. a \in told /\ End(s, ids, a) = <<c, i>> /\ Peer(t) = a
    BY <1>1, <1>2, SentUnder, PeerFacts
  <1>7. RoutesOK(s, ids2, given2, told) /\ InHand(s, ids2, given2, told)
    <2>1. ServerOK(s, ids, given, told) /\ given \subseteq given2 /\ told \subseteq told
          /\ \A u \in given : End(s, ids2, u) = End(s, ids, u)
      BY <1>5, Zenon DEF RInv
    <2>2. ServerOK(s, ids2, given2, told)
      BY <1>1, <2>1, ServerGrow, Zenon
    <2> QED BY <2>2, Zenon DEF ServerOK
  <1>b. \A d \in Clients : InFrame(d)' = InFrame(d)
    BY <1>3, Zenon DEF InFrame
  <1>8. RoutesOK(s, ids2, given2, told)'
    <2>1. ASSUME NEW b \in Clients, NEW j \in IdsOf(s)
          PROVE  RouteOK(s, ids2, given2, told, b, j, nextConns'[b][j], at'[b], InFrame(b)')
      <3>1. CASE b = r /\ j = id
        <4>1. t \in given2 /\ a \in given2 /\ End(s, ids2, a) = <<c, i>>
          BY <1>1, <1>5, <1>6, Zenon
        <4>2. RouteOK(s, ids2, given2, told, r, id, <<c, i>>, at'[b], InFrame(b)')
          BY <1>5, <1>6, <4>1, Zenon DEF RouteOK
        <4>3. nextConns'[b][j] = <<c, i>>
          BY <1>4, <3>1, Zenon
        <4> QED BY <3>1, <4>2, <4>3, Zenon
      <3>2. CASE ~(b = r /\ j = id)
        <4>1. PICK m : m = nextConns[b][j]
          BY Zenon
        <4>2. RouteOK(s, ids2, given2, told, b, j, m, at[b], InFrame(b))
          BY <1>7, <4>1, Zenon DEF RoutesOK
        <4>3. at[b] = "forward" => at'[b] = "forward"
          BY <1>2, <1>3, Zenon DEF StepOf
        <4>4. RouteOK(s, ids2, given2, told, b, j, m, at'[b], InFrame(b))
          BY <4>2, <4>3, Zenon DEF RouteOK
        <4>5. nextConns'[b][j] = m
          BY <1>4, <3>2, <4>1, Zenon
        <4> QED BY <1>b, <4>4, <4>5, Zenon
      <3> QED BY <3>1, <3>2, Zenon
    <2> QED BY <2>1, Zenon DEF RoutesOK
  <1>9. InHand(s, ids2, given2, told)'
    <2>1. ASSUME NEW d \in Clients
          PROVE  HandOK(s, ids2, given2, told, d, at'[d], InFrame(d), next'[d], nextConns')
      <3>1. CASE d = c
        <4>1. PICK f, n : f = InFrame(c) /\ n = <<r, id>>
          BY Zenon
        <4>2. f.type = "REQUEST" /\ f.id = i /\ Peer(f.tp) = t /\ t \in given2 /\ n = End(s, ids2, t)
          BY <1>2, <1>5, <4>1, Zenon
        <4>3. nextConns'[n[1]][n[2]] = <<c, i>>
          BY <1>2, <1>4, <1>5, <4>1, Zenon
        <4>4. HandOK(s, ids2, given2, told, c, "setNext", f, n, nextConns')
          BY <4>2, <4>3, Zenon DEF HandOK
        <4> QED BY <1>3, <3>1, <4>1, <4>4, Zenon
      <3>2. CASE d # c
        <4>0. PICK f, n : f = InFrame(d) /\ n = next[d]
          BY Zenon
        <4>1. at'[d] = at[d] /\ next'[d] = n
          BY <1>3, <3>2, <4>0, Zenon DEF StepOf
        <4>2. /\ HandOK(s, ids, given, told, d, at[d], f, n, nextConns)
              /\ HandOK(s, ids2, given2, told, d, at[d], f, n, nextConns)
          BY <1>1, <1>7, <4>0, Zenon DEF InHand
        <4>3. ASSUME at[d] = "setNext"
              PROVE  nextConns'[n[1]][n[2]] = nextConns[n[1]][n[2]]
          <5>1. n # <<r, id>>
            BY <1>5, <4>2, <4>3, Zenon DEF HandOK
          <5>2. n \in Clients \X IdsOf(s)
            BY <1>1, <4>0, <4>3, Zenon DEF TInv, ServerTypes
          <5> QED BY <1>4, <5>1, <5>2
        <4>4. ASSUME at[d] = "delPeer"
              PROVE  nextConns'[d][f.id] = nextConns[d][f.id]
          <5>1. f.id \in IdsOf(s)
            BY <4>0, <4>4, ClosingOK, Zenon
          <5>2. <<d, f.id>> # <<r, id>>
            BY <1>5, <4>2, <4>4, Zenon DEF HandOK
          <5> QED BY <1>4, <5>1, <5>2, Zenon
        <4>5. HandOK(s, ids2, given2, told, d, at[d], f, n, nextConns')
          BY <4>2, <4>3, <4>4, HandKeep, Zenon
        <4> QED BY <4>0, <4>1, <4>5, Zenon
      <3> QED BY <3>1, <3>2, Zenon
    <2> QED BY <1>b, <2>1, Zenon DEF InHand
  <1>10. Paired(s)'
    <2>1. ASSUME NEW b \in connected, NEW j \in IdsOf(s)
          PROVE  PairOK(nextConns', at', next', b, j, nextConns'[b][j])
      <3>1. PICK m : m = nextConns'[b][j]
        BY Zenon
      <3>2. b \in Clients
        BY <1>1, Zenon DEF TInv, ConnTypes
      <3>3. CASE b = r /\ j = id
        <4>1. m = <<c, i>> /\ m[1] = c
          BY <1>2, <1>4, <1>5, <3>1, <3>3
        <4>2. PairOK(nextConns', at', next', b, j, m)
          BY <1>3, <3>3, <4>1, Zenon DEF PairOK
        <4> QED BY <3>1, <4>2, Zenon
      <3>4. CASE ~(b = r /\ j = id) /\ m # None
        <4>1. m = nextConns[b][j]
          BY <1>4, <3>1, <3>2, <3>4, Zenon
        <4>2. m \in Clients \X IdsOf(s) /\ m[1] \in Clients /\ m[2] \in IdsOf(s) /\ m = <<m[1], m[2]>>
          BY <1>1, <3>2, <3>4, <4>1 DEF TInv, ServerTypes
        <4>3. m # <<r, id>>
          <5>1. RouteOK(s, ids, given, told, b, j, m, at[b], InFrame(b))
            BY <1>1, <3>2, <4>1, Zenon DEF RoutesOK
          <5> QED BY <1>5, <3>4, <5>1, Zenon DEF RouteOK
        <4>4. nextConns'[m[1]][m[2]] = nextConns[m[1]][m[2]]
          BY <1>4, <4>2, <4>3, Zenon
        <4>5. PairOK(nextConns, at, next, b, j, m)
          BY <1>1, <4>1, Zenon DEF Paired
        <4>6. at[m[1]] \in {"setNext", "delPeer"} => at'[m[1]] = at[m[1]] /\ next'[m[1]] = next[m[1]]
          BY <1>2, <1>3, <4>2, Zenon DEF StepOf
        <4>7. PairOK(nextConns', at', next', b, j, m)
          BY <4>4, <4>5, <4>6, Zenon DEF PairOK
        <4> QED BY <3>1, <4>7, Zenon
      <3>5. CASE m = None
        BY <3>1, <3>5, Zenon DEF PairOK
      <3> QED BY <3>3, <3>4, <3>5, Zenon
    <2> QED BY <1>3, <2>1, Zenon DEF Paired
  <1> QED BY <1>8, <1>9, <1>10, Zenon DEF ServerOK

LEMMA RInvAddNext ==
    ASSUME NEW s, NEW ids, NEW given, NEW told, RInv(s, ids, given, told), TInv(s)', CountsUp(s),
           NEW c \in Clients, addNext(c)
    PROVE  \E ids2, given2 : RInv(s, ids2, given2, told)'
  <1>1. TInv(s) /\ TInv(s)' /\ s \in Scenarios /\ scenario = s
    <2>1. TInv(s) /\ TInv(s)'
      BY Zenon DEF RInv
    <2> QED BY <2>1, Zenon DEF RInv, TInv
  <1>2. /\ up[c] # <<>> /\ at[c] = "read" /\ InFrame(c).type = "REQUEST"
        /\ Goto(c, "setNext") /\ UNCHANGED <<connected, up, down, clientVars>>
    BY Zenon DEF addNext, Reading
  <1>3. PICK a, i, t : a = InFrame(c).tp /\ i = InFrame(c).id /\ t = Peer(a)
    BY Zenon
  <1>4. PICK r : r = OwnerOf(s, t)
    BY Zenon
  <1>5. /\ i \in IdsOf(s) /\ a \in PlanTps(s) /\ a[2] = "init" /\ a \in told /\ t \notin given
    BY <1>2, <1>3, SentUnder, Zenon
  <1>6. /\ t \in PlanTps(s) /\ t[2] = "resp" /\ Peer(t) = a /\ r \in Clients
        /\ Responder(InFrame(c)) = r
    <2>1. t \in PlanTps(s) /\ t[2] = "resp" /\ Peer(t) = a
      BY <1>1, <1>3, <1>5, PeerFacts, Zenon
    <2>2. Responder(InFrame(c)) = OwnerOf(s, Peer(InFrame(c).tp))
      BY <1>1, <1>2, RequestedTypes, Zenon
    <2>3. r \in Clients
      BY <1>1, <1>4, <2>1, ScenarioFacts, Zenon
    <2> QED BY <1>3, <1>4, <2>1, <2>2, <2>3, Zenon
  <1>7. PICK id \in NextFree(nextRespID[r], {j \in Ids : nextConns[r][j] # None}) :
            /\ nextConns' = [nextConns EXCEPT ![r][id] = <<c, i>>]
            /\ nextRespID' = [nextRespID EXCEPT ![r] = After(id)]
            /\ next' = [next EXCEPT ![c] = <<r, id>>]
    BY <1>3, <1>6, Zenon DEF addNext
  <1>8. Ghosts(s, ids, given, told) /\ Counted(s, ids, given) /\ RoutesOK(s, ids, given, told)
    BY Zenon DEF RInv, ServerOK
  <1>9. Fresh(s, ids, given, t, id)
    <2>1. PICK from, used : from = nextRespID[r] /\ used = {j \in Ids : nextConns[r][j] # None}
      BY Zenon
    <2>2. \A j \in used : \E u \in given : End(s, ids, u) = <<OwnerOf(s, t), j>>
      <3>1. Ids = IdsOf(s)
        BY <1>1, Zenon DEF Ids, IdMod, IdsOf
      <3> QED BY <1>4, <1>6, <1>8, <2>1, <3>1 DEF RoutesOK, RouteOK
    <2>3. from = (2 * Cardinality(GivenAt(s, given, OwnerOf(s, t), t[2])) + First(t[2])) % s.ids
      BY <1>4, <1>6, <1>8, <2>1, Zenon DEF Counted
    <2>4. id \in NextFree(from, used)
      BY <1>7, <2>1, Zenon
    <2> QED BY <1>1, <1>5, <1>6, <1>8, <2>2, <2>3, <2>4, FreshId, Zenon
  <1>10. PICK ids2, given2 : ids2 = [ids EXCEPT ![t] = id] /\ given2 = given \cup {t}
    BY Zenon
  <1>11. Grown(s, ids, given, ids2, t, id) /\ Ghosts(s, ids2, given2, told)
    <2>1. (t[2] = "resp" => Peer(t) \in given) /\ (t[2] = "init" => t \in told)
          /\ told \subseteq told /\ told \subseteq told \cup {t}
      BY <1>5, <1>6, <1>8, Zenon DEF Ghosts
    <2>2. Grown(s, ids, given, ids2, t, id) /\ Ghosts(s, ids2, given \cup {t}, told)
      BY <1>1, <1>5, <1>6, <1>8, <1>9, <1>10, <2>1, GhostsGrow, Zenon
    <2> QED BY <1>10, <2>2, Zenon
  <1>12. Added(s, ids, given, ids2, c, a, i, t, r, id)
    <2>1. StepOf(c) /\ at'[c] = "setNext" /\ next'[c] = <<r, id>>
      BY <1>1, <1>2, <1>7, Zenon DEF StepOf, Goto, TInv, ServerTypes, InFrame
    <2>2. id \in IdsOf(s)
      BY <1>11, Zenon DEF Grown
    <2>3. \A b \in Clients, j \in IdsOf(s) :
            nextConns'[b][j] = IF b = r /\ j = id THEN <<c, i>> ELSE nextConns[b][j]
      <3>1. nextConns \in [Clients -> [IdsOf(s) -> (Clients \X IdsOf(s)) \cup {None}]]
        BY <1>1, Zenon DEF TInv, ServerTypes
      <3>2. nextConns' = [nextConns EXCEPT ![r][id] = <<c, i>>] /\ r \in Clients
        BY <1>6, <1>7, Zenon
      <3> QED BY <2>2, <3>1, <3>2, Zenon
    <2> QED BY <1>2, <1>3, <1>4, <1>5, <1>6, <1>11, <2>1, <2>3, Zenon DEF Added
  <1>13. UpOK(s, ids2, given2, told)' /\ ServerOK(s, ids2, given2, told)'
    BY <1>10, <1>12, UpAdded, ServerAdded, Zenon
  <1>14. /\ TpsOK(s, ids2, given2, told)' /\ RequestsOK(s, ids2, told)' /\ Registered(s, ids2)'
         /\ DownOK(s, ids2, told)'
    <2>1. UNCHANGED <<tps, tpState, tpId, requests, acks, connected, down>>
      BY <1>2, Zenon DEF clientVars
    <2>2. /\ TpsOK(s, ids2, given2, told) /\ RequestsOK(s, ids2, told) /\ Registered(s, ids2)
          /\ DownOK(s, ids2, told)
      BY <1>6, <1>10, <1>11, ClientsGrow, Zenon
    <2>3. DownOK(s, ids2, told)'
      <3>1. \A d \in Clients : \A k \in DOMAIN down'[d] : k \in DOMAIN down[d] /\ down'[d][k] = down[d][k]
        BY <2>1, Zenon
      <3> QED BY <2>1, <2>2, <3>1, DownMore, Zenon
    <2> QED BY <1>1, <2>1, <2>2, <2>3, ClientSame, Zenon
  <1>15. Counted(s, ids2, given2)'
    <2>1. /\ nextInitID' = IF t[2] = "init" THEN [nextInitID EXCEPT ![OwnerOf(s, t)] = After(id)]
                                            ELSE nextInitID
          /\ nextRespID' = IF t[2] = "init" THEN nextRespID
                                            ELSE [nextRespID EXCEPT ![OwnerOf(s, t)] = After(id)]
      BY <1>2, <1>4, <1>6, <1>7, Zenon DEF clientVars
    <2>2. Counted(s, ids2, given \cup {t})'
      BY <1>1, <1>5, <1>6, <1>8, <1>9, <1>10, <2>1, CountedGrows, Zenon
    <2> QED BY <1>10, <2>2, Zenon
  <1>16. Ghosts(s, ids2, given2, told)'
    BY <1>11, Zenon DEF Ghosts, End
  <1>17. RInv(s, ids2, given2, told)'
    BY <1>1, <1>13, <1>14, <1>15, <1>16, Zenon DEF RInv
  <1> QED BY <1>17, Zenon

-----------------------------------------------------------------------------
(* The invariant holds in every reachable state of a scenario in which ids *)
(* do not come back.                                                       *)

LEMMA RInvInit ==
    ASSUME Init, Cardinality({}) = 0
    PROVE  \E ids, given, told : RInv(scenario, ids, given, told)
  <1>1. PICK s : s = scenario
    BY Zenon
  <1>2. TInv(s) /\ s \in Scenarios
    BY <1>1, TypesInit, Zenon DEF TInv
  <1>3. 0 \in IdsOf(s) /\ 1 \in IdsOf(s) /\ s.ids \in Nat /\ s.ids > 1
    BY <1>2, ScenarioFacts DEF IdsOf
  <1>4. PICK ids, given : ids = [t \in PlanTps(s) |-> 0] /\ given = {}
    BY Zenon
  <1>5. Ghosts(s, ids, given, given)
    BY <1>3, <1>4, Zenon DEF Ghosts
  <1>6. Counted(s, ids, given)
    <2>1. \A c, side : Cardinality(GivenAt(s, given, c, side)) = 0
      <3>1. \A c, side : GivenAt(s, given, c, side) = {}
        BY <1>4, Zenon DEF GivenAt
      <3> QED BY <3>1, Zenon
    <2>2. 0 % s.ids = 0 /\ 1 % s.ids = 1
      BY <1>3, ModSmall
    <2>3. \A c \in Clients : nextInitID[c] = 0 /\ nextRespID[c] = 1
      BY Zenon DEF Init
    <2> QED BY <1>4, <2>1, <2>2, <2>3 DEF Counted, First
  <1>7. TpsOK(s, ids, given, given) /\ RequestsOK(s, ids, given) /\ Registered(s, ids)
    <2>1. Ids = IdsOf(s)
      BY <1>1, Zenon DEF Ids, IdMod, IdsOf
    <2>2. /\ \A c \in Clients, i \in IdsOf(s) : tps[c][i] = None
          /\ \A t \in Tps : tpState[t] = "none"
          /\ requests = {} /\ acks = {}
      BY <2>1, Zenon DEF Init
    <2>3. TpsOK(s, ids, given, given)
      BY <1>4, <2>2, Zenon DEF TpsOK
    <2>4. RequestsOK(s, ids, given)
      BY <2>2, Zenon DEF RequestsOK
    <2>5. Registered(s, ids)
      BY <2>2, Zenon DEF Registered
    <2> QED BY <2>3, <2>4, <2>5, Zenon
  <1>8. UpOK(s, ids, given, given) /\ DownOK(s, ids, given)
    <2>1. \A c \in Clients : DOMAIN up[c] = {} /\ DOMAIN down[c] = {}
      BY DEF Init
    <2> QED BY <2>1, Zenon DEF UpOK, UpQueue, DownOK
  <1>9. ServerOK(s, ids, given, given)
    <2>1. Ids = IdsOf(s)
      BY <1>1, Zenon DEF Ids, IdMod, IdsOf
    <2>2. /\ \A c \in Clients, i \in IdsOf(s) : nextConns[c][i] = None
          /\ \A c \in Clients : at[c] = "read"
          /\ connected = Clients
      BY <2>1, Zenon DEF Init
    <2> QED BY <2>2, Zenon DEF ServerOK, RoutesOK, InHand, Paired, RouteOK, HandOK, PairOK
  <1>10. RInv(s, ids, given, given)
    BY <1>2, <1>5, <1>6, <1>7, <1>8, <1>9, Zenon DEF RInv
  <1> QED BY <1>1, <1>10, Zenon

\* Nothing that the invariant is about changes.
LEMMA RoutedSame ==
    ASSUME NEW s, Routed(s), TInv(s)', UNCHANGED vars
    PROVE  Routed(s)'
  <1>1. PICK ids, given, told : RInv(s, ids, given, told)
    BY Zenon DEF Routed
  <1>2. /\ TInv(s) /\ UpOK(s, ids, given, told) /\ DownOK(s, ids, told) /\ ServerOK(s, ids, given, told)
    BY <1>1, Zenon DEF RInv
  <1>3. /\ UNCHANGED <<connected, clientVars, nextRespID>> /\ UNCHANGED <<tpState, requests>>
        /\ UNCHANGED up /\ UNCHANGED down /\ UNCHANGED <<nextConns, at, next>>
    BY Zenon DEF vars, clientVars, serverVars
  <1>5. UpOK(s, ids, given, told)'
    BY <1>2, <1>3, UpStay, Zenon
  <1>6. DownOK(s, ids, told)'
    BY <1>2, <1>3, DownMore, Zenon
  <1>7. ServerOK(s, ids, given, told)'
    BY <1>2, <1>3, ServerSame, Zenon DEF InFrame
  <1>8. /\ Ghosts(s, ids, given, told)' /\ Counted(s, ids, given)'
        /\ TpsOK(s, ids, given, told)' /\ RequestsOK(s, ids, told)' /\ Registered(s, ids)'
    BY <1>1, <1>3, ServerGhosts, Zenon
  <1>9. RInv(s, ids, given, told)'
    BY <1>5, <1>6, <1>7, <1>8, Zenon DEF RInv
  <1> QED BY <1>9, Zenon DEF Routed

LEMMA RoutedNext ==
    ASSUME NEW s, Routed(s), CountsUp(s), [Next]_vars
    PROVE  Routed(s)'
  <1>1. PICK ids, given, told : RInv(s, ids, given, told)
    BY Zenon DEF Routed
  <1>2. TInv(s)'
    BY <1>1, TypesNext, Zenon DEF KeepsTypes, RInv
  <1>3. CASE UNCHANGED vars
    BY <1>2, <1>3, RoutedSame, Zenon
  <1>4. ASSUME NEW d \in Dials, DialTransport(d)
        PROVE  Routed(s)'
    BY <1>1, <1>2, <1>4, RInvDialTransport, Zenon DEF Routed
  <1>5. ASSUME NEW t \in Tps, Close(t) \/ Write(t)
        PROVE  Routed(s)'
    BY <1>2, <1>5, ClientKeepsRouted, Zenon DEF KeepsRouted
  <1>6. ASSUME NEW c \in Clients, LoseConn(c) \/ ClientStep(c)
        PROVE  Routed(s)'
    BY <1>2, <1>6, ClientKeepsRouted, Zenon DEF KeepsRouted
  <1>7. ASSUME NEW c \in Clients, ServerStep(c)
        PROVE  Routed(s)'
    <2>1. CASE addNext(c)
      BY <1>1, <1>2, <1>7, <2>1, RInvAddNext, Zenon DEF Routed
    <2>2. CASE ~addNext(c)
      BY <1>2, <1>7, <2>2, ServerKeepsRouted, Zenon DEF KeepsRouted
    <2> QED BY <2>1, <2>2, Zenon
  <1>8. CASE Idle
    BY <1>3, <1>8, Zenon DEF Idle
  <1> QED BY <1>3, <1>4, <1>5, <1>6, <1>7, <1>8, Zenon DEF Next

-----------------------------------------------------------------------------
(* What the invariant says of the frames and of the associations.          *)

LEMMA RoutedNoCrossTalk ==
    ASSUME Routed(scenario)
    PROVE  NoCrossTalk
  <1>1. PICK s, ids, given, told : s = scenario /\ RInv(s, ids, given, told)
    BY Zenon DEF Routed
  <1>2. /\ TInv(s) /\ s \in Scenarios /\ Ghosts(s, ids, given, told)
        /\ TpsOK(s, ids, given, told) /\ DownOK(s, ids, told)
    BY <1>1, Zenon DEF RInv, TInv
  <1>3. ASSUME NEW c \in Clients, NEW k \in DOMAIN down[c],
               down[c][k].tp # None, Live(TpAt(c, down[c][k].id))
        PROVE  TpAt(c, down[c][k].id) = Peer(down[c][k].tp)
    <2>1. DownFrame(s, ids, told, c, down[c][k])
      BY <1>2, Zenon DEF DownOK
    <2>2. PICK t \in told : End(s, ids, t) = <<c, down[c][k].id>> /\ down[c][k].tp \in {Peer(t), None}
      BY <2>1, Zenon DEF DownFrame
    <2>3. down[c][k].id \in IdsOf(s)
      <3>1. down[c][k] \in FrameSet(s)
        BY <1>2 DEF TInv, QueueTypes
      <3> QED BY <3>1, FrameFields, Zenon
    <2>4. PICK u : u = tps[c][down[c][k].id]
      BY Zenon
    <2>5. u # None
      BY <1>3, <2>4, Zenon DEF Live, TpAt
    <2>6. u \in told /\ End(s, ids, u) = <<c, down[c][k].id>>
      BY <1>2, <2>3, <2>4, <2>5, Zenon DEF TpsOK
    <2>7. u = t /\ t \in PlanTps(s)
      BY <1>2, <2>2, <2>6, Zenon DEF Ghosts
    <2>8. Peer(Peer(t)) = t
      BY <1>2, <2>7, PeerFacts, Zenon
    <2> QED BY <1>3, <2>2, <2>4, <2>7, <2>8, Zenon DEF TpAt
  <1> QED BY <1>3, Zenon DEF NoCrossTalk

LEMMA RoutedPaired ==
    ASSUME Routed(scenario)
    PROVE  RoutesPaired
  <1>1. PICK s, ids, given, told : s = scenario /\ RInv(s, ids, given, told)
    BY Zenon DEF Routed
  <1>2. Paired(s)
    BY <1>1, Zenon DEF RInv, ServerOK
  <1>3. Ids = IdsOf(s)
    BY <1>1, Zenon DEF Ids, IdMod, IdsOf
  <1> QED BY <1>2, <1>3, Zenon DEF RoutesPaired, Paired, PairOK

LEMMA RoutedFwd ==
    ASSUME Routed(scenario)
    PROVE  FwdFindsTransport
  <1>1. PICK s, ids, given, told : s = scenario /\ RInv(s, ids, given, told)
    BY Zenon DEF Routed
  <1>2. /\ TInv(s) /\ s \in Scenarios /\ Ghosts(s, ids, given, told)
        /\ Registered(s, ids) /\ DownOK(s, ids, told)
    BY <1>1, Zenon DEF RInv, TInv
  <1>3. ASSUME NEW c \in connected, down[c] # <<>>, Head(down[c]).type = "FWD",
               Head(down[c]).tp[2] = "init", tpState[Peer(Head(down[c]).tp)] = "open"
        PROVE  \/ Live(TpAt(c, Head(down[c]).id))
               \/ \E q \in requests : q.at = "setTp" /\ q.dial = Peer(Head(down[c]).tp)[1]
    <2>1. PICK f : f = Head(down[c])
      BY Zenon
    <2>2. c \in Clients /\ down[c] \in Seq(FrameSet(s))
      BY <1>2, Zenon DEF TInv, ConnTypes, QueueTypes
    <2>3. 1 \in DOMAIN down[c] /\ f = down[c][1] /\ f \in FrameSet(s)
      BY <1>3, <2>1, <2>2, SeqTail, Zenon
    <2>4. DownFrame(s, ids, told, c, f)
      BY <1>2, <2>2, <2>3, Zenon DEF DownOK
    <2>5. PICK t \in told : End(s, ids, t) = <<c, f.id>> /\ f.tp \in {Peer(t), None}
      BY <2>4, Zenon DEF DownFrame
    <2>6. f.tp \in PlanTps(s) /\ None \notin Tps /\ PlanTps(s) \subseteq Tps
      BY <1>2, <1>3, <2>1, <2>3, FrameFields, ScenarioFacts, Zenon
    <2>7. t \in PlanTps(s) /\ f.tp = Peer(t)
      BY <1>2, <2>5, <2>6, Zenon DEF Ghosts
    <2>8. Peer(f.tp) = t /\ t[2] = "resp"
      BY <1>2, <1>3, <2>1, <2>7, PeerFacts
    <2>9. OwnerOf(s, t) = c /\ ids[t] = f.id
      BY <2>5, Zenon DEF End
    <2>10. \/ tps[OwnerOf(s, t)][ids[t]] = t
           \/ \E q \in requests : q.at = "setTp" /\ q.dial = t[1]
      BY <1>2, <1>3, <2>1, <2>6, <2>7, <2>8, <2>9, Zenon DEF Registered
    <2>11. tpState[t] = "open" /\ t # None
      BY <1>3, <2>1, <2>6, <2>7, <2>8, Zenon
    <2> QED BY <2>1, <2>8, <2>9, <2>10, <2>11, Zenon DEF Live, TpAt
  <1> QED BY <1>3, Zenon DEF FwdFindsTransport

-----------------------------------------------------------------------------
(* The ids of a client last for its dials.                                 *)

INSTANCE FiniteSetTheorems

\* The dials that one client makes or gets.
DialsAt(s, c, side) == {d \in DOMAIN s.plan : OwnerOf(s, <<d, side>>) = c}

LEMMA DialsCount ==
    ASSUME NEW s \in Scenarios, scenario = s, IdsNotReused, NEW c \in Clients,
           NEW side \in {"init", "resp"}
    PROVE  IsFiniteSet(DialsAt(s, c, side)) /\ Cardinality(DialsAt(s, c, side)) <= s.ids \div 2
  <1>1. IsFiniteSet(DialsAt(s, c, side))
    BY ScenariosAssumption, FS_Subset, Zenon DEF DialsAt
  <1>2. DialsAt(s, c, "init") = {d \in DOMAIN plan : plan[d][1] = c}
    BY Zenon DEF DialsAt, OwnerOf, plan
  <1>3. DialsAt(s, c, "resp") = {d \in DOMAIN plan : plan[d][2] = c}
    BY Zenon DEF DialsAt, OwnerOf, plan
  <1>4. \A k \in {1, 2} : Cardinality({d \in DOMAIN plan : plan[d][k] = c}) <= s.ids \div 2
    BY Zenon DEF IdsNotReused, IdMod
  <1> QED BY <1>1, <1>2, <1>3, <1>4, Zenon

\* The ids of a client last for its dials.
LEMMA IdsLast ==
    ASSUME NEW s \in Scenarios, scenario = s, IdsNotReused
    PROVE  CountsUp(s)
  <1> SUFFICES ASSUME NEW given, given \subseteq PlanTps(s), NEW t \in PlanTps(s), t \notin given
               PROVE  LET G == GivenAt(s, given, OwnerOf(s, t), t[2]) IN
                      /\ Cardinality(G) \in Nat /\ Cardinality(G) + 1 <= s.ids \div 2
                      /\ Cardinality(GivenAt(s, given \cup {t}, OwnerOf(s, t), t[2])) = Cardinality(G) + 1
    BY Zenon DEF CountsUp
  <1> DEFINE c == OwnerOf(s, t)
             side == t[2]
             D == DialsAt(s, c, side)
             G == GivenAt(s, given, c, side)
  <1>1. c \in Clients /\ side \in {"init", "resp"} /\ t = <<t[1], side>> /\ t[1] \in DOMAIN s.plan
    BY ScenarioFacts DEF PlanTps
  <1>2. IsFiniteSet(D) /\ Cardinality(D) <= s.ids \div 2
    BY <1>1, DialsCount, Zenon
  <1>3. G \subseteq D /\ t[1] \in D /\ t[1] \notin G
    BY <1>1, Zenon DEF GivenAt, DialsAt
  <1>4. GivenAt(s, given \cup {t}, c, side) = G \cup {t[1]}
    BY <1>1 DEF GivenAt
  <1> HIDE DEF c, side, D, G
  <1>5. IsFiniteSet(G)
    BY <1>2, <1>3, FS_Subset, Zenon
  <1>6. IsFiniteSet(G \cup {t[1]}) /\ Cardinality(G \cup {t[1]}) = Cardinality(G) + 1
    BY <1>3, <1>5, FS_AddElement, Zenon
  <1>7. Cardinality(G \cup {t[1]}) <= Cardinality(D)
    BY <1>2, <1>3, FS_Subset, Zenon
  <1>8. Cardinality(G) \in Nat /\ Cardinality(D) \in Nat
    BY <1>2, <1>5, FS_CardinalityType, Zenon
  <1>9. s.ids \div 2 \in Nat
    BY ScenarioFacts
  <1>10. Cardinality(G) + 1 <= s.ids \div 2
    BY <1>2, <1>6, <1>7, <1>8, <1>9
  <1> QED BY <1>4, <1>6, <1>8, <1>10, Zenon DEF c, side, G

\* The inductive invariant.
IInv == TInv(scenario) /\ (IdsNotReused => Routed(scenario))

LEMMA RoutedAlways == Spec => []IInv
  <1>1. Init => IInv
    BY RInvInit, TypesInit, FS_EmptySet, Zenon DEF Routed, IInv
  <1>2. IInv /\ [Next]_vars => IInv'
    <2> SUFFICES ASSUME IInv, [Next]_vars PROVE IInv'
      BY Zenon
    <2>1. PICK s : s = scenario
      BY Zenon
    <2>2. TInv(s) /\ (IdsNotReused => Routed(s))
      BY <2>1, Zenon DEF IInv
    <2>3. TInv(s)' /\ scenario' = s
      <3>1. TInv(s)'
        BY <2>2, TypesNext, Zenon DEF KeepsTypes
      <3> QED BY <3>1, Zenon DEF TInv
    <2>4. IdsNotReused' => IdsNotReused
      BY <2>1, <2>3, Zenon DEF IdsNotReused, plan, IdMod
    <2>5. IdsNotReused' => Routed(s)'
      <3>1. IdsNotReused => CountsUp(s)
        BY <2>1, <2>2, IdsLast, Zenon DEF TInv
      <3> QED BY <2>2, <2>4, <3>1, RoutedNext, Zenon
    <2> QED BY <2>3, <2>5, Zenon DEF IInv
  <1> QED BY <1>1, <1>2, PTL DEF Spec

\* A frame that reaches a client under the id of one of its transports stems
\* from the peer of that transport, in every scenario in which no client makes
\* or gets more dials than it has ids (forwardFrame, writeFrame, addNext).
THEOREM RelayNoCrossTalk == Spec => [](IdsNotReused => NoCrossTalk)
  <1>1. IInv => (IdsNotReused => NoCrossTalk)
    BY RoutedNoCrossTalk, Zenon DEF IInv
  <1> QED BY <1>1, RoutedAlways, PTL

\* The associations of two connections agree but between the two updates that
\* Serve makes one after the other (addNext and setNext, delNext twice), as
\* long as ids do not come back.
THEOREM RelayRoutesPaired == Spec => []RoutesPaired
  <1>1. IInv => RoutesPaired
    BY RoutedPaired, Zenon DEF IInv, RoutesPaired
  <1> QED BY <1>1, RoutedAlways, PTL

\* A FWD frame from an initiator finds the responder's transport in tps, or the
\* goroutine that is about to enter it (SetTp), as long as ids do not come back.
THEOREM RelayFwdFindsTransport == Spec => [](IdsNotReused => FwdFindsTransport)
  <1>1. IInv => (IdsNotReused => FwdFindsTransport)
    BY RoutedFwd, Zenon DEF IInv
  <1> QED BY <1>1, RoutedAlways, PTL
=============================================================================
