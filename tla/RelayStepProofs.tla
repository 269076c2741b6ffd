-------------------------- MODULE RelayStepProofs --------------------------
(***************************************************************************)
(* Proofs about Relay, for any clients, dials and scenarios: the types,    *)
(* the invariant behind the routing theorems of RelayProofs, and the steps *)
(* of the server that give no id.                                          *)
(***************************************************************************)
EXTENDS Relay, TLAPS

-----------------------------------------------------------------------------
(* Types.  The scenario never changes: it is the constant s of TInv(s).    *)

PlanTps(s) == (DOMAIN s.plan) \X {"init", "resp"}
IdsOf(s) == 0 .. s.ids - 1
OwnerOf(s, t) == s.plan[t[1]][IF t[2] = "init" THEN 1 ELSE 2]

\* Only a CLOSE frame is made up by the server or for an unknown id, and a
\* REQUEST frame stems from an initiator.
FrameSet(s) ==
    {f \in [type : {"REQUEST", "ACCEPT", "FWD", "ACK", "CLOSE"}, id : IdsOf(s),
            tp : PlanTps(s) \cup {None}] :
        /\ f.type # "CLOSE" => f.tp # None
        /\ f.type = "REQUEST" => f.tp[2] = "init"}

ConnTypes(s) ==
    /\ connected \subseteq open /\ open \subseteq Clients /\ conns \subseteq Clients
    /\ \A c \in Clients :
          at[c] \in {"cleanup", "closeConn", "delConn", "gone"} => c \notin connected

QueueTypes(s) ==
    up \in [Clients -> Seq(FrameSet(s))] /\ down \in [Clients -> Seq(FrameSet(s))]

ClientTypes(s) ==
    /\ nextInitID \in [Clients -> IdsOf(s)]
    /\ tps \in [Clients -> [IdsOf(s) -> PlanTps(s) \cup {None}]]
    /\ tpState \in [Tps -> {"none", "dialing", "open", "closed"}]
    /\ \A t \in Tps : tpState[t] # "none" => t \in PlanTps(s)
    /\ tpId \in [Tps -> IdsOf(s)]
    /\ requests \subseteq [conn : Clients, id : IdsOf(s), dial : DOMAIN s.plan,
                           at : {"introduce", "setTp"}]
    /\ acks \subseteq PlanTps(s) /\ wrote \subseteq Tps

ServerTypes(s) ==
    /\ nextRespID \in [Clients -> IdsOf(s)]
    /\ nextConns \in [Clients -> [IdsOf(s) -> (Clients \X IdsOf(s)) \cup {None}]]
    /\ next \in [Clients -> (Clients \X IdsOf(s)) \cup {None}]
    /\ at \in [Clients -> {"read", "setNext", "forward", "delNext", "delPeer",
                           "cleanup", "closeConn", "delConn", "gone"}]
    /\ \A c \in Clients : at[c] \in {"setNext", "forward", "delNext", "delPeer"}
                          => up[c] # <<>> /\ next[c] # None

TInv(s) ==
    /\ scenario = s /\ s \in Scenarios
    /\ ConnTypes(s) /\ QueueTypes(s) /\ ClientTypes(s) /\ ServerTypes(s)

KeepsTypes(step) == \A s : TInv(s) /\ step => TInv(s)'

\* The constants of a scenario.
LEMMA ScenarioFacts ==
    ASSUME NEW s \in Scenarios
    PROVE  /\ DOMAIN s.plan \subseteq Dials
           /\ \A t \in PlanTps(s) : OwnerOf(s, t) \in Clients /\ Peer(t) \in PlanTps(s)
           /\ PlanTps(s) \subseteq Tps
           /\ s.ids \in Nat /\ s.ids > 0 /\ s.ids % 2 = 0
           /\ None \notin Clients \X IdsOf(s) /\ None \notin Tps
  BY ScenariosAssumption, Zenon DEF PlanTps, IdsOf, OwnerOf, Peer, Tps

\* What a frame is made of.
LEMMA FrameSetHas ==
    ASSUME NEW s, NEW type \in {"REQUEST", "ACCEPT", "FWD", "ACK", "CLOSE"}, NEW id \in IdsOf(s),
           NEW t \in PlanTps(s) \cup {None},
           type # "CLOSE" => t # None, type = "REQUEST" => t[2] = "init"
    PROVE  Frame(type, id, t) \in FrameSet(s)
  BY Zenon DEF FrameSet, Frame

LEMMA FrameFields ==
    ASSUME NEW s, NEW f \in FrameSet(s)
    PROVE  /\ f.type \in {"REQUEST", "ACCEPT", "FWD", "ACK", "CLOSE"}
           /\ f.id \in IdsOf(s) /\ f.tp \in PlanTps(s) \cup {None}
           /\ f.type # "CLOSE" => f.tp \in PlanTps(s)
           /\ f.type = "REQUEST" => f.tp \in PlanTps(s) /\ f.tp[2] = "init"
  BY Zenon DEF FrameSet

\* A forwarded frame is the same frame under another id.
LEMMA RewriteFrame ==
    ASSUME NEW s, NEW f \in FrameSet(s), NEW n \in Clients \X IdsOf(s)
    PROVE  /\ Rewrite(f, n) \in FrameSet(s) /\ Rewrite(f, n).id = n[2]
           /\ Rewrite(f, n).type = f.type /\ Rewrite(f, n).tp = f.tp
  BY Zenon DEF FrameSet, Rewrite

\* A frame joins or leaves a queue.
LEMMA SeqAppend ==
    ASSUME NEW S, NEW q \in Seq(S), NEW x \in S
    PROVE  /\ Append(q, x) \in Seq(S) /\ Append(q, x) # <<>>
           /\ DOMAIN Append(q, x) = DOMAIN q \cup {Len(q) + 1}
           /\ \A k \in DOMAIN q : k # Len(q) + 1 /\ Append(q, x)[k] = q[k]
           /\ Append(q, x)[Len(q) + 1] = x
           /\ q # <<>> => Head(Append(q, x)) = Head(q)
  OBVIOUS

LEMMA SeqConcat ==
    ASSUME NEW S, NEW p \in Seq(S), NEW q \in Seq(S)
    PROVE  /\ p \o q \in Seq(S)
           /\ \A k \in DOMAIN (p \o q) :
                 (p \o q)[k] = IF k \in DOMAIN p THEN p[k] ELSE q[k - Len(p)]
           /\ \A k \in DOMAIN (p \o q) : k \notin DOMAIN p => k - Len(p) \in DOMAIN q
  OBVIOUS

LEMMA SeqTail ==
    ASSUME NEW S, NEW q \in Seq(S), q # <<>>
    PROVE  /\ Head(q) \in S /\ Tail(q) \in Seq(S) /\ 1 \in DOMAIN q /\ Head(q) = q[1]
           /\ \A k \in DOMAIN Tail(q) : k \in Nat /\ k + 1 \in DOMAIN q /\ k + 1 # 1 /\ Tail(q)[k] = q[k + 1]
  OBVIOUS

\* A client's frame is written.
LEMMA SendTypes ==
    ASSUME NEW s, QueueTypes(s), NEW c \in Clients, NEW f \in FrameSet(s), Send(c, f)
    PROVE  /\ up' \in [Clients -> Seq(FrameSet(s))]
           /\ \A d \in Clients : up[d] # <<>> => up'[d] # <<>> /\ InFrame(d)' = InFrame(d)
  BY SeqAppend DEF QueueTypes, Send, InFrame

\* A server's frame is written.
LEMMA WriteTypes ==
    ASSUME NEW s, QueueTypes(s), NEW c \in Clients, NEW f \in FrameSet(s), WriteOK(c, f)
    PROVE  down' \in [Clients -> Seq(FrameSet(s))]
  BY SeqAppend, Zenon DEF QueueTypes, WriteOK

\* The transports in use belong to the plan.
LEMMA TpTypes ==
    ASSUME NEW s, TInv(s), NEW t \in PlanTps(s)
    PROVE  /\ t \in Tps /\ Owner(t) = OwnerOf(s, t) /\ Owner(t) \in Clients /\ t # None
           /\ tpId[t] \in IdsOf(s)
  BY ScenarioFacts, Zenon DEF TInv, Owner, OwnerOf, plan, ClientTypes

\* The goroutines of handleRequestFrame.
LEMMA RequestTypes ==
    ASSUME NEW s, TInv(s), NEW r \in requests
    PROVE  /\ r.conn \in Clients /\ r.id \in IdsOf(s) /\ r.dial \in DOMAIN s.plan
           /\ <<r.dial, "resp">> \in PlanTps(s)
  BY Zenon DEF TInv, ClientTypes, PlanTps

\* The frame that Serve has in hand.
LEMMA HandTypes ==
    ASSUME NEW s, TInv(s), NEW c \in Clients, up[c] # <<>>
    PROVE  /\ up[c] \in Seq(FrameSet(s)) /\ InFrame(c) \in FrameSet(s) /\ InFrame(c).id \in IdsOf(s)
           /\ DoneWith(c) => up' \in [Clients -> Seq(FrameSet(s))]
           /\ DoneWith(c) => next' \in [Clients -> (Clients \X IdsOf(s)) \cup {None}]
  <1>1. up[c] \in Seq(FrameSet(s))
    BY Zenon DEF TInv, QueueTypes
  <1>2. InFrame(c) \in FrameSet(s) /\ Tail(up[c]) \in Seq(FrameSet(s))
    BY <1>1, SeqTail, Zenon DEF InFrame
  <1> QED BY <1>1, <1>2, FrameFields, Zenon DEF TInv, QueueTypes, ServerTypes, DoneWith

\* delChan leaves Serve reading, or on its way out of a lost connection.
LEMMA DelChanTypes ==
    ASSUME NEW s, TInv(s), NEW c \in Clients, NEW id \in IdsOf(s), delChan(c, id)
    PROVE  /\ down' \in [Clients -> Seq(FrameSet(s))]
           /\ nextConns' \in [Clients -> [IdsOf(s) -> (Clients \X IdsOf(s)) \cup {None}]]
           /\ \E label \in {"read", "cleanup"} :
                 /\ at' = [at EXCEPT ![c] = label]
                 /\ label = "cleanup" => c \notin connected
  <1>1. Frame("CLOSE", id, None) \in FrameSet(s)
    BY FrameSetHas, Zenon
  <1>2. down' \in [Clients -> Seq(FrameSet(s))]
    BY <1>1, WriteTypes, Zenon DEF TInv, QueueTypes, delChan
  <1>3. nextConns' \in [Clients -> [IdsOf(s) -> (Clients \X IdsOf(s)) \cup {None}]]
    BY Zenon DEF TInv, ServerTypes, delChan
  <1>4. \E label \in {"read", "cleanup"} :
           at' = [at EXCEPT ![c] = label] /\ (label = "cleanup" => c \notin connected)
    BY Zenon DEF TInv, ConnTypes, delChan, Goto, WriteFails
  <1> QED BY <1>2, <1>3, <1>4, Zenon

\* The client that a REQUEST frame asks for, and the id it may get there.
LEMMA RequestedTypes ==
    ASSUME NEW s, TInv(s), NEW c \in Clients, up[c] # <<>>, InFrame(c).type = "REQUEST"
    PROVE  /\ InFrame(c).tp \in PlanTps(s) /\ InFrame(c).tp[2] = "init"
           /\ Responder(InFrame(c)) = OwnerOf(s, Peer(InFrame(c).tp))
           /\ Responder(InFrame(c)) \in Clients
  <1>1. InFrame(c).tp \in PlanTps(s) /\ InFrame(c).tp[2] = "init"
    BY HandTypes, FrameFields, Zenon
  <1>2. Responder(InFrame(c)) = OwnerOf(s, Peer(InFrame(c).tp))
    BY <1>1, Zenon DEF Responder, TInv, plan, OwnerOf, Peer
  <1> QED BY <1>1, <1>2, ScenarioFacts, Zenon DEF TInv

-----------------------------------------------------------------------------
(* Every step keeps the types.                                             *)

LEMMA TypesNext == KeepsTypes([Next]_vars)
  \* The ids that are tried are ids.
  <1>NextFreeIds. ASSUME NEW s \in Scenarios, scenario = s, NEW from \in IdsOf(s), NEW used,
                         NEW id \in NextFree(from, used)
                  PROVE  id \in IdsOf(s) /\ After(id) \in IdsOf(s)
    BY <1>NextFreeIds, ScenarioFacts DEF NextFree, FreeSteps, IdsOf, After, IdMod
  <1>PopTypes. ASSUME NEW s, QueueTypes(s), NEW c \in Clients, Received(c)
               PROVE  /\ Head(down[c]) \in FrameSet(s) /\ Head(down[c]).id \in IdsOf(s)
                      /\ Pop(c) => down' \in [Clients -> Seq(FrameSet(s))]
    <2> USE <1>PopTypes
    <2>1. down[c] \in Seq(FrameSet(s)) /\ down[c] # <<>>
      BY Zenon DEF QueueTypes, Received
    <2>2. Head(down[c]) \in FrameSet(s) /\ Tail(down[c]) \in Seq(FrameSet(s))
      BY <2>1, SeqTail, Zenon
    <2> QED BY <2>2, FrameFields, Zenon DEF QueueTypes, Pop
  <1>TypesDialTransport. ASSUME NEW d \in Dials
                         PROVE  KeepsTypes(DialTransport(d))
    <2> USE <1>TypesDialTransport
    <2> SUFFICES ASSUME NEW s, TInv(s), DialTransport(d)
                 PROVE  TInv(s)'
      BY Zenon DEF KeepsTypes
    <2> DEFINE t == <<d, "init">>
    <2> USE DEF TInv
    <2>1. /\ t \in PlanTps(s) /\ t \in Tps /\ Owner(t) = OwnerOf(s, t) /\ Owner(t) \in Clients
          /\ t # None /\ t[2] = "init"
      BY ScenarioFacts, Zenon DEF DialTransport, plan, Owner, OwnerOf, PlanTps, Tps
    <2>2. PICK id \in NextFree(nextInitID[Owner(t)], {i \in Ids : Live(TpAt(Owner(t), i))}) :
              /\ nextInitID' = [nextInitID EXCEPT ![Owner(t)] = After(id)]
              /\ tps' = [tps EXCEPT ![Owner(t)][id] = t]
              /\ tpId' = [tpId EXCEPT ![t] = id]
              /\ Send(Owner(t), Frame("REQUEST", id, t))
      BY Zenon DEF DialTransport
    <2>3. id \in IdsOf(s) /\ After(id) \in IdsOf(s)
      BY <2>1, <1>NextFreeIds, Zenon DEF ClientTypes
    <2>4. Frame("REQUEST", id, t) \in FrameSet(s)
      BY <2>1, <2>3, FrameSetHas, Zenon
    <2>5. QueueTypes(s)' /\ ServerTypes(s)'
      BY <2>1, <2>2, <2>4, SendTypes, Zenon DEF DialTransport, QueueTypes, ServerTypes, serverVars
    <2>6. ClientTypes(s)'
      BY <2>1, <2>2, <2>3, Zenon DEF DialTransport, ClientTypes
    <2> QED BY <2>5, <2>6, Zenon DEF DialTransport, ConnTypes, serverVars
  <1>CloseTpTypes. ASSUME NEW s, TInv(s), NEW t \in PlanTps(s), CloseTp(t)
                   PROVE  /\ tps' \in [Clients -> [IdsOf(s) -> PlanTps(s) \cup {None}]]
                          /\ tpState' \in [Tps -> {"none", "dialing", "open", "closed"}]
                          /\ \A u \in Tps : tpState'[u] # "none" => u \in PlanTps(s)
    BY <1>CloseTpTypes, TpTypes, Zenon DEF TInv, ClientTypes, CloseTp
  <1>TypesClose. ASSUME NEW t \in Tps
                 PROVE  KeepsTypes(Close(t))
    <2> USE <1>TypesClose
    <2> SUFFICES ASSUME NEW s, TInv(s), Close(t)
                 PROVE  TInv(s)'
      BY Zenon DEF KeepsTypes
    <2>1. t \in PlanTps(s)
      BY Zenon DEF Close, TInv, ClientTypes
    <2>2. Frame("CLOSE", tpId[t], t) \in FrameSet(s)
      BY <2>1, TpTypes, FrameSetHas, Zenon
    <2>3. QueueTypes(s)' /\ ServerTypes(s)'
      BY <2>1, <2>2, TpTypes, SendTypes, Zenon DEF TInv, Close, QueueTypes, ServerTypes, serverVars
    <2>4. ClientTypes(s)'
      BY <2>1, <1>CloseTpTypes, Zenon DEF TInv, Close, ClientTypes
    <2> QED BY <2>3, <2>4, Zenon DEF TInv, Close, ConnTypes, serverVars
  <1>TypesWrite. ASSUME NEW t \in Tps
                 PROVE  KeepsTypes(Write(t))
    <2> USE <1>TypesWrite
    <2> SUFFICES ASSUME NEW s, TInv(s), Write(t)
                 PROVE  TInv(s)'
      BY Zenon DEF KeepsTypes
    <2>1. t \in PlanTps(s)
      BY Zenon DEF Write, TInv, ClientTypes
    <2>2. Frame("FWD", tpId[t], t) \in FrameSet(s)
      BY <2>1, TpTypes, FrameSetHas, Zenon
    <2>3. QueueTypes(s)' /\ ServerTypes(s)'
      BY <2>1, <2>2, TpTypes, SendTypes, Zenon DEF TInv, Write, QueueTypes, ServerTypes, serverVars
    <2>4. ClientTypes(s)'
      BY <2>1, Zenon DEF TInv, Write, ClientTypes
    <2> QED BY <2>3, <2>4, Zenon DEF TInv, Write, ConnTypes, serverVars
  <1>TypesWriteAck. ASSUME NEW t
                    PROVE  KeepsTypes(WriteAck(t))
    <2> SUFFICES ASSUME NEW s, TInv(s), WriteAck(t)
                 PROVE  TInv(s)'
      BY Zenon DEF KeepsTypes
    <2>1. t \in PlanTps(s)
      BY Zenon DEF WriteAck, TInv, ClientTypes
    <2>2. Frame("ACK", tpId[t], t) \in FrameSet(s)
      BY <2>1, TpTypes, FrameSetHas, Zenon
    <2>3. QueueTypes(s)' /\ ServerTypes(s)'
      BY <2>1, <2>2, TpTypes, SendTypes, Zenon DEF TInv, WriteAck, QueueTypes, ServerTypes, serverVars
    <2>4. ClientTypes(s)'
      BY <2>1, Zenon DEF TInv, WriteAck, ClientTypes
    <2> QED BY <2>3, <2>4, Zenon DEF TInv, WriteAck, ConnTypes, serverVars
  <1>DisconnectTypes. ASSUME NEW s, TInv(s), NEW c \in Clients, Disconnect(c),
                             UNCHANGED <<scenario, up, nextInitID, tpId, acks, wrote, serverVars>>,
                             requests' \subseteq requests
                      PROVE  TInv(s)'
    <2> USE <1>DisconnectTypes
    <2>1. QueueTypes(s)'
      BY DEF TInv, Disconnect, QueueTypes
    <2>2. ServerTypes(s)' /\ ConnTypes(s)'
      BY Zenon DEF TInv, Disconnect, ServerTypes, ConnTypes, serverVars
    <2>3. /\ tpState' \in [Tps -> {"none", "dialing", "open", "closed"}]
          /\ \A t \in Tps : tpState'[t] # "none" => t \in PlanTps(s)
      <3>1. \A i \in Ids : TpAt(c, i) \in PlanTps(s) \cup {None}
        BY ZenonT(40) DEF TInv, ClientTypes, TpAt, Ids, IdMod, IdsOf
      <3>2. None \notin Tps
        BY ScenarioFacts, Zenon DEF TInv
      <3>3. \A t \in Tps : (\E i \in Ids : TpAt(c, i) = t) => t \in PlanTps(s)
        BY <3>1, <3>2, Zenon
      <3> QED BY <3>3, Zenon DEF TInv, ClientTypes, Disconnect
    <2>4. tps' \in [Clients -> [IdsOf(s) -> PlanTps(s) \cup {None}]]
      BY Zenon DEF TInv, ClientTypes, Disconnect, Ids, IdMod, IdsOf
    <2>5. ClientTypes(s)'
      BY <2>3, <2>4, Zenon DEF TInv, ClientTypes
    <2> QED BY <2>1, <2>2, <2>5, Zenon DEF TInv
  <1>TypesLoseConn. ASSUME NEW c \in Clients
                    PROVE  KeepsTypes(LoseConn(c))
    <2> USE <1>TypesLoseConn
    <2> SUFFICES ASSUME NEW s, TInv(s), LoseConn(c)
                 PROVE  TInv(s)'
      BY Zenon DEF KeepsTypes
    <2> QED BY <1>DisconnectTypes, Zenon DEF LoseConn
  <1>TypesListenerClosed. ASSUME NEW r
                          PROVE  KeepsTypes(ListenerClosed(r))
    <2> SUFFICES ASSUME NEW s, TInv(s), ListenerClosed(r)
                 PROVE  TInv(s)'
      BY Zenon DEF KeepsTypes
    <2>1. r.conn \in Clients
      BY Zenon DEF TInv, ClientTypes, ListenerClosed
    <2> QED BY <2>1, <1>DisconnectTypes, Zenon DEF ListenerClosed
  \* What a client finds for the id of a frame.
  <1>FoundTypes. ASSUME NEW s, TInv(s), NEW c \in Clients, Received(c)
                 PROVE  TpAt(c, Head(down[c]).id) \in PlanTps(s) \cup {None}
    BY <1>FoundTypes, <1>PopTypes DEF TInv, ClientTypes, TpAt
  <1>TypesRecvReply. ASSUME NEW c \in Clients
                     PROVE  KeepsTypes(RecvReply(c))
    <2> USE <1>TypesRecvReply
    <2> SUFFICES ASSUME NEW s, TInv(s), RecvReply(c)
                 PROVE  TInv(s)'
      BY Zenon DEF KeepsTypes
    <2> DEFINE f == Head(down[c])
               t == TpAt(c, f.id)
    <2>1. t \in PlanTps(s) /\ Received(c)
      BY <1>FoundTypes, Zenon DEF RecvReply, Live
    <2>2. Frame("CLOSE", f.id, t) \in FrameSet(s)
      BY <2>1, <1>PopTypes, FrameSetHas, Zenon DEF TInv
    <2>3. QueueTypes(s)' /\ \A d \in Clients : up[d] # <<>> => up'[d] # <<>>
      <3>1. down' \in [Clients -> Seq(FrameSet(s))]
        BY <2>1, <1>PopTypes, Zenon DEF TInv, RecvReply
      <3>2. UNCHANGED up \/ Send(c, Frame("CLOSE", f.id, t))
        BY Zenon DEF RecvReply
      <3> QED BY <2>2, <3>1, <3>2, SendTypes, Zenon DEF TInv, QueueTypes
    <2>4. ServerTypes(s)'
      BY <2>3, Zenon DEF TInv, RecvReply, ServerTypes, serverVars
    <2>5. ClientTypes(s)'
      <3>1. CASE CloseTp(t)
        BY <2>1, <3>1, <1>CloseTpTypes, Zenon DEF TInv, RecvReply, ClientTypes
      <3>2. CASE tpState' = [tpState EXCEPT ![t] = "open"] /\ UNCHANGED tps
        BY <2>1, <3>2, TpTypes, Zenon DEF TInv, RecvReply, ClientTypes
      <3> QED BY <3>1, <3>2, Zenon DEF RecvReply
    <2> QED BY <2>3, <2>4, <2>5, Zenon DEF TInv, RecvReply, ConnTypes, serverVars
  <1>TypesRecvFwd. ASSUME NEW c \in Clients
                   PROVE  KeepsTypes(RecvFwd(c))
    <2> USE <1>TypesRecvFwd
    <2> SUFFICES ASSUME NEW s, TInv(s), RecvFwd(c)
                 PROVE  TInv(s)'
      BY Zenon DEF KeepsTypes
    <2>1. TpAt(c, Head(down[c]).id) \in PlanTps(s) /\ Received(c)
      BY <1>FoundTypes, Zenon DEF RecvFwd, Live
    <2>2. QueueTypes(s)'
      BY <2>1, <1>PopTypes, Zenon DEF TInv, RecvFwd, QueueTypes
    <2>3. ServerTypes(s)'
      BY Zenon DEF TInv, RecvFwd, ServerTypes, serverVars
    <2>4. ClientTypes(s)'
      BY <2>1, Zenon DEF TInv, RecvFwd, ClientTypes
    <2> QED BY <2>2, <2>3, <2>4, Zenon DEF TInv, RecvFwd, ConnTypes, serverVars
  <1>TypesRecvClose. ASSUME NEW c \in Clients
                     PROVE  KeepsTypes(RecvClose(c))
    <2> USE <1>TypesRecvClose
    <2> SUFFICES ASSUME NEW s, TInv(s), RecvClose(c)
                 PROVE  TInv(s)'
      BY Zenon DEF KeepsTypes
    <2>1. TpAt(c, Head(down[c]).id) \in PlanTps(s) /\ Received(c)
      BY <1>FoundTypes, Zenon DEF RecvClose, Live
    <2>2. QueueTypes(s)'
      BY <2>1, <1>PopTypes, Zenon DEF TInv, RecvClose, QueueTypes
    <2>3. ServerTypes(s)'
      BY Zenon DEF TInv, RecvClose, ServerTypes, serverVars
    <2>4. ClientTypes(s)'
      BY <2>1, <1>CloseTpTypes, Zenon DEF TInv, RecvClose, ClientTypes
    <2> QED BY <2>2, <2>3, <2>4, Zenon DEF TInv, RecvClose, ConnTypes, serverVars
  <1>TypesRecvAckOrAccept. ASSUME NEW c \in Clients
                           PROVE  KeepsTypes(RecvAckOrAccept(c))
    <2> USE <1>TypesRecvAckOrAccept
    <2> SUFFICES ASSUME NEW s, TInv(s), RecvAckOrAccept(c)
                 PROVE  TInv(s)'
      BY Zenon DEF KeepsTypes
    <2>1. Received(c)
      BY Zenon DEF RecvAckOrAccept
    <2>2. QueueTypes(s)'
      BY <2>1, <1>PopTypes, Zenon DEF TInv, RecvAckOrAccept, QueueTypes
    <2>3. ServerTypes(s)' /\ ClientTypes(s)'
      BY Zenon DEF TInv, RecvAckOrAccept, ServerTypes, ClientTypes, serverVars, clientVars
    <2> QED BY <2>2, <2>3, Zenon DEF TInv, RecvAckOrAccept, ConnTypes, serverVars
  <1>TypesRecvRequestInUse. ASSUME NEW c \in Clients
                            PROVE  KeepsTypes(RecvRequestInUse(c))
    <2> USE <1>TypesRecvRequestInUse
    <2> SUFFICES ASSUME NEW s, TInv(s), RecvRequestInUse(c)
                 PROVE  TInv(s)'
      BY Zenon DEF KeepsTypes
    <2> QED BY <1>DisconnectTypes, Zenon DEF RecvRequestInUse
  <1>TypesRecvRequest. ASSUME NEW c \in Clients
                       PROVE  KeepsTypes(RecvRequest(c))
    <2> USE <1>TypesRecvRequest
    <2> SUFFICES ASSUME NEW s, TInv(s), RecvRequest(c)
                 PROVE  TInv(s)'
      BY Zenon DEF KeepsTypes
    <2> DEFINE f == Head(down[c])
    <2>1. Received(c) /\ f \in FrameSet(s) /\ f.type = "REQUEST"
      BY <1>PopTypes, Zenon DEF TInv, RecvRequest
    <2>2. f.id \in IdsOf(s) /\ f.tp[1] \in DOMAIN s.plan
      BY <2>1, FrameFields, Zenon DEF PlanTps
    <2>3. QueueTypes(s)'
      BY <2>1, <1>PopTypes, Zenon DEF TInv, RecvRequest, QueueTypes
    <2>4. ServerTypes(s)'
      BY Zenon DEF TInv, RecvRequest, ServerTypes, serverVars
    <2>5. ClientTypes(s)'
      BY <2>2 DEF TInv, RecvRequest, ClientTypes
    <2> QED BY <2>3, <2>4, <2>5, Zenon DEF TInv, RecvRequest, ConnTypes, serverVars
  <1>TypesRecvIgnored. ASSUME NEW c \in Clients
                       PROVE  KeepsTypes(RecvIgnored(c))
    <2> USE <1>TypesRecvIgnored
    <2> SUFFICES ASSUME NEW s, TInv(s), RecvIgnored(c)
                 PROVE  TInv(s)'
      BY Zenon DEF KeepsTypes
    <2> DEFINE f == Head(down[c])
    <2>1. Received(c) /\ f.id \in IdsOf(s)
      BY <1>PopTypes, Zenon DEF TInv, RecvIgnored
    <2>2. Frame("CLOSE", f.id, None) \in FrameSet(s)
      BY <2>1, FrameSetHas, Zenon
    <2>3. QueueTypes(s)' /\ \A d \in Clients : up[d] # <<>> => up'[d] # <<>>
      <3>1. down' \in [Clients -> Seq(FrameSet(s))]
        BY <2>1, <1>PopTypes, Zenon DEF TInv, RecvIgnored
      <3>2. UNCHANGED up \/ Send(c, Frame("CLOSE", f.id, None))
        BY Zenon DEF RecvIgnored
      <3> QED BY <2>2, <3>1, <3>2, SendTypes, Zenon DEF TInv, QueueTypes
    <2>4. ServerTypes(s)'
      BY <2>3, Zenon DEF TInv, RecvIgnored, ServerTypes, serverVars
    <2>5. ClientTypes(s)'
      BY <2>1, Zenon DEF TInv, RecvIgnored, ClientTypes
    <2> QED BY <2>3, <2>4, <2>5, Zenon DEF TInv, RecvIgnored, ConnTypes, serverVars
  <1>TypesRejectRequest. ASSUME NEW r
                         PROVE  KeepsTypes(RejectRequest(r))
    <2> SUFFICES ASSUME NEW s, TInv(s), RejectRequest(r)
                 PROVE  TInv(s)'
      BY Zenon DEF KeepsTypes
    <2>1. r \in requests
      BY Zenon DEF RejectRequest
    <2>2. Frame("CLOSE", r.id, None) \in FrameSet(s)
      BY <2>1, RequestTypes, FrameSetHas, Zenon
    <2>3. QueueTypes(s)' /\ ServerTypes(s)'
      BY <2>1, <2>2, RequestTypes, SendTypes, Zenon DEF TInv, RejectRequest, QueueTypes, ServerTypes, serverVars
    <2>4. ClientTypes(s)'
      BY Zenon DEF TInv, RejectRequest, ClientTypes
    <2> QED BY <2>3, <2>4, Zenon DEF TInv, RejectRequest, ConnTypes, serverVars
  <1>TypesIntroduceTransport. ASSUME NEW r
                              PROVE  KeepsTypes(IntroduceTransport(r))
    <2> SUFFICES ASSUME NEW s, TInv(s), IntroduceTransport(r)
                 PROVE  TInv(s)'
      BY Zenon DEF KeepsTypes
    <2> DEFINE t == <<r.dial, "resp">>
    <2>1. r \in requests /\ t \in PlanTps(s)
      BY RequestTypes, Zenon DEF IntroduceTransport
    <2>2. Frame("ACCEPT", r.id, t) \in FrameSet(s)
      BY <2>1, RequestTypes, TpTypes, FrameSetHas, Zenon
    <2>3. QueueTypes(s)' /\ ServerTypes(s)'
      BY <2>1, <2>2, RequestTypes, SendTypes, Zenon
      DEF TInv, IntroduceTransport, QueueTypes, ServerTypes, serverVars
    <2>4. ClientTypes(s)'
      BY <2>1, RequestTypes, TpTypes, Zenon DEF TInv, IntroduceTransport, ClientTypes
    <2> QED BY <2>3, <2>4, Zenon DEF TInv, IntroduceTransport, ConnTypes, serverVars
  <1>TypesAcceptMaxed. ASSUME NEW r
                       PROVE  KeepsTypes(AcceptMaxed(r))
    <2> SUFFICES ASSUME NEW s, TInv(s), AcceptMaxed(r)
                 PROVE  TInv(s)'
      BY Zenon DEF KeepsTypes
    <2> DEFINE t == <<r.dial, "resp">>
    <2>1. r \in requests /\ t \in PlanTps(s)
      BY RequestTypes, Zenon DEF AcceptMaxed
    <2>2. Frame("CLOSE", r.id, t) \in FrameSet(s)
      BY <2>1, RequestTypes, TpTypes, FrameSetHas, Zenon
    <2>3. QueueTypes(s)' /\ ServerTypes(s)'
      BY <2>1, <2>2, RequestTypes, SendTypes, Zenon
      DEF TInv, AcceptMaxed, QueueTypes, ServerTypes, serverVars
    <2>4. ClientTypes(s)'
      BY <2>1, RequestTypes, TpTypes, Zenon DEF TInv, AcceptMaxed, ClientTypes
    <2> QED BY <2>3, <2>4, Zenon DEF TInv, AcceptMaxed, ConnTypes, serverVars
  <1>TypesSetTp. ASSUME NEW r
                 PROVE  KeepsTypes(SetTp(r))
    <2> SUFFICES ASSUME NEW s, TInv(s), SetTp(r)
                 PROVE  TInv(s)'
      BY Zenon DEF KeepsTypes
    <2>1. QueueTypes(s)' /\ ServerTypes(s)'
      BY Zenon DEF TInv, SetTp, QueueTypes, ServerTypes, serverVars
    <2>2. ClientTypes(s)'
      BY RequestTypes, Zenon DEF TInv, SetTp, ClientTypes
    <2> QED BY <2>1, <2>2, Zenon DEF TInv, SetTp, ConnTypes, serverVars
  \* Serve is done with a frame.
  <1>DoneTypes. ASSUME NEW s, TInv(s), NEW c \in Clients, up[c] # <<>>, DoneWith(c),
                       NEW label \in {"read", "cleanup"}, at' = [at EXCEPT ![c] = label],
                       label = "cleanup" => c \notin connected,
                       down' \in [Clients -> Seq(FrameSet(s))],
                       nextConns' \in [Clients -> [IdsOf(s) -> (Clients \X IdsOf(s)) \cup {None}]],
                       connected' = connected, connected \subseteq open', open' \subseteq open,
                       UNCHANGED <<scenario, clientVars, conns, nextRespID>>
                PROVE  TInv(s)'
    <2> USE <1>DoneTypes
    <2>1. QueueTypes(s)'
      BY HandTypes, Zenon DEF QueueTypes
    <2>2. next' \in [Clients -> (Clients \X IdsOf(s)) \cup {None}]
      BY HandTypes, Zenon
    <2>3. \A d \in Clients : d # c => up'[d] = up[d] /\ next'[d] = next[d] /\ at'[d] = at[d]
      BY Zenon DEF TInv, QueueTypes, ServerTypes, DoneWith
    <2>4. at'[c] = label
      BY Zenon DEF TInv, ServerTypes
    <2>5. ServerTypes(s)'
      BY <2>2, <2>3, <2>4, Zenon DEF TInv, ServerTypes
    <2>6. ClientTypes(s)'
      BY Zenon DEF TInv, ClientTypes, clientVars
    <2>7. ConnTypes(s)'
      BY <2>3, <2>4, Zenon DEF TInv, ConnTypes
    <2> QED BY <2>1, <2>5, <2>6, <2>7, Zenon DEF TInv
  <1>TypesRefuseRequest. ASSUME NEW c \in Clients
                         PROVE  KeepsTypes(RefuseRequest(c))
    <2> USE <1>TypesRefuseRequest
    <2> SUFFICES ASSUME NEW s, TInv(s), RefuseRequest(c)
                 PROVE  TInv(s)'
      BY Zenon DEF KeepsTypes
    <2>1. up[c] # <<>> /\ DoneWith(c) /\ delChan(c, InFrame(c).id)
      BY Zenon DEF RefuseRequest, Reading
    <2>2. InFrame(c).id \in IdsOf(s)
      BY <2>1, HandTypes, Zenon
    <2> QED BY <2>1, <2>2, DelChanTypes, <1>DoneTypes, Zenon DEF RefuseRequest, TInv, ConnTypes
  <1>TypesAddNext. ASSUME NEW c \in Clients
                   PROVE  KeepsTypes(addNext(c))
    <2> USE <1>TypesAddNext
    <2> SUFFICES ASSUME NEW s, TInv(s), addNext(c)
                 PROVE  TInv(s)'
      BY Zenon DEF KeepsTypes
    <2> DEFINE f == InFrame(c)
               r == Responder(f)
    <2>1. up[c] # <<>> /\ f.type = "REQUEST" /\ c \in Clients
      BY Zenon DEF addNext, Reading
    <2>2. f.id \in IdsOf(s) /\ r \in Clients
      BY <2>1, HandTypes, RequestedTypes, Zenon
    <2>3. PICK id \in NextFree(nextRespID[r], {i \in Ids : nextConns[r][i] # None}) :
              /\ nextConns' = [nextConns EXCEPT ![r][id] = <<c, f.id>>]
              /\ nextRespID' = [nextRespID EXCEPT ![r] = After(id)]
              /\ next' = [next EXCEPT ![c] = <<r, id>>]
      BY Zenon DEF addNext
    <2>4. id \in IdsOf(s) /\ After(id) \in IdsOf(s)
      BY <2>2, <1>NextFreeIds, Zenon DEF TInv, ServerTypes
    <2>5. QueueTypes(s)' /\ ClientTypes(s)' /\ ConnTypes(s)'
      BY DEF TInv, addNext, QueueTypes, ClientTypes, ConnTypes, clientVars, Goto, ServerTypes
    <2>6. <<r, id>> # None
      <3>1. <<r, id>> \in Clients \X IdsOf(s)
        BY <2>2, <2>4, Zenon
      <3>2. None \notin Clients \X IdsOf(s)
        BY ScenarioFacts, Zenon DEF TInv
      <3> QED BY <3>1, <3>2, Zenon
    <2>7. ServerTypes(s)'
      <3>1. nextRespID' \in [Clients -> IdsOf(s)]
        BY <2>3, <2>4, Zenon DEF TInv, ServerTypes
      <3>2. nextConns' \in [Clients -> [IdsOf(s) -> (Clients \X IdsOf(s)) \cup {None}]]
        BY <2>2, <2>3, <2>4, Zenon DEF TInv, ServerTypes
      <3>3. next' \in [Clients -> (Clients \X IdsOf(s)) \cup {None}] /\ next'[c] # None
        BY <2>2, <2>3, <2>4, <2>6, Zenon DEF TInv, ServerTypes
      <3>4. \A d \in Clients : d # c => next'[d] = next[d] /\ at'[d] = at[d]
        BY <2>3, Zenon DEF TInv, ServerTypes, addNext, Goto
      <3> QED BY <2>1, <3>1, <3>2, <3>3, <3>4 DEF TInv, ServerTypes, addNext, Goto
    <2> QED BY <2>5, <2>7, Zenon DEF TInv, addNext
  <1>TypesSetNext. ASSUME NEW c \in Clients
                   PROVE  KeepsTypes(setNext(c))
    <2> USE <1>TypesSetNext
    <2> SUFFICES ASSUME NEW s, TInv(s), setNext(c)
                 PROVE  TInv(s)'
      BY Zenon DEF KeepsTypes
    <2>1. up[c] # <<>> /\ next[c] \in Clients \X IdsOf(s)
      BY Zenon DEF TInv, ServerTypes, setNext
    <2>2. InFrame(c).id \in IdsOf(s)
      BY <2>1, HandTypes, Zenon
    <2>3. QueueTypes(s)' /\ ClientTypes(s)' /\ ConnTypes(s)'
      BY Zenon DEF TInv, setNext, QueueTypes, ClientTypes, ConnTypes, clientVars, Goto, ServerTypes
    <2>4. ServerTypes(s)'
      BY <2>1, <2>2, Zenon DEF TInv, ServerTypes, setNext, Goto
    <2> QED BY <2>3, <2>4, Zenon DEF TInv, setNext
  <1>TypesForwardRequest. ASSUME NEW c \in Clients
                          PROVE  KeepsTypes(ForwardRequest(c))
    <2> USE <1>TypesForwardRequest
    <2> SUFFICES ASSUME NEW s, TInv(s), ForwardRequest(c)
                 PROVE  TInv(s)'
      BY Zenon DEF KeepsTypes
    <2> DEFINE f == InFrame(c)
               n == next[c]
    <2>1. up[c] # <<>> /\ DoneWith(c) /\ n \in Clients \X IdsOf(s)
      BY Zenon DEF TInv, ServerTypes, ForwardRequest
    <2>2. f \in FrameSet(s) /\ f.id \in IdsOf(s) /\ n[1] \in Clients
      BY <2>1, HandTypes, Zenon
    <2>3. CASE WriteOK(n[1], Rewrite(f, n)) /\ Goto(c, "read") /\ UNCHANGED <<open, nextConns>>
      <3>1. down' \in [Clients -> Seq(FrameSet(s))]
        BY <2>1, <2>2, <2>3, RewriteFrame, WriteTypes, Zenon DEF TInv
      <3> QED BY <2>1, <2>3, <3>1, <1>DoneTypes, Zenon DEF ForwardRequest, TInv, ConnTypes, ServerTypes, Goto
    <2>4. CASE NextFails(n) /\ delChan(c, f.id)
      BY <2>1, <2>2, <2>4, DelChanTypes, <1>DoneTypes, Zenon DEF ForwardRequest, TInv, ConnTypes, NextFails, WriteFails
    <2> QED BY <2>3, <2>4, Zenon DEF ForwardRequest
  \* The association of the frame in hand.
  <1>NextTypes. ASSUME NEW s, TInv(s), NEW c \in Clients, up[c] # <<>>, nextConns[c][InFrame(c).id] # None
                PROVE  /\ nextConns[c][InFrame(c).id] \in Clients \X IdsOf(s)
                       /\ nextConns[c][InFrame(c).id][1] \in Clients
                       /\ Rewrite(InFrame(c), nextConns[c][InFrame(c).id]) \in FrameSet(s)
    <2> USE <1>NextTypes
    <2>1. nextConns[c][InFrame(c).id] \in Clients \X IdsOf(s)
      BY HandTypes DEF TInv, ServerTypes
    <2> QED BY <2>1, HandTypes, RewriteFrame, Zenon
  <1>TypesForwardFrame. ASSUME NEW c \in Clients
                        PROVE  KeepsTypes(ForwardFrame(c))
    <2> USE <1>TypesForwardFrame
    <2> SUFFICES ASSUME NEW s, TInv(s), ForwardFrame(c)
                 PROVE  TInv(s)'
      BY Zenon DEF KeepsTypes
    <2>1. up[c] # <<>> /\ DoneWith(c) /\ at' = [at EXCEPT ![c] = "read"]
      BY Zenon DEF TInv, ServerTypes, ForwardFrame, Reading
    <2>2. down' \in [Clients -> Seq(FrameSet(s))]
      BY <2>1, <1>NextTypes, WriteTypes, Zenon DEF TInv, ForwardFrame
    <2> QED BY <2>1, <2>2, <1>DoneTypes, Zenon DEF ForwardFrame, TInv, ConnTypes, ServerTypes
  <1>TypesForwardClose. ASSUME NEW c \in Clients
                        PROVE  KeepsTypes(ForwardClose(c))
    <2> USE <1>TypesForwardClose
    <2> SUFFICES ASSUME NEW s, TInv(s), ForwardClose(c)
                 PROVE  TInv(s)'
      BY Zenon DEF KeepsTypes
    <2>1. up[c] # <<>>
      BY Zenon DEF ForwardClose, Reading
    <2>2. down' \in [Clients -> Seq(FrameSet(s))]
      BY <2>1, <1>NextTypes, WriteTypes, Zenon DEF TInv, ForwardClose
    <2>3. QueueTypes(s)' /\ ClientTypes(s)' /\ ConnTypes(s)'
      BY <2>2, Zenon DEF TInv, ForwardClose, QueueTypes, ClientTypes, ConnTypes, clientVars, Goto, ServerTypes
    <2>4. ServerTypes(s)'
      BY <2>1, <1>NextTypes, Zenon DEF TInv, ServerTypes, ForwardClose, Goto
    <2> QED BY <2>3, <2>4, Zenon DEF TInv, ForwardClose
  <1>TypesForwardFails. ASSUME NEW c \in Clients
                        PROVE  KeepsTypes(ForwardFails(c))
    <2> USE <1>TypesForwardFails
    <2> SUFFICES ASSUME NEW s, TInv(s), ForwardFails(c)
                 PROVE  TInv(s)'
      BY Zenon DEF KeepsTypes
    <2>1. up[c] # <<>> /\ DoneWith(c) /\ delChan(c, InFrame(c).id)
      BY Zenon DEF ForwardFails, Reading
    <2>2. InFrame(c).id \in IdsOf(s)
      BY <2>1, HandTypes, Zenon
    <2>3. connected \subseteq open' /\ open' \subseteq open
      BY Zenon DEF ForwardFails, TInv, ConnTypes, NextFails, WriteFails
    <2> QED BY <2>1, <2>2, <2>3, DelChanTypes, <1>DoneTypes, Zenon DEF ForwardFails
  <1>TypesDelNext. ASSUME NEW c \in Clients
                   PROVE  KeepsTypes(delNext(c))
    <2> USE <1>TypesDelNext
    <2> SUFFICES ASSUME NEW s, TInv(s), delNext(c)
                 PROVE  TInv(s)'
      BY Zenon DEF KeepsTypes
    <2>1. up[c] # <<>> /\ next[c] \in Clients \X IdsOf(s)
      BY Zenon DEF TInv, ServerTypes, delNext
    <2>2. InFrame(c).id \in IdsOf(s)
      BY <2>1, HandTypes, Zenon
    <2>3. QueueTypes(s)' /\ ClientTypes(s)' /\ ConnTypes(s)'
      BY Zenon DEF TInv, delNext, QueueTypes, ClientTypes, ConnTypes, clientVars, Goto, ServerTypes
    <2>4. ServerTypes(s)'
      BY <2>1, <2>2, Zenon DEF TInv, ServerTypes, delNext, Goto
    <2> QED BY <2>3, <2>4, Zenon DEF TInv, delNext
  <1>TypesDelNextOfPeer. ASSUME NEW c \in Clients
                         PROVE  KeepsTypes(delNextOfPeer(c))
    <2> USE <1>TypesDelNextOfPeer
    <2> SUFFICES ASSUME NEW s, TInv(s), delNextOfPeer(c)
                 PROVE  TInv(s)'
      BY Zenon DEF KeepsTypes
    <2>1. /\ up[c] # <<>> /\ DoneWith(c) /\ at' = [at EXCEPT ![c] = "read"]
          /\ next[c] \in Clients \X IdsOf(s)
      BY Zenon DEF TInv, ServerTypes, delNextOfPeer, Goto
    <2>2. nextConns' \in [Clients -> [IdsOf(s) -> (Clients \X IdsOf(s)) \cup {None}]]
      BY <2>1, Zenon DEF TInv, ServerTypes, delNextOfPeer
    <2>3. down' \in [Clients -> Seq(FrameSet(s))]
      BY Zenon DEF TInv, QueueTypes, delNextOfPeer
    <2> QED BY <2>1, <2>2, <2>3, <1>DoneTypes, Zenon DEF delNextOfPeer, TInv, ConnTypes
  <1>TypesReadFails. ASSUME NEW c \in Clients
                     PROVE  KeepsTypes(ReadFails(c))
    <2> USE <1>TypesReadFails
    <2> SUFFICES ASSUME NEW s, TInv(s), ReadFails(c)
                 PROVE  TInv(s)'
      BY Zenon DEF KeepsTypes
    <2>1. QueueTypes(s)' /\ ClientTypes(s)' /\ ServerTypes(s)'
      BY Zenon DEF TInv, ReadFails, QueueTypes, ClientTypes, clientVars, Goto, ServerTypes
    <2>2. ConnTypes(s)'
      BY Zenon DEF TInv, ReadFails, ConnTypes, Goto, ServerTypes
    <2> QED BY <2>1, <2>2, Zenon DEF TInv, ReadFails
  <1>TypesSendCloses. ASSUME NEW c \in Clients
                      PROVE  KeepsTypes(SendCloses(c))
    <2> USE <1>TypesSendCloses
    <2> SUFFICES ASSUME NEW s, TInv(s), SendCloses(c)
                 PROVE  TInv(s)'
      BY Zenon DEF KeepsTypes
    <2> DEFINE to(d) == {i \in Ids : nextConns[c][i] # None /\ nextConns[c][i][1] = d}
               closes(o) == [k \in DOMAIN o |-> Frame("CLOSE", nextConns[c][o[k]][2], None)]
    <2>1. PICK order \in [Clients -> UNION {Orders(to(d)) : d \in Clients}] :
              /\ \A d \in Clients : order[d] \in Orders(to(d))
              /\ down' = [d \in Clients |-> IF d \in open \cap connected
                                            THEN down[d] \o closes(order[d]) ELSE down[d]]
      BY Zenon DEF SendCloses
    <2>2. ASSUME NEW d \in Clients
          PROVE  closes(order[d]) \in Seq(FrameSet(s))
      <3>1. PICK n \in 0 .. s.ids : order[d] \in [1 .. n -> to(d)]
        <4>1. order[d] \in Orders(to(d)) /\ IdMod = s.ids
          BY <2>1, Zenon DEF TInv, IdMod
        <4> HIDE DEF to
        <4> QED BY <4>1, Zenon DEF Orders
      <3>2. \A i \in to(d) : nextConns[c][i][2] \in IdsOf(s)
        <4>1. Ids = IdsOf(s)
          BY Zenon DEF TInv, Ids, IdMod, IdsOf
        <4>2. \A i \in IdsOf(s) : nextConns[c][i] # None => nextConns[c][i] \in Clients \X IdsOf(s)
          BY DEF TInv, ServerTypes
        <4> QED BY <4>1, <4>2, Zenon
      <3>3. \A i \in to(d) : Frame("CLOSE", nextConns[c][i][2], None) \in FrameSet(s)
        BY <3>2, FrameSetHas, Zenon
      <3>4. n \in Nat
        BY <3>1, ScenarioFacts DEF TInv
      <3> QED BY <3>1, <3>3, <3>4
    <2> HIDE DEF closes, to
    <2>3. \A d \in Clients : down[d] \o closes(order[d]) \in Seq(FrameSet(s))
      BY <2>2, SeqConcat, Zenon DEF TInv, QueueTypes
    <2>4. QueueTypes(s)'
      BY <2>1, <2>3, Zenon DEF TInv, QueueTypes, SendCloses
    <2>5. ClientTypes(s)' /\ ServerTypes(s)'
      BY Zenon DEF TInv, SendCloses, ClientTypes, ServerTypes, clientVars, Goto
    <2>6. ConnTypes(s)'
      BY Zenon DEF TInv, SendCloses, ConnTypes, Goto, ServerTypes
    <2> QED BY <2>4, <2>5, <2>6, Zenon DEF TInv, SendCloses
  <1>TypesCloseConn. ASSUME NEW c \in Clients
                     PROVE  KeepsTypes(CloseConn(c))
    <2> USE <1>TypesCloseConn
    <2> SUFFICES ASSUME NEW s, TInv(s), CloseConn(c)
                 PROVE  TInv(s)'
      BY Zenon DEF KeepsTypes
    <2>1. QueueTypes(s)' /\ ClientTypes(s)' /\ ServerTypes(s)'
      BY Zenon DEF TInv, CloseConn, QueueTypes, ClientTypes, clientVars, Goto, ServerTypes
    <2>2. ConnTypes(s)'
      BY Zenon DEF TInv, CloseConn, ConnTypes, Goto, ServerTypes
    <2> QED BY <2>1, <2>2, Zenon DEF TInv, CloseConn
  <1>TypesDelConn. ASSUME NEW c \in Clients
                   PROVE  KeepsTypes(delConn(c))
    <2> USE <1>TypesDelConn
    <2> SUFFICES ASSUME NEW s, TInv(s), delConn(c)
                 PROVE  TInv(s)'
      BY Zenon DEF KeepsTypes
    <2>1. QueueTypes(s)' /\ ClientTypes(s)' /\ ServerTypes(s)'
      BY DEF TInv, delConn, QueueTypes, ClientTypes, clientVars, Goto, ServerTypes
    <2>2. ConnTypes(s)'
      BY Zenon DEF TInv, delConn, ConnTypes, Goto, ServerTypes
    <2> QED BY <2>1, <2>2, Zenon DEF TInv, delConn
  <1>TypesClientStep. ASSUME NEW c \in Clients
                      PROVE  KeepsTypes(ClientStep(c))
    <2> USE <1>TypesClientStep
    <2> SUFFICES ASSUME NEW s, TInv(s), ClientStep(c)
                 PROVE  TInv(s)'
      BY Zenon DEF KeepsTypes
    <2> QED BY Zenon, <1>TypesWriteAck, <1>TypesRecvReply, <1>TypesRecvFwd, <1>TypesRecvClose, <1>TypesRecvAckOrAccept,
         <1>TypesRecvRequestInUse, <1>TypesRecvRequest, <1>TypesRecvIgnored, <1>TypesRejectRequest,
         <1>TypesIntroduceTransport, <1>TypesAcceptMaxed, <1>TypesListenerClosed, <1>TypesSetTp
    DEF KeepsTypes, ClientStep
  <1>TypesServerStep. ASSUME NEW c \in Clients
                      PROVE  KeepsTypes(ServerStep(c))
    <2> USE <1>TypesServerStep
    <2> SUFFICES ASSUME NEW s, TInv(s), ServerStep(c)
                 PROVE  TInv(s)'
      BY Zenon DEF KeepsTypes
    <2> QED BY Zenon, <1>TypesRefuseRequest, <1>TypesAddNext, <1>TypesForwardFrame, <1>TypesForwardClose, <1>TypesForwardFails,
         <1>TypesSetNext, <1>TypesForwardRequest, <1>TypesDelNext, <1>TypesDelNextOfPeer, <1>TypesReadFails,
         <1>TypesSendCloses, <1>TypesCloseConn, <1>TypesDelConn
    DEF KeepsTypes, ServerStep
  <1> QED
    <2> SUFFICES ASSUME NEW s, TInv(s), [Next]_vars
                 PROVE  TInv(s)'
      BY Zenon DEF KeepsTypes
    <2>1. CASE UNCHANGED vars
      BY <2>1, Zenon DEF vars, clientVars, serverVars, TInv, ConnTypes, QueueTypes, ClientTypes, ServerTypes
    <2>2. CASE Next
      BY Zenon, <2>1, <2>2, <1>TypesDialTransport, <1>TypesClose, <1>TypesWrite, <1>TypesLoseConn, <1>TypesClientStep,
         <1>TypesServerStep DEF KeepsTypes, Next, Idle
    <2> QED BY <2>1, <2>2, Zenon

-----------------------------------------------------------------------------
(* The types hold.                                                         *)

LEMMA TypesInit ==
    ASSUME Init
    PROVE  TInv(scenario)
  <1> DEFINE s == scenario
  <1>1. s \in Scenarios
    BY Zenon DEF Init
  <1>2. 0 \in IdsOf(s) /\ 1 \in IdsOf(s) /\ Ids = IdsOf(s)
    BY <1>1, ScenarioFacts DEF IdsOf, Ids, IdMod
  <1>3. QueueTypes(s) /\ ConnTypes(s)
    BY DEF Init, QueueTypes, ConnTypes
  <1>4. ClientTypes(s) /\ ServerTypes(s)
    BY <1>2, Zenon DEF Init, ClientTypes, ServerTypes
  <1> QED BY <1>1, <1>3, <1>4, Zenon DEF TInv

LEMMA TypesImply ==
    ASSUME TInv(scenario)
    PROVE  TypeOK
  <1> DEFINE s == scenario
  <1>1. Ids = IdsOf(s) /\ PlanTps(s) \subseteq Tps /\ DOMAIN s.plan \subseteq Dials
    BY ScenarioFacts, Zenon DEF TInv, Ids, IdMod, IdsOf
  <1>2. FrameSet(s) \subseteq Frames
    BY <1>1, Zenon DEF FrameSet, Frames
  <1>3. up \in [Clients -> Seq(Frames)] /\ down \in [Clients -> Seq(Frames)]
    BY <1>2 DEF TInv, QueueTypes
  <1>4. tps \in [Clients -> [Ids -> Tps \cup {None}]] /\ acks \subseteq Tps
    BY <1>1 DEF TInv, ClientTypes
  <1>5. requests \subseteq [conn : Clients, id : Ids, dial : Dials, at : {"introduce", "setTp"}]
    BY <1>1, Zenon DEF TInv, ClientTypes
  <1> QED BY <1>1, <1>3, <1>4, <1>5, Zenon DEF TypeOK, TInv, ConnTypes, ClientTypes, ServerTypes

\* Clients, server and network keep their state well formed in every instance,
\* with any number of ids, whoever dials whom and loses its connection.
THEOREM RelayTypeCorrect == Spec => []TypeOK
  <1> DEFINE I == TInv(scenario)
  <1>1. Init => I
    BY TypesInit, Zenon
  <1>2. I /\ [Next]_vars => I'
    <2> SUFFICES ASSUME I, [Next]_vars PROVE I'
      BY Zenon
    <2> DEFINE s == scenario
    <2>1. PICK q : q = s
      BY Zenon
    <2>2. TInv(q)'
      BY <2>1, TypesNext, Zenon DEF KeepsTypes
    <2> QED BY <2>2, Zenon DEF TInv
  <1>3. I => TypeOK
    BY TypesImply, Zenon
  <1> QED BY <1>1, <1>2, <1>3, PTL DEF Spec

-----------------------------------------------------------------------------
(* The ids.  While no id comes back, every end of a dial that has an id is *)
(* told from all others by its client and that id.  Three constants record *)
(* the past: ids[t] is the id given to the transport t (the server gives   *)
(* the responder's id), given the transports that have got one, and told   *)
(* those whose own client has heard of it: the responder's client hears of *)
(* it in the REQUEST frame that the server forwards.                       *)

End(s, ids, t) == <<OwnerOf(s, t), ids[t]>>

Ghosts(s, ids, given, told) ==
    /\ ids \in [PlanTps(s) -> IdsOf(s)]
    /\ given \subseteq PlanTps(s) /\ told \subseteq given
    /\ \A t \in given : /\ t[2] = "init" => t \in told
                        /\ t[2] = "resp" => Peer(t) \in given
    /\ \A t, u \in given : End(s, ids, t) = End(s, ids, u) => t = u

\* The ids given at client c, to initiators or to responders.
GivenAt(s, given, c, side) ==
    {d \in DOMAIN s.plan : OwnerOf(s, <<d, side>>) = c /\ <<d, side>> \in given}

First(side) == IF side = "init" THEN 0 ELSE 1

\* Ids are given in order, even ones to initiators and odd ones to responders.
Counted(s, ids, given) ==
    /\ \A c \in Clients :
          /\ nextInitID[c] = (2 * Cardinality(GivenAt(s, given, c, "init")) + First("init")) % s.ids
          /\ nextRespID[c] = (2 * Cardinality(GivenAt(s, given, c, "resp")) + First("resp")) % s.ids
    /\ \A t \in given :
          /\ ids[t] % 2 = First(t[2])
          /\ ids[t] < 2 * Cardinality(GivenAt(s, given, OwnerOf(s, t), t[2])) + First(t[2])

\* A client enters a transport under its id, and knows its own transports only.
TpsOK(s, ids, given, told) ==
    /\ \A c \in Clients, i \in IdsOf(s) :
          tps[c][i] # None => /\ tps[c][i] \in told /\ End(s, ids, tps[c][i]) = <<c, i>>
                              /\ tpState[tps[c][i]] # "none"
    /\ \A t \in Tps : tpState[t] # "none" => t \in told /\ tpId[t] = ids[t]
    /\ \A t \in given : t[2] = "init" => tpState[t] # "none"
    /\ \A t \in acks : tpState[t] # "none"

\* At most one goroutine handles the request of a dial, under the right id.
RequestsOK(s, ids, told) ==
    /\ \A r \in requests :
          /\ <<r.dial, "resp">> \in told /\ End(s, ids, <<r.dial, "resp">>) = <<r.conn, r.id>>
          /\ r.at = "introduce" <=> tpState[<<r.dial, "resp">>] = "none"
    /\ \A r, q \in requests : r.dial = q.dial => r = q

\* An open responder is in tps, or about to be.
Registered(s, ids) ==
    \A t \in Tps :
        t[2] = "resp" /\ tpState[t] = "open" /\ OwnerOf(s, t) \in connected =>
            \/ tps[OwnerOf(s, t)][ids[t]] = t
            \/ \E q \in requests : q.at = "setTp" /\ q.dial = t[1]

\* A frame from client c carries an id that c has heard of, that of its sender.
UpFrame(s, ids, told, c, f) ==
    \E t \in told : End(s, ids, t) = <<c, f.id>> /\ f.tp \in {t, None}

\* A REQUEST frame on its way to the server is the only one of its dial, and
\* the responder has no id as long as the server has not turned to it.
UpQueue(s, ids, given, told, c, q, label) ==
    \A k \in DOMAIN q :
        /\ UpFrame(s, ids, told, c, q[k])
        /\ q[k].type = "REQUEST" =>
              /\ Peer(q[k].tp) \notin told
              /\ Peer(q[k].tp) \in given => k = 1 /\ label \in {"setNext", "forward"}
              /\ \A j \in DOMAIN q : q[j].type = "REQUEST" /\ q[j].tp = q[k].tp => j = k

UpOK(s, ids, given, told) ==
    \A c \in Clients : UpQueue(s, ids, given, told, c, up[c], at[c])

\* A frame to client c carries an id that c has heard of, that of the peer of
\* its sender.
DownFrame(s, ids, told, c, f) ==
    \E t \in told : End(s, ids, t) = <<c, f.id>> /\ f.tp \in {Peer(t), None}

\* A REQUEST frame on its way to a client is the only trace of its responder.
DownOK(s, ids, told) ==
    \A c \in Clients : \A k \in DOMAIN down[c] :
        /\ DownFrame(s, ids, told, c, down[c][k])
        /\ down[c][k].type = "REQUEST" =>
              /\ tpState[Peer(down[c][k].tp)] = "none"
              /\ \A r \in requests : r.dial # down[c][k].tp[1]
              /\ \A j \in DOMAIN down[c] :
                    down[c][j].type = "REQUEST" /\ down[c][j].tp = down[c][k].tp => j = k

\* An association leads from one end of a dial to the other; the responder has
\* heard of it, unless Serve still has the REQUEST frame f in hand.
RouteOK(s, ids, given, told, c, i, n, label, f) ==
    n # None =>
        \E t \in given :
            /\ End(s, ids, t) = <<c, i>>
            /\ Peer(t) \in given /\ n = End(s, ids, Peer(t))
            /\ Peer(t) \in told \/ (label = "forward" /\ f.tp = t)

RoutesOK(s, ids, given, told) ==
    \A c \in Clients, i \in IdsOf(s) :
        RouteOK(s, ids, given, told, c, i, nextConns[c][i], at[c], InFrame(c))

\* The association n that Serve of c holds between two critical sections, with
\* the frame f in hand, is up to date in the tables R of all connections.
HandOK(s, ids, given, told, c, label, f, n, R) ==
    /\ label \in {"setNext", "forward"} =>
          f.type = "REQUEST" /\ Peer(f.tp) \in given /\ n = End(s, ids, Peer(f.tp))
    /\ label = "setNext" => R[n[1]][n[2]] = <<c, f.id>>
    /\ label \in {"delNext", "delPeer"} =>
          \E t \in given : /\ End(s, ids, t) = <<c, f.id>>
                           /\ Peer(t) \in told /\ n = End(s, ids, Peer(t))
    /\ label = "delPeer" => R[c][f.id] = None

InHand(s, ids, given, told) ==
    \A c \in Clients : HandOK(s, ids, given, told, c, at[c], InFrame(c), next[c], nextConns)

\* The associations of two connections agree, unless the Serve of the other one
\* is between the two halves of setting up or deleting both.
PairOK(R, A, N, c, i, m) ==
    m # None => \/ R[m[1]][m[2]] = <<c, i>>
                \/ A[m[1]] \in {"setNext", "delPeer"} /\ N[m[1]] = <<c, i>>

Paired(s) ==
    \A c \in connected, i \in IdsOf(s) : PairOK(nextConns, at, next, c, i, nextConns[c][i])

ServerOK(s, ids, given, told) ==
    RoutesOK(s, ids, given, told) /\ InHand(s, ids, given, told) /\ Paired(s)

RInv(s, ids, given, told) ==
    /\ TInv(s)
    /\ Ghosts(s, ids, given, told) /\ Counted(s, ids, given)
    /\ TpsOK(s, ids, given, told) /\ RequestsOK(s, ids, told) /\ Registered(s, ids)
    /\ UpOK(s, ids, given, told) /\ DownOK(s, ids, told)
    /\ ServerOK(s, ids, given, told)

\* A step that keeps the types keeps the ids that the invariant holds for, or
\* there are others that it holds for.
KeepsRouting(step) ==
    \A s, ids, given, told :
        RInv(s, ids, given, told) /\ TInv(s)' /\ step => RInv(s, ids, given, told)'

Routed(s) == \E ids, given, told : RInv(s, ids, given, told)
KeepsRouted(step) == \A s : Routed(s) /\ TInv(s)' /\ step => Routed(s)'

-----------------------------------------------------------------------------
(* What the parts of the invariant say of single steps.                    *)

LEMMA PeerFacts ==
    ASSUME NEW s \in Scenarios, NEW t \in PlanTps(s)
    PROVE  /\ Peer(t) \in PlanTps(s) /\ Peer(Peer(t)) = t /\ Peer(t)[1] = t[1]
           /\ t[2] = "init" <=> Peer(t)[2] = "resp"
           /\ t[2] = "resp" <=> Peer(t)[2] = "init"
           /\ t[2] = "init" => t = <<t[1], "init">> /\ Peer(t) = <<t[1], "resp">>
           /\ t[2] = "resp" => t = <<t[1], "resp">> /\ Peer(t) = <<t[1], "init">>
  BY DEF PlanTps, Peer

\* The server's part does not depend on what clients send.
LEMMA ServerSame ==
    ASSUME NEW s, NEW ids, NEW given, NEW told, TInv(s), ServerOK(s, ids, given, told),
           UNCHANGED <<nextConns, at, next>>, connected' \subseteq connected,
           \A c \in Clients : up[c] # <<>> => InFrame(c)' = InFrame(c)
    PROVE  ServerOK(s, ids, given, told)'
  <1>1. \A c \in Clients : at[c] \in {"setNext", "forward", "delNext", "delPeer"} => InFrame(c)' = InFrame(c)
    BY Zenon DEF TInv, ServerTypes
  <1>2. RoutesOK(s, ids, given, told)'
    BY <1>1 DEF ServerOK, RoutesOK, RouteOK
  <1>3. InHand(s, ids, given, told)'
    BY <1>1, Zenon DEF ServerOK, InHand, HandOK
  <1>4. Paired(s)'
    BY Zenon DEF ServerOK, Paired, PairOK
  <1> QED BY <1>2, <1>3, <1>4, Zenon DEF ServerOK

\* Nothing that a client holds changes.
LEMMA ClientSame ==
    ASSUME NEW s, NEW ids, NEW given, NEW told, TInv(s),
           TpsOK(s, ids, given, told), RequestsOK(s, ids, told), Registered(s, ids),
           UNCHANGED <<tps, tpState, tpId, requests, acks, connected>>
    PROVE  /\ TpsOK(s, ids, given, told)' /\ RequestsOK(s, ids, told)' /\ Registered(s, ids)'
  BY Zenon DEF TpsOK, RequestsOK, Registered

-----------------------------------------------------------------------------
(* The steps of the server.                                                *)

\* A step of the server goroutine of c.
StepOf(c) ==
    \A d \in Clients :
        d # c => at'[d] = at[d] /\ next'[d] = next[d] /\ up'[d] = up[d] /\ InFrame(d)' = InFrame(d)

\* Serve deletes the association of an end that its client has heard of.
Deletes(s, c, a, i) ==
    /\ StepOf(c) /\ connected' = connected
    /\ \A b \in Clients, j \in IdsOf(s) :
          nextConns'[b][j] = IF b = a /\ j = i THEN None ELSE nextConns[b][j]
    /\ at[c] # "setNext"
    /\ at[c] = "forward" => a = c /\ i = InFrame(c).id
    /\ at[c] = "delPeer" => next[c] = <<a, i>>
    /\ \/ at'[c] \in {"read", "cleanup"}
       \/ /\ at[c] = "delNext" /\ at'[c] = "delPeer" /\ next'[c] = next[c] /\ up'[c] = up[c]
          /\ a = c /\ i = InFrame(c).id

\* No live connection is left with an association that leads to nothing.
Unled(s, a, i) ==
    \A b \in connected, j \in IdsOf(s) :
        nextConns[b][j] = <<a, i>> /\ nextConns'[b][j] # None =>
            at'[a] = "delPeer" /\ next'[a] = <<b, j>>

Heard(s, ids, given, told, c, id, n) ==
    \E t \in given : End(s, ids, t) = <<c, id>> /\ Peer(t) \in told /\ n = End(s, ids, Peer(t))

\* The two associations that a CLOSE frame is about.
LedTo(s, ids, t, b, j) ==
    nextConns[b][j] # None /\ nextConns[b][j] = End(s, ids, t)

\* The server's part knows old ids only.
LEMMA ServerGrow ==
    ASSUME NEW s, NEW ids, NEW given, NEW told, NEW ids2, NEW given2, NEW told2,
           ServerOK(s, ids, given, told), given \subseteq given2, told \subseteq told2,
           \A u \in given : End(s, ids2, u) = End(s, ids, u), told \subseteq given
    PROVE  ServerOK(s, ids2, given2, told2)
  <1>1. RoutesOK(s, ids2, given2, told2)
    BY DEF ServerOK, RoutesOK, RouteOK
  <1>2. InHand(s, ids2, given2, told2)
    BY DEF ServerOK, InHand, HandOK
  <1> QED BY <1>1, <1>2, Zenon DEF ServerOK

\* The end that a frame from client c is sent under.
LEMMA SentUnder ==
    ASSUME NEW s, NEW ids, NEW given, NEW told, RInv(s, ids, given, told),
           NEW c \in Clients, up[c] # <<>>
    PROVE  /\ \E t \in told : End(s, ids, t) = <<c, InFrame(c).id>> /\ InFrame(c).tp \in {t, None}
           /\ InFrame(c) \in FrameSet(s) /\ InFrame(c).id \in IdsOf(s)
           /\ InFrame(c).type = "REQUEST" =>
                /\ InFrame(c).tp \in told /\ End(s, ids, InFrame(c).tp) = <<c, InFrame(c).id>>
                /\ InFrame(c).tp \in PlanTps(s) /\ InFrame(c).tp[2] = "init"
                /\ Peer(InFrame(c).tp) \notin told
                /\ Peer(InFrame(c).tp) \in given => at[c] \in {"setNext", "forward"}
  <1>1. UpQueue(s, ids, given, told, c, up[c], at[c]) /\ up[c] \in Seq(FrameSet(s)) /\ s \in Scenarios
    BY Zenon DEF RInv, UpOK, TInv, QueueTypes
  <1>2. 1 \in DOMAIN up[c] /\ InFrame(c) = up[c][1] /\ InFrame(c) \in FrameSet(s)
    BY <1>1, SeqTail, Zenon DEF InFrame
  <1>3. UpFrame(s, ids, told, c, InFrame(c))
    BY <1>1, <1>2, Zenon DEF UpQueue
  <1>4. PICK t \in told : End(s, ids, t) = <<c, InFrame(c).id>> /\ InFrame(c).tp \in {t, None}
    BY <1>3, Zenon DEF UpFrame
  <1>5. InFrame(c).id \in IdsOf(s)
    BY <1>2, FrameFields, Zenon
  <1>6. ASSUME InFrame(c).type = "REQUEST"
        PROVE  /\ InFrame(c).tp \in told /\ End(s, ids, InFrame(c).tp) = <<c, InFrame(c).id>>
               /\ InFrame(c).tp \in PlanTps(s) /\ InFrame(c).tp[2] = "init"
               /\ Peer(InFrame(c).tp) \notin told
               /\ Peer(InFrame(c).tp) \in given => at[c] \in {"setNext", "forward"}
    <2>1. InFrame(c).tp \in PlanTps(s) /\ InFrame(c).tp[2] = "init"
      BY <1>2, <1>6, FrameFields, Zenon
    <2>2. None \notin PlanTps(s)
      BY <1>1, ScenarioFacts, Zenon
    <2>3. InFrame(c).tp = t
      BY <1>4, <2>1, <2>2, Zenon
    <2>4. /\ Peer(InFrame(c).tp) \notin told
          /\ Peer(InFrame(c).tp) \in given => at[c] \in {"setNext", "forward"}
      BY <1>1, <1>2, <1>6, Zenon DEF UpQueue
    <2> QED BY <1>4, <2>1, <2>3, <2>4, Zenon
  <1> QED BY <1>2, <1>4, <1>5, <1>6, Zenon

\* What the clients hold stays as it is.
LEMMA ServerGhosts ==
    ASSUME NEW s, NEW ids, NEW given, NEW told, RInv(s, ids, given, told),
           UNCHANGED <<connected, clientVars, nextRespID>>
    PROVE  /\ Ghosts(s, ids, given, told)' /\ Counted(s, ids, given)'
           /\ TpsOK(s, ids, given, told)' /\ RequestsOK(s, ids, told)' /\ Registered(s, ids)'
  <1>1. TInv(s) /\ TpsOK(s, ids, given, told) /\ RequestsOK(s, ids, told) /\ Registered(s, ids)
    BY Zenon DEF RInv
  <1>2. UNCHANGED <<tps, tpState, tpId, requests, acks, connected>>
    BY Zenon DEF clientVars
  <1>3. Ghosts(s, ids, given, told)'
    BY Zenon DEF RInv, Ghosts
  <1>4. Counted(s, ids, given)'
    BY Zenon DEF RInv, Counted, clientVars
  <1> QED BY <1>1, <1>2, <1>3, <1>4, ClientSame, Zenon

\* The server writes frames other than REQUEST.
LEMMA DownMore ==
    ASSUME NEW s, NEW ids, NEW told, DownOK(s, ids, told), UNCHANGED <<tpState, requests>>,
           \A d \in Clients : \A k \in DOMAIN down'[d] :
              \/ k \in DOMAIN down[d] /\ down'[d][k] = down[d][k]
              \/ down'[d][k].type # "REQUEST" /\ DownFrame(s, ids, told, d, down'[d][k])
    PROVE  DownOK(s, ids, told)'
  <1>1. ASSUME NEW d \in Clients, NEW k \in DOMAIN down'[d]
        PROVE  /\ DownFrame(s, ids, told, d, down'[d][k])
               /\ down'[d][k].type = "REQUEST" =>
                     /\ tpState[Peer(down'[d][k].tp)] = "none"
                     /\ \A r \in requests : r.dial # down'[d][k].tp[1]
                     /\ \A j \in DOMAIN down'[d] :
                           down'[d][j].type = "REQUEST" /\ down'[d][j].tp = down'[d][k].tp => j = k
    BY DEF DownOK
  <1> QED BY <1>1 DEF DownOK, DownFrame, End

\* Serve keeps the frame in hand.
LEMMA UpStay ==
    ASSUME NEW s, NEW ids, NEW given, NEW told, UpOK(s, ids, given, told), UNCHANGED up,
           \A d \in Clients : at[d] \in {"setNext", "forward"} => at'[d] \in {"setNext", "forward"}
    PROVE  UpOK(s, ids, given, told)'
  BY DEF UpOK, UpQueue, UpFrame, End

\* What Serve of d has in hand, when the associations that it is about stay.
LEMMA HandKeep ==
    ASSUME NEW s, NEW ids, NEW given, NEW told, NEW d, NEW label, NEW f, NEW n, NEW R, NEW S,
           HandOK(s, ids, given, told, d, label, f, n, R),
           label = "setNext" => S[n[1]][n[2]] = R[n[1]][n[2]],
           label = "delPeer" => S[d][f.id] = R[d][f.id]
    PROVE  HandOK(s, ids, given, told, d, label, f, n, S)
  BY Zenon DEF HandOK

LEMMA ClosingOK ==
    ASSUME NEW s, NEW ids, NEW given, NEW told, RInv(s, ids, given, told),
           NEW c \in Clients, at[c] \in {"delNext", "delPeer"}
    PROVE  /\ up[c] # <<>> /\ InFrame(c).id \in IdsOf(s)
           /\ \E t \in told : /\ End(s, ids, t) = <<c, InFrame(c).id>> /\ Peer(t) \in told
                              /\ next[c] = End(s, ids, Peer(t)) /\ Peer(Peer(t)) = t
           /\ next[c] \in Clients \X IdsOf(s) /\ next[c] = <<next[c][1], next[c][2]>>
           /\ at[c] = "delPeer" => nextConns[c][InFrame(c).id] = None
  <1>1. TInv(s) /\ s \in Scenarios /\ InHand(s, ids, given, told) /\ Ghosts(s, ids, given, told)
    BY Zenon DEF RInv, ServerOK, TInv
  <1>2. up[c] # <<>> /\ next[c] \in Clients \X IdsOf(s) /\ next[c] = <<next[c][1], next[c][2]>>
    BY <1>1 DEF TInv, ServerTypes
  <1>3. InFrame(c).id \in IdsOf(s)
    BY <1>1, <1>2, HandTypes, Zenon
  <1>4. PICK t \in given : /\ End(s, ids, t) = <<c, InFrame(c).id>>
                           /\ Peer(t) \in told /\ next[c] = End(s, ids, Peer(t))
    BY <1>1, Zenon DEF InHand, HandOK
  <1>5. PICK u \in told : End(s, ids, u) = <<c, InFrame(c).id>>
    BY <1>2, SentUnder
  <1>6. u = t /\ t \in PlanTps(s)
    BY <1>1, <1>4, <1>5, Zenon DEF Ghosts
  <1>7. Peer(Peer(t)) = t
    BY <1>1, <1>6, PeerFacts, Zenon
  <1>8. at[c] = "delPeer" => nextConns[c][InFrame(c).id] = None
    BY <1>1, Zenon DEF InHand, HandOK
  <1> QED BY <1>2, <1>3, <1>4, <1>5, <1>6, <1>7, <1>8, Zenon

\* The sender of a REQUEST frame that is on its way to the server.
LEMMA QueuedRequest ==
    ASSUME NEW s, NEW ids, NEW given, NEW told, RInv(s, ids, given, told),
           NEW d \in Clients, NEW k \in DOMAIN up[d], up[d][k].type = "REQUEST"
    PROVE  up[d][k].tp \in PlanTps(s) /\ OwnerOf(s, up[d][k].tp) = d
  <1>1. UpQueue(s, ids, given, told, d, up[d], at[d]) /\ up[d] \in Seq(FrameSet(s)) /\ s \in Scenarios
    BY Zenon DEF RInv, UpOK, TInv, QueueTypes
  <1>2. up[d][k] \in FrameSet(s)
    BY <1>1
  <1>3. up[d][k].tp \in PlanTps(s) /\ None \notin PlanTps(s)
    BY <1>1, <1>2, FrameFields, ScenarioFacts, Zenon
  <1>4. UpFrame(s, ids, told, d, up[d][k])
    BY <1>1, Zenon DEF UpQueue
  <1>5. PICK t \in told : End(s, ids, t) = <<d, up[d][k].id>> /\ up[d][k].tp \in {t, None}
    BY <1>4, Zenon DEF UpFrame
  <1> QED BY <1>3, <1>5, Zenon DEF End

\* Every step of the server that gives no id.
LEMMA ServerKeepsRouted == \A c \in Clients : KeepsRouted(ServerStep(c) /\ ~addNext(c))
  \* Only one association can lead to an end: that of the other end.
  <1>LeadsTo. ASSUME NEW s, NEW ids, NEW given, NEW told, RInv(s, ids, given, told),
                     NEW t \in given, NEW b \in Clients, NEW j \in IdsOf(s),
                     nextConns[b][j] = End(s, ids, t), nextConns[b][j] # None
              PROVE  Peer(t) \in given /\ End(s, ids, Peer(t)) = <<b, j>>
    <2> USE <1>LeadsTo
    <2>1. RoutesOK(s, ids, given, told) /\ Ghosts(s, ids, given, told) /\ s \in Scenarios
      BY Zenon DEF RInv, ServerOK, TInv
    <2>2. PICK u \in given : /\ End(s, ids, u) = <<b, j>> /\ Peer(u) \in given
                             /\ nextConns[b][j] = End(s, ids, Peer(u))
      BY <2>1, Zenon DEF RoutesOK, RouteOK
    <2>3. Peer(u) = t /\ u \in PlanTps(s)
      BY <2>1, <2>2, Zenon DEF Ghosts
    <2> QED BY <2>1, <2>2, <2>3, PeerFacts, Zenon
  <1>DownWrite. ASSUME NEW s, NEW ids, NEW told, TInv(s), DownOK(s, ids, told), UNCHANGED <<tpState, requests>>,
                       NEW d \in Clients, NEW f \in FrameSet(s), WriteOK(d, f),
                       f.type # "REQUEST", DownFrame(s, ids, told, d, f)
                PROVE  DownOK(s, ids, told)'
    <2> USE <1>DownWrite
    <2>1. /\ down \in [Clients -> Seq(FrameSet(s))]
          /\ down' = IF d \in connected THEN [down EXCEPT ![d] = Append(down[d], f)] ELSE down
      BY Zenon DEF TInv, QueueTypes, WriteOK
    <2>2. \A b \in Clients : b # d => down'[b] = down[b]
      BY <2>1, Zenon
    <2>3. down'[d] \in {down[d], Append(down[d], f)}
      BY <2>1, Zenon
    <2>4. ASSUME NEW k \in DOMAIN down'[d]
          PROVE  \/ k \in DOMAIN down[d] /\ down'[d][k] = down[d][k]
                 \/ down'[d][k] = f
      <3>1. CASE down'[d] = down[d]
        BY <3>1, Zenon
      <3>2. CASE down'[d] = Append(down[d], f)
        BY <2>1, <3>2, SeqAppend
      <3> QED BY <2>3, <3>1, <3>2, Zenon
    <2>5. \A b \in Clients : \A k \in DOMAIN down'[b] :
                \/ k \in DOMAIN down[b] /\ down'[b][k] = down[b][k]
                \/ down'[b][k].type # "REQUEST" /\ DownFrame(s, ids, told, b, down'[b][k])
      BY <2>2, <2>4, Zenon
    <2> QED BY <2>5, DownMore, Zenon
  \* Serve drops the frame in hand.
  <1>UpDone. ASSUME NEW s, NEW ids, NEW given, NEW told, TInv(s), UpOK(s, ids, given, told),
                    NEW c \in Clients, up[c] # <<>>, up'[c] = Tail(up[c]), StepOf(c)
             PROVE  UpOK(s, ids, given, told)'
    <2> USE <1>UpDone
    <2>1. UpQueue(s, ids, given, told, c, up[c], at[c]) /\ up[c] \in Seq(FrameSet(s))
      BY Zenon DEF UpOK, TInv, QueueTypes
    <2>2. \A k \in DOMAIN up'[c] : k \in Nat /\ k + 1 \in DOMAIN up[c] /\ k + 1 # 1 /\ up'[c][k] = up[c][k + 1]
      BY <2>1, SeqTail
    <2>3. UpQueue(s, ids, given, told, c, up'[c], at'[c])
      BY <2>1, <2>2 DEF UpQueue
    <2>4. ASSUME NEW d \in Clients, d # c
          PROVE  UpQueue(s, ids, given, told, d, up'[d], at'[d])
      BY <2>4, Zenon DEF UpOK, StepOf
    <2>5. \A d \in Clients : UpQueue(s, ids, given, told, d, up'[d], at'[d])
      BY <2>3, <2>4, Zenon
    <2> QED BY <2>5, Zenon DEF UpOK, UpQueue, UpFrame, End
  \* Serve changes no association.
  <1>ServerKeep. ASSUME NEW s, NEW ids, NEW given, NEW told, TInv(s), ServerOK(s, ids, given, told),
                        NEW c \in Clients, StepOf(c), UNCHANGED <<nextConns, connected>>,
                        at[c] \notin {"setNext", "delPeer"},
                        at[c] = "forward" => Peer(InFrame(c).tp) \in told,
                        at'[c] \notin {"setNext", "forward", "delPeer"},
                        at'[c] = "delNext" =>
                           \E t \in given : /\ End(s, ids, t) = <<c, InFrame(c)'.id>>
                                            /\ Peer(t) \in told /\ next'[c] = End(s, ids, Peer(t))
                 PROVE  ServerOK(s, ids, given, told)'
    <2> USE <1>ServerKeep
    <2>1. RoutesOK(s, ids, given, told)'
      <3>1. RoutesOK(s, ids, given, told)
        BY Zenon DEF ServerOK
      <3>2. ASSUME NEW b \in Clients, NEW i \in IdsOf(s)
            PROVE  RouteOK(s, ids, given, told, b, i, nextConns[b][i], at'[b], InFrame(b)')
        <4>1. RouteOK(s, ids, given, told, b, i, nextConns[b][i], at[b], InFrame(b))
          BY <3>1, Zenon DEF RoutesOK
        <4>2. CASE b = c
          <5>1. PICK n, f : n = nextConns[b][i] /\ f = InFrame(b)
            BY Zenon
          <5>2. \A t : f.tp = t /\ at[b] = "forward" => Peer(t) \in told
            BY <4>2, <5>1, Zenon
          <5>3. RouteOK(s, ids, given, told, b, i, n, at'[b], InFrame(b)')
            BY <4>1, <5>1, <5>2, Zenon DEF RouteOK
          <5> QED BY <5>1, <5>3, Zenon
        <4>3. CASE b # c
          BY <4>1, <4>3, Zenon DEF StepOf
        <4> QED BY <4>2, <4>3, Zenon
      <3> QED BY <3>2, Zenon DEF RoutesOK
    <2>2. InHand(s, ids, given, told)'
      <3>1. InHand(s, ids, given, told)
        BY Zenon DEF ServerOK
      <3>2. ASSUME NEW d \in Clients
            PROVE  HandOK(s, ids, given, told, d, at'[d], InFrame(d)', next'[d], nextConns)
        <4>1. CASE d = c
          BY <4>1, Zenon DEF HandOK
        <4>2. CASE d # c
          BY <3>1, <4>2, Zenon DEF InHand, StepOf
        <4> QED BY <4>1, <4>2, Zenon
      <3> QED BY <3>2, Zenon DEF InHand
    <2>3. Paired(s)'
      <3>1. Paired(s) /\ connected \subseteq Clients
        BY Zenon DEF ServerOK, TInv, ConnTypes
      <3>2. ASSUME NEW b \in connected, NEW i \in IdsOf(s)
            PROVE  PairOK(nextConns, at', next', b, i, nextConns[b][i])
        <4>1. PICK m : m = nextConns[b][i]
          BY Zenon
        <4>2. PairOK(nextConns, at, next, b, i, m)
          BY <3>1, <4>1, Zenon DEF Paired
        <4>3. m # None => m[1] \in Clients
          BY <3>1, <4>1 DEF TInv, ServerTypes
        <4>4. m # None /\ at[m[1]] \in {"setNext", "delPeer"} => at'[m[1]] = at[m[1]] /\ next'[m[1]] = next[m[1]]
          BY <4>3, Zenon DEF StepOf
        <4>5. PairOK(nextConns, at', next', b, i, m)
          BY <4>2, <4>4, Zenon DEF PairOK
        <4> QED BY <4>1, <4>5, Zenon
      <3> QED BY <3>2, Zenon DEF Paired
    <2> QED BY <2>1, <2>2, <2>3, Zenon DEF ServerOK
  \* No REQUEST frame that the server has in hand is about such an end.
  <1>NotInHand. ASSUME NEW s, NEW ids, NEW given, NEW told, RInv(s, ids, given, told),
                       NEW t \in told, NEW d \in Clients, at[d] = "setNext"
                PROVE  next[d] # End(s, ids, t) /\ next[d] \in Clients \X IdsOf(s)
    <2> USE <1>NotInHand
    <2>1. InHand(s, ids, given, told) /\ Ghosts(s, ids, given, told) /\ TInv(s)
      BY Zenon DEF RInv, ServerOK
    <2>2. up[d] # <<>> /\ next[d] \in Clients \X IdsOf(s)
      BY <2>1, Zenon DEF TInv, ServerTypes
    <2>3. /\ InFrame(d).type = "REQUEST" /\ Peer(InFrame(d).tp) \in given
          /\ next[d] = End(s, ids, Peer(InFrame(d).tp))
      BY <2>1, Zenon DEF InHand, HandOK
    <2>4. Peer(InFrame(d).tp) \notin told
      BY <2>2, <2>3, SentUnder, Zenon
    <2> QED BY <2>1, <2>2, <2>3, <2>4, Zenon DEF Ghosts
  <1>ServerDelete. ASSUME NEW s, NEW ids, NEW given, NEW told, RInv(s, ids, given, told),
                          NEW c \in Clients, up[c] # <<>>, NEW a, NEW i, NEW t \in told, End(s, ids, t) = <<a, i>>,
                          Deletes(s, c, a, i), Unled(s, a, i)
                   PROVE  ServerOK(s, ids, given, told)'
    <2> USE <1>ServerDelete
    <2>1. /\ TInv(s) /\ s \in Scenarios /\ Ghosts(s, ids, given, told)
          /\ RoutesOK(s, ids, given, told) /\ InHand(s, ids, given, told) /\ Paired(s)
      BY Zenon DEF RInv, ServerOK, TInv
    <2>2. /\ \A b \in Clients, j \in IdsOf(s) :
                nextConns'[b][j] = IF b = a /\ j = i THEN None ELSE nextConns[b][j]
          /\ connected' = connected /\ StepOf(c)
      BY Zenon DEF Deletes
    <2>3. a \in Clients /\ i \in IdsOf(s) /\ connected \subseteq Clients /\ None \notin Clients \X IdsOf(s)
      <3>1. t \in PlanTps(s) /\ ids[t] \in IdsOf(s)
        BY <2>1, Zenon DEF Ghosts
      <3> QED BY <2>1, <3>1, ScenarioFacts, Zenon DEF End, TInv, ConnTypes
    <2>4. RoutesOK(s, ids, given, told)'
      <3>1. ASSUME NEW b \in Clients, NEW j \in IdsOf(s), nextConns'[b][j] # None
            PROVE  RouteOK(s, ids, given, told, b, j, nextConns[b][j], at'[b], InFrame(b)')
        <4>1. ~(b = a /\ j = i)
          BY <2>2, <3>1, Zenon
        <4>2. RouteOK(s, ids, given, told, b, j, nextConns[b][j], at[b], InFrame(b))
          BY <2>1, Zenon DEF RoutesOK
        <4>3. CASE b # c
          BY <2>2, <4>2, <4>3, Zenon DEF StepOf
        <4>4. CASE b = c
          <5>1. PICK n, f : n = nextConns[b][j] /\ f = InFrame(b)
            BY Zenon
          <5>2. \A u : at[b] = "forward" /\ f.tp = u /\ End(s, ids, u) = <<b, j>> => Peer(u) \in told
            <6>1. at[c] = "forward" => InFrame(c).type = "REQUEST" /\ a = c /\ i = InFrame(c).id
              BY <2>1, Zenon DEF InHand, HandOK, Deletes
            <6>2. at[c] = "forward" => End(s, ids, InFrame(c).tp) = <<c, InFrame(c).id>>
              BY <6>1, SentUnder
            <6> QED BY <4>1, <4>4, <5>1, <6>1, <6>2
          <5>3. RouteOK(s, ids, given, told, b, j, n, at'[b], InFrame(b)')
            BY <4>2, <5>1, <5>2, Zenon DEF RouteOK
          <5> QED BY <5>1, <5>3, Zenon
        <4> QED BY <4>3, <4>4, Zenon
      <3>2. ASSUME NEW b \in Clients, NEW j \in IdsOf(s)
            PROVE  RouteOK(s, ids, given, told, b, j, nextConns'[b][j], at'[b], InFrame(b)')
        <4>1. CASE nextConns'[b][j] = None
          BY <4>1, Zenon DEF RouteOK
        <4>2. CASE nextConns'[b][j] # None
          <5>1. nextConns'[b][j] = nextConns[b][j]
            BY <2>2, <4>2, Zenon
          <5> QED BY <3>1, <4>2, <5>1, Zenon
        <4> QED BY <4>1, <4>2, Zenon
      <3> QED BY <3>2, Zenon DEF RoutesOK
    <2>5. InHand(s, ids, given, told)'
      <3>1. ASSUME NEW d \in Clients
            PROVE  HandOK(s, ids, given, told, d, at'[d], InFrame(d)', next'[d], nextConns')
        <4>0. PICK f, n : f = InFrame(d) /\ n = next[d]
          BY Zenon
        <4>1. HandOK(s, ids, given, told, d, at[d], f, n, nextConns)
          BY <2>1, <4>0, Zenon DEF InHand
        <4>2. CASE d = c /\ at'[d] \in {"read", "cleanup"}
          BY <4>2, Zenon DEF HandOK
        <4>3. CASE d = c /\ at'[d] \notin {"read", "cleanup"}
          <5>1. /\ at[c] = "delNext" /\ at'[c] = "delPeer" /\ next'[c] = next[c] /\ up'[c] = up[c]
                /\ a = c /\ i = InFrame(c).id
            BY <4>3, Zenon DEF Deletes
          <5>2. InFrame(c)' = InFrame(c)
            BY <5>1, Zenon DEF InFrame
          <5>3. nextConns'[c][f.id] = None
            BY <2>2, <2>3, <4>0, <4>3, <5>1, Zenon
          <5>4. HandOK(s, ids, given, told, c, "delPeer", f, n, nextConns')
            BY <4>1, <4>3, <5>1, <5>3, Zenon DEF HandOK
          <5> QED BY <4>0, <4>3, <5>1, <5>2, <5>4, Zenon
        <4>4. CASE d # c
          <5>1. at'[d] = at[d] /\ next'[d] = n /\ InFrame(d)' = f
            BY <2>2, <4>0, <4>4, Zenon DEF StepOf
          <5>2. ASSUME at[d] = "setNext"
                PROVE  nextConns'[n[1]][n[2]] = nextConns[n[1]][n[2]]
            <6>1. n # <<a, i>> /\ n \in Clients \X IdsOf(s)
              BY <4>0, <5>2, <1>NotInHand
            <6> QED BY <2>2, <6>1
          <5>3. ASSUME at[d] = "delPeer"
                PROVE  nextConns'[d][f.id] = nextConns[d][f.id]
            <6>1. up[d] # <<>>
              BY <2>1, <5>3, Zenon DEF TInv, ServerTypes
            <6>2. f.id \in IdsOf(s)
              BY <2>1, <4>0, <6>1, HandTypes, Zenon
            <6>3. nextConns[d][f.id] = None
              BY <4>1, <5>3, Zenon DEF HandOK
            <6> QED BY <2>2, <6>2, <6>3, Zenon
          <5>4. HandOK(s, ids, given, told, d, at[d], f, n, nextConns')
            BY <4>1, <5>2, <5>3, HandKeep, Zenon
          <5> QED BY <5>1, <5>4, Zenon
        <4> QED BY <4>2, <4>3, <4>4, Zenon
      <3> QED BY <3>1, Zenon DEF InHand
    <2>6. Paired(s)'
      <3>1. ASSUME NEW b \in connected, NEW j \in IdsOf(s)
            PROVE  PairOK(nextConns', at', next', b, j, nextConns'[b][j])
        <4>1. PICK m : m = nextConns'[b][j]
          BY Zenon
        <4>2. CASE m = None
          BY <4>1, <4>2, Zenon DEF PairOK
        <4>3. CASE m # None
          <5>1. nextConns[b][j] = m /\ ~(b = a /\ j = i)
            BY <2>2, <2>3, <4>1, <4>3, Zenon
          <5>2. m \in Clients \X IdsOf(s) /\ m[1] \in Clients /\ m[2] \in IdsOf(s) /\ m = <<m[1], m[2]>>
            BY <2>1, <2>3, <4>3, <5>1 DEF TInv, ServerTypes
          <5>3. PairOK(nextConns, at, next, b, j, m)
            BY <2>1, <5>1, Zenon DEF Paired
          <5>4. CASE m = <<a, i>>
            <6>1. nextConns[b][j] = <<a, i>> /\ nextConns'[b][j] # None /\ m[1] = a
              BY <4>1, <4>3, <5>1, <5>4
            <6>2. at'[a] = "delPeer" /\ next'[a] = <<b, j>>
              BY <6>1, Zenon DEF Unled
            <6>3. PairOK(nextConns', at', next', b, j, m)
              BY <6>1, <6>2, Zenon DEF PairOK
            <6> QED BY <4>1, <6>3, Zenon
          <5>5. CASE m # <<a, i>>
            <6>1. nextConns'[m[1]][m[2]] = nextConns[m[1]][m[2]]
              BY <2>2, <5>2, <5>5, Zenon
            <6>2. at[c] # "setNext" /\ (at[c] = "delPeer" => next[c] = <<a, i>>)
              BY Zenon DEF Deletes
            <6>3. m[1] # c => at'[m[1]] = at[m[1]] /\ next'[m[1]] = next[m[1]]
              BY <2>2, <5>2, Zenon DEF StepOf
            <6>4. PairOK(nextConns', at', next', b, j, m)
              BY <5>1, <5>3, <6>1, <6>2, <6>3 DEF PairOK
            <6> QED BY <4>1, <6>4, Zenon
          <5> QED BY <5>4, <5>5, Zenon
        <4> QED BY <4>2, <4>3, Zenon
      <3> QED BY <2>2, <3>1, Zenon DEF Paired
    <2> QED BY <2>4, <2>5, <2>6, Zenon DEF ServerOK
  \* What DoneWith and Goto do, connection by connection.
  <1>DoneStep. ASSUME NEW s, TInv(s), NEW c \in Clients, DoneWith(c), NEW label, at' = [at EXCEPT ![c] = label]
               PROVE  StepOf(c) /\ up'[c] = Tail(up[c]) /\ at'[c] = label
    BY <1>DoneStep, Zenon DEF TInv, QueueTypes, ServerTypes, DoneWith, StepOf, InFrame
  \* delChan, when no live connection has an association that leads here.
  <1>DelChanOK. ASSUME NEW s, NEW ids, NEW given, NEW told, RInv(s, ids, given, told), TInv(s)',
                       NEW c \in Clients, up[c] # <<>>, at[c] \in {"read", "forward"},
                       delChan(c, InFrame(c).id), DoneWith(c), UNCHANGED <<connected, clientVars, nextRespID>>,
                       \A b \in connected, j \in IdsOf(s) :
                          nextConns[b][j] = <<c, InFrame(c).id>> => b = c /\ j = InFrame(c).id
                PROVE  RInv(s, ids, given, told)'
    <2> USE <1>DelChanOK
    <2>1. TInv(s) /\ DownOK(s, ids, told) /\ UpOK(s, ids, given, told) /\ UNCHANGED <<tpState, requests>>
      BY Zenon DEF RInv, clientVars
    <2>2. PICK i \in IdsOf(s) : i = InFrame(c).id
      BY <2>1, HandTypes, Zenon
    <2>3. PICK t \in told : End(s, ids, t) = <<c, i>>
      BY <2>2, SentUnder
    <2>4. PICK label \in {"read", "cleanup"} : at' = [at EXCEPT ![c] = label]
      BY <2>1, <2>2, DelChanTypes, Zenon
    <2>5. StepOf(c) /\ up'[c] = Tail(up[c]) /\ at'[c] = label
      BY <2>1, <2>4, <1>DoneStep, Zenon
    <2>6. UpOK(s, ids, given, told)'
      BY <2>1, <2>5, <1>UpDone, Zenon
    <2>7. DownOK(s, ids, told)'
      <3>1. CASE UNCHANGED down
        <4>1. \A d \in Clients : \A k \in DOMAIN down'[d] : k \in DOMAIN down[d] /\ down'[d][k] = down[d][k]
          BY <3>1, Zenon
        <4> QED BY <2>1, <4>1, DownMore, Zenon
      <3>2. CASE WriteOK(c, Frame("CLOSE", i, None))
        <4>1. PICK f : f = Frame("CLOSE", i, None)
          BY Zenon
        <4>2. f \in FrameSet(s)
          BY <4>1, FrameSetHas, Zenon
        <4>3. f.type # "REQUEST" /\ f.id = i /\ f.tp = None
          BY <4>1, Zenon DEF Frame
        <4>4. DownFrame(s, ids, told, c, f)
          BY <2>3, <4>3, Zenon DEF DownFrame
        <4> QED BY <2>1, <3>2, <4>1, <4>2, <4>3, <4>4, <1>DownWrite, Zenon
      <3> QED BY <2>2, <3>1, <3>2, Zenon DEF delChan
    <2>8. \A b \in Clients, j \in IdsOf(s) :
              nextConns'[b][j] = IF b = c /\ j = i THEN None ELSE nextConns[b][j]
      BY <2>1, <2>2, Zenon DEF delChan, TInv, ServerTypes
    <2>9. Deletes(s, c, c, i)
      BY <2>2, <2>4, <2>5, <2>8, Zenon DEF Deletes
    <2>10. Unled(s, c, i)
      <3>1. connected \subseteq Clients
        BY <2>1, Zenon DEF TInv, ConnTypes
      <3> QED BY <2>2, <2>8, <3>1, Zenon DEF Unled
    <2>11. ServerOK(s, ids, given, told)'
      BY <2>3, <2>9, <2>10, <1>ServerDelete, Zenon
    <2>12. /\ Ghosts(s, ids, given, told)' /\ Counted(s, ids, given)'
           /\ TpsOK(s, ids, given, told)' /\ RequestsOK(s, ids, told)' /\ Registered(s, ids)'
      BY ServerGhosts, Zenon
    <2> QED BY <2>6, <2>7, <2>11, <2>12, Zenon DEF RInv
  <1>RInvRefuseRequest. ASSUME NEW c \in Clients
                        PROVE  KeepsRouting(RefuseRequest(c))
    <2> USE <1>RInvRefuseRequest
    <2> SUFFICES ASSUME NEW s, NEW ids, NEW given, NEW told, RInv(s, ids, given, told), TInv(s)', RefuseRequest(c)
                 PROVE  RInv(s, ids, given, told)'
      BY Zenon DEF KeepsRouting
    <2>1. TInv(s) /\ TInv(s)' /\ s \in Scenarios
      <3>1. TInv(s) /\ TInv(s)'
        BY Zenon DEF RInv
      <3> QED BY <3>1, Zenon DEF RInv, TInv
    <2>2. up[c] # <<>> /\ at[c] = "read" /\ InFrame(c).type = "REQUEST"
      BY Zenon DEF RefuseRequest, Reading
    <2>3. delChan(c, InFrame(c).id) /\ DoneWith(c) /\ UNCHANGED <<connected, clientVars, nextRespID>>
      BY Zenon DEF RefuseRequest
    <2>4. PICK t : t = InFrame(c).tp
      BY Zenon
    <2>5. t \in given /\ End(s, ids, t) = <<c, InFrame(c).id>> /\ Peer(t) \notin given
      <3>1. t \in told /\ End(s, ids, t) = <<c, InFrame(c).id>> /\ Peer(t) \notin given
        BY <2>2, <2>4, SentUnder
      <3> QED BY <3>1, Zenon DEF RInv, Ghosts
    <2>6. ASSUME NEW b \in connected, NEW j \in IdsOf(s), nextConns[b][j] = <<c, InFrame(c).id>>
          PROVE  FALSE
      <3>1. b \in Clients /\ None \notin Clients \X IdsOf(s) /\ InFrame(c).id \in IdsOf(s)
        BY <2>1, <2>2, HandTypes, ScenarioFacts, Zenon DEF TInv, ConnTypes
      <3>2. nextConns[b][j] = End(s, ids, t) /\ nextConns[b][j] # None
        BY <2>5, <2>6, <3>1
      <3> QED BY <2>5, <3>1, <3>2, <1>LeadsTo, Zenon
    <2> QED BY <2>1, <2>2, <2>3, <2>6, <1>DelChanOK, Zenon
  <1>RInvForwardFails. ASSUME NEW c \in Clients
                       PROVE  KeepsRouting(ForwardFails(c))
    <2> USE <1>RInvForwardFails
    <2> SUFFICES ASSUME NEW s, NEW ids, NEW given, NEW told, RInv(s, ids, given, told), TInv(s)', ForwardFails(c)
                 PROVE  RInv(s, ids, given, told)'
      BY Zenon DEF KeepsRouting
    <2>1. TInv(s) /\ TInv(s)' /\ s \in Scenarios
      <3>1. TInv(s) /\ TInv(s)'
        BY Zenon DEF RInv
      <3> QED BY <3>1, Zenon DEF RInv, TInv
    <2>2. up[c] # <<>> /\ at[c] = "read"
      BY Zenon DEF ForwardFails, Reading
    <2>3. delChan(c, InFrame(c).id) /\ DoneWith(c) /\ UNCHANGED <<connected, clientVars, nextRespID>>
      BY Zenon DEF ForwardFails
    <2>4. PICK i \in IdsOf(s) : i = InFrame(c).id
      BY <2>1, <2>2, HandTypes, Zenon
    <2>5. nextConns[c][i] = None \/ nextConns[c][i][1] \notin connected
      BY <2>1, <2>4, Zenon DEF ForwardFails, NextFails, WriteFails, TInv, ConnTypes
    <2>6. ASSUME NEW b \in connected, NEW j \in IdsOf(s), nextConns[b][j] = <<c, i>>
          PROVE  FALSE
      <3>1. b \in Clients /\ <<c, i>> # None
        <4>1. <<c, i>> \in Clients \X IdsOf(s) /\ None \notin Clients \X IdsOf(s)
          BY <2>1, ScenarioFacts, Zenon
        <4> QED BY <2>1, <4>1, Zenon DEF TInv, ConnTypes
      <3>2. nextConns[b][j] # None /\ nextConns[b][j][1] = c /\ nextConns[b][j][2] = i
        BY <2>6, <3>1
      <3>3. Paired(s)
        BY Zenon DEF RInv, ServerOK
      <3>4. nextConns[c][i] = <<b, j>>
        BY <2>2, <3>2, <3>3, Zenon DEF Paired, PairOK
      <3>5. <<b, j>> # None
        <4>1. <<b, j>> \in Clients \X IdsOf(s) /\ None \notin Clients \X IdsOf(s)
          BY <2>1, <3>1, ScenarioFacts, Zenon
        <4> QED BY <4>1, Zenon
      <3> QED BY <2>5, <3>4, <3>5
    <2> QED BY <2>1, <2>2, <2>3, <2>4, <2>6, <1>DelChanOK, Zenon
  \* The association of the frame that Serve has read leads to the peer of its
  \* sender, and the peer's client has heard of that end.
  <1>RoutedFrame. ASSUME NEW s, NEW ids, NEW given, NEW told, RInv(s, ids, given, told),
                         NEW c \in Clients, up[c] # <<>>, at[c] = "read",
                         NEW n, n = nextConns[c][InFrame(c).id], n # None
                  PROVE  /\ n \in Clients \X IdsOf(s) /\ n[1] \in Clients
                         /\ DownFrame(s, ids, told, n[1], Rewrite(InFrame(c), n))
                         /\ Heard(s, ids, given, told, c, InFrame(c).id, n)
    <2> USE <1>RoutedFrame
    <2>1. TInv(s) /\ s \in Scenarios /\ Ghosts(s, ids, given, told) /\ RoutesOK(s, ids, given, told)
      BY Zenon DEF RInv, TInv, ServerOK
    <2>2. InFrame(c) \in FrameSet(s) /\ InFrame(c).id \in IdsOf(s)
      BY <2>1, HandTypes, Zenon
    <2>3. n \in Clients \X IdsOf(s) /\ n[1] \in Clients
      BY <2>1, <2>2 DEF TInv, ServerTypes
    <2>4. PICK t \in given : /\ End(s, ids, t) = <<c, InFrame(c).id>>
                             /\ Peer(t) \in told /\ n = End(s, ids, Peer(t))
      BY <2>1, <2>2, Zenon DEF RoutesOK, RouteOK
    <2>5. PICK u \in told : End(s, ids, u) = <<c, InFrame(c).id>> /\ InFrame(c).tp \in {u, None}
      BY SentUnder
    <2>6. u = t /\ t \in PlanTps(s)
      BY <2>1, <2>4, <2>5, Zenon DEF Ghosts
    <2>7. Rewrite(InFrame(c), n).id = n[2] /\ Rewrite(InFrame(c), n).tp = InFrame(c).tp
      BY <2>2, <2>3, RewriteFrame
    <2>8. Peer(Peer(t)) = t
      BY <2>1, <2>6, PeerFacts, Zenon
    <2>9. End(s, ids, Peer(t)) = <<n[1], n[2]>>
      BY <2>3, <2>4
    <2>10. DownFrame(s, ids, told, n[1], Rewrite(InFrame(c), n))
      BY <2>4, <2>5, <2>6, <2>7, <2>8, <2>9, Zenon DEF DownFrame
    <2> QED BY <2>3, <2>4, <2>10, Zenon DEF Heard
  <1>RInvForwardFrame. ASSUME NEW c \in Clients
                       PROVE  KeepsRouting(ForwardFrame(c))
    <2> USE <1>RInvForwardFrame
    <2> SUFFICES ASSUME NEW s, NEW ids, NEW given, NEW told, RInv(s, ids, given, told), TInv(s)', ForwardFrame(c)
                 PROVE  RInv(s, ids, given, told)'
      BY Zenon DEF KeepsRouting
    <2>1. TInv(s) /\ TInv(s)' /\ UpOK(s, ids, given, told) /\ DownOK(s, ids, told) /\ ServerOK(s, ids, given, told)
      BY Zenon DEF RInv
    <2>2. up[c] # <<>> /\ at[c] = "read" /\ InFrame(c).type # "REQUEST" /\ DoneWith(c)
      BY Zenon DEF ForwardFrame, Reading
    <2>3. at' = at /\ UNCHANGED <<connected, clientVars, nextRespID, nextConns, tpState, requests>>
      BY Zenon DEF ForwardFrame, clientVars
    <2>4. PICK n : n = nextConns[c][InFrame(c).id] /\ n # None /\ WriteOK(n[1], Rewrite(InFrame(c), n))
      BY Zenon DEF ForwardFrame
    <2>5. n \in Clients \X IdsOf(s) /\ n[1] \in Clients /\ DownFrame(s, ids, told, n[1], Rewrite(InFrame(c), n))
      BY <2>2, <2>4, <1>RoutedFrame, Zenon
    <2>6. InFrame(c) \in FrameSet(s)
      BY <2>1, <2>2, HandTypes, Zenon
    <2>7. Rewrite(InFrame(c), n) \in FrameSet(s) /\ Rewrite(InFrame(c), n).type # "REQUEST"
      BY <2>2, <2>5, <2>6, RewriteFrame, Zenon
    <2>8. DownOK(s, ids, told)'
      BY <2>1, <2>3, <2>4, <2>5, <2>7, <1>DownWrite, Zenon
    <2>9. StepOf(c) /\ up'[c] = Tail(up[c]) /\ at'[c] = "read"
      <3>1. at' = [at EXCEPT ![c] = "read"]
        BY <2>1, <2>2, <2>3, Zenon DEF TInv, ServerTypes
      <3> QED BY <2>1, <2>2, <3>1, <1>DoneStep, Zenon
    <2>10. UpOK(s, ids, given, told)'
      BY <2>1, <2>2, <2>9, <1>UpDone, Zenon
    <2>11. ServerOK(s, ids, given, told)'
      BY <2>1, <2>2, <2>3, <2>9, <1>ServerKeep, Zenon
    <2>12. /\ Ghosts(s, ids, given, told)' /\ Counted(s, ids, given)'
           /\ TpsOK(s, ids, given, told)' /\ RequestsOK(s, ids, told)' /\ Registered(s, ids)'
      BY <2>3, ServerGhosts, Zenon
    <2> QED BY <2>1, <2>8, <2>10, <2>11, <2>12, Zenon DEF RInv
  \* The label of c changes, and maybe the association in hand.
  <1>GotoStep. ASSUME NEW s, TInv(s), NEW c \in Clients, NEW label, Goto(c, label), UNCHANGED up,
                      next' = next \/ \E n : next' = [next EXCEPT ![c] = n]
               PROVE  StepOf(c) /\ at'[c] = label
    BY <1>GotoStep, Zenon DEF TInv, QueueTypes, ServerTypes, Goto, StepOf, InFrame
  <1>RInvForwardClose. ASSUME NEW c \in Clients
                       PROVE  KeepsRouting(ForwardClose(c))
    <2> USE <1>RInvForwardClose
    <2> SUFFICES ASSUME NEW s, NEW ids, NEW given, NEW told, RInv(s, ids, given, told), TInv(s)', ForwardClose(c)
                 PROVE  RInv(s, ids, given, told)'
      BY Zenon DEF KeepsRouting
    <2>1. TInv(s) /\ TInv(s)' /\ UpOK(s, ids, given, told) /\ DownOK(s, ids, told) /\ ServerOK(s, ids, given, told)
      BY Zenon DEF RInv
    <2>2. up[c] # <<>> /\ at[c] = "read" /\ InFrame(c).type # "REQUEST"
      BY Zenon DEF ForwardClose, Reading
    <2>3. UNCHANGED <<connected, clientVars, nextRespID, nextConns, tpState, requests>> /\ up' = up
      BY Zenon DEF ForwardClose, clientVars
    <2>4. PICK n : /\ n = nextConns[c][InFrame(c).id] /\ n # None /\ WriteOK(n[1], Rewrite(InFrame(c), n))
                   /\ next' = [next EXCEPT ![c] = n]
      BY Zenon DEF ForwardClose
    <2>5. n \in Clients \X IdsOf(s) /\ n[1] \in Clients /\ DownFrame(s, ids, told, n[1], Rewrite(InFrame(c), n))
      BY <2>2, <2>4, <1>RoutedFrame, Zenon
    <2>6. InFrame(c) \in FrameSet(s)
      BY <2>1, <2>2, HandTypes, Zenon
    <2>7. Rewrite(InFrame(c), n) \in FrameSet(s) /\ Rewrite(InFrame(c), n).type # "REQUEST"
      BY <2>2, <2>5, <2>6, RewriteFrame, Zenon
    <2>8. DownOK(s, ids, told)'
      BY <2>1, <2>3, <2>4, <2>5, <2>7, <1>DownWrite, Zenon
    <2>9. StepOf(c) /\ at'[c] = "delNext" /\ next'[c] = n
      <3>1. Goto(c, "delNext")
        BY Zenon DEF ForwardClose
      <3>2. next'[c] = n
        BY <2>1, <2>4, Zenon DEF TInv, ServerTypes
      <3> QED BY <2>1, <2>3, <2>4, <3>1, <3>2, <1>GotoStep, Zenon
    <2>10. UpOK(s, ids, given, told)'
      <3>1. \A d \in Clients : at[d] \in {"setNext", "forward"} => at'[d] \in {"setNext", "forward"}
        BY <2>2, <2>9, Zenon DEF StepOf
      <3> QED BY <2>1, <2>3, <3>1, UpStay, Zenon
    <2>11. ServerOK(s, ids, given, told)'
      <3>1. \E t \in given : /\ End(s, ids, t) = <<c, InFrame(c)'.id>>
                             /\ Peer(t) \in told /\ next'[c] = End(s, ids, Peer(t))
        <4>1. Heard(s, ids, given, told, c, InFrame(c).id, n)
          BY <2>2, <2>4, <1>RoutedFrame, Zenon
        <4>2. InFrame(c)' = InFrame(c)
          BY <2>3, Zenon DEF InFrame
        <4> QED BY <2>9, <4>1, <4>2, Zenon DEF Heard
      <3> QED BY <2>1, <2>2, <2>3, <2>9, <3>1, <1>ServerKeep, Zenon
    <2>12. /\ Ghosts(s, ids, given, told)' /\ Counted(s, ids, given)'
           /\ TpsOK(s, ids, given, told)' /\ RequestsOK(s, ids, told)' /\ Registered(s, ids)'
      BY <2>3, ServerGhosts, Zenon
    <2> QED BY <2>1, <2>8, <2>10, <2>11, <2>12, Zenon DEF RInv
  \* Serve is on its way out; frames in flight and associations stay.
  <1>LeavingOK. ASSUME NEW s, NEW ids, NEW given, NEW told, RInv(s, ids, given, told), TInv(s)',
                       NEW c \in Clients, NEW label, Goto(c, label),
                       at[c] \in {"read", "cleanup", "closeConn", "delConn"},
                       label \in {"cleanup", "closeConn", "delConn", "gone"},
                       DownOK(s, ids, told)', UpOK(s, ids, given, told)', StepOf(c),
                       UNCHANGED <<connected, clientVars, nextRespID, nextConns>>
                PROVE  RInv(s, ids, given, told)'
    <2> USE <1>LeavingOK
    <2>1. TInv(s) /\ ServerOK(s, ids, given, told)
      BY Zenon DEF RInv
    <2>2. at'[c] = label
      BY <2>1, Zenon DEF Goto, TInv, ServerTypes
    <2>3. ServerOK(s, ids, given, told)'
      <3>1. at'[c] \notin {"setNext", "forward", "delNext", "delPeer"} /\ at[c] \notin {"setNext", "forward", "delPeer"}
        BY <2>2, Zenon
      <3> QED BY <2>1, <3>1, <1>ServerKeep, Zenon
    <2>4. /\ Ghosts(s, ids, given, told)' /\ Counted(s, ids, given)'
          /\ TpsOK(s, ids, given, told)' /\ RequestsOK(s, ids, told)' /\ Registered(s, ids)'
      BY ServerGhosts, Zenon
    <2> QED BY <2>3, <2>4, Zenon DEF RInv
  <1>RInvReadFails. ASSUME NEW c \in Clients
                    PROVE  KeepsRouting(ReadFails(c) \/ CloseConn(c))
    <2> USE <1>RInvReadFails
    <2> SUFFICES ASSUME NEW s, NEW ids, NEW given, NEW told, RInv(s, ids, given, told), TInv(s)', ReadFails(c) \/ CloseConn(c)
                 PROVE  RInv(s, ids, given, told)'
      BY Zenon DEF KeepsRouting
    <2>1. TInv(s) /\ TInv(s)' /\ UpOK(s, ids, given, told) /\ DownOK(s, ids, told)
      BY Zenon DEF RInv
    <2>2. PICK label : /\ Goto(c, label) /\ at[c] \in {"read", "cleanup", "closeConn", "delConn"}
                       /\ label \in {"cleanup", "closeConn", "delConn", "gone"}
      BY Zenon DEF ReadFails, CloseConn
    <2>3. /\ UNCHANGED <<connected, clientVars, nextRespID, nextConns>> /\ up' = up /\ down' = down
          /\ next' = next /\ UNCHANGED <<tpState, requests>>
      BY Zenon DEF ReadFails, CloseConn, clientVars
    <2>4. StepOf(c) /\ at'[c] = label
      BY <2>1, <2>2, <2>3, <1>GotoStep, Zenon
    <2>5. UpOK(s, ids, given, told)'
      <3>1. \A d \in Clients : at[d] \in {"setNext", "forward"} => at'[d] \in {"setNext", "forward"}
        BY <2>2, <2>4, Zenon DEF StepOf
      <3> QED BY <2>1, <2>3, <3>1, UpStay, Zenon
    <2>6. DownOK(s, ids, told)'
      <3>1. \A d \in Clients : \A k \in DOMAIN down'[d] : k \in DOMAIN down[d] /\ down'[d][k] = down[d][k]
        BY <2>3, Zenon
      <3> QED BY <2>1, <2>3, <3>1, DownMore, Zenon
    <2> QED BY <2>1, <2>2, <2>3, <2>4, <2>5, <2>6, <1>LeavingOK, Zenon
  <1>RInvDelConn. ASSUME NEW c \in Clients
                  PROVE  KeepsRouting(delConn(c))
    <2> USE <1>RInvDelConn
    <2> SUFFICES ASSUME NEW s, NEW ids, NEW given, NEW told, RInv(s, ids, given, told), TInv(s)', delConn(c)
                 PROVE  RInv(s, ids, given, told)'
      BY Zenon DEF KeepsRouting
    <2>1. TInv(s) /\ TInv(s)' /\ UpOK(s, ids, given, told) /\ DownOK(s, ids, told)
      BY Zenon DEF RInv
    <2>2. Goto(c, "gone") /\ at[c] = "delConn"
      BY Zenon DEF delConn
    <2>3. /\ UNCHANGED <<connected, clientVars, nextRespID, nextConns>> /\ down' = down
          /\ next' = next /\ UNCHANGED <<tpState, requests>>
      BY Zenon DEF delConn, clientVars
    <2>4. StepOf(c) /\ at'[c] = "gone" /\ up'[c] = <<>>
      BY <2>1, Zenon DEF delConn, TInv, QueueTypes, ServerTypes, Goto, StepOf, InFrame
    <2>5. UpOK(s, ids, given, told)'
      <3>1. \A d \in Clients : UpQueue(s, ids, given, told, d, up'[d], at'[d])
        BY <2>1, <2>4 DEF UpOK, UpQueue, StepOf
      <3> QED BY <3>1, Zenon DEF UpOK, UpQueue, UpFrame, End
    <2>6. DownOK(s, ids, told)'
      <3>1. \A d \in Clients : \A k \in DOMAIN down'[d] : k \in DOMAIN down[d] /\ down'[d][k] = down[d][k]
        BY <2>3, Zenon
      <3> QED BY <2>1, <2>3, <3>1, DownMore, Zenon
    <2> QED BY <2>1, <2>2, <2>3, <2>4, <2>5, <2>6, <1>LeavingOK, Zenon
  <1>RInvSendCloses. ASSUME NEW c \in Clients
                     PROVE  KeepsRouting(SendCloses(c))
    <2> USE <1>RInvSendCloses
    <2> SUFFICES ASSUME NEW s, NEW ids, NEW given, NEW told, RInv(s, ids, given, told), TInv(s)', SendCloses(c)
                 PROVE  RInv(s, ids, given, told)'
      BY Zenon DEF KeepsRouting
    <2> DEFINE to(d) == {i \in Ids : nextConns[c][i] # None /\ nextConns[c][i][1] = d}
               closes(o) == [k \in DOMAIN o |-> Frame("CLOSE", nextConns[c][o[k]][2], None)]
    <2>1. TInv(s) /\ TInv(s)' /\ UpOK(s, ids, given, told) /\ DownOK(s, ids, told)
      BY Zenon DEF RInv
    <2>2. Goto(c, "closeConn") /\ at[c] = "cleanup"
      BY Zenon DEF SendCloses
    <2>3. /\ UNCHANGED <<connected, clientVars, nextRespID, nextConns>> /\ up' = up
          /\ next' = next /\ UNCHANGED <<tpState, requests>>
      BY Zenon DEF SendCloses, clientVars
    <2>4. StepOf(c) /\ at'[c] = "closeConn"
      BY <2>1, <2>2, <2>3, <1>GotoStep, Zenon
    <2>5. UpOK(s, ids, given, told)'
      <3>1. \A d \in Clients : at[d] \in {"setNext", "forward"} => at'[d] \in {"setNext", "forward"}
        BY <2>2, <2>4, Zenon DEF StepOf
      <3> QED BY <2>1, <2>3, <3>1, UpStay, Zenon
    <2>6. PICK order \in [Clients -> UNION {Orders(to(d)) : d \in Clients}] :
              /\ \A d \in Clients : order[d] \in Orders(to(d))
              /\ down' = [d \in Clients |-> IF d \in open \cap connected
                                            THEN down[d] \o closes(order[d]) ELSE down[d]]
      BY Zenon DEF SendCloses
    <2>7. ASSUME NEW d \in Clients, NEW i \in to(d)
          PROVE  /\ Frame("CLOSE", nextConns[c][i][2], None) \in FrameSet(s)
                 /\ Frame("CLOSE", nextConns[c][i][2], None).type # "REQUEST"
                 /\ DownFrame(s, ids, told, d, Frame("CLOSE", nextConns[c][i][2], None))
      <3>1. i \in IdsOf(s) /\ nextConns[c][i] # None /\ nextConns[c][i][1] = d
        BY <2>1, Zenon DEF TInv, Ids, IdMod, IdsOf
      <3>2. nextConns[c][i] \in Clients \X IdsOf(s)
        BY <2>1, <3>1 DEF TInv, ServerTypes
      <3>3. RoutesOK(s, ids, given, told)
        BY Zenon DEF RInv, ServerOK
      <3>4. PICK t \in given : Peer(t) \in told /\ nextConns[c][i] = End(s, ids, Peer(t))
        BY <2>2, <3>1, <3>3, Zenon DEF RoutesOK, RouteOK
      <3>5. PICK f : f = Frame("CLOSE", nextConns[c][i][2], None)
        BY Zenon
      <3>6. f \in FrameSet(s)
        BY <3>2, <3>5, FrameSetHas, Zenon
      <3>7. f.type # "REQUEST" /\ f.id = nextConns[c][i][2] /\ f.tp = None
        BY <3>5, Zenon DEF Frame
      <3>8. End(s, ids, Peer(t)) = <<d, f.id>>
        BY <3>1, <3>2, <3>4, <3>7
      <3>9. DownFrame(s, ids, told, d, f)
        BY <3>4, <3>7, <3>8, Zenon DEF DownFrame
      <3> QED BY <3>5, <3>6, <3>7, <3>9, Zenon
    <2>8. ASSUME NEW d \in Clients
          PROVE  /\ closes(order[d]) \in Seq(FrameSet(s))
                 /\ \A k \in DOMAIN closes(order[d]) :
                       /\ closes(order[d])[k].type # "REQUEST"
                       /\ DownFrame(s, ids, told, d, closes(order[d])[k])
      <3>1. PICK n \in 0 .. s.ids : order[d] \in [1 .. n -> to(d)]
        <4>1. order[d] \in Orders(to(d)) /\ IdMod = s.ids
          BY <2>1, <2>6, Zenon DEF TInv, IdMod
        <4> HIDE DEF to
        <4> QED BY <4>1, Zenon DEF Orders
      <3>2. n \in Nat /\ DOMAIN order[d] = 1 .. n
        BY <2>1, <3>1, ScenarioFacts DEF TInv
      <3>3. \A k \in 1 .. n : order[d][k] \in to(d)
        BY <3>1, Zenon
      <3> HIDE DEF to
      <3>4. \A k \in 1 .. n : /\ Frame("CLOSE", nextConns[c][order[d][k]][2], None) \in FrameSet(s)
                              /\ Frame("CLOSE", nextConns[c][order[d][k]][2], None).type # "REQUEST"
                              /\ DownFrame(s, ids, told, d, Frame("CLOSE", nextConns[c][order[d][k]][2], None))
        BY <2>7, <3>3, Zenon
      <3>5. /\ DOMAIN closes(order[d]) = 1 .. n
            /\ \A k \in 1 .. n : closes(order[d])[k] = Frame("CLOSE", nextConns[c][order[d][k]][2], None)
        BY <3>2, Zenon
      <3>6. closes(order[d]) \in Seq(FrameSet(s))
        BY <3>2, <3>4
      <3> HIDE DEF closes
      <3> QED BY <3>4, <3>5, <3>6, Zenon
    <2> HIDE DEF closes, to
    <2>9. DownOK(s, ids, told)'
      <3>1. ASSUME NEW d \in Clients, NEW k \in DOMAIN down'[d]
            PROVE  \/ k \in DOMAIN down[d] /\ down'[d][k] = down[d][k]
                   \/ down'[d][k].type # "REQUEST" /\ DownFrame(s, ids, told, d, down'[d][k])
        <4>1. CASE down'[d] = down[d]
          BY <4>1, Zenon
        <4>2. CASE down'[d] = down[d] \o closes(order[d])
          <5>1. down[d] \in Seq(FrameSet(s))
            BY <2>1, Zenon DEF TInv, QueueTypes
          <5>2. PICK q \in Seq(FrameSet(s)) : q = closes(order[d])
            BY <2>8, Zenon
          <5>3. \A m \in DOMAIN q : q[m].type # "REQUEST" /\ DownFrame(s, ids, told, d, q[m])
            BY <2>8, <5>2, Zenon
          <5>4. /\ down'[d][k] = IF k \in DOMAIN down[d] THEN down[d][k] ELSE q[k - Len(down[d])]
                /\ k \notin DOMAIN down[d] => k - Len(down[d]) \in DOMAIN q
            BY <4>2, <5>1, <5>2, SeqConcat
          <5> QED BY <5>3, <5>4, Zenon
        <4> QED BY <2>6, <4>1, <4>2, Zenon
      <3> QED BY <2>1, <2>3, <3>1, DownMore, Zenon
    <2> QED BY <2>1, <2>2, <2>3, <2>4, <2>5, <2>9, <1>LeavingOK, Zenon
  <1>LedBack. ASSUME NEW s, NEW ids, NEW given, NEW told, RInv(s, ids, given, told),
                     NEW t \in given, NEW b \in Clients, NEW j \in IdsOf(s), LedTo(s, ids, t, b, j)
              PROVE  Peer(t) \in given /\ End(s, ids, Peer(t)) = <<b, j>>
    <2> USE <1>LedBack
    <2>1. nextConns[b][j] # None /\ nextConns[b][j] = End(s, ids, t)
      BY Zenon DEF LedTo
    <2> QED BY <2>1, <1>LeadsTo
  <1>RInvDelNext. ASSUME NEW c \in Clients
                  PROVE  KeepsRouting(delNext(c))
    <2> USE <1>RInvDelNext
    <2> SUFFICES ASSUME NEW s, NEW ids, NEW given, NEW told, RInv(s, ids, given, told), TInv(s)', delNext(c)
                 PROVE  RInv(s, ids, given, told)'
      BY Zenon DEF KeepsRouting
    <2>1. TInv(s) /\ TInv(s)' /\ UpOK(s, ids, given, told) /\ DownOK(s, ids, told) /\ told \subseteq given
      BY Zenon DEF RInv, Ghosts
    <2>2. at[c] = "delNext" /\ Goto(c, "delPeer")
      BY Zenon DEF delNext
    <2>3. /\ UNCHANGED <<connected, clientVars, nextRespID>> /\ up' = up /\ down' = down
          /\ next' = next /\ UNCHANGED <<tpState, requests>>
      BY Zenon DEF delNext, clientVars
    <2>4. up[c] # <<>> /\ InFrame(c).id \in IdsOf(s)
      BY <2>2, ClosingOK, Zenon
    <2>5. PICK i \in IdsOf(s) : i = InFrame(c).id
      BY <2>4, Zenon
    <2>6. PICK t \in told : /\ End(s, ids, t) = <<c, i>> /\ Peer(t) \in told
                            /\ next[c] = End(s, ids, Peer(t)) /\ Peer(Peer(t)) = t
      BY <2>2, <2>5, ClosingOK
    <2>7. StepOf(c) /\ at'[c] = "delPeer"
      BY <2>1, <2>2, <2>3, <1>GotoStep, Zenon
    <2>8. UpOK(s, ids, given, told)'
      <3>1. \A d \in Clients : at[d] \in {"setNext", "forward"} => at'[d] \in {"setNext", "forward"}
        BY <2>2, <2>7, Zenon DEF StepOf
      <3> QED BY <2>1, <2>3, <3>1, UpStay, Zenon
    <2>9. DownOK(s, ids, told)'
      <3>1. \A d \in Clients : \A k \in DOMAIN down'[d] : k \in DOMAIN down[d] /\ down'[d][k] = down[d][k]
        BY <2>3, Zenon
      <3> QED BY <2>1, <2>3, <3>1, DownMore, Zenon
    <2>10. \A b \in Clients, j \in IdsOf(s) :
              nextConns'[b][j] = IF b = c /\ j = i THEN None ELSE nextConns[b][j]
      BY <2>1, <2>5, Zenon DEF delNext, TInv, ServerTypes
    <2>11. Deletes(s, c, c, i)
      BY <2>2, <2>3, <2>5, <2>7, <2>10, Zenon DEF Deletes
    <2>12. Unled(s, c, i)
      <3> SUFFICES ASSUME NEW b \in connected, NEW j \in IdsOf(s), nextConns[b][j] = <<c, i>>, nextConns'[b][j] # None
                   PROVE  at'[c] = "delPeer" /\ next'[c] = <<b, j>>
        BY Zenon DEF Unled
      <3>1. b \in Clients
        BY <2>1, Zenon DEF TInv, ConnTypes
      <3>2. nextConns[b][j] # None /\ nextConns[b][j] = End(s, ids, t) /\ t \in given
        <4>1. nextConns[b][j] # None
          BY <2>10, <3>1, Zenon
        <4> QED BY <2>1, <2>6, <4>1, Zenon
      <3>3. End(s, ids, Peer(t)) = <<b, j>>
        <4>1. LedTo(s, ids, t, b, j)
          BY <3>2, Zenon DEF LedTo
        <4> QED BY <3>1, <3>2, <4>1, <1>LedBack
      <3> QED BY <2>3, <2>6, <2>7, <3>3, Zenon
    <2>13. ServerOK(s, ids, given, told)'
      BY <2>4, <2>6, <2>11, <2>12, <1>ServerDelete, Zenon
    <2>14. /\ Ghosts(s, ids, given, told)' /\ Counted(s, ids, given)'
           /\ TpsOK(s, ids, given, told)' /\ RequestsOK(s, ids, told)' /\ Registered(s, ids)'
      BY <2>3, ServerGhosts, Zenon
    <2> QED BY <2>1, <2>8, <2>9, <2>13, <2>14, Zenon DEF RInv
  <1>RInvDelNextOfPeer. ASSUME NEW c \in Clients
                        PROVE  KeepsRouting(delNextOfPeer(c))
    <2> USE <1>RInvDelNextOfPeer
    <2> SUFFICES ASSUME NEW s, NEW ids, NEW given, NEW told, RInv(s, ids, given, told), TInv(s)', delNextOfPeer(c)
                 PROVE  RInv(s, ids, given, told)'
      BY Zenon DEF KeepsRouting
    <2>1. TInv(s) /\ TInv(s)' /\ UpOK(s, ids, given, told) /\ DownOK(s, ids, told) /\ told \subseteq given
      BY Zenon DEF RInv, Ghosts
    <2>2. at[c] = "delPeer" /\ at' = [at EXCEPT ![c] = "read"] /\ DoneWith(c)
      BY Zenon DEF delNextOfPeer, Goto
    <2>3. UNCHANGED <<connected, clientVars, nextRespID>> /\ down' = down /\ UNCHANGED <<tpState, requests>>
      BY Zenon DEF delNextOfPeer, clientVars
    <2>4. /\ up[c] # <<>> /\ InFrame(c).id \in IdsOf(s) /\ nextConns[c][InFrame(c).id] = None
          /\ next[c] \in Clients \X IdsOf(s) /\ next[c] = <<next[c][1], next[c][2]>>
      BY <2>2, ClosingOK, Zenon
    <2>5. PICK a \in Clients, i \in IdsOf(s) : next[c] = <<a, i>>
      BY <2>4, Zenon
    <2>6. PICK t \in told : /\ End(s, ids, t) = <<c, InFrame(c).id>> /\ Peer(t) \in told
                            /\ next[c] = End(s, ids, Peer(t)) /\ Peer(Peer(t)) = t
      BY <2>2, ClosingOK
    <2>7. StepOf(c) /\ at'[c] = "read" /\ up'[c] = Tail(up[c])
      BY <2>1, <2>2, <1>DoneStep, Zenon
    <2>8. UpOK(s, ids, given, told)'
      BY <2>1, <2>4, <2>7, <1>UpDone, Zenon
    <2>9. DownOK(s, ids, told)'
      <3>1. \A d \in Clients : \A k \in DOMAIN down'[d] : k \in DOMAIN down[d] /\ down'[d][k] = down[d][k]
        BY <2>3, Zenon
      <3> QED BY <2>1, <2>3, <3>1, DownMore, Zenon
    <2>10. \A b \in Clients, j \in IdsOf(s) :
              nextConns'[b][j] = IF b = a /\ j = i THEN None ELSE nextConns[b][j]
      <3>1. nextConns' = [nextConns EXCEPT ![a][i] = None]
        BY <2>5 DEF delNextOfPeer
      <3> QED BY <2>1, <3>1, Zenon DEF TInv, ServerTypes
    <2>11. Deletes(s, c, a, i)
      BY <2>2, <2>3, <2>5, <2>7, <2>10, Zenon DEF Deletes
    <2>12. Unled(s, a, i)
      <3> SUFFICES ASSUME NEW b \in connected, NEW j \in IdsOf(s), nextConns[b][j] = <<a, i>>, nextConns'[b][j] # None
                   PROVE  FALSE
        BY Zenon DEF Unled
      <3>1. b \in Clients
        BY <2>1, Zenon DEF TInv, ConnTypes
      <3>2. nextConns[b][j] # None /\ nextConns[b][j] = End(s, ids, Peer(t)) /\ Peer(t) \in given
        <4>1. nextConns[b][j] # None
          BY <2>10, <3>1, Zenon
        <4> QED BY <2>1, <2>5, <2>6, <4>1, Zenon
      <3>3. End(s, ids, Peer(Peer(t))) = <<b, j>>
        <4>1. LedTo(s, ids, Peer(t), b, j)
          BY <3>2, Zenon DEF LedTo
        <4> QED BY <3>1, <3>2, <4>1, <1>LedBack
      <3> QED BY <2>4, <2>6, <3>2, <3>3
    <2>13. ServerOK(s, ids, given, told)'
      <3>1. End(s, ids, Peer(t)) = <<a, i>> /\ Peer(t) \in told
        BY <2>5, <2>6, Zenon
      <3> QED BY <2>4, <2>11, <2>12, <3>1, <1>ServerDelete, Zenon
    <2>14. /\ Ghosts(s, ids, given, told)' /\ Counted(s, ids, given)'
           /\ TpsOK(s, ids, given, told)' /\ RequestsOK(s, ids, told)' /\ Registered(s, ids)'
      BY <2>3, ServerGhosts, Zenon
    <2> QED BY <2>1, <2>8, <2>9, <2>13, <2>14, Zenon DEF RInv
  <1>RInvSetNext. ASSUME NEW c \in Clients
                  PROVE  KeepsRouting(setNext(c))
    <2> USE <1>RInvSetNext
    <2> SUFFICES ASSUME NEW s, NEW ids, NEW given, NEW told, RInv(s, ids, given, told), TInv(s)', setNext(c)
                 PROVE  RInv(s, ids, given, told)'
      BY Zenon DEF KeepsRouting
    <2>1. /\ TInv(s) /\ TInv(s)' /\ s \in Scenarios /\ UpOK(s, ids, given, told) /\ DownOK(s, ids, told)
          /\ Ghosts(s, ids, given, told)
          /\ RoutesOK(s, ids, given, told) /\ InHand(s, ids, given, told) /\ Paired(s)
      <3>1. TInv(s) /\ TInv(s)'
        BY Zenon DEF RInv
      <3> QED BY <3>1, Zenon DEF RInv, ServerOK, TInv
    <2>2. at[c] = "setNext" /\ Goto(c, "forward")
      BY Zenon DEF setNext
    <2>3. /\ UNCHANGED <<connected, clientVars, nextRespID>> /\ up' = up /\ down' = down
          /\ next' = next /\ UNCHANGED <<tpState, requests>>
      BY Zenon DEF setNext, clientVars
    <2>4. StepOf(c) /\ at'[c] = "forward"
      BY <2>1, <2>2, <2>3, <1>GotoStep, Zenon
    <2>5. UpOK(s, ids, given, told)'
      <3>1. \A d \in Clients : at[d] \in {"setNext", "forward"} => at'[d] \in {"setNext", "forward"}
        BY <2>2, <2>4, Zenon DEF StepOf
      <3> QED BY <2>1, <2>3, <3>1, UpStay, Zenon
    <2>6. DownOK(s, ids, told)'
      <3>1. \A d \in Clients : \A k \in DOMAIN down'[d] : k \in DOMAIN down[d] /\ down'[d][k] = down[d][k]
        BY <2>3, Zenon
      <3> QED BY <2>1, <2>3, <3>1, DownMore, Zenon
    <2>7. /\ up[c] # <<>> /\ next[c] \in Clients \X IdsOf(s)
          /\ InFrame(c).type = "REQUEST" /\ InFrame(c).id \in IdsOf(s)
      <3>1. up[c] # <<>> /\ next[c] \in Clients \X IdsOf(s)
        BY <2>1, <2>2, Zenon DEF TInv, ServerTypes
      <3> QED BY <2>1, <2>2, <3>1, HandTypes, Zenon DEF InHand, HandOK
    <2>8. PICK i, n, t : /\ i \in IdsOf(s) /\ n \in Clients \X IdsOf(s)
                         /\ i = InFrame(c).id /\ n = next[c] /\ t = InFrame(c).tp
      BY <2>7, Zenon
    <2>9. /\ t \in told /\ End(s, ids, t) = <<c, i>> /\ Peer(t) \notin told /\ t \in PlanTps(s)
      BY <2>7, <2>8, SentUnder
    <2>10. /\ n = End(s, ids, Peer(t)) /\ Peer(t) \in given /\ t \in given
           /\ nextConns[n[1]][n[2]] = <<c, i>> /\ n # <<c, i>> /\ n = <<n[1], n[2]>>
      <3>1. n = End(s, ids, Peer(t)) /\ Peer(t) \in given /\ nextConns[n[1]][n[2]] = <<c, i>>
        BY <2>1, <2>2, <2>8, Zenon DEF InHand, HandOK
      <3>2. t \in given /\ Peer(t) # t
        BY <2>1, <2>9, Zenon DEF Ghosts
      <3>3. End(s, ids, Peer(t)) # End(s, ids, t)
        BY <2>1, <3>1, <3>2, Zenon DEF Ghosts
      <3>4. n = <<n[1], n[2]>>
        BY <2>8
      <3> QED BY <2>9, <3>1, <3>2, <3>3, <3>4, Zenon
    <2>11. \A b \in Clients, j \in IdsOf(s) :
              nextConns'[b][j] = IF b = c /\ j = i THEN n ELSE nextConns[b][j]
      BY <2>1, <2>8, Zenon DEF setNext, TInv, ServerTypes
    <2>a. \A d \in Clients : InFrame(d)' = InFrame(d)
      BY <2>3, Zenon DEF InFrame
    <2>12. RoutesOK(s, ids, given, told)'
      <3>1. ASSUME NEW b \in Clients, NEW j \in IdsOf(s)
            PROVE  RouteOK(s, ids, given, told, b, j, nextConns'[b][j], at'[b], InFrame(b)')
        <4>1. CASE b = c /\ j = i
          <5>1. InFrame(c).tp = t /\ Peer(t) \in given
            BY <2>8, <2>10, Zenon
          <5>2. RouteOK(s, ids, given, told, c, i, n, "forward", InFrame(c))
            BY <2>9, <2>10, <5>1, Zenon DEF RouteOK
          <5>3. nextConns'[b][j] = n
            BY <2>11, <4>1, Zenon
          <5> QED BY <2>a, <2>4, <4>1, <5>2, <5>3, Zenon
        <4>2. CASE ~(b = c /\ j = i)
          <5>1. PICK m : m = nextConns[b][j]
            BY Zenon
          <5>2. RouteOK(s, ids, given, told, b, j, m, at[b], InFrame(b))
            BY <2>1, <5>1, Zenon DEF RoutesOK
          <5>3. at[b] = "forward" => at'[b] = "forward"
            BY <2>2, <2>4, Zenon DEF StepOf
          <5>4. RouteOK(s, ids, given, told, b, j, m, at'[b], InFrame(b))
            BY <5>2, <5>3, Zenon DEF RouteOK
          <5>5. nextConns'[b][j] = m
            BY <2>11, <4>2, <5>1, Zenon
          <5> QED BY <2>a, <5>4, <5>5, Zenon
        <4> QED BY <4>1, <4>2, Zenon
      <3> QED BY <3>1, Zenon DEF RoutesOK
    <2>13. InHand(s, ids, given, told)'
      <3>1. ASSUME NEW d \in Clients
            PROVE  HandOK(s, ids, given, told, d, at'[d], InFrame(d), next[d], nextConns')
        <4>0. PICK f, m : f = InFrame(d) /\ m = next[d]
          BY Zenon
        <4>1. HandOK(s, ids, given, told, d, at[d], f, m, nextConns)
          BY <2>1, <4>0, Zenon DEF InHand
        <4>2. CASE d = c
          <5>1. HandOK(s, ids, given, told, d, "forward", f, m, nextConns')
            BY <2>2, <4>1, <4>2, Zenon DEF HandOK
          <5> QED BY <2>4, <4>0, <4>2, <5>1, Zenon
        <4>3. CASE d # c
          <5>1. at'[d] = at[d]
            BY <2>4, <4>3, Zenon DEF StepOf
          <5>2. ASSUME at[d] = "setNext"
                PROVE  nextConns'[m[1]][m[2]] = nextConns[m[1]][m[2]]
            <6>1. m # <<c, i>> /\ m \in Clients \X IdsOf(s)
              BY <2>9, <4>0, <5>2, <1>NotInHand
            <6> QED BY <2>11, <6>1
          <5>3. ASSUME at[d] = "delPeer"
                PROVE  nextConns'[d][f.id] = nextConns[d][f.id]
            <6>1. f.id \in IdsOf(s)
              BY <4>0, <5>3, ClosingOK, Zenon
            <6> QED BY <2>11, <4>3, <6>1, Zenon
          <5>4. HandOK(s, ids, given, told, d, at[d], f, m, nextConns')
            BY <4>1, <5>2, <5>3, HandKeep, Zenon
          <5> QED BY <4>0, <5>1, <5>4, Zenon
        <4> QED BY <4>2, <4>3, Zenon
      <3> QED BY <2>a, <2>3, <3>1, Zenon DEF InHand
    <2>14. Paired(s)'
      <3>1. ASSUME NEW b \in connected, NEW j \in IdsOf(s)
            PROVE  PairOK(nextConns', at', next, b, j, nextConns'[b][j])
        <4>1. PICK m : m = nextConns'[b][j]
          BY Zenon
        <4>2. b \in Clients
          BY <2>1, Zenon DEF TInv, ConnTypes
        <4>3. CASE b = c /\ j = i
          <5>1. m = n
            BY <2>11, <4>1, <4>3, Zenon
          <5>2. nextConns'[n[1]][n[2]] = nextConns[n[1]][n[2]]
            BY <2>8, <2>10, <2>11, Zenon
          <5>3. PairOK(nextConns', at', next, b, j, n)
            BY <2>10, <4>3, <5>2, Zenon DEF PairOK
          <5> QED BY <4>1, <5>1, <5>3, Zenon
        <4>4. CASE ~(b = c /\ j = i) /\ m # None
          <5>1. m = nextConns[b][j]
            BY <2>11, <4>1, <4>2, <4>4, Zenon
          <5>2. m \in Clients \X IdsOf(s) /\ m[1] \in Clients /\ m[2] \in IdsOf(s) /\ m = <<m[1], m[2]>>
            BY <2>1, <4>2, <4>4, <5>1 DEF TInv, ServerTypes
          <5>3. CASE m = <<c, i>>
            <6>1. LedTo(s, ids, t, b, j)
              BY <2>9, <4>4, <5>1, <5>3, Zenon DEF LedTo
            <6>2. End(s, ids, Peer(t)) = <<b, j>>
              BY <2>10, <4>2, <6>1, <1>LedBack
            <6>3. nextConns'[c][i] = n /\ n = <<b, j>> /\ m[1] = c /\ m[2] = i
              BY <2>8, <2>10, <2>11, <5>3, <6>2, Zenon
            <6>4. PairOK(nextConns', at', next, b, j, m)
              BY <6>3, Zenon DEF PairOK
            <6> QED BY <4>1, <6>4, Zenon
          <5>4. CASE m # <<c, i>>
            <6>1. nextConns'[m[1]][m[2]] = nextConns[m[1]][m[2]]
              BY <2>11, <5>2, <5>4, Zenon
            <6>2. next[m[1]] = <<b, j>> => m[1] # c
              <7>1. n = <<b, j>> => nextConns[b][j] = <<c, i>>
                BY <2>10
              <7> QED BY <2>8, <5>1, <5>4, <7>1, Zenon
            <6>3. PairOK(nextConns, at, next, b, j, m)
              BY <2>1, <5>1, Zenon DEF Paired
            <6>4. m[1] # c => at'[m[1]] = at[m[1]]
              BY <2>4, <5>2, Zenon DEF StepOf
            <6>5. PairOK(nextConns', at', next, b, j, m)
              BY <6>1, <6>2, <6>3, <6>4, Zenon DEF PairOK
            <6> QED BY <4>1, <6>5, Zenon
          <5> QED BY <5>3, <5>4, Zenon
        <4>5. CASE m = None
          BY <4>1, <4>5, Zenon DEF PairOK
        <4> QED BY <4>3, <4>4, <4>5, Zenon
      <3> QED BY <2>3, <3>1, Zenon DEF Paired
    <2>15. /\ Ghosts(s, ids, given, told)' /\ Counted(s, ids, given)'
           /\ TpsOK(s, ids, given, told)' /\ RequestsOK(s, ids, told)' /\ Registered(s, ids)'
      BY <2>3, ServerGhosts, Zenon
    <2>16. ServerOK(s, ids, given, told)'
      BY <2>12, <2>13, <2>14, Zenon DEF ServerOK
    <2> QED BY <2>1, <2>5, <2>6, <2>15, <2>16, Zenon DEF RInv
  \* Serve forwards a REQUEST frame: the responder hears of its id.
  <1>UpTold. ASSUME NEW s, NEW ids, NEW given, NEW told, RInv(s, ids, given, told),
                    NEW c \in Clients, up[c] # <<>>, InFrame(c).type = "REQUEST",
                    NEW t, t = InFrame(c).tp, NEW told2, told2 = told \cup {Peer(t)},
                    up'[c] = Tail(up[c]), StepOf(c)
             PROVE  UpOK(s, ids, given, told2)'
    <2> USE <1>UpTold
    <2>1. UpOK(s, ids, given, told) /\ s \in Scenarios /\ up[c] \in Seq(FrameSet(s))
      BY Zenon DEF RInv, UpOK, TInv, QueueTypes
    <2>2. \A k \in DOMAIN up'[c] : k \in Nat /\ k + 1 \in DOMAIN up[c] /\ k + 1 # 1 /\ up'[c][k] = up[c][k + 1]
      BY <2>1, SeqTail
    <2>3. 1 \in DOMAIN up[c] /\ up[c][1] = InFrame(c)
      BY <2>1, SeqTail, Zenon DEF InFrame
    <2>4. t \in PlanTps(s) /\ OwnerOf(s, t) = c
      BY <2>3, QueuedRequest
    <2>5. ASSUME NEW d \in Clients, NEW k \in DOMAIN up[d], up[d][k].type = "REQUEST",
                 d # c \/ k # 1
          PROVE  Peer(up[d][k].tp) \notin told2
      <3>1. up[d][k].tp \in PlanTps(s) /\ OwnerOf(s, up[d][k].tp) = d
        BY <2>5, QueuedRequest, Zenon
      <3>2. up[d][k].tp # t
        <4>1. CASE d # c
          BY <2>4, <3>1, <4>1, Zenon
        <4>2. CASE d = c
          <5>1. UpQueue(s, ids, given, told, c, up[c], at[c])
            BY <2>1, Zenon DEF UpOK
          <5>2. up[d][k].tp = t => k = 1
            BY <2>3, <2>5, <4>2, <5>1, Zenon DEF UpQueue
          <5> QED BY <2>5, <4>2, <5>2, Zenon
        <4> QED BY <4>1, <4>2, Zenon
      <3>3. Peer(up[d][k].tp) # Peer(t)
        BY <2>1, <2>4, <3>1, <3>2, PeerFacts
      <3>4. Peer(up[d][k].tp) \notin told
        BY <2>1, <2>5, Zenon DEF UpOK, UpQueue
      <3> QED BY <3>3, <3>4, Zenon
    <2>6. \A d \in Clients : \A f : UpFrame(s, ids, told, d, f) => UpFrame(s, ids, told2, d, f)
      BY Zenon DEF UpFrame
    <2>7. ASSUME NEW d \in Clients, d # c
          PROVE  UpQueue(s, ids, given, told2, d, up'[d], at'[d])
      <3>1. UpQueue(s, ids, given, told, d, up[d], at[d])
        BY <2>1, Zenon DEF UpOK
      <3>2. UpQueue(s, ids, given, told2, d, up[d], at[d])
        BY <2>5, <2>6, <2>7, <3>1, Zenon DEF UpQueue
      <3> QED BY <2>7, <3>2, Zenon DEF StepOf
    <2>8. UpQueue(s, ids, given, told2, c, up'[c], at'[c])
      <3>1. UpQueue(s, ids, given, told, c, up[c], at[c])
        BY <2>1, Zenon DEF UpOK
      <3>2. ASSUME NEW k \in DOMAIN up'[c]
            PROVE  UpFrame(s, ids, told2, c, up'[c][k])
        BY <2>2, <2>6, <3>1, Zenon DEF UpQueue
      <3>3. ASSUME NEW k \in DOMAIN up'[c], up'[c][k].type = "REQUEST"
            PROVE  /\ Peer(up'[c][k].tp) \notin told2
                   /\ Peer(up'[c][k].tp) \notin given
                   /\ \A j \in DOMAIN up'[c] : up'[c][j].type = "REQUEST" /\ up'[c][j].tp = up'[c][k].tp => j = k
        <4>1. Peer(up'[c][k].tp) \notin told2
          BY <2>2, <2>5, <3>3, Zenon
        <4>2. /\ Peer(up'[c][k].tp) \notin given
              /\ \A j \in DOMAIN up'[c] : up'[c][j].type = "REQUEST" /\ up'[c][j].tp = up'[c][k].tp => j = k
          BY <2>2, <3>1, <3>3 DEF UpQueue
        <4> QED BY <4>1, <4>2, Zenon
      <3> QED BY <3>2, <3>3, Zenon DEF UpQueue
    <2>9. \A d \in Clients : UpQueue(s, ids, given, told2, d, up'[d], at'[d])
      BY <2>7, <2>8, Zenon
    <2> QED BY <2>9, Zenon DEF UpOK, UpQueue, UpFrame, End
  \* No REQUEST frame is on its way to the responder before.
  <1>NoRequestYet.
    ASSUME NEW s, NEW ids, NEW given, NEW told, RInv(s, ids, given, told),
           NEW t \in PlanTps(s), t[2] = "init", Peer(t) \notin told
    PROVE  /\ tpState[Peer(t)] = "none" /\ \A r \in requests : r.dial # t[1]
           /\ \A d \in Clients : \A k \in DOMAIN down[d] : down[d][k].type = "REQUEST" => down[d][k].tp # t
    <2> USE <1>NoRequestYet
    <2>1. /\ TpsOK(s, ids, given, told) /\ RequestsOK(s, ids, told) /\ DownOK(s, ids, told)
          /\ s \in Scenarios /\ down \in [Clients -> Seq(FrameSet(s))] /\ told \subseteq PlanTps(s)
      BY Zenon DEF RInv, TInv, QueueTypes, Ghosts
    <2>2. Peer(t) \in Tps /\ Peer(t) = <<t[1], "resp">>
      BY <2>1, ScenarioFacts, PeerFacts, Zenon
    <2>3. tpState[Peer(t)] = "none"
      BY <2>1, <2>2, Zenon DEF TpsOK
    <2>4. \A r \in requests : r.dial # t[1]
      BY <2>1, <2>2, Zenon DEF RequestsOK
    <2>5. ASSUME NEW d \in Clients, NEW k \in DOMAIN down[d], down[d][k].type = "REQUEST", down[d][k].tp = t
          PROVE  FALSE
      <3>1. DownFrame(s, ids, told, d, down[d][k])
        BY <2>1, Zenon DEF DownOK
      <3>2. PICK u \in told : down[d][k].tp \in {Peer(u), None}
        BY <3>1, Zenon DEF DownFrame
      <3>3. t # None
        BY <2>1, ScenarioFacts, Zenon
      <3>4. Peer(t) = u
        BY <2>1, <2>5, <3>2, <3>3, PeerFacts
      <3> QED BY <3>2, <3>4, Zenon
    <2> QED BY <2>3, <2>4, <2>5, Zenon
  <1>DownTold. ASSUME NEW s, NEW ids, NEW given, NEW told, RInv(s, ids, given, told),
                      NEW t \in PlanTps(s), t[2] = "init", Peer(t) \notin told,
                      NEW told2, told2 = told \cup {Peer(t)},
                      NEW d \in Clients, NEW f \in FrameSet(s), WriteOK(d, f), f.type = "REQUEST", f.tp = t,
                      End(s, ids, Peer(t)) = <<d, f.id>>, UNCHANGED <<tpState, requests>>
               PROVE  DownOK(s, ids, told2)'
    <2> USE <1>DownTold
    <2>1. DownOK(s, ids, told) /\ s \in Scenarios /\ down \in [Clients -> Seq(FrameSet(s))]
      BY Zenon DEF RInv, TInv, QueueTypes
    <2>2. /\ tpState[Peer(t)] = "none" /\ \A r \in requests : r.dial # t[1]
          /\ \A b \in Clients : \A k \in DOMAIN down[b] : down[b][k].type = "REQUEST" => down[b][k].tp # t
      BY <1>NoRequestYet
    <2>3. \A b \in Clients : \A g : DownFrame(s, ids, told, b, g) => DownFrame(s, ids, told2, b, g)
      BY Zenon DEF DownFrame
    <2>4. DownFrame(s, ids, told2, d, f)
      <3>1. Peer(Peer(t)) = t
        BY <2>1, PeerFacts, Zenon
      <3> QED BY <3>1, Zenon DEF DownFrame
    <2>5. down' = IF d \in connected THEN [down EXCEPT ![d] = Append(down[d], f)] ELSE down
      BY Zenon DEF WriteOK
    <2>6. ASSUME NEW b \in Clients, down'[b] = down[b], NEW k \in DOMAIN down'[b]
          PROVE  /\ DownFrame(s, ids, told2, b, down'[b][k])
                 /\ down'[b][k].type = "REQUEST" =>
                       /\ tpState[Peer(down'[b][k].tp)] = "none"
                       /\ \A r \in requests : r.dial # down'[b][k].tp[1]
                       /\ \A j \in DOMAIN down'[b] :
                             down'[b][j].type = "REQUEST" /\ down'[b][j].tp = down'[b][k].tp => j = k
      <3>1. k \in DOMAIN down[b] /\ down'[b][k] = down[b][k]
        BY <2>6, Zenon
      <3>2. DownFrame(s, ids, told, b, down[b][k])
        BY <2>1, <3>1, Zenon DEF DownOK
      <3>3. down[b][k].type = "REQUEST" =>
                       /\ tpState[Peer(down[b][k].tp)] = "none"
                       /\ \A r \in requests : r.dial # down[b][k].tp[1]
                       /\ \A j \in DOMAIN down[b] :
                             down[b][j].type = "REQUEST" /\ down[b][j].tp = down[b][k].tp => j = k
        BY <2>1, <3>1, Zenon DEF DownOK
      <3>4. DownFrame(s, ids, told2, b, down[b][k])
        BY <2>3, <3>2, Zenon
      <3> QED BY <2>6, <3>1, <3>3, <3>4, Zenon
    <2>7. ASSUME d \in connected, NEW k \in DOMAIN down'[d]
          PROVE  /\ DownFrame(s, ids, told2, d, down'[d][k])
                 /\ down'[d][k].type = "REQUEST" =>
                       /\ tpState[Peer(down'[d][k].tp)] = "none"
                       /\ \A r \in requests : r.dial # down'[d][k].tp[1]
                       /\ \A j \in DOMAIN down'[d] :
                             down'[d][j].type = "REQUEST" /\ down'[d][j].tp = down'[d][k].tp => j = k
      <3>1. down'[d] = Append(down[d], f) /\ down[d] \in Seq(FrameSet(s))
        BY <2>1, <2>5, <2>7, Zenon
      <3>2. /\ DOMAIN down'[d] = DOMAIN down[d] \cup {Len(down[d]) + 1} /\ down'[d][Len(down[d]) + 1] = f
            /\ \A j \in DOMAIN down[d] : down'[d][j] = down[d][j] /\ j # Len(down[d]) + 1
        BY <3>1, SeqAppend
      <3>3. CASE k \in DOMAIN down[d]
        <4>1. /\ DownFrame(s, ids, told2, d, down'[d][k])
              /\ down'[d][k].type = "REQUEST" =>
                    /\ tpState[Peer(down'[d][k].tp)] = "none"
                    /\ \A r \in requests : r.dial # down'[d][k].tp[1]
          <5>1. DownFrame(s, ids, told, d, down[d][k])
            BY <2>1, <3>3, Zenon DEF DownOK
          <5>2. DownFrame(s, ids, told2, d, down[d][k])
            BY <2>3, <5>1, Zenon
          <5>3. down[d][k].type = "REQUEST" =>
                    /\ tpState[Peer(down[d][k].tp)] = "none"
                    /\ \A r \in requests : r.dial # down[d][k].tp[1]
            BY <2>1, <3>3, Zenon DEF DownOK
          <5> QED BY <3>2, <3>3, <5>2, <5>3, Zenon
        <4>2. ASSUME down'[d][k].type = "REQUEST", NEW j \in DOMAIN down'[d],
                     down'[d][j].type = "REQUEST", down'[d][j].tp = down'[d][k].tp
              PROVE  j = k
          <5>1. j \in DOMAIN down[d]
            BY <2>2, <3>2, <3>3, <4>2
          <5> QED BY <2>1, <3>2, <3>3, <4>2, <5>1 DEF DownOK
        <4> QED BY <4>1, <4>2, Zenon
      <3>4. CASE k = Len(down[d]) + 1
        <4>1. down'[d][k] = f
          BY <3>2, <3>4, Zenon
        <4>2. \A j \in DOMAIN down'[d] : down'[d][j].type = "REQUEST" /\ down'[d][j].tp = t => j = k
          BY <2>2, <3>2, <3>4, Zenon
        <4> QED BY <2>2, <2>4, <4>1, <4>2, Zenon
      <3> QED BY <3>2, <3>3, <3>4, Zenon
    <2>8. \A b \in Clients : down'[b] = down[b] \/ (b = d /\ d \in connected)
      BY <2>1, <2>5, Zenon
    <2>9. ASSUME NEW b \in Clients, NEW k \in DOMAIN down'[b]
          PROVE  /\ DownFrame(s, ids, told2, b, down'[b][k])
                 /\ down'[b][k].type = "REQUEST" =>
                       /\ tpState[Peer(down'[b][k].tp)] = "none"
                       /\ \A r \in requests : r.dial # down'[b][k].tp[1]
                       /\ \A j \in DOMAIN down'[b] :
                             down'[b][j].type = "REQUEST" /\ down'[b][j].tp = down'[b][k].tp => j = k
      <3>1. CASE down'[b] = down[b]
        BY <2>6, <3>1, Zenon
      <3>2. CASE b = d /\ d \in connected
        BY <2>7, <3>2, Zenon
      <3> QED BY <2>8, <3>1, <3>2, Zenon
    <2> QED BY <2>9, Zenon DEF DownOK, DownFrame, End
  <1>RInvForwardRequest. ASSUME NEW s, NEW ids, NEW given, NEW told, RInv(s, ids, given, told), TInv(s)',
                                NEW c \in Clients, ForwardRequest(c)
                         PROVE  \E told2 : RInv(s, ids, given, told2)'
    <2> USE <1>RInvForwardRequest
    <2>1. TInv(s) /\ TInv(s)' /\ s \in Scenarios
      <3>1. TInv(s) /\ TInv(s)'
        BY Zenon DEF RInv
      <3> QED BY <3>1, Zenon DEF RInv, TInv
    <2>2. at[c] = "forward" /\ DoneWith(c) /\ UNCHANGED <<connected, clientVars, nextRespID, tpState, requests>>
      BY Zenon DEF ForwardRequest, clientVars
    <2>3. up[c] # <<>> /\ next[c] \in Clients \X IdsOf(s)
      BY <2>1, <2>2, Zenon DEF TInv, ServerTypes
    <2>4. PICK t, n : t = InFrame(c).tp /\ n = next[c]
      BY Zenon
    <2>5. InFrame(c).type = "REQUEST" /\ Peer(t) \in given /\ n = End(s, ids, Peer(t))
      BY <2>2, <2>4, Zenon DEF RInv, ServerOK, InHand, HandOK
    <2>6. /\ t \in told /\ End(s, ids, t) = <<c, InFrame(c).id>> /\ Peer(t) \notin told
          /\ t \in PlanTps(s) /\ t[2] = "init"
      BY <2>3, <2>4, <2>5, SentUnder
    <2>7. Ghosts(s, ids, given, told) /\ ServerOK(s, ids, given, told) /\ connected \subseteq Clients
      BY <2>1, Zenon DEF RInv, TInv, ConnTypes
    <2>8. CASE NextFails(n) /\ delChan(c, InFrame(c).id)
      <3>1. n[1] \notin connected
        BY <2>1, <2>8, Zenon DEF NextFails, WriteFails, TInv, ConnTypes
      <3>2. ASSUME NEW b \in connected, NEW j \in IdsOf(s), nextConns[b][j] = <<c, InFrame(c).id>>
            PROVE  FALSE
        <4>1. b \in Clients /\ None \notin Clients \X IdsOf(s) /\ InFrame(c).id \in IdsOf(s)
          BY <2>1, <2>3, <2>7, HandTypes, ScenarioFacts, Zenon
        <4>2. LedTo(s, ids, t, b, j)
          BY <2>6, <3>2, <4>1 DEF LedTo
        <4>3. t \in given
          BY <2>6, <2>7, Zenon DEF Ghosts
        <4>4. End(s, ids, Peer(t)) = <<b, j>>
          BY <4>1, <4>2, <4>3, <1>LedBack
        <4> QED BY <2>5, <3>1, <4>4
      <3>3. RInv(s, ids, given, told)'
        BY <2>1, <2>2, <2>3, <2>8, <3>2, <1>DelChanOK, Zenon
      <3> QED BY <3>3, Zenon
    <2>9. CASE WriteOK(n[1], Rewrite(InFrame(c), n)) /\ Goto(c, "read") /\ UNCHANGED nextConns
      <3>1. PICK told2 : told2 = told \cup {Peer(t)}
        BY Zenon
      <3>2. StepOf(c) /\ up'[c] = Tail(up[c]) /\ at'[c] = "read"
        BY <2>1, <2>2, <2>9, <1>DoneStep, Zenon DEF Goto
      <3>3. UpOK(s, ids, given, told2)'
        BY <2>3, <2>4, <2>5, <3>1, <3>2, <1>UpTold, Zenon
      <3>4. DownOK(s, ids, told2)'
        <4>1. PICK f : f = Rewrite(InFrame(c), n)
          BY Zenon
        <4>2. f \in FrameSet(s) /\ f.type = "REQUEST" /\ f.tp = t /\ f.id = n[2]
          BY <2>1, <2>3, <2>4, <2>5, <4>1, HandTypes, RewriteFrame
        <4>3. n[1] \in Clients /\ End(s, ids, Peer(t)) = <<n[1], f.id>>
          BY <2>3, <2>4, <2>5, <4>2
        <4>4. WriteOK(n[1], f)
          BY <2>9, <4>1, Zenon
        <4> QED BY <2>2, <2>6, <3>1, <4>2, <4>3, <4>4, <1>DownTold, Zenon
      <3>5. ServerOK(s, ids, given, told2)'
        <4>1. ServerOK(s, ids, given, told2)
          <5>1. told \subseteq told2 /\ told \subseteq given
            BY <2>7, <3>1, Zenon DEF Ghosts
          <5> QED BY <2>7, <5>1, ServerGrow, Zenon
        <4>2. Peer(InFrame(c).tp) \in told2
          BY <2>4, <3>1, Zenon
        <4> QED BY <2>1, <2>2, <2>9, <3>2, <4>1, <4>2, <1>ServerKeep, Zenon
      <3>6. /\ Ghosts(s, ids, given, told)' /\ Counted(s, ids, given)'
            /\ TpsOK(s, ids, given, told)' /\ RequestsOK(s, ids, told)' /\ Registered(s, ids)'
        BY <2>2, ServerGhosts, Zenon
      <3>7. Ghosts(s, ids, given, told2)'
        BY <2>5, <3>1, <3>6, Zenon DEF Ghosts
      <3>8. TpsOK(s, ids, given, told2)'
        BY <3>1, <3>6, Zenon DEF TpsOK
      <3>9. RequestsOK(s, ids, told2)'
        BY <3>1, <3>6, Zenon DEF RequestsOK
      <3>10. RInv(s, ids, given, told2)'
        BY <2>1, <3>3, <3>4, <3>5, <3>6, <3>7, <3>8, <3>9, Zenon DEF RInv
      <3> QED BY <3>10, Zenon
    <2> QED BY <2>4, <2>8, <2>9, Zenon DEF ForwardRequest
  <1> QED
    <2> SUFFICES ASSUME NEW c \in Clients, NEW s, Routed(s), TInv(s)', ServerStep(c), ~addNext(c)
                 PROVE  Routed(s)'
      BY Zenon DEF KeepsRouted
    <2>1. PICK ids, given, told : RInv(s, ids, given, told)
      BY Zenon DEF Routed
    <2>3. CASE ForwardRequest(c)
      BY <2>1, <2>3, <1>RInvForwardRequest, Zenon DEF Routed
    <2>4. CASE \/ RefuseRequest(c) \/ ForwardFrame(c) \/ ForwardClose(c) \/ ForwardFails(c)
               \/ setNext(c) \/ delNext(c) \/ delNextOfPeer(c)
               \/ ReadFails(c) \/ SendCloses(c) \/ CloseConn(c) \/ delConn(c)
      <3>1. CASE RefuseRequest(c)
        BY <2>1, <3>1, <1>RInvRefuseRequest, Zenon DEF KeepsRouting, Routed
      <3>2. CASE ForwardFrame(c)
        BY <2>1, <3>2, <1>RInvForwardFrame, Zenon DEF KeepsRouting, Routed
      <3>3. CASE ForwardClose(c)
        BY <2>1, <3>3, <1>RInvForwardClose, Zenon DEF KeepsRouting, Routed
      <3>4. CASE ForwardFails(c)
        BY <2>1, <3>4, <1>RInvForwardFails, Zenon DEF KeepsRouting, Routed
      <3>5. CASE setNext(c)
        BY <2>1, <3>5, <1>RInvSetNext, Zenon DEF KeepsRouting, Routed
      <3>6. CASE delNext(c)
        BY <2>1, <3>6, <1>RInvDelNext, Zenon DEF KeepsRouting, Routed
      <3>7. CASE delNextOfPeer(c)
        BY <2>1, <3>7, <1>RInvDelNextOfPeer, Zenon DEF KeepsRouting, Routed
      <3>8. CASE ReadFails(c) \/ CloseConn(c)
        BY <2>1, <3>8, <1>RInvReadFails, Zenon DEF KeepsRouting, Routed
      <3>9. CASE SendCloses(c)
        BY <2>1, <3>9, <1>RInvSendCloses, Zenon DEF KeepsRouting, Routed
      <3>10. CASE delConn(c)
        BY <2>1, <3>10, <1>RInvDelConn, Zenon DEF KeepsRouting, Routed
      <3> QED BY <2>4, <3>1, <3>2, <3>3, <3>4, <3>5, <3>6, <3>7, <3>8, <3>9, <3>10, Zenon
    <2> QED BY <2>3, <2>4, Zenon DEF ServerStep

============================================================================
