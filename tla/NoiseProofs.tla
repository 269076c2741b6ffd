---------------------------- MODULE NoiseProofs -----------------------------
(***************************************************************************)
(* The handshake gives matching cipher states for patterns of any length,  *)
(* wMx keeps packets in the order of their sequence numbers for any number *)
(* of writers, and frames arrive whole and in order.                       *)
(***************************************************************************)
EXTENDS Noise, TLAPS

\* The parity of the messages that an end writes.
Turn(e) == IF e[2] = "i" THEN 0 ELSE 1

HandshakeType ==
    /\ pattern \in Nat \ {0, 1}
    /\ at \in [Ends -> {"none", "write", "read", "finished", "failed"}]
    /\ result \in [Ends -> {"none", "ok", "error"}]
    /\ index \in [Ends -> 0 .. pattern]
    /\ DOMAIN enc = Ends /\ DOMAIN dec = Ends
    /\ accepting \in Conns \cup {None} /\ up \subseteq Conns
    /\ failed \subseteq Ends /\ panicked \subseteq Ends

\* A connection is accepted once, after it was made.
AcceptedOnce ==
    /\ backlog \in Seq(Conns)
    /\ \A j, k \in 1 .. Len(backlog) : backlog[j] = backlog[k] => j = k
    /\ \A k \in 1 .. Len(backlog) :
          at[<<backlog[k], "r">>] = "none" /\ at[<<backlog[k], "i">>] # "none"
    /\ \A c \in Conns : at[<<c, "i">>] = "none" => at[<<c, "r">>] = "none"

\* The ends take turns, so the last message is written by one and read by the other.
TurnsTaken ==
    \A e \in Ends :
       /\ at[e] = "none" => index[e] = 0
       /\ at[e] = "write" => index[e] % 2 = Turn(e)
       /\ at[e] = "read" => index[e] % 2 # Turn(e)
       /\ at[e] = "finished" <=> Finished(e)
       /\ result[e] = "ok" => at[e] = "finished"
       /\ Finished(e) /\ pattern % 2 # Turn(e) => enc[e] = "cs2" /\ dec[e] = "cs1"
       /\ Finished(e) /\ pattern % 2 = Turn(e) => enc[e] = "cs1" /\ dec[e] = "cs2"

HInv == HandshakeType /\ AcceptedOnce /\ TurnsTaken

\* An end and its peer
LEMMA OtherEnd ==
    ASSUME NEW e \in Ends
    PROVE  Other(e) \in Ends /\ Other(Other(e)) = e /\ Other(e) # e /\ Turn(Other(e)) = 1 - Turn(e)
           /\ Turn(e) \in {0, 1}
  BY DEF Ends, Other, Turn

\* Numbers change parity with every message.
LEMMA Parity ==
    ASSUME NEW n \in Nat PROVE n % 2 \in {0, 1} /\ (n + 1) % 2 = 1 - (n % 2)
  OBVIOUS

\* The initial states satisfy the invariant of the handshake.
LEMMA HInvInit == Init => HInv
  <1> SUFFICES ASSUME Init PROVE HInv
    BY Zenon
  <1> USE NoiseAssumption
  <1>1. HandshakeType
    BY DEF Init, HandshakeType
  <1>2. AcceptedOnce
    BY DEF Init, AcceptedOnce, Ends
  <1>3. TurnsTaken
    BY <1>1, Zenon DEF Init, TurnsTaken, HandshakeType, Finished
  <1> QED
    BY <1>1, <1>2, <1>3, Zenon DEF HInv

\* The handshakes that were started are all that AcceptedOnce depends on.
LEMMA StillAccepted ==
    ASSUME AcceptedOnce, backlog' = backlog,
           \A f \in Ends : at'[f] = "none" <=> at[f] = "none"
    PROVE  AcceptedOnce'
  <1>1. \A d \in Conns : <<d, "i">> \in Ends /\ <<d, "r">> \in Ends
    BY Zenon DEF Ends
  <1>2. \A k \in 1 .. Len(backlog) : backlog[k] \in Conns
    BY DEF AcceptedOnce
  <1> QED
    BY <1>1, <1>2, Zenon DEF AcceptedOnce

\* What a step of the handshake's messages does to the end that takes it.
LEMMA HInvMessage ==
    ASSUME HInv, NEW e \in Ends, NEW l, at[e] \in {"write", "read"},
           l = IF at[e] = "write" THEN "read" ELSE "write",
           NEW x, NEW y, x = IF at[e] = "write" THEN "cs2" ELSE "cs1",
           y = IF at[e] = "write" THEN "cs1" ELSE "cs2",
           UNCHANGED <<pattern, backlog, accepting, up, panicked, failed, result>>,
           index' = [index EXCEPT ![e] = @ + 1],
           enc' = [enc EXCEPT ![e] = IF index[e] < pattern - 1 THEN @ ELSE x],
           dec' = [dec EXCEPT ![e] = IF index[e] < pattern - 1 THEN @ ELSE y],
           at' = [at EXCEPT ![e] = AfterMessage(e, l)]
    PROVE  HInv'
  <1> DEFINE n == index[e]
  <1>1. n \in Nat /\ n < pattern /\ pattern \in Nat
    BY DEF HInv, HandshakeType, TurnsTaken, Finished
  <1>2. HandshakeType'
    BY <1>1 DEF HInv, HandshakeType, AfterMessage
  <1>3. AcceptedOnce'
    <2>1. at'[e] # "none" /\ \A f \in Ends : f # e => at'[f] = at[f]
      BY Zenon DEF HInv, HandshakeType, AfterMessage
    <2>2. \A f \in Ends : at'[f] = "none" <=> at[f] = "none"
      BY <2>1, Zenon
    <2> QED
      BY <2>2, StillAccepted, Zenon DEF HInv
  <1>4. TurnsTaken'
    <2> SUFFICES ASSUME NEW f \in Ends
                 PROVE  /\ at'[f] = "none" => index'[f] = 0
                        /\ at'[f] = "write" => index'[f] % 2 = Turn(f)
                        /\ at'[f] = "read" => index'[f] % 2 # Turn(f)
                        /\ at'[f] = "finished" <=> index'[f] = pattern
                        /\ result[f] = "ok" => at'[f] = "finished"
                        /\ index'[f] = pattern /\ pattern % 2 # Turn(f) => enc'[f] = "cs2" /\ dec'[f] = "cs1"
                        /\ index'[f] = pattern /\ pattern % 2 = Turn(f) => enc'[f] = "cs1" /\ dec'[f] = "cs2"
      BY Zenon DEF TurnsTaken, Finished, Turn
    <2>1. CASE f # e
      <3>1. at'[f] = at[f] /\ index'[f] = index[f] /\ enc'[f] = enc[f] /\ dec'[f] = dec[f]
        BY <2>1, Zenon DEF HInv, HandshakeType
      <3> QED
        BY <3>1, Zenon DEF HInv, TurnsTaken, Finished
    <2>2. CASE f = e
      <3>1. /\ index'[e] = n + 1
            /\ at'[e] = IF n + 1 = pattern THEN "finished" ELSE l
            /\ n + 1 = pattern => enc'[e] = x /\ dec'[e] = y
        BY <1>1 DEF HInv, HandshakeType, AfterMessage
      <3>2. n % 2 \in {0, 1} /\ (n + 1) % 2 = 1 - (n % 2) /\ Turn(e) \in {0, 1}
        BY <1>1, Parity, OtherEnd, Zenon
      <3>3. at[e] = "write" => n % 2 = Turn(e)
        BY Zenon DEF HInv, TurnsTaken
      <3>4. at[e] = "read" => n % 2 # Turn(e)
        BY Zenon DEF HInv, TurnsTaken
      <3>5. result[e] # "ok"
        BY Zenon DEF HInv, TurnsTaken
      <3> HIDE DEF n
      <3> QED
        BY <1>1, <2>2, <3>1, <3>2, <3>3, <3>4, <3>5
    <2> QED
      BY <2>1, <2>2, Zenon
  <1> QED
    BY <1>2, <1>3, <1>4, Zenon DEF HInv

\* Every step keeps the invariant of the handshake.
LEMMA HInvStep == HInv /\ [Next]_vars => HInv'
  <1> SUFFICES ASSUME HInv, [Next]_vars PROVE HInv'
    BY Zenon
  <1> USE DEF lisVars, hsVars, readVars, writeVars
  <1>1. CASE UNCHANGED <<pattern, backlog, accepting, up, panicked, failed, hsVars>>
    BY <1>1 DEF HInv, HandshakeType, AcceptedOnce, TurnsTaken, Finished, Turn
  <1>2. ASSUME NEW c \in Conns, Connect(c) PROVE HInv'
    <2>1. <<c, "i">> \in Ends /\ <<c, "r">> \in Ends /\ <<c, "i">> # <<c, "r">>
      BY Zenon DEF Ends
    <2>2. index[<<c, "i">>] = 0 /\ result[<<c, "i">>] # "ok" /\ 0 % 2 = Turn(<<c, "i">>)
      BY <1>2, <2>1 DEF Connect, HInv, TurnsTaken, Turn
    <2>3. \A k \in 1 .. Len(backlog) : backlog[k] # c
      BY <1>2, Zenon DEF Connect, HInv, AcceptedOnce
    <2>4. HandshakeType'
      BY <1>2, Zenon DEF Connect, HInv, HandshakeType
    <2>5. AcceptedOnce'
      <3>1. backlog' \in Seq(Conns) /\ Len(backlog') = Len(backlog) + 1 /\ backlog'[Len(backlog) + 1] = c
            /\ \A k \in 1 .. Len(backlog) : backlog'[k] = backlog[k]
        BY <1>2 DEF Connect, HInv, AcceptedOnce
      <3>2. at'[<<c, "i">>] # "none" /\ \A f \in Ends : f # <<c, "i">> => at'[f] = at[f]
        BY <1>2, <2>1, Zenon DEF Connect, HInv, HandshakeType
      <3>3. \A d \in Conns : <<d, "i">> \in Ends /\ <<d, "r">> \in Ends /\ <<d, "r">> # <<c, "i">>
        BY Zenon DEF Ends
      <3>4. Len(backlog) \in Nat /\ \A k \in 1 .. Len(backlog) : backlog[k] \in Conns
        BY DEF HInv, AcceptedOnce
      <3>5. \A j, k \in 1 .. Len(backlog') : backlog'[j] = backlog'[k] => j = k
        BY <2>3, <3>1, <3>4 DEF HInv, AcceptedOnce
      <3>6. at[<<c, "r">>] = "none"
        BY <1>2, Zenon DEF Connect, HInv, AcceptedOnce
      <3>7. \A k \in 1 .. Len(backlog') :
              at'[<<backlog'[k], "r">>] = "none" /\ at'[<<backlog'[k], "i">>] # "none"
        <4> SUFFICES ASSUME NEW k \in 1 .. Len(backlog')
                     PROVE  at'[<<backlog'[k], "r">>] = "none" /\ at'[<<backlog'[k], "i">>] # "none"
          BY Zenon
        <4>1. CASE k = Len(backlog) + 1
          BY <4>1, <2>1, <3>1, <3>2, <3>6, Zenon
        <4>2. CASE k # Len(backlog) + 1
          <5>1. k \in 1 .. Len(backlog)
            BY <4>2, <3>1, <3>4
          <5> QED
            BY <5>1, <2>3, <3>1, <3>2, <3>3, <3>4 DEF HInv, AcceptedOnce
        <4> QED
          BY <4>1, <4>2, Zenon
      <3>8. \A d \in Conns : at'[<<d, "i">>] = "none" => at'[<<d, "r">>] = "none"
        BY <3>2, <3>3, Zenon DEF HInv, AcceptedOnce
      <3> QED
        BY <3>1, <3>5, <3>7, <3>8, Zenon DEF AcceptedOnce
    <2>6. TurnsTaken'
      BY <1>2, <2>1, <2>2, Zenon DEF Connect, HInv, HandshakeType, TurnsTaken, Finished, Turn
    <2> QED
      BY <2>4, <2>5, <2>6, Zenon DEF HInv
  <1>3. CASE Accept
    <2> DEFINE c == Head(backlog)
    <2>1. backlog \in Seq(Conns) /\ backlog # <<>> /\ c = backlog[1] /\ 1 \in 1 .. Len(backlog) /\ c \in Conns
      BY <1>3 DEF Accept, HInv, AcceptedOnce
    <2>2. at[<<c, "r">>] = "none" /\ at[<<c, "i">>] # "none"
      BY <2>1, Zenon DEF HInv, AcceptedOnce
    <2>3. <<c, "r">> \in Ends /\ \A d \in Conns : <<d, "i">> \in Ends /\ <<d, "r">> \in Ends /\ <<d, "i">> # <<c, "r">>
      BY <2>1, Zenon DEF Ends
    <2>4. index[<<c, "r">>] = 0 /\ result[<<c, "r">>] # "ok" /\ 0 % 2 # Turn(<<c, "r">>)
      BY <2>2, <2>3 DEF HInv, TurnsTaken, Turn
    <2>5. at' = [at EXCEPT ![<<c, "r">>] = "read"]
      BY <1>3, Zenon DEF Accept
    <2>6. HandshakeType'
      <3>1. accepting' \in Conns
        BY <1>3, <2>1, Zenon DEF Accept
      <3>2. at' \in [Ends -> {"none", "write", "read", "finished", "failed"}]
        BY <2>5, Zenon DEF HInv, HandshakeType
      <3> QED
        BY <1>3, <3>1, <3>2, Zenon DEF Accept, HInv, HandshakeType
    <2>7. TurnsTaken'
      <3>1. UNCHANGED <<pattern, result, index, enc, dec>>
        BY <1>3, Zenon DEF Accept, hsVars
      <3>2. at'[<<c, "r">>] = "read" /\ \A f \in Ends : f # <<c, "r">> => at'[f] = at[f]
        BY <2>3, <2>5, Zenon DEF HInv, HandshakeType
      <3>3. ~Finished(<<c, "r">>)
        BY <2>2, <2>3, Zenon DEF HInv, TurnsTaken
      <3> SUFFICES ASSUME NEW f \in Ends PROVE TurnsTaken!(f)'
        BY Zenon DEF TurnsTaken
      <3>4. CASE f = <<c, "r">>
        BY <2>4, <3>1, <3>2, <3>3, <3>4, Zenon DEF Finished, Turn
      <3>5. CASE f # <<c, "r">>
        BY <3>1, <3>2, <3>5, Zenon DEF HInv, TurnsTaken, Finished, Turn
      <3> QED
        BY <3>4, <3>5, Zenon
    <2>8. AcceptedOnce'
      <3>1. backlog' \in Seq(Conns) /\ Len(backlog') = Len(backlog) - 1 /\ Len(backlog) \in Nat
            /\ \A k \in 1 .. Len(backlog') : backlog'[k] = backlog[k + 1]
        BY <1>3, <2>1 DEF Accept
      <3>2. \A f \in Ends : f # <<c, "r">> => at'[f] = at[f]
        BY <2>5, Zenon DEF HInv, HandshakeType
      <3>3. \A k \in 1 .. Len(backlog') : k + 1 \in 1 .. Len(backlog) /\ backlog'[k] \in Conns /\ backlog'[k] # c
        BY <2>1, <3>1 DEF HInv, AcceptedOnce
      <3>4. \A j, k \in 1 .. Len(backlog') : backlog'[j] = backlog'[k] => j = k
        BY <3>1, <3>3 DEF HInv, AcceptedOnce
      <3>5. \A k \in 1 .. Len(backlog') :
              at'[<<backlog'[k], "r">>] = "none" /\ at'[<<backlog'[k], "i">>] # "none"
        <4> SUFFICES ASSUME NEW k \in 1 .. Len(backlog')
                     PROVE  at'[<<backlog'[k], "r">>] = "none" /\ at'[<<backlog'[k], "i">>] # "none"
          BY Zenon
        <4>1. k + 1 \in 1 .. Len(backlog) /\ backlog'[k] = backlog[k + 1]
          BY <3>1, <3>3, Zenon
        <4>2. at[<<backlog'[k], "r">>] = "none" /\ at[<<backlog'[k], "i">>] # "none"
          BY SMTT(60), <4>1 DEF HInv, AcceptedOnce
        <4>3. <<backlog'[k], "r">> # <<c, "r">> /\ backlog'[k] \in Conns
          BY <3>3, Zenon
        <4> HIDE DEF c
        <4> QED
          BY <4>2, <4>3, <2>3, <3>2, Zenon
      <3>6. \A d \in Conns : at'[<<d, "i">>] = "none" => at'[<<d, "r">>] = "none"
        <4> SUFFICES ASSUME NEW d \in Conns, at'[<<d, "i">>] = "none" PROVE at'[<<d, "r">>] = "none"
          BY Zenon
        <4>1. at[<<d, "i">>] = "none" /\ at[<<d, "r">>] = "none"
          BY <2>3, <3>2, Zenon DEF HInv, AcceptedOnce
        <4>2. d # c
          BY <4>1, <2>2, Zenon
        <4>3. <<d, "r">> # <<c, "r">>
          BY <4>2, Zenon
        <4> HIDE DEF c
        <4> QED
          BY <4>1, <4>3, <2>3, <3>2, Zenon
      <3> QED
        BY <3>1, <3>4, <3>5, <3>6, Zenon DEF AcceptedOnce
    <2> QED
      BY <2>6, <2>7, <2>8, Zenon DEF HInv
  <1>4. ASSUME NEW c \in Conns, Hangup(c) PROVE HInv'
    <2>1. UNCHANGED <<pattern, backlog, accepting, panicked, failed, at, result, index, enc, dec>> /\ up' \subseteq Conns
      BY <1>4, Zenon DEF Hangup, HInv, HandshakeType
    <2> QED
      BY <2>1 DEF HInv, HandshakeType, AcceptedOnce, TurnsTaken, Finished, Turn
  <1>5. ASSUME NEW e \in Ends, HandshakeMessage(e) PROVE HInv'
    BY <1>5, HInvMessage, Zenon DEF HandshakeMessage
  <1>6. ASSUME NEW e \in Ends, ProcessMessage(e) PROVE HInv'
    BY <1>6, HInvMessage, Zenon DEF ProcessMessage
  <1>7. ASSUME NEW e \in Ends, HandshakeFails(e) PROVE HInv'
    <2>1. UNCHANGED <<pattern, backlog, accepting, up, panicked, failed, result, index, enc, dec>>
          /\ at' = [at EXCEPT ![e] = "failed"] /\ at[e] \in {"read", "write"}
      BY <1>7, Zenon DEF HandshakeFails
    <2>2. HandshakeType'
      BY <2>1, Zenon DEF HInv, HandshakeType
    <2>3. TurnsTaken'
      BY <2>1, Zenon DEF HInv, HandshakeType, TurnsTaken, Finished, Turn
    <2>4. AcceptedOnce'
      <3>1. \A f \in Ends : at'[f] = "none" <=> at[f] = "none"
        BY <2>1, Zenon DEF HInv, HandshakeType
      <3> QED
        BY <2>1, <3>1, StillAccepted, Zenon DEF HInv
    <2> QED
      BY <2>2, <2>3, <2>4, Zenon DEF HInv
  <1>8. ASSUME NEW e \in Ends, NEW r \in {"ok", "error"}, Return(e, r), r = "ok" => at[e] = "finished"
        PROVE  HInv'
    <2>1. UNCHANGED <<pattern, backlog, up, panicked, failed, at, index, enc, dec>>
          /\ result' = [result EXCEPT ![e] = r] /\ accepting' \in {accepting, None}
      BY <1>8, Zenon DEF Return
    <2>2. HandshakeType'
      BY <2>1, Zenon DEF HInv, HandshakeType
    <2>3. TurnsTaken'
      BY <2>1, <1>8, Zenon DEF HInv, HandshakeType, TurnsTaken, Finished, Turn
    <2>4. AcceptedOnce'
      BY <2>1, Zenon DEF HInv, AcceptedOnce
    <2> QED
      BY <2>2, <2>3, <2>4, Zenon DEF HInv
  <1>9. ASSUME NEW e \in Ends, HandshakeReturns(e) \/ Timeout(e) PROVE HInv'
    BY <1>8, <1>9, Zenon DEF HandshakeReturns, Timeout
  <1>10. ASSUME NEW e \in Ends, ReadFrame(e) PROVE HInv'
    <2>1. UNCHANGED <<pattern, backlog, accepting, at, result, index, enc, dec>>
          /\ up' \subseteq Conns /\ failed' \subseteq Ends /\ panicked' \subseteq Ends
      <3>1. CASE DecryptPanics(e)
        <4>1. ProcessOf(e) \subseteq Ends
          BY DEF ProcessOf, Ends
        <4> QED
          BY <3>1, <4>1, Zenon DEF DecryptPanics, HInv, HandshakeType
      <3>2. CASE ReadBuffered(e) \/ ReadPacket(e) \/ ReadFails(e)
        BY <3>2, Zenon DEF ReadBuffered, ReadPacket, ReadFails, HInv, HandshakeType
      <3> QED
        BY <1>10, <3>1, <3>2, Zenon DEF ReadFrame
    <2>2. HandshakeType'
      BY <2>1, Zenon DEF HInv, HandshakeType
    <2>3. TurnsTaken'
      BY <2>1, Zenon DEF HInv, TurnsTaken, Finished, Turn
    <2>4. AcceptedOnce'
      BY <2>1, Zenon DEF HInv, AcceptedOnce
    <2> QED
      BY <2>2, <2>3, <2>4, Zenon DEF HInv
  <1>11. ASSUME NEW e \in Ends, NEW w \in Writers,
                WritePacket(e, w) \/ \E n \in PayLens : Encrypt(e, w, n)
         PROVE  HInv'
    BY <1>1, <1>11, Zenon DEF WritePacket, Encrypt, EncryptPacket
  <1>12. CASE Idle \/ UNCHANGED vars
    BY <1>1, <1>12, Zenon DEF Idle, vars
  <1> QED
    BY <1>2, <1>3, <1>4, <1>5, <1>6, <1>7, <1>9, <1>10, <1>11, <1>12, Zenon DEF Next, HandshakeStep

\* The invariant of the handshake holds at all times.
LEMMA HInvHolds == Spec => []HInv
  BY HInvInit, HInvStep, PTL DEF Spec

\* The handshake's state is well formed, and it is finished exactly after the last
\* message of the pattern, whatever its length and whoever times out.
THEOREM NoiseTypeCorrect == Spec => []TypeOK
  <1>1. HInv => TypeOK
    BY Zenon DEF HInv, HandshakeType, TurnsTaken, TypeOK
  <1> QED
    BY HInvHolds, <1>1, PTL

\* One end wrote and the other read the last message, so their keys match.
LEMMA HInvKeys == HInv => KeysMatch
  <1> SUFFICES ASSUME HInv, NEW e \in Ends, Finished(e), Finished(Other(e))
               PROVE  enc[e] = dec[Other(e)] /\ enc[e] # dec[e]
    BY Zenon DEF KeysMatch
  <1>1. pattern % 2 \in {0, 1} /\ Turn(Other(e)) = 1 - Turn(e) /\ Turn(e) \in {0, 1} /\ Other(e) \in Ends
    BY OtherEnd, Parity, Zenon DEF HInv, HandshakeType
  <1>2. pattern % 2 = Turn(e) <=> pattern % 2 # Turn(Other(e))
    BY <1>1
  <1> QED
    BY <1>1, <1>2, Zenon DEF HInv, TurnsTaken

\* After a handshake of any length, what one end encrypts the other decrypts: the
\* ends take turns, so one wrote and the other read the last message.
THEOREM NoiseKeysMatch == Spec => []KeysMatch
  BY HInvHolds, HInvKeys, PTL

-----------------------------------------------------------------------------
(* What is on the wire: handshake messages that are awaited, and packets in*)
(* the order of their sequence numbers                                     *)

Symbols == [from : Writers, no : Nat, payLen : Nat] \cup [pay : Nat]
Messages == [msg : Nat]
Packets == [len : Nat, key : {"cs1", "cs2"}, seq : Nat, text : Seq(Symbols)]

PacketType ==
    /\ seq \in [Ends -> Nat] /\ previousSeq \in [Ends -> Nat]
    /\ wire \in [Ends -> Seq(Messages \cup Packets)]
    /\ packet \in [Ends -> [Writers -> Packets \cup {None}]]
    /\ DOMAIN wMx = Ends

\* wMx: a packet that was encrypted has the last sequence number until it is written.
WriteLocked ==
    \A e \in Ends : \A w \in Writers :
       packet[e][w] # None => wMx[e] = w /\ packet[e][w].seq = seq[e]

\* Messages of the handshake on the wire are those that the reader still waits for,
\* so there are none once it has finished.
Awaited(e, m) == index[Other(e)] <= m.msg /\ m.msg < index[e] /\ m.msg % 2 = Turn(e)

\* Sequence numbers on the wire are between the reader's and the writer's.
Fresh(e, n) == n < seq[e] \/ (n = seq[e] /\ wMx[e] = None)

InOrder(s) ==
    \A j, k \in 1 .. Len(s) : j < k =>
       /\ s[j] \in Messages /\ s[k] \in Messages => s[j].msg < s[k].msg
       /\ s[j] \in Packets /\ s[k] \in Packets => s[j].seq < s[k].seq

WireOrdered ==
    \A e \in Ends :
       /\ InOrder(wire[e])
       /\ Fresh(e, previousSeq[Other(e)])
       /\ \A k \in 1 .. Len(wire[e]) :
             /\ wire[e][k] \in Messages => Awaited(e, wire[e][k])
             /\ wire[e][k] \in Packets =>
                   previousSeq[Other(e)] < wire[e][k].seq /\ Fresh(e, wire[e][k].seq)

\* An end is ahead of its peer by no more than the message it wrote.
InStep ==
    \A e \in Ends : index[Other(e)] > index[e] =>
       index[Other(e)] = index[e] + 1 /\ index[e] % 2 # Turn(e)

WInv == PacketType /\ WriteLocked /\ WireOrdered /\ InStep /\ NoOldSeq

\* A message of the handshake is no packet.
LEMMA NoPacket == Messages \cap Packets = {}
  <1> SUFFICES ASSUME NEW p \in Messages, p \in Packets PROVE FALSE
    BY Zenon
  <1>1. DOMAIN p = {"msg"}
    BY Zenon DEF Messages
  <1>2. "len" \in DOMAIN p
    BY Zenon DEF Packets
  <1> QED
    BY <1>1, <1>2

\* The wire's order is kept when something later is appended.
LEMMA InOrderAppend ==
    ASSUME NEW s \in Seq(Messages \cup Packets), NEW p \in Messages \cup Packets, InOrder(s),
           \A k \in 1 .. Len(s) :
              /\ s[k] \in Messages /\ p \in Messages => s[k].msg < p.msg
              /\ s[k] \in Packets /\ p \in Packets => s[k].seq < p.seq
    PROVE  InOrder(Append(s, p))
  <1> DEFINE t == Append(s, p)
  <1>1. Len(t) = Len(s) + 1 /\ t[Len(s) + 1] = p /\ \A k \in 1 .. Len(s) : t[k] = s[k]
    OBVIOUS
  <1>2. Len(s) \in Nat
    OBVIOUS
  <1> HIDE DEF t
  <1>3. InOrder(t)
    <2> SUFFICES ASSUME NEW j \in 1 .. Len(t), NEW k \in 1 .. Len(t), j < k
                 PROVE  /\ t[j] \in Messages /\ t[k] \in Messages => t[j].msg < t[k].msg
                        /\ t[j] \in Packets /\ t[k] \in Packets => t[j].seq < t[k].seq
      BY Zenon DEF InOrder
    <2>1. j \in 1 .. Len(s)
      BY <1>1, <1>2
    <2>2. CASE k \in 1 .. Len(s)
      BY <1>1, <2>1, <2>2, Zenon DEF InOrder
    <2>3. CASE k = Len(s) + 1
      BY <1>1, <2>1, <2>3, Zenon
    <2> QED
      BY <1>1, <1>2, <2>2, <2>3
  <1> QED
    BY <1>3, Zenon DEF t

\* The wire's order is kept when the first element is taken, and it was the first.
LEMMA InOrderTail ==
    ASSUME NEW s \in Seq(Messages \cup Packets), s # <<>>, InOrder(s)
    PROVE  /\ Tail(s) \in Seq(Messages \cup Packets) /\ InOrder(Tail(s))
           /\ Head(s) = s[1] /\ 1 \in 1 .. Len(s)
           /\ \A k \in 1 .. Len(Tail(s)) :
                 /\ k + 1 \in 1 .. Len(s) /\ Tail(s)[k] = s[k + 1]
                 /\ Head(s) \in Messages /\ Tail(s)[k] \in Messages => Head(s).msg < Tail(s)[k].msg
                 /\ Head(s) \in Packets /\ Tail(s)[k] \in Packets => Head(s).seq < Tail(s)[k].seq
  <1> DEFINE t == Tail(s)
  <1>1. Len(t) = Len(s) - 1 /\ Len(s) \in Nat \ {0} /\ t \in Seq(Messages \cup Packets)
        /\ Head(s) = s[1] /\ 1 \in 1 .. Len(s)
        /\ \A k \in 1 .. Len(t) : t[k] = s[k + 1]
    OBVIOUS
  <1> HIDE DEF t
  <1>2. \A k \in 1 .. Len(t) : k + 1 \in 1 .. Len(s) /\ 1 < k + 1
    BY <1>1
  <1>3. InOrder(t)
    <2> SUFFICES ASSUME NEW j \in 1 .. Len(t), NEW k \in 1 .. Len(t), j < k
                 PROVE  /\ t[j] \in Messages /\ t[k] \in Messages => t[j].msg < t[k].msg
                        /\ t[j] \in Packets /\ t[k] \in Packets => t[j].seq < t[k].seq
      BY Zenon DEF InOrder
    <2>1. j + 1 < k + 1
      OBVIOUS
    <2> QED
      BY <1>1, <1>2, <2>1, Zenon DEF InOrder
  <1>4. \A k \in 1 .. Len(t) :
           /\ s[1] \in Messages /\ t[k] \in Messages => s[1].msg < t[k].msg
           /\ s[1] \in Packets /\ t[k] \in Packets => s[1].seq < t[k].seq
    BY <1>1, <1>2, Zenon DEF InOrder
  <1> QED
    BY <1>1, <1>2, <1>3, <1>4, Zenon DEF t

\* The initial states satisfy the invariant of the packets.
LEMMA WInvInit == Init => WInv
  <1> SUFFICES ASSUME Init PROVE WInv
    BY Zenon
  <1>1. PacketType /\ NoOldSeq
    BY DEF Init, PacketType, NoOldSeq
  <1>2. WriteLocked
    BY Zenon DEF Init, WriteLocked
  <1>3. WireOrdered
    BY OtherEnd DEF Init, WireOrdered, InOrder, Fresh
  <1>4. InStep
    BY OtherEnd DEF Init, InStep
  <1> QED
    BY <1>1, <1>2, <1>3, <1>4, Zenon DEF WInv

\* A message that is written is awaited by its reader.
LEMMA WInvWriteMessage ==
    ASSUME HInv, WInv, NEW e \in Ends, HandshakeMessage(e)
    PROVE  WInv'
  <1> DEFINE o == Other(e)
             n == index[e]
             m == [msg |-> n]
  <1>1. n \in Nat /\ index[o] \in Nat /\ n % 2 = Turn(e) /\ Turn(e) \in {0, 1} /\ Turn(o) = 1 - Turn(e)
    BY OtherEnd DEF HandshakeMessage, HInv, HandshakeType, TurnsTaken
  <1>2. m \in Messages /\ m.msg = n
    BY <1>1, Zenon DEF Messages
  <1>3. UNCHANGED <<seq, previousSeq, packet, wMx, warned>>
    BY Zenon DEF HandshakeMessage, readVars, writeVars
  <1>4. /\ \A f \in Ends : f # e => index'[f] = index[f] /\ wire'[f] = wire[f]
        /\ index'[e] = n + 1 /\ wire'[e] = Append(wire[e], m)
        /\ wire' = [wire EXCEPT ![e] = Append(@, m)]
    BY Zenon DEF HandshakeMessage, HInv, HandshakeType, WInv, PacketType
  <1>5. wire[e] \in Seq(Messages \cup Packets)
    BY Zenon DEF WInv, PacketType
  <1>6. index[o] <= n
    BY <1>1, OtherEnd DEF WInv, InStep
  <1> HIDE DEF m
  <1>7. PacketType' /\ WriteLocked' /\ NoOldSeq'
    <2>1. wire' \in [Ends -> Seq(Messages \cup Packets)]
      BY <1>2, <1>4, <1>5 DEF WInv, PacketType
    <2> QED
      BY <1>3, <2>1, Zenon DEF WInv, PacketType, WriteLocked, NoOldSeq
  <1>8. InStep'
    <2> SUFFICES ASSUME NEW f \in Ends, index'[Other(f)] > index'[f]
                 PROVE  index'[Other(f)] = index'[f] + 1 /\ index'[f] % 2 # Turn(f)
      BY Zenon DEF InStep, Other, Turn
    <2>1. CASE f = e
      <3>1. Other(f) \in Ends /\ Other(f) # f
        BY OtherEnd, Zenon
      <3> QED
        BY <1>1, <1>4, <1>6, <2>1, <3>1
    <2>2. CASE f = o
      <3>1. Other(f) = e /\ f # e /\ f \in Ends
        BY <2>2, OtherEnd, Zenon
      <3>2. index[f] \in Nat /\ (n < index[f] => FALSE) /\ n + 1 > index[f] /\ (index[f] # n => index[f] < n)
        BY <1>1, <1>6, <2>2
      <3>3. index[f] < n => n = index[f] + 1 /\ index[f] % 2 # Turn(f)
        BY <3>1, Zenon DEF WInv, InStep
      <3>4. index[f] < n => n % 2 = 1 - (index[f] % 2) /\ index[f] % 2 \in {0, 1}
        BY <3>2, <3>3, Parity, Zenon
      <3>5. index[f] = n
        BY <1>1, <2>2, <3>2, <3>3, <3>4
      <3> QED
        BY <1>1, <1>4, <2>2, <3>1, <3>5
    <2>3. CASE f # e /\ f # o
      <3>1. Other(f) # e /\ Other(f) \in Ends
        BY <2>3, OtherEnd, Zenon
      <3> QED
        BY <1>4, <2>3, <3>1, Zenon DEF WInv, InStep
    <2> QED
      BY <2>1, <2>2, <2>3, Zenon
  <1>9. WireOrdered'
    <2> SUFFICES ASSUME NEW f \in Ends
                 PROVE  /\ InOrder(wire'[f])
                        /\ \A k \in 1 .. Len(wire'[f]) :
                             /\ wire'[f][k] \in Messages =>
                                   index'[Other(f)] <= wire'[f][k].msg /\ wire'[f][k].msg < index'[f]
                                   /\ wire'[f][k].msg % 2 = Turn(f)
                             /\ wire'[f][k] \in Packets =>
                                   previousSeq[Other(f)] < wire'[f][k].seq /\ Fresh(f, wire'[f][k].seq)
      BY <1>3, ZenonT(60) DEF WInv, WireOrdered, Awaited, Fresh, InOrder, Other, Turn
    <2>1. CASE f = e
      <3>1. \A k \in 1 .. Len(wire[e]) :
               /\ wire[e][k] \in Messages => index[o] <= wire[e][k].msg /\ wire[e][k].msg < n /\ wire[e][k].msg \in Nat
                                             /\ wire[e][k].msg % 2 = Turn(e)
               /\ wire[e][k] \in Packets => previousSeq[o] < wire[e][k].seq /\ Fresh(e, wire[e][k].seq)
        BY Zenon DEF WInv, WireOrdered, Awaited, Messages
      <3>2. InOrder(wire'[e])
        <4>1. \A k \in 1 .. Len(wire[e]) : wire[e][k] \in Messages => wire[e][k].msg < m.msg
          BY <1>2, <3>1, Zenon
        <4>2. m \notin Packets
          BY <1>2, NoPacket, Zenon
        <4> QED
          BY <1>2, <1>4, <1>5, <4>1, <4>2, InOrderAppend, Zenon DEF WInv, WireOrdered
      <3>3. Len(wire'[e]) = Len(wire[e]) + 1 /\ wire'[e][Len(wire[e]) + 1] = m /\ Len(wire[e]) \in Nat
            /\ \A k \in 1 .. Len(wire[e]) : wire'[e][k] = wire[e][k]
        BY <1>4, <1>5
      <3>4. o # e /\ o \in Ends /\ index'[o] = index[o]
        BY <1>4, OtherEnd, Zenon
      <3>5. ASSUME NEW k \in 1 .. Len(wire'[e])
            PROVE  /\ wire'[e][k] \in Messages =>
                         index[o] <= wire'[e][k].msg /\ wire'[e][k].msg < n + 1 /\ wire'[e][k].msg % 2 = Turn(e)
                   /\ wire'[e][k] \in Packets => previousSeq[o] < wire'[e][k].seq /\ Fresh(e, wire'[e][k].seq)
        <4>1. CASE k = Len(wire[e]) + 1
          BY <1>1, <1>2, <1>6, <3>3, <4>1, NoPacket
        <4>2. CASE k # Len(wire[e]) + 1
          <5>1. k \in 1 .. Len(wire[e])
            BY <3>3, <4>2
          <5>2. wire'[e][k] = wire[e][k]
            BY <3>3, <5>1, Zenon
          <5>3. wire[e][k] \in Messages => wire[e][k].msg < n + 1
            BY <1>1, <3>1, <5>1
          <5> QED
            BY <3>1, <5>1, <5>2, <5>3, Zenon
        <4> QED
          BY <4>1, <4>2, Zenon
      <3> QED
        BY <1>4, <2>1, <3>2, <3>4, <3>5, Zenon
    <2>2. CASE f = o
      <3>1. Other(f) = e /\ f # e /\ f \in Ends
        BY <2>2, OtherEnd, Zenon
      <3>2. \A k \in 1 .. Len(wire[f]) :
               wire[f][k] \in Messages => n + 1 <= wire[f][k].msg /\ wire[f][k].msg < index[f] /\ wire[f][k].msg % 2 = Turn(f)
        <4> SUFFICES ASSUME NEW k \in 1 .. Len(wire[f]), wire[f][k] \in Messages
                     PROVE  n + 1 <= wire[f][k].msg /\ wire[f][k].msg < index[f] /\ wire[f][k].msg % 2 = Turn(f)
          BY Zenon
        <4>1. n <= wire[f][k].msg /\ wire[f][k].msg < index[f] /\ wire[f][k].msg % 2 = Turn(f) /\ wire[f][k].msg \in Nat
          BY <3>1, Zenon DEF WInv, WireOrdered, Awaited, Messages
        <4>2. wire[f][k].msg # n
          BY <1>1, <2>2, <4>1
        <4> QED
          BY <1>1, <4>1, <4>2
      <3> QED
        BY <1>4, <3>1, <3>2, Zenon DEF WInv, WireOrdered
    <2>3. CASE f # e /\ f # o
      <3>1. Other(f) # e /\ Other(f) \in Ends
        BY <2>3, OtherEnd, Zenon
      <3> QED
        BY <1>4, <2>3, <3>1, Zenon DEF WInv, WireOrdered, Awaited
    <2> QED
      BY <2>1, <2>2, <2>3, Zenon
  <1> QED
    BY <1>7, <1>8, <1>9, Zenon DEF WInv

\* Once a message was read, the reader waits for the later ones only.
LEMMA WInvReadMessage ==
    ASSUME HInv, WInv, NEW e \in Ends, ProcessMessage(e)
    PROVE  WInv'
  <1> DEFINE o == Other(e)
             n == index[e]
             s == wire[o]
  <1>1. o \in Ends /\ o # e /\ Other(o) = e /\ n \in Nat /\ index[o] \in Nat
    BY OtherEnd DEF HInv, HandshakeType
  <1>2. s \in Seq(Messages \cup Packets) /\ s # <<>> /\ Head(s) \in Messages /\ Head(s).msg = n /\ InOrder(s)
    <2>1. Head(s) = [msg |-> n] /\ s # <<>>
      BY Zenon DEF ProcessMessage
    <2> QED
      BY <1>1, <2>1 DEF WInv, PacketType, WireOrdered, Messages
  <1>3. UNCHANGED <<seq, previousSeq, packet, wMx, warned>>
    BY Zenon DEF ProcessMessage, readVars, writeVars
  <1>4. /\ \A f \in Ends : f # e => index'[f] = index[f]
        /\ \A f \in Ends : f # o => wire'[f] = wire[f]
        /\ index'[e] = n + 1 /\ wire'[o] = Tail(s) /\ wire' = [wire EXCEPT ![o] = Tail(s)]
    BY <1>1, Zenon DEF ProcessMessage, HInv, HandshakeType, WInv, PacketType
  <1>5. /\ Tail(s) \in Seq(Messages \cup Packets) /\ InOrder(Tail(s)) /\ Head(s) = s[1] /\ 1 \in 1 .. Len(s)
        /\ \A k \in 1 .. Len(Tail(s)) :
              /\ k + 1 \in 1 .. Len(s) /\ Tail(s)[k] = s[k + 1]
              /\ Tail(s)[k] \in Messages => n < Tail(s)[k].msg
    BY <1>2, InOrderTail, Zenon
  <1>6. n < index[o]
    BY <1>1, <1>2, <1>5, Zenon DEF WInv, WireOrdered, Awaited
  <1>7. PacketType' /\ WriteLocked' /\ NoOldSeq'
    <2>1. wire' \in [Ends -> Seq(Messages \cup Packets)]
      BY <1>1, <1>4, <1>5, Zenon DEF WInv, PacketType
    <2> QED
      BY <1>3, <2>1, Zenon DEF WInv, PacketType, WriteLocked, NoOldSeq
  <1>8. InStep'
    <2> SUFFICES ASSUME NEW f \in Ends, index'[Other(f)] > index'[f]
                 PROVE  index'[Other(f)] = index'[f] + 1 /\ index'[f] % 2 # Turn(f)
      BY Zenon DEF InStep, Other, Turn
    <2>1. index[o] = n + 1
      BY <1>1, <1>6, Zenon DEF WInv, InStep
    <2>2. f # e /\ f # o
      BY <1>1, <1>4, <2>1
    <2>3. Other(f) # e /\ Other(f) \in Ends
      BY <1>1, <2>2, OtherEnd, Zenon
    <2> QED
      BY <1>4, <2>2, <2>3, Zenon DEF WInv, InStep
  <1>9. WireOrdered'
    <2> SUFFICES ASSUME NEW f \in Ends
                 PROVE  /\ InOrder(wire'[f])
                        /\ \A k \in 1 .. Len(wire'[f]) :
                             /\ wire'[f][k] \in Messages =>
                                   index'[Other(f)] <= wire'[f][k].msg /\ wire'[f][k].msg < index'[f]
                                   /\ wire'[f][k].msg % 2 = Turn(f)
                             /\ wire'[f][k] \in Packets =>
                                   previousSeq[Other(f)] < wire'[f][k].seq /\ Fresh(f, wire'[f][k].seq)
      BY <1>3, ZenonT(60) DEF WInv, WireOrdered, Awaited, Fresh, InOrder, Other, Turn
    <2>1. CASE f = o
      <3>1. ASSUME NEW k \in 1 .. Len(Tail(s))
            PROVE  /\ Tail(s)[k] \in Messages =>
                         n + 1 <= Tail(s)[k].msg /\ Tail(s)[k].msg < index[o] /\ Tail(s)[k].msg % 2 = Turn(o)
                   /\ Tail(s)[k] \in Packets => previousSeq[e] < Tail(s)[k].seq /\ Fresh(o, Tail(s)[k].seq)
        <4> DEFINE p == Tail(s)[k]
        <4>1. k + 1 \in 1 .. Len(s) /\ p = s[k + 1] /\ (p \in Messages => n < p.msg /\ p.msg \in Nat)
          BY <1>5, Zenon DEF Messages
        <4>2. /\ p \in Messages => p.msg < index[o] /\ p.msg % 2 = Turn(o)
              /\ p \in Packets => previousSeq[e] < p.seq /\ Fresh(o, p.seq)
          BY <1>1, <4>1, Zenon DEF WInv, WireOrdered, Awaited
        <4>3. p \in Messages => n + 1 <= p.msg
          BY <1>1, <4>1
        <4> HIDE DEF p
        <4>4. /\ p \in Messages => n + 1 <= p.msg /\ p.msg < index[o] /\ p.msg % 2 = Turn(o)
              /\ p \in Packets => previousSeq[e] < p.seq /\ Fresh(o, p.seq)
          BY <4>2, <4>3, Zenon
        <4> QED
          BY <4>4, Zenon DEF p
      <3> QED
        BY <1>1, <1>4, <1>5, <2>1, <3>1
    <2>2. CASE f = e
      <3>1. index'[o] = index[o] /\ wire'[e] = wire[e] /\ index'[e] = n + 1
        BY <1>1, <1>4, Zenon
      <3>2. \A k \in 1 .. Len(wire[e]) : wire[e][k] \in Messages =>
               index[o] <= wire[e][k].msg /\ wire[e][k].msg < n + 1 /\ wire[e][k].msg % 2 = Turn(e)
        BY <1>1 DEF WInv, WireOrdered, Awaited, Messages
      <3> QED
        BY <2>2, <3>1, <3>2, Zenon DEF WInv, WireOrdered
    <2>3. CASE f # e /\ f # o
      <3>1. Other(f) # e /\ Other(f) \in Ends
        BY <2>3, OtherEnd, Zenon
      <3> QED
        BY <1>4, <2>3, <3>1, Zenon DEF WInv, WireOrdered, Awaited
    <2> QED
      BY <2>1, <2>2, <2>3, Zenon
  <1> QED
    BY <1>7, <1>8, <1>9, Zenon DEF WInv

\* A packet gets the next sequence number and nobody else may write before it.
LEMMA WInvEncrypt ==
    ASSUME HInv, WInv, NEW e \in Ends, NEW w \in Writers, NEW n \in PayLens, Encrypt(e, w, n)
    PROVE  WInv'
  <1> USE NoiseAssumption
  <1> DEFINE p == Packet(e, MakeFrame(e, w, n))
  <1>1. seq[e] \in Nat /\ n \in Nat /\ n % LenMod \in Nat
    BY DEF WInv, PacketType
  <1>2. MakeFrame(e, w, n) \in Seq(Symbols)
    BY <1>1 DEF MakeFrame, Symbols
  <1>3. enc[e] \in {"cs1", "cs2"}
    BY Zenon DEF HInv, TurnsTaken, Encrypt, EncryptPacket
  <1>4. p \in Packets /\ p.seq = seq[e] + 1
    <2> DEFINE t == MakeFrame(e, w, n)
    <2>1. (Len(t) + Overhead) % LenMod \in Nat
      BY <1>2
    <2> HIDE DEF t
    <2> QED
      BY <1>1, <1>2, <1>3, <2>1 DEF Packet, Packets, t
  <1>5. /\ UNCHANGED <<wire, index, previousSeq, warned>>
        /\ seq' = [seq EXCEPT ![e] = @ + 1] /\ packet' = [packet EXCEPT ![e][w] = p]
        /\ wMx' = [wMx EXCEPT ![e] = w] /\ wMx[e] = None
    BY Zenon DEF Encrypt, EncryptPacket, lisVars, hsVars, readVars
  <1> HIDE DEF p
  <1>6. PacketType' /\ NoOldSeq' /\ InStep'
    <2>1. PacketType'
      BY <1>4, <1>5 DEF WInv, PacketType
    <2> QED
      BY <1>5, <2>1, Zenon DEF WInv, NoOldSeq, InStep, Other, Turn
  <1>7. WriteLocked'
    <2>1. \A v \in Writers : packet[e][v] = None
      BY <1>5, Zenon DEF WInv, WriteLocked
    <2>2. \A v \in Writers : v # w => packet'[e][v] = None
      BY <1>5, <2>1, Zenon DEF WInv, PacketType
    <2>3. packet'[e][w] = p /\ wMx'[e] = w /\ seq'[e] = seq[e] + 1
      BY <1>5, Zenon DEF WInv, PacketType
    <2>4. \A f \in Ends : f # e => packet'[f] = packet[f] /\ wMx'[f] = wMx[f] /\ seq'[f] = seq[f]
      BY <1>5, Zenon DEF WInv, PacketType
    <2> QED
      BY <1>4, <2>2, <2>3, <2>4 DEF WInv, WriteLocked
  <1>8. WireOrdered'
    <2> DEFINE Fr(f, x) == x < seq'[f] \/ (x = seq'[f] /\ wMx'[f] = None)
    <2>1. ASSUME NEW f \in Ends, NEW x \in Nat, Fresh(f, x) PROVE Fr(f, x)
      <3>1. CASE f = e
        <4>1. seq'[f] = seq[f] + 1 /\ x <= seq[f] /\ seq[f] \in Nat
          BY <1>1, <1>5, <2>1, <3>1 DEF WInv, PacketType, Fresh
        <4>2. x < seq'[f]
          BY <4>1
        <4> QED
          BY <4>2, Zenon
      <3>2. CASE f # e
        <4>1. seq'[f] = seq[f] /\ wMx'[f] = wMx[f]
          BY <1>5, <3>2, Zenon DEF WInv, PacketType
        <4> QED
          BY <2>1, <4>1, Zenon DEF Fresh
      <3> QED
        BY <3>1, <3>2, Zenon
    <2> SUFFICES ASSUME NEW f \in Ends
                 PROVE  /\ Fr(f, previousSeq[Other(f)])
                        /\ \A k \in 1 .. Len(wire[f]) : wire[f][k] \in Packets => Fr(f, wire[f][k].seq)
      <3>1. \A f \in Ends : \A k \in 1 .. Len(wire[f]) :
               wire[f][k] \in Packets => previousSeq[Other(f)] < wire[f][k].seq
        BY Zenon DEF WInv, WireOrdered
      <3>2. \A f \in Ends : \A k \in 1 .. Len(wire[f]) : wire[f][k] \in Messages => Awaited(f, wire[f][k])
        BY Zenon DEF WInv, WireOrdered
      <3>3. \A f \in Ends : InOrder(wire[f])
        BY Zenon DEF WInv, WireOrdered
      <3> QED
        BY ZenonT(60), <1>5, <3>1, <3>2, <3>3 DEF WireOrdered, Awaited, Fresh, InOrder, Other, Turn
    <2>2. previousSeq[Other(f)] \in Nat /\ Fresh(f, previousSeq[Other(f)])
      BY OtherEnd, Zenon DEF WInv, PacketType, WireOrdered
    <2>3. ASSUME NEW k \in 1 .. Len(wire[f]), wire[f][k] \in Packets
          PROVE  wire[f][k].seq \in Nat /\ Fresh(f, wire[f][k].seq)
      BY <2>3, Zenon DEF WInv, WireOrdered, Packets
    <2> HIDE DEF Fr
    <2> QED
      BY <2>1, <2>2, <2>3, Zenon
  <1> QED
    BY <1>6, <1>7, <1>8, Zenon DEF WInv

\* A packet is written while it is the last that was encrypted.
LEMMA WInvWritePacket ==
    ASSUME HInv, WInv, NEW e \in Ends, NEW w \in Writers, WritePacket(e, w)
    PROVE  WInv'
  <1> USE NoiseAssumption
  <1> DEFINE p == packet[e][w]
             o == Other(e)
  <1>1. p \in Packets /\ p \notin Messages /\ p.seq = seq[e] /\ wMx[e] # None /\ seq[e] \in Nat
    BY NoPacket DEF WritePacket, WInv, PacketType, WriteLocked
  <1>2. wire[e] \in Seq(Messages \cup Packets) /\ o \in Ends /\ previousSeq[o] \in Nat
    BY OtherEnd, Zenon DEF WInv, PacketType
  <1>3. /\ UNCHANGED <<index, previousSeq, seq, warned>>
        /\ wire' = [wire EXCEPT ![e] = IF e[1] \in up THEN Append(@, p) ELSE @]
        /\ packet' = [packet EXCEPT ![e][w] = None] /\ wMx' = [wMx EXCEPT ![e] = None]
    BY Zenon DEF WritePacket, lisVars, hsVars, readVars
  <1> HIDE DEF p
  <1>4. /\ \A f \in Ends : f # e => wire'[f] = wire[f] /\ wMx'[f] = wMx[f] /\ packet'[f] = packet[f]
        /\ wire'[e] = IF e[1] \in up THEN Append(wire[e], p) ELSE wire[e]
        /\ wMx'[e] = None /\ \A v \in Writers : packet'[e][v] = None \/ (v # w /\ packet'[e][v] = packet[e][v])
    BY <1>3, Zenon DEF WInv, PacketType
  <1>5. PacketType' /\ NoOldSeq' /\ InStep'
    <2>1. wire' \in [Ends -> Seq(Messages \cup Packets)]
      BY <1>1, <1>2, <1>3 DEF WInv, PacketType
    <2>2. PacketType'
      BY <1>3, <2>1, Zenon DEF WInv, PacketType
    <2> QED
      BY <1>3, <2>2, Zenon DEF WInv, NoOldSeq, InStep, Other, Turn
  <1>6. WriteLocked'
    <2>1. \A v \in Writers : v # w => packet[e][v] = None
      BY DEF WritePacket, WInv, WriteLocked
    <2>2. \A v \in Writers : packet'[e][v] = None
      BY <1>4, <2>1, Zenon
    <2> QED
      BY <1>3, <1>4, <2>2 DEF WInv, WriteLocked
  <1>7. ASSUME NEW k \in 1 .. Len(wire[e])
        PROVE  /\ wire[e][k] \in Messages => Awaited(e, wire[e][k])
               /\ wire[e][k] \in Packets =>
                     previousSeq[o] < wire[e][k].seq /\ wire[e][k].seq < p.seq
    <2>1. /\ wire[e][k] \in Messages => Awaited(e, wire[e][k])
          /\ wire[e][k] \in Packets => previousSeq[o] < wire[e][k].seq /\ Fresh(e, wire[e][k].seq)
      BY Zenon DEF WInv, WireOrdered
    <2>2. Fresh(e, wire[e][k].seq) => wire[e][k].seq < p.seq
      BY <1>1, Zenon DEF Fresh
    <2> QED
      BY <2>1, <2>2, Zenon
  <1>8. previousSeq[o] < seq[e]
    BY <1>1, Zenon DEF WInv, WireOrdered, Fresh
  <1>9. WireOrdered'
    <2> SUFFICES ASSUME NEW f \in Ends
                 PROVE  /\ InOrder(wire'[f])
                        /\ previousSeq[Other(f)] < seq[f] \/ (previousSeq[Other(f)] = seq[f] /\ wMx'[f] = None)
                        /\ \A k \in 1 .. Len(wire'[f]) :
                             /\ wire'[f][k] \in Messages => Awaited(f, wire'[f][k])
                             /\ wire'[f][k] \in Packets =>
                                   /\ previousSeq[Other(f)] < wire'[f][k].seq
                                   /\ wire'[f][k].seq < seq[f] \/ (wire'[f][k].seq = seq[f] /\ wMx'[f] = None)
      <3>1. (\A f \in Ends : InOrder(wire[f]))' <=> \A f \in Ends : InOrder(wire'[f])
        BY Zenon DEF InOrder
      <3>2. \A f \in Ends : \A k \in 1 .. Len(wire'[f]) : Awaited(f, wire[f][k])' <=> Awaited(f, wire'[f][k])
        BY <1>3, Zenon DEF Awaited, Other, Turn
      <3> QED
        BY <1>3, <3>1, <3>2, ZenonT(60) DEF WireOrdered, Fresh, Other
    <2>1. CASE f # e
      <3>1. wire'[f] = wire[f] /\ wMx'[f] = wMx[f]
        BY <1>4, <2>1, Zenon
      <3>2. InOrder(wire[f]) /\ Fresh(f, previousSeq[Other(f)])
            /\ \A k \in 1 .. Len(wire[f]) :
                  /\ wire[f][k] \in Messages => Awaited(f, wire[f][k])
                  /\ wire[f][k] \in Packets =>
                        previousSeq[Other(f)] < wire[f][k].seq /\ Fresh(f, wire[f][k].seq)
        BY Zenon DEF WInv, WireOrdered
      <3> QED
        BY <3>1, <3>2, Zenon DEF Fresh
    <2>2. CASE f = e /\ e[1] \notin up
      <3>1. wire'[f] = wire[e] /\ wMx'[f] = None
        BY <1>4, <2>2, Zenon
      <3>2. InOrder(wire[e])
        BY Zenon DEF WInv, WireOrdered
      <3>3. \A k \in 1 .. Len(wire[e]) : wire[e][k] \in Packets => wire[e][k].seq < seq[e]
        BY <1>1, <1>7, Zenon
      <3> QED
        BY <1>7, <1>8, <2>2, <3>1, <3>2, <3>3, Zenon
    <2>3. CASE f = e /\ e[1] \in up
      <3>1. wire'[e] = Append(wire[e], p) /\ wMx'[e] = None
        BY <1>4, <2>3, Zenon
      <3>2. InOrder(wire'[e])
        BY <1>1, <1>2, <1>7, <3>1, InOrderAppend, Zenon DEF WInv, WireOrdered
      <3>3. Len(wire'[e]) = Len(wire[e]) + 1 /\ wire'[e][Len(wire[e]) + 1] = p /\ Len(wire[e]) \in Nat
            /\ \A k \in 1 .. Len(wire[e]) : wire'[e][k] = wire[e][k]
        BY <1>2, <3>1
      <3>4. ASSUME NEW k \in 1 .. Len(wire'[e])
            PROVE  /\ wire'[e][k] \in Messages => Awaited(e, wire'[e][k])
                   /\ wire'[e][k] \in Packets =>
                         /\ previousSeq[o] < wire'[e][k].seq
                         /\ wire'[e][k].seq < seq[e] \/ wire'[e][k].seq = seq[e]
        <4>1. CASE k = Len(wire[e]) + 1
          BY <1>1, <1>8, <3>3, <4>1, Zenon
        <4>2. CASE k # Len(wire[e]) + 1
          <5>1. k \in 1 .. Len(wire[e]) /\ wire'[e][k] = wire[e][k]
            BY <3>3, <4>2
          <5>2. wire[e][k] \in Packets => wire[e][k].seq < seq[e]
            BY <1>1, <1>7, <5>1, Zenon
          <5> QED
            BY <1>7, <5>1, <5>2, Zenon
        <4> QED
          BY <4>1, <4>2, Zenon
      <3> QED
        BY <1>8, <2>3, <3>1, <3>2, <3>4, Zenon
    <2> QED
      BY <2>1, <2>2, <2>3, Zenon
  <1> QED
    BY <1>5, <1>6, <1>9, Zenon DEF WInv

\* Where a reader has finished its handshake, packets are all that is on the wire.
LEMMA PacketNext ==
    ASSUME HInv, WInv, NEW e \in Ends, result[e] = "ok", wire[Other(e)] # <<>>
    PROVE  Head(wire[Other(e)]) \in Packets /\ Head(wire[Other(e)]) = wire[Other(e)][1]
  <1> DEFINE o == Other(e)
             s == wire[o]
             p == Head(s)
  <1>1. o \in Ends /\ o # e /\ Other(o) = e /\ s # <<>> /\ s \in Seq(Messages \cup Packets)
    BY OtherEnd, Zenon DEF WInv, PacketType
  <1>2. p = s[1] /\ 1 \in 1 .. Len(s)
    BY <1>1
  <1>3. index[e] = pattern /\ index[o] <= pattern /\ pattern \in Nat /\ index[o] \in Nat
    BY <1>1 DEF HInv, HandshakeType, TurnsTaken, Finished
  <1>4. p \in Messages => index[e] <= p.msg /\ p.msg < index[o] /\ p.msg \in Nat
    BY <1>1, <1>2, Zenon DEF WInv, WireOrdered, Awaited, Messages
  <1>5. p \notin Messages
    BY <1>3, <1>4
  <1>6. p \in Messages \cup Packets
    BY <1>1, <1>2
  <1> QED
    BY <1>2, <1>5, <1>6, Zenon

\* A reader that has finished its handshake takes a packet with a new number.
LEMMA WInvReadPacket ==
    ASSUME HInv, WInv, NEW e \in Ends, ReadPacket(e)
    PROVE  WInv'
  <1> DEFINE o == Other(e)
             s == wire[o]
             p == Head(s)
  <1>1. o \in Ends /\ o # e /\ Other(o) = e /\ s # <<>> /\ s \in Seq(Messages \cup Packets) /\ InOrder(s)
    BY OtherEnd, Zenon DEF ReadPacket, WInv, PacketType, WireOrdered
  <1>2. /\ Tail(s) \in Seq(Messages \cup Packets) /\ InOrder(Tail(s)) /\ p = s[1] /\ 1 \in 1 .. Len(s)
        /\ \A k \in 1 .. Len(Tail(s)) :
              /\ k + 1 \in 1 .. Len(s) /\ Tail(s)[k] = s[k + 1]
              /\ p \in Packets /\ Tail(s)[k] \in Packets => p.seq < Tail(s)[k].seq
    BY <1>1, InOrderTail, Zenon
  <1>3. p \in Packets /\ p.seq \in Nat
    <2>1. p \in Packets
      BY PacketNext, Zenon DEF ReadPacket, Reading
    <2> QED
      BY <2>1, Zenon DEF Packets
  <1>4. previousSeq[e] < p.seq /\ previousSeq[e] \in Nat /\ Fresh(o, p.seq)
    BY <1>1, <1>2, <1>3, Zenon DEF WInv, PacketType, WireOrdered
  <1>5. /\ UNCHANGED <<index, seq, packet, wMx>>
        /\ wire' = [wire EXCEPT ![o] = Tail(s)]
        /\ previousSeq' = [previousSeq EXCEPT ![e] = IF p.seq <= @ THEN @ ELSE p.seq]
        /\ warned' = IF p.seq <= previousSeq[e] THEN warned \cup {e} ELSE warned
    BY Zenon DEF ReadPacket, NoteSeq, lisVars, hsVars, writeVars
  <1> HIDE DEF p
  <1>6. warned' = warned /\ previousSeq' = [previousSeq EXCEPT ![e] = p.seq]
    <2>1. ~ (p.seq <= previousSeq[e])
      BY <1>3, <1>4
    <2> QED
      BY <1>5, <2>1, Zenon
  <1>7. /\ \A f \in Ends : f # o => wire'[f] = wire[f]
        /\ \A f \in Ends : f # e => previousSeq'[f] = previousSeq[f]
        /\ wire'[o] = Tail(s) /\ previousSeq'[e] = p.seq
    BY <1>1, <1>5, <1>6, Zenon DEF WInv, PacketType
  <1>8. PacketType' /\ WriteLocked' /\ NoOldSeq' /\ InStep'
    <2>1. wire' \in [Ends -> Seq(Messages \cup Packets)]
      BY <1>1, <1>2, <1>5, Zenon DEF WInv, PacketType
    <2>2. PacketType'
      BY <1>3, <1>5, <1>6, <2>1, Zenon DEF WInv, PacketType
    <2> QED
      BY <1>5, <1>6, <2>2, Zenon DEF WInv, WriteLocked, NoOldSeq, InStep, Other, Turn
  <1>9. WireOrdered'
    <2> SUFFICES ASSUME NEW f \in Ends
                 PROVE  /\ InOrder(wire'[f]) /\ Fresh(f, previousSeq'[Other(f)])
                        /\ \A k \in 1 .. Len(wire'[f]) :
                             /\ wire'[f][k] \in Messages => Awaited(f, wire'[f][k])
                             /\ wire'[f][k] \in Packets =>
                                   previousSeq'[Other(f)] < wire'[f][k].seq /\ Fresh(f, wire'[f][k].seq)
      <3>1. (\A f \in Ends : InOrder(wire[f]))' <=> \A f \in Ends : InOrder(wire'[f])
        BY Zenon DEF InOrder
      <3>2. \A f \in Ends : \A k \in 1 .. Len(wire'[f]) : Awaited(f, wire[f][k])' <=> Awaited(f, wire'[f][k])
        BY <1>5, Zenon DEF Awaited, Other, Turn
      <3> QED
        BY <1>5, <3>1, <3>2, ZenonT(60) DEF WireOrdered, Fresh, Other
    <2>1. CASE f = o
      <3>1. ASSUME NEW k \in 1 .. Len(Tail(s))
            PROVE  /\ Tail(s)[k] \in Messages => Awaited(o, Tail(s)[k])
                   /\ Tail(s)[k] \in Packets => p.seq < Tail(s)[k].seq /\ Fresh(o, Tail(s)[k].seq)
        <4>1. k + 1 \in 1 .. Len(s) /\ Tail(s)[k] = s[k + 1]
          BY <1>2, Zenon
        <4>2. /\ s[k + 1] \in Messages => Awaited(o, s[k + 1])
              /\ s[k + 1] \in Packets => Fresh(o, s[k + 1].seq)
          BY <1>1, <4>1, Zenon DEF WInv, WireOrdered
        <4> QED
          BY <1>2, <1>3, <4>1, <4>2, Zenon
      <3> QED
        BY <1>1, <1>2, <1>4, <1>7, <2>1, <3>1, Zenon
    <2>2. CASE f # o
      <3>1. Other(f) # e /\ Other(f) \in Ends
        BY <1>1, <2>2, OtherEnd, Zenon
      <3> QED
        BY <1>7, <2>2, <3>1, Zenon DEF WInv, WireOrdered
    <2> QED
      BY <2>1, <2>2, Zenon
  <1> QED
    BY <1>8, <1>9, Zenon DEF WInv

\* Every step keeps the invariant of the packets.
LEMMA WInvStep == HInv /\ WInv /\ [Next]_vars => WInv'
  <1> SUFFICES ASSUME HInv, WInv, [Next]_vars PROVE WInv'
    BY Zenon
  <1> USE DEF lisVars, hsVars, readVars, writeVars
  <1>1. CASE UNCHANGED <<index, wire, seq, previousSeq, packet, wMx, warned>>
    <2>1. PacketType' /\ WriteLocked' /\ NoOldSeq'
      BY <1>1, Zenon DEF WInv, PacketType, WriteLocked, NoOldSeq
    <2>2. InStep'
      BY <1>1, Zenon DEF WInv, InStep, Other, Turn
    <2>3. WireOrdered'
      <3>1. (\A f \in Ends : InOrder(wire[f]))'
        BY <1>1, Zenon DEF WInv, WireOrdered, InOrder
      <3>2. (\A f \in Ends : Fresh(f, previousSeq[Other(f)]))'
        BY <1>1, Zenon DEF WInv, WireOrdered, Fresh, Other
      <3>3. (\A f \in Ends : \A k \in 1 .. Len(wire[f]) : wire[f][k] \in Messages => Awaited(f, wire[f][k]))'
        BY <1>1, Zenon DEF WInv, WireOrdered, Awaited, Other, Turn
      <3>4. (\A f \in Ends : \A k \in 1 .. Len(wire[f]) : wire[f][k] \in Packets =>
               previousSeq[Other(f)] < wire[f][k].seq /\ Fresh(f, wire[f][k].seq))'
        BY <1>1, Zenon DEF WInv, WireOrdered, Fresh, Other
      <3> QED
        BY <3>1, <3>2, <3>3, <3>4, Zenon DEF WireOrdered
    <2> QED
      BY <2>1, <2>2, <2>3, Zenon DEF WInv
  <1>2. CASE (\E c \in Conns : Connect(c) \/ Hangup(c)) \/ Accept \/ Idle \/ UNCHANGED vars
    BY <1>1, <1>2, Zenon DEF Connect, Hangup, Accept, Idle, vars
  <1>3. ASSUME NEW e \in Ends, HandshakeFails(e) \/ HandshakeReturns(e) \/ Timeout(e) PROVE WInv'
    BY <1>1, <1>3, Zenon DEF HandshakeFails, HandshakeReturns, Timeout, Return
  <1>4. ASSUME NEW e \in Ends, ReadBuffered(e) \/ DecryptPanics(e) \/ ReadFails(e) PROVE WInv'
    BY <1>1, <1>4, Zenon DEF ReadBuffered, DecryptPanics, ReadFails
  <1> QED
    BY <1>2, <1>3, <1>4, WInvWriteMessage, WInvReadMessage, WInvEncrypt, WInvWritePacket, WInvReadPacket, Zenon
    DEF Next, HandshakeStep, ReadFrame

\* The invariant of the packets holds at all times.
LEMMA WInvHolds == Spec => []WInv
  BY HInvHolds, WInvInit, WInvStep, PTL DEF Spec

\* DecryptUnsafe never meets an old sequence number: wMx keeps packets in the order in
\* which they were encrypted, for any number of writers and frames.
THEOREM NoiseNoOldSeq == Spec => []NoOldSeq
  BY WInvHolds, PTL DEF WInv

-----------------------------------------------------------------------------
(* The lengths of frames                                                   *)

Exact(f) == Len(f) \in Nat \ {0} /\ f[1].payLen = Len(f) - 1

\* Frames have the length that their header claims, from MakeFrame on.
FInv ==
    /\ \A e \in Ends : \A w \in Writers : packet[e][w] # None => Exact(packet[e][w].text)
    /\ sent \in [Ends -> Seq(Seq(Symbols))]
    /\ \A e \in Ends : \A k \in 1 .. Len(sent[e]) : Exact(sent[e][k])

\* What passes the limit of Conn.Write has the length of its payload in its header.
LEMMA FitsExact ==
    ASSUME WInv, NEW e \in Ends, NEW w \in Writers, NEW n \in PayLens, Fits(MakeFrame(e, w, n))
    PROVE  Exact(MakeFrame(e, w, n))
  <1> USE NoiseAssumption
  <1> DEFINE h == [from |-> w, no |-> seq[e] + 1, payLen |-> n % LenMod]
             b == [k \in 1 .. n |-> [pay |-> k]]
             f == MakeFrame(e, w, n)
  <1>1. n \in Nat /\ LenMod \in Nat /\ seq[e] \in Nat /\ n % LenMod \in Nat
    BY DEF WInv, PacketType
  <1>2. h \in Symbols /\ h.payLen = n % LenMod
    BY <1>1 DEF Symbols
  <1>3. b \in Seq(Symbols) /\ Len(b) = n
    BY <1>1 DEF Symbols
  <1>4. f = <<h>> \o b
    BY Zenon DEF MakeFrame
  <1> HIDE DEF h, b, f
  <1>5. Len(f) = n + 1 /\ f[1] = h
    BY <1>1, <1>2, <1>3, <1>4
  <1>6. n + 1 <= LenMod - 1
    BY <1>5, Zenon DEF Fits, f
  <1>7. n % LenMod = n
    BY <1>1, <1>6
  <1>8. Exact(f)
    BY <1>1, <1>2, <1>5, <1>7 DEF Exact
  <1> QED
    BY <1>8, Zenon DEF f

\* Every step keeps the lengths of frames exact.
LEMMA FInvStep == WInv /\ FInv /\ [Next]_vars => FInv'
  <1> SUFFICES ASSUME WInv, FInv, [Next]_vars PROVE FInv'
    BY Zenon
  <1> USE DEF lisVars, hsVars, readVars, writeVars
  <1>1. CASE UNCHANGED <<packet, sent>>
    BY <1>1, Zenon DEF FInv, Exact
  <1>2. CASE (\E c \in Conns : Connect(c) \/ Hangup(c)) \/ Accept \/ Idle \/ UNCHANGED vars
    BY <1>1, <1>2, Zenon DEF Connect, Hangup, Accept, Idle, vars
  <1>3. ASSUME NEW e \in Ends, HandshakeStep(e) \/ HandshakeReturns(e) \/ Timeout(e) PROVE FInv'
    BY <1>1, <1>3, Zenon DEF HandshakeStep, HandshakeMessage, ProcessMessage, HandshakeFails, HandshakeReturns, Timeout, Return
  <1>4. ASSUME NEW e \in Ends, ReadFrame(e) PROVE FInv'
    BY <1>1, <1>4, Zenon DEF ReadFrame, ReadBuffered, ReadPacket, DecryptPanics, ReadFails
  <1>5. ASSUME NEW e \in Ends, NEW w \in Writers, NEW n \in PayLens, Encrypt(e, w, n) PROVE FInv'
    <2> DEFINE p == Packet(e, MakeFrame(e, w, n))
    <2>1. Exact(p.text)
      BY <1>5, FitsExact, Zenon DEF Packet, Encrypt, EncryptPacket
    <2>2. packet' = [packet EXCEPT ![e][w] = p] /\ sent' = sent
      BY <1>5, Zenon DEF Encrypt, EncryptPacket
    <2> HIDE DEF p
    <2>3. \A f \in Ends : \A v \in Writers : packet'[f][v] = p \/ packet'[f][v] = packet[f][v]
      BY <2>2, Zenon DEF WInv, PacketType
    <2> QED
      BY <2>1, <2>2, <2>3 DEF FInv, Exact
  <1>6. ASSUME NEW e \in Ends, NEW w \in Writers, WritePacket(e, w) PROVE FInv'
    <2> DEFINE t == packet[e][w].text
    <2>1. t \in Seq(Symbols) /\ Exact(t)
      BY <1>6 DEF WritePacket, WInv, PacketType, FInv, Packets
    <2>2. /\ packet' = [packet EXCEPT ![e][w] = None]
          /\ sent' = [sent EXCEPT ![e] = IF e[1] \in up THEN Append(@, t) ELSE @]
      BY <1>6, Zenon DEF WritePacket
    <2> HIDE DEF t
    <2>3. \A f \in Ends : \A v \in Writers : packet'[f][v] = None \/ packet'[f][v] = packet[f][v]
      BY <2>2, Zenon DEF WInv, PacketType
    <2>4. sent' \in [Ends -> Seq(Seq(Symbols))]
      BY <2>1, <2>2 DEF FInv
    <2>5. ASSUME NEW f \in Ends, NEW k \in 1 .. Len(sent'[f]) PROVE Exact(sent'[f][k])
      <3>1. sent[f] \in Seq(Seq(Symbols)) /\ sent'[f] \in {sent[f], Append(sent[f], t)}
        BY <2>2, Zenon DEF FInv
      <3>2. sent'[f][k] = t \/ (k \in 1 .. Len(sent[f]) /\ sent'[f][k] = sent[f][k])
        <4>1. CASE sent'[f] = sent[f]
          BY <4>1, Zenon
        <4>2. CASE sent'[f] = Append(sent[f], t)
          <5>1. Len(sent'[f]) = Len(sent[f]) + 1 /\ Len(sent[f]) \in Nat /\ sent'[f][Len(sent[f]) + 1] = t
                /\ \A j \in 1 .. Len(sent[f]) : sent'[f][j] = sent[f][j]
            BY <2>1, <3>1, <4>2
          <5> QED
            BY <5>1
        <4> QED
          BY <3>1, <4>1, <4>2, Zenon
      <3> QED
        BY <2>1, <3>2, Zenon DEF FInv
    <2>6. \A f \in Ends : \A v \in Writers : packet'[f][v] # None => Exact(packet'[f][v].text)
      BY <2>3, Zenon DEF FInv
    <2> QED
      BY <2>4, <2>5, <2>6, Zenon DEF FInv, Exact
  <1> QED
    BY <1>2, <1>3, <1>4, <1>5, <1>6, Zenon DEF Next

\* The lengths of frames are exact at all times.
LEMMA FInvHolds == Spec => []FInv
  <1>1. Init => FInv
    BY DEF Init, FInv
  <1> QED
    BY <1>1, FInvStep, WInvHolds, PTL DEF Spec

\* The length in the header of a frame that was written is that of its payload,
\* whatever lengths are asked for: Conn.Write's limit is tighter than the header's.
THEOREM NoiseFrameLenExact == Spec => []FrameLenExact
  <1>1. FInv => FrameLenExact
    <2> SUFFICES ASSUME FInv, NEW e \in Ends, NEW k \in DOMAIN sent[e]
                 PROVE  Len(sent[e][k]) = sent[e][k][1].payLen + 1
      BY Zenon DEF FrameLenExact
    <2>1. k \in 1 .. Len(sent[e])
      BY DEF FInv
    <2>2. Exact(sent[e][k])
      BY <2>1, Zenon DEF FInv
    <2> QED
      BY <2>2 DEF Exact
  <1> QED
    BY <1>1, FInvHolds, PTL

-----------------------------------------------------------------------------
(* The stream of frames from one end to the other                          *)

\* What a packet says of itself, when it was encrypted with a key.
Sealed(q, key) == q.key = key /\ q.len = (Len(q.text) + Overhead) % LenMod

\* W, the wire: m messages of the handshake, and then the last frames of S, the
\* frames that were sent, in a packet each.
InFlight(S, W, key, m) ==
    /\ Len(W) - m <= Len(S)
    /\ \A j \in 1 .. Len(W) :
          /\ j <= m => W[j] \in Messages
          /\ j > m => /\ W[j] \in Packets /\ Sealed(W[j], key)
                      /\ W[j].text = S[(Len(S) - Len(W)) + j]

\* What a reader that has read R has of the next frame: nothing, or its header in h,
\* and then all of its payload is in the buffer b.
AtHand(R, S, h, b) ==
    \/ h = <<>> /\ b = <<>>
    \/ /\ Len(R) < Len(S) /\ Len(S[Len(R) + 1]) > 1
       /\ h = <<S[Len(R) + 1][1]>> /\ b = Tail(S[Len(R) + 1])

\* The frames that were taken off the wire.
Taken(R, h) == Len(R) + (IF h = <<>> THEN 0 ELSE 1)

\* The frame after those that were read.
Coming(R, S) == S[Len(R) + 1]

Delivered(R, S) == Len(R) <= Len(S) /\ \A k \in 1 .. Len(R) : R[k] = S[k]

\* A reader that has not failed has taken all that is no longer on the wire.
Stream(R, S, W, h, b, key, ok) ==
    /\ Delivered(R, S)
    /\ ok => AtHand(R, S, h, b)
    /\ \E m \in 0 .. Len(W) : /\ InFlight(S, W, key, m)
                              /\ ok => Taken(R, h) + (Len(W) - m) = Len(S)

Texts == Seq(Seq(Symbols))
Wires == Seq(Messages \cup Packets)

LEMMA TextsAppend ==
    ASSUME NEW R \in Texts, NEW f \in Seq(Symbols)
    PROVE  Append(R, f) \in Texts /\ <<>> \in Seq(Symbols)
  BY DEF Texts

\* A message of the handshake goes onto a wire on which no frame was sent yet.
LEMMA StreamPutMessage ==
    ASSUME NEW R \in Texts, NEW S \in Texts, NEW W \in Wires, NEW h, NEW b, NEW key, NEW ok,
           NEW msg \in Messages, NEW k2, S = <<>>, Stream(R, S, W, h, b, key, ok)
    PROVE  Stream(R, S, Append(W, msg), h, b, k2, ok)
  <1> DEFINE V == Append(W, msg)
  <1>1. Len(V) = Len(W) + 1 /\ V[Len(W) + 1] = msg /\ \A j \in 1 .. Len(W) : V[j] = W[j]
    OBVIOUS
  <1>2. Len(S) = 0 /\ Len(W) \in Nat /\ Len(R) \in Nat
    BY DEF Texts, Wires
  <1> HIDE DEF V
  <1>3. PICK m \in 0 .. Len(W) : InFlight(S, W, key, m) /\ (ok => Taken(R, h) + (Len(W) - m) = Len(S))
    BY Zenon DEF Stream
  <1>4. m = Len(W)
    BY <1>2, <1>3 DEF InFlight
  <1>5. \A j \in 1 .. Len(W) : W[j] \in Messages
    BY <1>2, <1>3, <1>4 DEF InFlight
  <1>6. InFlight(S, V, k2, Len(V))
    <2>1. \A j \in 1 .. Len(V) : V[j] \in Messages
      BY <1>1, <1>2, <1>5
    <2> QED
      BY <1>1, <1>2, <2>1 DEF InFlight
  <1>7. Len(V) \in 0 .. Len(V) /\ (ok => Taken(R, h) + (Len(V) - Len(V)) = Len(S))
    BY <1>1, <1>2, <1>3, <1>4 DEF Taken
  <1> QED
    BY <1>6, <1>7, Zenon DEF Stream, V

\* A message is taken off the wire.
LEMMA StreamTakeMessage ==
    ASSUME NEW R \in Texts, NEW S \in Texts, NEW W \in Wires, NEW h, NEW b, NEW key, NEW ok,
           W # <<>>, W[1] \in Messages, Stream(R, S, W, h, b, key, ok)
    PROVE  Stream(R, S, Tail(W), h, b, key, ok)
  <1> DEFINE V == Tail(W)
  <1>1. Len(W) \in Nat /\ Len(W) > 0 /\ Len(V) = Len(W) - 1 /\ \A j \in 1 .. Len(V) : V[j] = W[j + 1]
    BY DEF Wires
  <1>2. Len(S) \in Nat /\ Len(R) \in Nat
    BY DEF Texts
  <1> HIDE DEF V
  <1>3. PICK m \in 0 .. Len(W) : InFlight(S, W, key, m) /\ (ok => Taken(R, h) + (Len(W) - m) = Len(S))
    BY Zenon DEF Stream
  <1>4. m > 0
    BY <1>1, <1>3, NoPacket DEF InFlight
  <1>5. InFlight(S, V, key, m - 1)
    <2>1. Len(V) - (m - 1) <= Len(S)
      BY <1>1, <1>2, <1>3 DEF InFlight
    <2>2. ASSUME NEW j \in 1 .. Len(V)
          PROVE  /\ j <= m - 1 => V[j] \in Messages
                 /\ j > m - 1 => /\ V[j] \in Packets /\ Sealed(V[j], key)
                                 /\ V[j].text = S[(Len(S) - Len(V)) + j]
      <3>1. j + 1 \in 1 .. Len(W) /\ V[j] = W[j + 1] /\ (Len(S) - Len(V)) + j = (Len(S) - Len(W)) + (j + 1)
            /\ (j <= m - 1 <=> j + 1 <= m) /\ (j > m - 1 <=> j + 1 > m)
        BY <1>1, <1>2
      <3> QED
        BY <1>3, <3>1, Zenon DEF InFlight
    <2> QED
      BY <2>1, <2>2, Zenon DEF InFlight
  <1>6. m - 1 \in 0 .. Len(V) /\ (Len(V) - (m - 1)) = (Len(W) - m)
    BY <1>1, <1>4
  <1> QED
    BY <1>3, <1>5, <1>6, Zenon DEF Stream, V

\* A frame is written.
LEMMA StreamPutPacket ==
    ASSUME NEW R \in Texts, NEW S \in Texts, NEW W \in Wires, NEW h, NEW b, NEW key, NEW ok,
           NEW q \in Packets, Sealed(q, key), Stream(R, S, W, h, b, key, ok)
    PROVE  Stream(R, Append(S, q.text), Append(W, q), h, b, key, ok)
  <1> DEFINE V == Append(W, q)
             T == Append(S, q.text)
  <1>1. Len(V) = Len(W) + 1 /\ V[Len(W) + 1] = q /\ \A j \in 1 .. Len(W) : V[j] = W[j]
    BY DEF Wires
  <1>2. Len(T) = Len(S) + 1 /\ T[Len(S) + 1] = q.text /\ \A j \in 1 .. Len(S) : T[j] = S[j]
    BY DEF Texts
  <1>3. Len(S) \in Nat /\ Len(W) \in Nat /\ Len(R) \in Nat
    BY DEF Texts, Wires
  <1> HIDE DEF V, T
  <1>4. PICK m \in 0 .. Len(W) : InFlight(S, W, key, m) /\ (ok => Taken(R, h) + (Len(W) - m) = Len(S))
    BY Zenon DEF Stream
  <1>5. InFlight(T, V, key, m)
    <2>1. Len(V) - m <= Len(T)
      BY <1>1, <1>2, <1>3, <1>4 DEF InFlight
    <2>2. ASSUME NEW j \in 1 .. Len(V)
          PROVE  /\ j <= m => V[j] \in Messages
                 /\ j > m => /\ V[j] \in Packets /\ Sealed(V[j], key)
                             /\ V[j].text = T[(Len(T) - Len(V)) + j]
      <3>1. CASE j = Len(W) + 1
        <4>1. j > m /\ V[j] = q /\ (Len(T) - Len(V)) + j = Len(S) + 1
          BY <1>1, <1>2, <1>3, <3>1
        <4> QED
          BY <1>2, <4>1
      <3>2. CASE j \in 1 .. Len(W)
        <4>1. V[j] = W[j] /\ (Len(T) - Len(V)) + j = (Len(S) - Len(W)) + j
          BY <1>1, <1>2, <1>3, <3>2
        <4>2. j > m => (Len(S) - Len(W)) + j \in 1 .. Len(S)
          BY <1>3, <1>4, <3>2 DEF InFlight
        <4> QED
          BY <1>2, <1>4, <3>2, <4>1, <4>2, Zenon DEF InFlight
      <3> QED
        BY <1>1, <1>3, <3>1, <3>2
    <2> QED
      BY <2>1, <2>2, Zenon DEF InFlight
  <1>6. Delivered(R, T)
    BY <1>2, <1>3 DEF Stream, Delivered
  <1>7. ok => AtHand(R, T, h, b)
    <2>1. Len(R) < Len(S) => Len(R) < Len(T) /\ T[Len(R) + 1] = S[Len(R) + 1]
      BY <1>2, <1>3
    <2> QED
      BY <2>1, Zenon DEF Stream, AtHand
  <1>8. m \in 0 .. Len(V) /\ (ok => Taken(R, h) + (Len(V) - m) = Len(T))
    <2>1. Taken(R, h) \in Nat
      BY <1>3 DEF Taken
    <2>2. Taken(R, h) + (Len(W) - m) = Len(S) => Taken(R, h) + (Len(V) - m) = Len(T)
      BY <1>1, <1>2, <1>3, <2>1
    <2> QED
      BY <1>1, <1>3, <1>4, <2>2
  <1> QED
    BY <1>5, <1>6, <1>7, <1>8, Zenon DEF Stream, V, T

\* What a packet at the head of the wire says of the stream.
PacketFirst(R, S, W, h, key, ok) ==
    /\ InFlight(S, Tail(W), key, 0) /\ Len(Tail(W)) = Len(W) - 1 /\ Len(W) \in Nat \ {0}
    /\ Sealed(W[1], key) /\ W[1].text = S[(Len(S) - Len(W)) + 1]
    /\ Len(W) <= Len(S) /\ (ok => Taken(R, h) + Len(W) = Len(S))

\* The first packet on the wire has the frame after those that were taken.
LEMMA FirstPacket ==
    ASSUME NEW R \in Texts, NEW S \in Texts, NEW W \in Wires, NEW h, NEW b, NEW key, NEW ok,
           W # <<>>, W[1] \in Packets, Stream(R, S, W, h, b, key, ok)
    PROVE  PacketFirst(R, S, W, h, key, ok)
  <1> DEFINE V == Tail(W)
  <1>1. Len(W) \in Nat /\ Len(W) > 0 /\ Len(V) = Len(W) - 1 /\ \A j \in 1 .. Len(V) : V[j] = W[j + 1]
    BY DEF Wires
  <1>2. Len(S) \in Nat /\ Len(R) \in Nat
    BY DEF Texts
  <1> HIDE DEF V
  <1>3. PICK m \in 0 .. Len(W) : InFlight(S, W, key, m) /\ (ok => Taken(R, h) + (Len(W) - m) = Len(S))
    BY Zenon DEF Stream
  <1>4. m = 0
    BY <1>1, <1>3, NoPacket DEF InFlight
  <1>5. /\ Sealed(W[1], key) /\ W[1].text = S[(Len(S) - Len(W)) + 1]
        /\ Len(W) <= Len(S) /\ (ok => Taken(R, h) + Len(W) = Len(S))
    BY <1>1, <1>3, <1>4 DEF InFlight
  <1>6. InFlight(S, V, key, 0)
    <2>1. ASSUME NEW j \in 1 .. Len(V)
          PROVE  V[j] \in Packets /\ Sealed(V[j], key) /\ V[j].text = S[(Len(S) - Len(V)) + j] /\ j > 0
      <3>1. j + 1 \in 1 .. Len(W) /\ V[j] = W[j + 1] /\ (Len(S) - Len(V)) + j = (Len(S) - Len(W)) + (j + 1)
            /\ j + 1 > 0 /\ j > 0
        BY <1>1, <1>2
      <3> QED
        BY <1>3, <1>4, <3>1, Zenon DEF InFlight
    <2> QED
      BY <1>1, <1>2, <1>5, <2>1 DEF InFlight
  <1> QED
    BY <1>1, <1>5, <1>6 DEF V, PacketFirst

\* A packet is lost with the reader that fails on it.
LEMMA StreamDropPacket ==
    ASSUME NEW R \in Texts, NEW S \in Texts, NEW W \in Wires, NEW h, NEW b, NEW key, NEW ok,
           W # <<>>, W[1] \in Packets, Stream(R, S, W, h, b, key, ok)
    PROVE  Stream(R, S, Tail(W), h, b, key, FALSE)
  <1>1. InFlight(S, Tail(W), key, 0) /\ Len(Tail(W)) = Len(W) - 1 /\ Len(W) \in Nat \ {0}
    <2>1. PacketFirst(R, S, W, h, key, ok)
      BY FirstPacket, Zenon
    <2> QED
      BY <2>1, Zenon DEF PacketFirst
  <1>2. 0 \in 0 .. Len(Tail(W))
    BY <1>1
  <1>3. Delivered(R, S)
    BY Zenon DEF Stream
  <1> QED
    BY <1>1, <1>2, <1>3, Zenon DEF Stream

\* A frame of a header only is read, and of another one the header.
LEMMA StreamTakePacket ==
    ASSUME NEW R \in Texts, NEW S \in Texts, NEW W \in Wires, NEW b, NEW key,
           W # <<>>, W[1] \in Packets, Stream(R, S, W, <<>>, b, key, TRUE),
           NEW f, f = W[1].text, Len(f) \in Nat
    PROVE  /\ f = S[Len(R) + 1] /\ Len(R) + 1 \in 1 .. Len(S)
           /\ Stream(Append(R, f), S, Tail(W), <<>>, <<>>, key, TRUE)
           /\ Len(f) > 1 => Stream(R, S, Tail(W), <<f[1]>>, Tail(f), key, TRUE)
  <1> DEFINE V == Tail(W)
             Q == Append(R, f)
  <1>1. /\ InFlight(S, V, key, 0) /\ Len(V) = Len(W) - 1 /\ Len(W) \in Nat \ {0}
        /\ f = S[(Len(S) - Len(W)) + 1] /\ Len(W) <= Len(S) /\ Taken(R, <<>>) + Len(W) = Len(S)
    <2>1. PacketFirst(R, S, W, <<>>, key, TRUE)
      BY FirstPacket, Zenon
    <2> QED
      BY <2>1, Zenon DEF PacketFirst
  <1>2. Len(S) \in Nat /\ Len(R) \in Nat /\ Len(R) + Len(W) = Len(S)
    BY <1>1 DEF Texts, Taken
  <1>3. f = S[Len(R) + 1] /\ Len(R) + 1 \in 1 .. Len(S) /\ Len(R) < Len(S) /\ 0 \in 0 .. Len(V)
        /\ (Len(R) + 1) + (Len(V) - 0) = Len(S)
    <2>1. (Len(S) - Len(W)) + 1 = Len(R) + 1
      BY <1>1, <1>2
    <2> QED
      BY <1>1, <1>2, <2>1
  <1>4. f \in Seq(Symbols)
    BY <1>3 DEF Texts
  <1>5. Len(Q) = Len(R) + 1 /\ Q[Len(R) + 1] = f /\ \A k \in 1 .. Len(R) : Q[k] = R[k]
    BY <1>4 DEF Texts
  <1> HIDE DEF V, Q
  <1>6. Stream(Q, S, V, <<>>, <<>>, key, TRUE)
    <2>1. Delivered(Q, S)
      BY <1>2, <1>3, <1>5 DEF Delivered, Stream
    <2>2. Taken(Q, <<>>) + (Len(V) - 0) = Len(S)
      BY <1>3, <1>5 DEF Taken
    <2> QED
      BY <1>1, <1>3, <2>1, <2>2, Zenon DEF Stream, AtHand
  <1>7. ASSUME Len(f) > 1 PROVE Stream(R, S, V, <<f[1]>>, Tail(f), key, TRUE)
    <2>1. Delivered(R, S) /\ AtHand(R, S, <<f[1]>>, Tail(f))
      BY <1>3, <1>7, Zenon DEF Stream, AtHand
    <2>2. Taken(R, <<f[1]>>) + (Len(V) - 0) = Len(S)
      BY <1>3, Zenon DEF Taken
    <2> QED
      BY <1>1, <1>3, <2>1, <2>2, Zenon DEF Stream
  <1> QED
    BY <1>3, <1>6, <1>7, Zenon DEF V, Q

\* A frame f whose header was read, and what its payload makes of the stream.
Completed(R, S, W, h, b, key, f) ==
    /\ f \in Seq(Symbols) /\ Len(R) + 1 \in 1 .. Len(S)
    /\ Len(f) > 1 /\ h = <<f[1]>> /\ b = Tail(f)
    /\ Stream(Append(R, f), S, W, <<>>, <<>>, key, TRUE)

\* The payload follows the header.
LEMMA StreamComplete ==
    ASSUME NEW R \in Texts, NEW S \in Texts, NEW W \in Wires, NEW h, NEW b, NEW key,
           ~(h = <<>> /\ b = <<>>), Stream(R, S, W, h, b, key, TRUE)
    PROVE  Completed(R, S, W, h, b, key, Coming(R, S))
  <1> DEFINE f == Coming(R, S)
  <1> USE DEF Coming
  <1> DEFINE Q == Append(R, f)
  <1>1. Len(R) < Len(S) /\ Len(f) > 1 /\ h = <<f[1]>> /\ b = Tail(f)
    BY Zenon DEF Stream, AtHand
  <1>2. f \in Seq(Symbols) /\ Len(R) + 1 \in 1 .. Len(S) /\ Len(R) \in Nat /\ Len(S) \in Nat
    BY <1>1 DEF Texts
  <1>3. Len(Q) = Len(R) + 1 /\ Q[Len(R) + 1] = f /\ \A k \in 1 .. Len(R) : Q[k] = R[k]
    BY <1>2 DEF Texts
  <1>4. h # <<>>
    BY <1>1, Zenon
  <1> HIDE DEF Q
  <1>5. Delivered(Q, S)
    BY <1>2, <1>3 DEF Stream, Delivered
  <1>6. Taken(Q, <<>>) = Taken(R, h)
    BY <1>2, <1>3, <1>4 DEF Taken
  <1>7. Stream(Q, S, W, <<>>, <<>>, key, TRUE)
    BY <1>5, <1>6, Zenon DEF Stream, AtHand
  <1> QED
    BY <1>1, <1>2, <1>7, Zenon DEF Q, Completed

\* Without frames there is no packet on the wire, whatever the key.
LEMMA StreamNoKey ==
    ASSUME NEW R \in Texts, NEW S \in Texts, NEW W \in Wires, NEW h, NEW b, NEW key, NEW ok,
           NEW k2, S = <<>>, Stream(R, S, W, h, b, key, ok)
    PROVE  Stream(R, S, W, h, b, k2, ok)
  <1>1. Len(S) = 0 /\ Len(W) \in Nat
    BY DEF Texts, Wires
  <1>2. PICK m \in 0 .. Len(W) : InFlight(S, W, key, m) /\ (ok => Taken(R, h) + (Len(W) - m) = Len(S))
    BY Zenon DEF Stream
  <1>3. m = Len(W)
    BY <1>1, <1>2 DEF InFlight
  <1>4. InFlight(S, W, k2, m)
    BY <1>1, <1>2, <1>3 DEF InFlight
  <1> QED
    BY <1>2, <1>4, Zenon DEF Stream

\* A frame is a header only, or has a payload.
LEMMA OneOrMore ==
    ASSUME NEW n \in Nat \ {0}
    PROVE  (n = 1 \/ n > 1) /\ (n > 1 => 1 # (n - 1) + 1)
  OBVIOUS

\* The header is what readFrame asks for first.
LEMMA HeaderRead ==
    ASSUME NEW f \in Seq(Symbols), Exact(f)
    PROVE  /\ Upto(f, 1) = <<f[1]>> /\ Beyond(f, 1) = Tail(f) /\ Tail(f) \in Seq(Symbols)
           /\ <<f[1]>> \in Seq(Symbols) /\ <<f[1]>>[1] = f[1] /\ Len(<<f[1]>>) = 1
           /\ Len(f) = 1 => <<f[1]>> = f /\ Tail(f) = <<>>
  <1>1. Len(f) \in Nat \ {0} /\ f[1] \in Symbols
    BY DEF Exact
  <1>2. Upto(f, 1) = <<f[1]>>
    <2> DEFINE n == Len(f)
    <2>1. n \in Nat /\ n # 0
      BY <1>1, Zenon
    <2> HIDE DEF n
    <2>2. ~(1 < n) => n = 1
      BY <2>1
    <2>3. Upto(f, 1) = SubSeq(f, 1, 1)
      BY <2>2, Zenon DEF Upto, n
    <2>4. SubSeq(f, 1, 1) \in Seq(Symbols) /\ Len(SubSeq(f, 1, 1)) = 1 /\ SubSeq(f, 1, 1)[1] = f[1]
      BY <1>1
    <2> QED
      BY <2>3, <2>4
  <1>3. Beyond(f, 1) = Tail(f)
    BY <1>1 DEF Beyond
  <1>4. Len(f) = 1 => <<f[1]>> = f /\ Tail(f) = <<>>
    <2> SUFFICES ASSUME Len(f) = 1 PROVE <<f[1]>> = f /\ Tail(f) = <<>>
      BY Zenon
    <2>1. <<f[1]>> \in Seq(Symbols) /\ Len(<<f[1]>>) = 1 /\ <<f[1]>>[1] = f[1]
      BY <1>1
    <2>2. <<f[1]>> = f
      BY <2>1
    <2>3. SubSeq(f, 2, 1) = <<>>
      OBVIOUS
    <2>4. Tail(f) = SubSeq(f, 2, 1)
      BY <1>3 DEF Beyond
    <2> QED
      BY <2>2, <2>3, <2>4, Zenon
  <1> QED
    BY <1>1, <1>2, <1>3, <1>4

\* The header and the payload are the frame.
LEMMA PayloadRead ==
    ASSUME NEW f \in Seq(Symbols), Exact(f), Len(f) > 1
    PROVE  /\ Upto(Tail(f), Len(f) - 1) = Tail(f) /\ Beyond(Tail(f), Len(f) - 1) = <<>>
           /\ <<f[1]>> \o Tail(f) = f
  <1>1. Len(f) \in Nat \ {0} /\ f[1] \in Symbols /\ Tail(f) \in Seq(Symbols) /\ Len(Tail(f)) = Len(f) - 1
    BY DEF Exact
  <1>2. Upto(Tail(f), Len(f) - 1) = Tail(f)
    <2> DEFINE t == Tail(f)
    <2>1. t \in Seq(Symbols) /\ Len(f) - 1 = Len(t) /\ Len(t) \in Nat
      BY <1>1
    <2> HIDE DEF t
    <2>2. SubSeq(t, 1, Len(t)) = t
      BY <2>1
    <2> QED
      BY <2>1, <2>2, Zenon DEF Upto, t
  <1>3. Beyond(Tail(f), Len(f) - 1) = <<>>
    BY <1>1 DEF Beyond
  <1>4. <<f[1]>> \o Tail(f) = f
    BY <1>1
  <1> QED
    BY <1>2, <1>3, <1>4, Zenon

-----------------------------------------------------------------------------

ReaderType ==
    /\ received \in [Ends -> Texts]
    /\ have \in [Ends -> Seq(Symbols)] /\ rBuf \in [Ends -> Seq(Symbols)]

\* The stream of frames to the reader of an end.
StreamTo(e) ==
    Stream(received[e], sent[Other(e)], wire[Other(e)], have[e], rBuf[e], enc[Other(e)], e \notin failed)

\* Frames are encrypted, written and read after the handshake.
AfterHandshake(e) ==
    /\ at[e] # "finished" => sent[e] = <<>>
    /\ \A w \in Writers : packet[e][w] # None => at[e] = "finished" /\ Sealed(packet[e][w], enc[e])
    /\ e \in failed => at[e] = "finished"

GInv == ReaderType /\ \A e \in Ends : StreamTo(e) /\ AfterHandshake(e)

\* The steps that neither write nor read keep the streams.
LEMMA GInvKept ==
    ASSUME GInv, UNCHANGED <<received, have, rBuf, sent, wire, enc, failed, packet>>,
           \A e \in Ends : at[e] = "finished" => at'[e] = "finished"
    PROVE  GInv'
  <1>1. ReaderType'
    BY Zenon DEF GInv, ReaderType
  <1>2. ASSUME NEW e \in Ends PROVE StreamTo(e)'
    BY Zenon DEF GInv, StreamTo, Other
  <1>3. ASSUME NEW e \in Ends PROVE AfterHandshake(e)'
    BY Zenon DEF GInv, AfterHandshake
  <1> QED
    BY <1>1, <1>2, <1>3, Zenon DEF GInv

\* The types of what a stream is made of.
LEMMA StreamTypes ==
    ASSUME WInv, FInv, GInv, NEW e \in Ends
    PROVE  /\ received[e] \in Texts /\ sent[e] \in Texts /\ wire[e] \in Wires
           /\ sent[Other(e)] \in Texts /\ wire[Other(e)] \in Wires
           /\ have[e] \in Seq(Symbols) /\ rBuf[e] \in Seq(Symbols)
  BY OtherEnd, Zenon DEF WInv, PacketType, FInv, GInv, ReaderType, Texts, Wires

\* A message is written before any frame.
LEMMA GInvWriteMessage ==
    ASSUME HInv, WInv, FInv, GInv, NEW e \in Ends, HandshakeMessage(e)
    PROVE  GInv'
  <1> DEFINE o == Other(e)
             msg == [msg |-> index[e]]
  <1>1. msg \in Messages /\ o \in Ends /\ Other(o) = e /\ o # e
    BY OtherEnd DEF HInv, HandshakeType, Messages
  <1>2. at[e] # "finished" /\ sent[e] = <<>> /\ e \notin failed /\ \A w \in Writers : packet[e][w] = None
    BY Zenon DEF HandshakeMessage, GInv, AfterHandshake
  <1>3. /\ UNCHANGED <<received, have, rBuf, sent, failed, packet>>
        /\ \A f \in Ends : f # e => enc'[f] = enc[f] /\ wire'[f] = wire[f] /\ at'[f] = at[f]
        /\ wire'[e] = Append(wire[e], msg)
    BY Zenon DEF HandshakeMessage, readVars, writeVars, HInv, HandshakeType, WInv, PacketType
  <1> HIDE DEF msg
  <1>4. ReaderType'
    BY <1>3, Zenon DEF GInv, ReaderType
  <1>5. ASSUME NEW f \in Ends PROVE AfterHandshake(f)'
    BY <1>2, <1>3, Zenon DEF GInv, AfterHandshake
  <1>6. ASSUME NEW f \in Ends PROVE StreamTo(f)'
    <2>1. CASE f = o
      <3>1. Stream(received[f], sent[e], wire[e], have[f], rBuf[f], enc[e], f \notin failed)
        BY <1>1, <2>1, Zenon DEF GInv, StreamTo
      <3>2. Stream(received[f], sent[e], wire'[e], have[f], rBuf[f], enc'[e], f \notin failed)
        <4>1. received[f] \in Texts /\ sent[e] \in Texts /\ wire[e] \in Wires
          BY <1>1, <2>1, StreamTypes, Zenon
        <4> QED
          BY <1>1, <1>2, <1>3, <3>1, <4>1, StreamPutMessage, ZenonT(60)
      <3>3. Other(f) = e
        BY <1>1, <2>1, Zenon
      <3> QED
        BY <1>3, <3>2, <3>3, Zenon DEF StreamTo
    <2>2. CASE f # o
      <3>1. Other(f) \in Ends /\ Other(f) # e
        BY <2>2, OtherEnd, Zenon
      <3> QED
        BY <1>3, <3>1, Zenon DEF GInv, StreamTo
    <2> QED
      BY <2>1, <2>2, Zenon
  <1> QED
    BY <1>4, <1>5, <1>6, Zenon DEF GInv

\* A message is read; the reader has not sent any frame yet.
LEMMA GInvReadMessage ==
    ASSUME HInv, WInv, FInv, GInv, NEW e \in Ends, ProcessMessage(e)
    PROVE  GInv'
  <1> DEFINE o == Other(e)
  <1>1. o \in Ends /\ Other(o) = e /\ o # e
    BY OtherEnd, Zenon
  <1>2. at[e] # "finished" /\ sent[e] = <<>> /\ e \notin failed /\ \A w \in Writers : packet[e][w] = None
    BY Zenon DEF ProcessMessage, GInv, AfterHandshake
  <1>3. /\ UNCHANGED <<received, have, rBuf, sent, failed, packet>>
        /\ \A f \in Ends : f # e => enc'[f] = enc[f] /\ at'[f] = at[f]
        /\ \A f \in Ends : f # o => wire'[f] = wire[f]
        /\ wire'[o] = Tail(wire[o]) /\ wire[o] # <<>>
    BY <1>1, Zenon DEF ProcessMessage, readVars, writeVars, HInv, HandshakeType, WInv, PacketType
  <1>4. wire[o][1] \in Messages
    <2>1. Head(wire[o]) \in Messages
      BY DEF ProcessMessage, HInv, HandshakeType, Messages
    <2>2. wire[o] \in Seq(Messages \cup Packets)
      BY <1>1, Zenon DEF WInv, PacketType
    <2>3. Head(wire[o]) = wire[o][1]
      BY <1>3, <2>2
    <2> QED
      BY <2>1, <2>3, Zenon
  <1>5. ReaderType'
    BY <1>3, Zenon DEF GInv, ReaderType
  <1>6. ASSUME NEW f \in Ends PROVE AfterHandshake(f)'
    BY <1>2, <1>3, Zenon DEF GInv, AfterHandshake
  <1>7. ASSUME NEW f \in Ends PROVE StreamTo(f)'
    <2>1. CASE f = e
      <3>1. Stream(received[e], sent[o], wire[o], have[e], rBuf[e], enc[o], e \notin failed)
        BY Zenon DEF GInv, StreamTo
      <3>2. Stream(received[e], sent[o], wire'[o], have[e], rBuf[e], enc[o], e \notin failed)
        BY <1>1, <1>3, <1>4, <3>1, StreamTypes, StreamTakeMessage, ZenonT(60)
      <3>3. enc'[o] = enc[o]
        BY <1>1, <1>3, Zenon
      <3> QED
        BY <1>3, <2>1, <3>2, <3>3, Zenon DEF StreamTo
    <2>2. CASE f = o
      <3>1. Stream(received[o], sent[e], wire[e], have[o], rBuf[o], enc[e], o \notin failed)
        BY <1>1, Zenon DEF GInv, StreamTo
      <3>2. Stream(received[o], sent[e], wire[e], have[o], rBuf[o], enc'[e], o \notin failed)
        BY <1>1, <1>2, <3>1, StreamTypes, StreamNoKey, Zenon
      <3>3. Other(f) = e /\ wire'[e] = wire[e]
        BY <1>1, <1>3, <2>2, Zenon
      <3> QED
        BY <1>3, <2>2, <3>2, <3>3, Zenon DEF StreamTo
    <2>3. CASE f # o /\ f # e
      <3>1. Other(f) \in Ends /\ Other(f) # e /\ Other(f) # o
        BY <1>1, <2>3, OtherEnd, Zenon
      <3> QED
        BY <1>3, <3>1, Zenon DEF GInv, StreamTo
    <2> QED
      BY <2>1, <2>2, <2>3, Zenon
  <1> QED
    BY <1>5, <1>6, <1>7, Zenon DEF GInv

\* A packet is sealed with the key of its end.
LEMMA GInvEncrypt ==
    ASSUME HInv, WInv, FInv, GInv, NEW e \in Ends, NEW w \in Writers, NEW n \in PayLens, Encrypt(e, w, n)
    PROVE  GInv'
  <1> DEFINE q == Packet(e, MakeFrame(e, w, n))
  <1>1. at[e] = "finished" /\ Sealed(q, enc[e])
    BY Zenon DEF Encrypt, EncryptPacket, HInv, TurnsTaken, Packet, Sealed
  <1>2. /\ UNCHANGED <<received, have, rBuf, sent, failed, wire, enc, at>>
        /\ packet' = [packet EXCEPT ![e][w] = q]
    BY Zenon DEF Encrypt, EncryptPacket, lisVars, hsVars, readVars
  <1> HIDE DEF q
  <1>3. \A f \in Ends : \A v \in Writers : packet'[f][v] = packet[f][v] \/ (f = e /\ packet'[f][v] = q)
    BY <1>2, Zenon DEF WInv, PacketType
  <1>4. ReaderType'
    BY <1>2, Zenon DEF GInv, ReaderType
  <1>5. ASSUME NEW f \in Ends PROVE AfterHandshake(f)'
    BY <1>1, <1>2, <1>3, Zenon DEF GInv, AfterHandshake
  <1>6. ASSUME NEW f \in Ends PROVE StreamTo(f)'
    BY <1>2, Zenon DEF GInv, StreamTo, Other
  <1> QED
    BY <1>4, <1>5, <1>6, Zenon DEF GInv

\* A frame is written to the wire, or to none when the connection is closed.
LEMMA GInvWritePacket ==
    ASSUME HInv, WInv, FInv, GInv, NEW e \in Ends, NEW w \in Writers, WritePacket(e, w)
    PROVE  GInv'
  <1> DEFINE o == Other(e)
             q == packet[e][w]
  <1>1. o \in Ends /\ Other(o) = e /\ o # e
    BY OtherEnd, Zenon
  <1>2. q \in Packets /\ Sealed(q, enc[e]) /\ at[e] = "finished"
    <2>1. packet[e][w] # None
      BY Zenon DEF WritePacket
    <2>2. packet[e][w] \in Packets \cup {None}
      BY Zenon DEF WInv, PacketType
    <2>3. AfterHandshake(e)
      BY Zenon DEF GInv
    <2> QED
      BY <2>1, <2>2, <2>3, Zenon DEF AfterHandshake
  <1>3. /\ UNCHANGED <<received, have, rBuf, failed, enc, at>>
        /\ \A f \in Ends : f # e => wire'[f] = wire[f] /\ sent'[f] = sent[f]
        /\ wire'[e] = IF e[1] \in up THEN Append(wire[e], q) ELSE wire[e]
        /\ sent'[e] = IF e[1] \in up THEN Append(sent[e], q.text) ELSE sent[e]
    BY Zenon DEF WritePacket, lisVars, hsVars, readVars, WInv, PacketType, FInv
  <1>4. \A f \in Ends : \A v \in Writers : packet'[f][v] = packet[f][v] \/ packet'[f][v] = None
    BY Zenon DEF WritePacket, WInv, PacketType
  <1> HIDE DEF q
  <1>5. ReaderType'
    BY <1>3, Zenon DEF GInv, ReaderType
  <1>6. ASSUME NEW f \in Ends PROVE AfterHandshake(f)'
    <2>1. at'[f] # "finished" => sent'[f] = <<>>
      BY <1>2, <1>3, Zenon DEF GInv, AfterHandshake
    <2> QED
      BY <1>3, <1>4, <2>1, Zenon DEF GInv, AfterHandshake
  <1>7. ASSUME NEW f \in Ends PROVE StreamTo(f)'
    <2>1. CASE f = o
      <3>1. Stream(received[o], sent[e], wire[e], have[o], rBuf[o], enc[e], o \notin failed)
        BY <1>1, Zenon DEF GInv, StreamTo
      <3>2. Stream(received[o], sent'[e], wire'[e], have[o], rBuf[o], enc[e], o \notin failed)
        BY <1>1, <1>2, <1>3, <3>1, StreamTypes, StreamPutPacket, ZenonT(60)
      <3> QED
        BY <1>1, <1>3, <2>1, <3>2, Zenon DEF StreamTo
    <2>2. CASE f # o
      <3>1. Other(f) \in Ends /\ Other(f) # e
        BY <2>2, OtherEnd, Zenon
      <3> QED
        BY <1>3, <3>1, Zenon DEF GInv, StreamTo
    <2> QED
      BY <2>1, <2>2, Zenon
  <1> QED
    BY <1>5, <1>6, <1>7, Zenon DEF GInv

\* What of the streams a reader's step may change.
LEMMA GInvReader ==
    ASSUME GInv, NEW e \in Ends, UNCHANGED <<sent, enc, at, packet>>,
           \A f \in Ends : f # Other(e) => wire'[f] = wire[f],
           NEW R \in Texts, NEW h \in Seq(Symbols), NEW b \in Seq(Symbols),
           received' = [received EXCEPT ![e] = R], have' = [have EXCEPT ![e] = h],
           rBuf' = [rBuf EXCEPT ![e] = b],
           failed' \in {failed, failed \cup {e}}, at[e] = "finished",
           Stream(R, sent[Other(e)], wire'[Other(e)], h, b, enc[Other(e)], e \notin failed')
    PROVE  GInv'
  <1>1. ReaderType'
    BY Zenon DEF GInv, ReaderType
  <1>2. /\ received'[e] = R /\ have'[e] = h /\ rBuf'[e] = b
        /\ \A f \in Ends : f # e => received'[f] = received[f] /\ have'[f] = have[f] /\ rBuf'[f] = rBuf[f]
                                    /\ (f \in failed' <=> f \in failed)
    BY Zenon DEF GInv, ReaderType
  <1>3. ASSUME NEW f \in Ends PROVE AfterHandshake(f)'
    BY <1>2, Zenon DEF GInv, AfterHandshake
  <1>4. ASSUME NEW f \in Ends PROVE StreamTo(f)'
    <2>1. CASE f = e
      BY <1>2, <2>1, Zenon DEF StreamTo
    <2>2. CASE f # e
      <3>1. Other(f) # Other(e) /\ Other(f) \in Ends
        BY <2>2, OtherEnd, Zenon
      <3>2. (f \notin failed') = (f \notin failed)
        BY <1>2, <2>2, Zenon
      <3>3. wire'[Other(f)] = wire[Other(f)]
        BY <3>1, Zenon
      <3>4. Stream(received[f], sent[Other(f)], wire[Other(f)], have[f], rBuf[f], enc[Other(f)], f \notin failed)
        BY Zenon DEF GInv, StreamTo
      <3> QED
        BY <1>2, <2>2, <3>2, <3>3, <3>4, Zenon DEF StreamTo
    <2> QED
      BY <2>1, <2>2, Zenon
  <1> QED
    BY <1>1, <1>3, <1>4, Zenon DEF GInv

\* The arithmetic of a header and its payload.
LEMMA OneLess ==
    ASSUME NEW n \in Nat, NEW m, m = n - 1
    PROVE  n = m + 1 /\ m + 1 - 1 = n - 1
  OBVIOUS

LEMMA PayloadLeft ==
    ASSUME NEW g \in Seq(Symbols), Len(g) > 1
    PROVE  Tail(g) # <<>>
  <1>1. Len(g) \in Nat /\ Len(Tail(g)) = Len(g) - 1
    OBVIOUS
  <1>2. \A t : t = <<>> => Len(t) = 0
    OBVIOUS
  <1>3. \A n \in Nat : n > 1 => n - 1 # 0
    OBVIOUS
  <1> QED
    BY <1>1, <1>2, <1>3, Zenon

\* What is encrypted in a packet is a sequence of symbols.
LEMMA PacketText == \A p \in Packets : p.text \in Seq(Symbols) /\ Len(p.text) \in Nat
  BY DEF Packets

\* Frames that were sent have exact lengths.
LEMMA SentExact ==
    ASSUME FInv, NEW e \in Ends, NEW k \in 1 .. Len(sent[e])
    PROVE  sent[e][k] \in Seq(Symbols) /\ Exact(sent[e][k])
  BY DEF FInv

\* What is in the buffer completes the frame.
LEMMA GInvReadBuffered ==
    ASSUME HInv, WInv, FInv, GInv, NEW e \in Ends, ReadBuffered(e)
    PROVE  GInv'
  <1> DEFINE o == Other(e)
             R == received[e]
             S == sent[o]
             f == Coming(R, S)
  <1>1. o \in Ends /\ R \in Texts /\ S \in Texts /\ wire[o] \in Wires /\ e \notin failed /\ at[e] = "finished"
    BY OtherEnd, StreamTypes, Zenon DEF ReadBuffered, Reading, HInv, TurnsTaken
  <1>2. Stream(R, S, wire[o], have[e], rBuf[e], enc[o], TRUE)
    <2>1. (e \notin failed) = TRUE
      BY <1>1, Zenon
    <2> QED
      BY <2>1, Zenon DEF GInv, StreamTo
  <1>3. /\ f \in Seq(Symbols) /\ Len(R) + 1 \in 1 .. Len(S)
        /\ Len(f) > 1 /\ have[e] = <<f[1]>> /\ rBuf[e] = Tail(f)
        /\ Stream(Append(R, f), S, wire[o], <<>>, <<>>, enc[o], TRUE)
    <2>1. rBuf[e] # <<>>
      BY Zenon DEF ReadBuffered
    <2>2. Completed(R, S, wire[o], have[e], rBuf[e], enc[o], f)
      BY <1>1, <1>2, <2>1, StreamComplete, Zenon
    <2> QED
      BY <2>2, Zenon DEF Completed
  <1>4. Exact(f)
    BY <1>1, <1>3, SentExact, Zenon DEF Coming
  <1>5. Len(f) \in Nat /\ f[1].payLen = Len(f) - 1
    BY <1>4, Zenon DEF Exact
  <1> HIDE DEF f
  <1>6. Needed(e) = Len(f) - 1
    <2>1. have[e] # <<>> /\ have[e][1] = f[1] /\ Len(have[e]) = 1
      <3>1. have[e] = <<f[1]>>
        BY <1>3, Zenon
      <3>2. \A x, s : s = <<x>> => s # <<>> /\ s[1] = x /\ Len(s) = 1
        OBVIOUS
      <3> QED
        BY <3>1, <3>2, Zenon
    <2>2. Needed(e) = f[1].payLen + 1 - 1
      BY <2>1, Zenon DEF Needed
    <2> QED
      BY <1>5, <2>2, OneLess, Zenon
  <1>7. have[e] \o Upto(rBuf[e], Needed(e)) = f /\ Beyond(rBuf[e], Needed(e)) = <<>>
    BY <1>3, <1>4, <1>6, PayloadRead, Zenon
  <1>8. Len(f) = f[1].payLen + 1
    BY <1>5, OneLess, Zenon
  <1>9. received' = [received EXCEPT ![e] = Append(R, f)] /\ have' = [have EXCEPT ![e] = <<>>]
    <2>1. HaveRead(e, Upto(rBuf[e], Needed(e)))
      BY Zenon DEF ReadBuffered
    <2> QED
      BY <1>7, <1>8, <2>1, Zenon DEF HaveRead
  <1>10. rBuf' = [rBuf EXCEPT ![e] = <<>>] /\ UNCHANGED <<sent, enc, at, packet, wire, failed>>
    BY <1>7, Zenon DEF ReadBuffered, hsVars, writeVars
  <1>11. Append(R, f) \in Texts /\ <<>> \in Seq(Symbols)
    BY <1>1, <1>3, TextsAppend, Zenon
  <1>12. Stream(Append(R, f), S, wire'[o], <<>>, <<>>, enc[o], e \notin failed')
    <2>1. (e \notin failed') = TRUE
      BY <1>1, <1>10, Zenon
    <2> QED
      BY <1>3, <1>10, <2>1, Zenon
  <1> QED
    BY <1>1, <1>9, <1>10, <1>11, <1>12, GInvReader, Zenon

\* A packet that decrypts has the next frame, all of it.
LEMMA GInvReadPacket ==
    ASSUME HInv, WInv, FInv, GInv, NEW e \in Ends, ReadPacket(e)
    PROVE  GInv'
  <1> DEFINE o == Other(e)
             R == received[e]
             S == sent[o]
             W == wire[o]
             q == Head(W)
             f == q.text
  <1>1. o \in Ends /\ R \in Texts /\ S \in Texts /\ W \in Wires /\ e \notin failed /\ at[e] = "finished"
        /\ have[e] \in Seq(Symbols) /\ rBuf[e] \in Seq(Symbols)
    BY OtherEnd, StreamTypes, Zenon DEF ReadPacket, Reading, HInv, TurnsTaken
  <1>2. W # <<>> /\ q \in Packets /\ q = W[1] /\ rBuf[e] = <<>>
    BY PacketNext, Zenon DEF ReadPacket, Reading
  <1>3. Stream(R, S, W, have[e], rBuf[e], enc[o], TRUE)
    <2>1. (e \notin failed) = TRUE
      BY <1>1, Zenon
    <2> QED
      BY <2>1, Zenon DEF GInv, StreamTo
  <1>4. /\ UNCHANGED <<sent, enc, at, packet>> /\ wire'[o] = Tail(W)
        /\ \A g \in Ends : g # o => wire'[g] = wire[g]
    BY <1>1, Zenon DEF ReadPacket, hsVars, writeVars, WInv, PacketType
  <1>5. CASE ~Decrypts(e, q)
    <2>1. failed' = failed \cup {e} /\ UNCHANGED <<rBuf, have, received>>
      BY <1>5, Zenon DEF ReadPacket
    <2>2. Stream(R, S, Tail(W), have[e], rBuf[e], enc[o], FALSE)
      BY <1>1, <1>2, <1>3, StreamDropPacket, Zenon
    <2>3. Stream(R, S, wire'[o], have[e], rBuf[e], enc[o], e \notin failed')
      <3>1. (e \notin failed') = FALSE
        BY <2>1, Zenon
      <3> QED
        BY <1>4, <2>2, <3>1, Zenon
    <2>4. received' = [received EXCEPT ![e] = R] /\ have' = [have EXCEPT ![e] = have[e]]
          /\ rBuf' = [rBuf EXCEPT ![e] = rBuf[e]]
      BY <2>1, Zenon DEF GInv, ReaderType
    <2> QED
      BY <1>1, <1>4, <2>1, <2>3, <2>4, GInvReader, Zenon
  <1>6. CASE Decrypts(e, q)
    <2>1. failed' = failed /\ BufRead(e, f)
      BY <1>6, Zenon DEF ReadPacket
    <2>2. have[e] = <<>>
      <3> SUFFICES ASSUME have[e] # <<>> PROVE FALSE
        BY Zenon
      <3> DEFINE g == Coming(R, S)
      <3>1. Completed(R, S, W, have[e], rBuf[e], enc[o], g)
        BY <1>1, <1>3, StreamComplete, Zenon
      <3>2. g \in Seq(Symbols) /\ Len(g) > 1 /\ rBuf[e] = Tail(g)
        BY <3>1, Zenon DEF Completed
      <3> HIDE DEF g
      <3>3. Tail(g) # <<>>
        BY <3>2, PayloadLeft, Zenon
      <3> QED
        BY <1>2, <3>2, <3>3, Zenon
    <2>3. f \in Seq(Symbols) /\ Len(f) \in Nat
      BY <1>2, PacketText, Zenon
    <2>4. /\ f = S[Len(R) + 1] /\ Len(R) + 1 \in 1 .. Len(S)
          /\ Stream(Append(R, f), S, Tail(W), <<>>, <<>>, enc[o], TRUE)
          /\ Len(f) > 1 => Stream(R, S, Tail(W), <<f[1]>>, Tail(f), enc[o], TRUE)
      BY <1>1, <1>2, <1>3, <2>2, <2>3, StreamTakePacket, Zenon
    <2>5. Exact(f)
      BY <1>1, <2>4, SentExact, Zenon
    <2>6. (e \notin failed') = TRUE
      BY <1>1, <2>1, Zenon
    <2> HIDE DEF f
    <2>7. Len(f) \in Nat \ {0} /\ f[1].payLen = Len(f) - 1
      BY <2>5, Zenon DEF Exact
    <2>8. Needed(e) = 1
      BY <2>2, Zenon DEF Needed
    <2>9. /\ Upto(f, 1) = <<f[1]>> /\ Beyond(f, 1) = Tail(f) /\ Tail(f) \in Seq(Symbols)
          /\ <<f[1]>> \in Seq(Symbols) /\ <<f[1]>>[1] = f[1] /\ Len(<<f[1]>>) = 1
          /\ Len(f) = 1 => <<f[1]>> = f /\ Tail(f) = <<>>
      BY <2>3, <2>5, HeaderRead, Zenon
    <2>10. have[e] \o Upto(f, 1) = <<f[1]>>
      BY <2>2, <2>9
    <2>11. rBuf' = [rBuf EXCEPT ![e] = Tail(f)]
           /\ IF 1 = f[1].payLen + 1
              THEN received' = [received EXCEPT ![e] = Append(R, <<f[1]>>)] /\ have' = [have EXCEPT ![e] = <<>>]
              ELSE have' = [have EXCEPT ![e] = <<f[1]>>] /\ UNCHANGED received
      BY <2>1, <2>8, <2>9, <2>10, Zenon DEF BufRead, HaveRead
    <2>12. CASE Len(f) = 1
      <3>1. received' = [received EXCEPT ![e] = Append(R, f)] /\ have' = [have EXCEPT ![e] = <<>>]
            /\ rBuf' = [rBuf EXCEPT ![e] = <<>>]
        <4>1. 1 = f[1].payLen + 1
          BY <2>7, <2>12
        <4> QED
          BY <2>9, <2>11, <2>12, <4>1, Zenon
      <3>2. Append(R, f) \in Texts /\ <<>> \in Seq(Symbols)
        BY <1>1, <2>3, TextsAppend, Zenon
      <3>3. Stream(Append(R, f), S, wire'[o], <<>>, <<>>, enc[o], e \notin failed')
        BY <1>4, <2>4, <2>6, Zenon
      <3> QED
        BY <1>1, <1>4, <2>1, <3>1, <3>2, <3>3, GInvReader, Zenon
    <2>13. CASE Len(f) > 1
      <3>1. received' = [received EXCEPT ![e] = R] /\ have' = [have EXCEPT ![e] = <<f[1]>>]
        <4>1. 1 # f[1].payLen + 1
          BY <2>7, <2>13, OneOrMore, Zenon
        <4> QED
          BY <2>11, <4>1, Zenon DEF GInv, ReaderType
      <3>2. Stream(R, S, wire'[o], <<f[1]>>, Tail(f), enc[o], e \notin failed')
        BY <1>4, <2>4, <2>6, <2>13, Zenon
      <3> QED
        BY <1>1, <1>4, <2>1, <2>9, <2>11, <3>1, <3>2, GInvReader, Zenon
    <2> QED
      BY <2>7, <2>12, <2>13, OneOrMore, Zenon
  <1> QED
    BY <1>5, <1>6, Zenon

\* A reader that fails has no more to take.
LEMMA GInvReadFails ==
    ASSUME HInv, WInv, FInv, GInv, NEW e \in Ends, ReadFails(e)
    PROVE  GInv'
  <1>1. /\ UNCHANGED <<sent, enc, at, packet, wire, rBuf, have, received>> /\ at[e] = "finished"
        /\ failed' = failed \cup {e} /\ e \in failed'
    BY Zenon DEF ReadFails, Reading, hsVars, writeVars, HInv, TurnsTaken
  <1>2. ASSUME NEW f \in Ends PROVE StreamTo(f)'
    <2>1. Stream(received[f], sent[Other(f)], wire[Other(f)], have[f], rBuf[f], enc[Other(f)], f \notin failed)
      BY Zenon DEF GInv, StreamTo
    <2>2. Stream(received[f], sent[Other(f)], wire[Other(f)], have[f], rBuf[f], enc[Other(f)], f \notin failed')
      <3>1. (f \notin failed') => (f \notin failed)
        BY <1>1, Zenon
      <3> QED
        BY <2>1, <3>1, Zenon DEF Stream
    <2> QED
      BY <1>1, <2>2, Zenon DEF StreamTo, Other
  <1>3. ASSUME NEW f \in Ends PROVE AfterHandshake(f)'
    BY <1>1, Zenon DEF GInv, AfterHandshake
  <1>4. ReaderType'
    BY <1>1, Zenon DEF GInv, ReaderType
  <1> QED
    BY <1>2, <1>3, <1>4, Zenon DEF GInv

\* Nothing was sent at first.
LEMMA GInvInit == Init => GInv
  <1> SUFFICES ASSUME Init PROVE GInv
    BY Zenon
  <1>1. ReaderType
    <2>1. <<>> \in Texts /\ <<>> \in Seq(Symbols)
      BY DEF Texts
    <2>2. received = [e \in Ends |-> <<>>] /\ have = [e \in Ends |-> <<>>] /\ rBuf = [e \in Ends |-> <<>>]
      BY Zenon DEF Init
    <2> QED
      BY <2>1, <2>2, Zenon DEF ReaderType
  <1>2. ASSUME NEW e \in Ends PROVE AfterHandshake(e)
    BY Zenon DEF Init, AfterHandshake
  <1>3. ASSUME NEW e \in Ends PROVE StreamTo(e)
    <2>1. received[e] = <<>> /\ sent[Other(e)] = <<>> /\ wire[Other(e)] = <<>> /\ have[e] = <<>> /\ rBuf[e] = <<>>
      BY OtherEnd, Zenon DEF Init
    <2>2. ASSUME NEW key PROVE InFlight(<<>>, <<>>, key, 0)
      BY DEF InFlight
    <2>3. Delivered(<<>>, <<>>) /\ AtHand(<<>>, <<>>, <<>>, <<>>) /\ 0 \in 0 .. Len(<<>>)
          /\ Taken(<<>>, <<>>) + (Len(<<>>) - 0) = Len(<<>>)
      BY DEF Delivered, AtHand, Taken
    <2> QED
      BY <2>1, <2>2, <2>3, Zenon DEF StreamTo, Stream
  <1> QED
    BY <1>1, <1>2, <1>3, Zenon DEF GInv

\* Every step keeps the streams of frames.
LEMMA GInvStep == HInv /\ WInv /\ FInv /\ GInv /\ [Next]_vars => GInv'
  <1> SUFFICES ASSUME HInv, WInv, FInv, GInv, [Next]_vars PROVE GInv'
    BY Zenon
  <1> USE DEF lisVars, hsVars, readVars, writeVars
  <1>1. ASSUME NEW c \in Conns, Connect(c) PROVE GInv'
    <2>1. \A e \in Ends : at[e] = "finished" => at'[e] = "finished"
      BY <1>1, Zenon DEF Connect, HInv, HandshakeType
    <2> QED
      BY <1>1, <2>1, GInvKept, Zenon DEF Connect
  <1>2. CASE Accept
    <2>1. backlog # <<>> /\ Head(backlog) = backlog[1] /\ 1 \in 1 .. Len(backlog)
      BY <1>2 DEF Accept, HInv, AcceptedOnce
    <2>2. at[<<Head(backlog), "r">>] = "none"
      BY <2>1, Zenon DEF HInv, AcceptedOnce
    <2>3. \A e \in Ends : at[e] = "finished" => at'[e] = "finished"
      BY <1>2, <2>2, Zenon DEF Accept, HInv, HandshakeType
    <2> QED
      BY <1>2, <2>3, GInvKept, Zenon DEF Accept
  <1>3. ASSUME NEW e \in Ends, HandshakeFails(e) PROVE GInv'
    <2>1. \A f \in Ends : at[f] = "finished" => at'[f] = "finished"
      BY <1>3, Zenon DEF HandshakeFails, HInv, HandshakeType
    <2> QED
      BY <1>3, <2>1, GInvKept, Zenon DEF HandshakeFails
  <1>4. CASE \/ \E c \in Conns : Hangup(c)
             \/ \E e \in Ends : HandshakeReturns(e) \/ Timeout(e) \/ DecryptPanics(e)
             \/ Idle \/ UNCHANGED vars
    BY <1>4, GInvKept, Zenon DEF Hangup, HandshakeReturns, Timeout, Return, DecryptPanics, Idle, vars
  <1> QED
    BY Zenon, <1>1, <1>2, <1>3, <1>4, GInvWriteMessage, GInvReadMessage, GInvEncrypt, GInvWritePacket,
       GInvReadBuffered, GInvReadPacket, GInvReadFails
    DEF Next, HandshakeStep, ReadFrame

\* The streams of frames are kept at all times.
LEMMA GInvHolds == Spec => [](HInv /\ WInv /\ FInv /\ GInv)
  BY HInvHolds, WInvHolds, FInvHolds, GInvInit, GInvStep, PTL DEF Spec

\* Frames arrive whole and in the order in which they were written, none is skipped,
\* for any number of writers, frames and payload lengths: a packet is taken from the
\* wire once, and what readFrame did not ask for waits in rBuf.
THEOREM NoiseFramesIntact == Spec => []FramesIntact
  <1>1. GInv => FramesIntact
    BY Zenon DEF GInv, StreamTo, Stream, Delivered, FramesIntact
  <1> QED
    BY <1>1, GInvHolds, PTL

-----------------------------------------------------------------------------
(* Failures of readers                                                     *)

\* The packet that a reader takes next has a frame of its peer, sealed with the key
\* that the reader decrypts with.
LEMMA NextFrame ==
    ASSUME HInv, WInv, FInv, GInv, NEW e \in Ends, Reading(e), wire[Other(e)] # <<>>
    PROVE  \E k \in DOMAIN sent[Other(e)] :
              /\ Len(sent[Other(e)][k]) \in Nat /\ Head(wire[Other(e)]).text = sent[Other(e)][k]
              /\ Sealed(Head(wire[Other(e)]), dec[e])
  <1> DEFINE o == Other(e)
             q == Head(wire[o])
             S == sent[o]
             k == (Len(S) - Len(wire[o])) + 1
  <1>1. o \in Ends /\ received[e] \in Texts /\ S \in Texts /\ wire[o] \in Wires
    BY OtherEnd, StreamTypes, Zenon
  <1>2. q \in Packets /\ q = wire[o][1]
    BY PacketNext, Zenon DEF Reading
  <1>3. Stream(received[e], S, wire[o], have[e], rBuf[e], enc[o], e \notin failed)
    BY Zenon DEF GInv, StreamTo
  <1>4. /\ Len(wire[o]) \in Nat \ {0} /\ Len(wire[o]) <= Len(S)
        /\ Sealed(q, enc[o]) /\ q.text = S[k]
    <2>1. PacketFirst(received[e], S, wire[o], have[e], enc[o], e \notin failed)
      BY <1>1, <1>2, <1>3, FirstPacket, Zenon
    <2> QED
      BY <1>2, <2>1, Zenon DEF PacketFirst
  <1>5. k \in 1 .. Len(S) /\ Len(S) \in Nat /\ DOMAIN S = 1 .. Len(S)
    <2>1. Len(S) \in Nat /\ DOMAIN S = 1 .. Len(S)
      BY <1>1 DEF Texts
    <2> HIDE DEF S
    <2>2. k \in 1 .. Len(S)
      BY <1>4, <2>1
    <2> QED
      BY <2>1, <2>2, Zenon
  <1>6. S[k] \in Seq(Symbols) /\ Len(S[k]) \in Nat
    <2>1. S \in Seq(Seq(Symbols)) /\ k \in 1 .. Len(S)
      BY <1>1, <1>5, Zenon DEF Texts
    <2> HIDE DEF S, k
    <2> QED
      BY <2>1
  <1>7. at[o] = "finished" /\ at[e] = "finished"
    <2>1. S # <<>>
      BY <1>5
    <2> QED
      BY <1>1, <2>1, Zenon DEF GInv, AfterHandshake, Reading, HInv, TurnsTaken
  <1>8. enc[o] = dec[e]
    <2>1. Finished(o) /\ Finished(e) /\ Other(o) = e
      BY <1>1, <1>7, OtherEnd, Zenon DEF HInv, TurnsTaken
    <2>2. KeysMatch
      BY HInvKeys, Zenon
    <2> QED
      BY <1>1, <2>1, <2>2, Zenon DEF KeysMatch
  <1> HIDE DEF k, S
  <1> QED
    BY <1>4, <1>5, <1>6, <1>8, Zenon DEF S

\* A number that is not its own remainder is no smaller than what it is divided by.
LEMMA NotItsRemainder ==
    ASSUME NEW n \in Nat, n % LenMod # n PROVE n >= LenMod
  BY NoiseAssumption

\* A packet that does not decrypt is longer than its header can say: the keys match.
LEMMA LongPacket ==
    ASSUME HInv, WInv, FInv, GInv, NEW e \in Ends, Reading(e), wire[Other(e)] # <<>>,
           ~Decrypts(e, Head(wire[Other(e)]))
    PROVE  \E k \in DOMAIN sent[Other(e)] : Wraps(sent[Other(e)][k])
  <1>1. PICK k \in DOMAIN sent[Other(e)] :
              /\ Len(sent[Other(e)][k]) \in Nat /\ Head(wire[Other(e)]).text = sent[Other(e)][k]
              /\ Sealed(Head(wire[Other(e)]), dec[e])
    BY NextFrame, Zenon
  <1> DEFINE n == Len(sent[Other(e)][k]) + Overhead
  <1>2. n \in Nat
    BY <1>1, NoiseAssumption
  <1>3. n % LenMod # n
    BY <1>1, Zenon DEF Decrypts, Sealed
  <1>4. n >= LenMod
    BY <1>2, <1>3, NotItsRemainder, Zenon
  <1> QED
    BY <1>4, Zenon DEF Wraps

\* A packet without all of its sequence number is one whose length wrapped around:
\* with its sequence number and its tag a packet is never that short.
LEMMA ShortPacket ==
    ASSUME HInv, WInv, FInv, GInv, NEW e \in Ends, Reading(e), wire[Other(e)] # <<>>, ~HasSeq(e)
    PROVE  \E k \in DOMAIN sent[Other(e)] : LosesSeq(sent[Other(e)][k])
  <1>1. PICK k \in DOMAIN sent[Other(e)] :
              /\ Len(sent[Other(e)][k]) \in Nat /\ Head(wire[Other(e)]).text = sent[Other(e)][k]
              /\ Sealed(Head(wire[Other(e)]), dec[e])
    BY NextFrame, Zenon
  <1> DEFINE l == Len(sent[Other(e)][k])
             n == l + Overhead
  <1>2. n % LenMod = Head(wire[Other(e)]).len
    BY <1>1, Zenon DEF Sealed
  <1>3. l \in Nat /\ ~(n % LenMod >= SeqLen)
    BY <1>1, <1>2, Zenon DEF HasSeq
  <1> HIDE DEF l
  <1>4. n \in Nat /\ n >= SeqLen /\ n % LenMod \in Nat /\ SeqLen \in Nat
    BY <1>3, NoiseAssumption
  <1> HIDE DEF n
  <1>5. n % LenMod < SeqLen /\ n % LenMod # n
    BY <1>3, <1>4
  <1>6. n >= LenMod
    BY <1>4, <1>5, NotItsRemainder, Zenon
  <1> QED
    BY <1>5, <1>6, Zenon DEF LosesSeq, Wraps, l, n

FailedLong ==
    \A e \in Ends : e \in failed /\ e[1] \in up =>
        \E k \in DOMAIN sent[Other(e)] : Wraps(sent[Other(e)][k])
PanickedLong ==
    \A e \in panicked : \E f \in ProcessOf(e) :
        \E k \in DOMAIN sent[Other(f)] : LosesSeq(sent[Other(f)][k])

\* A process is that of each of its ends.
LEMMA SameProcess ==
    ASSUME NEW e \in Ends, NEW f \in ProcessOf(e)
    PROVE  f \in Ends /\ e \in ProcessOf(f)
  BY DEF Ends, ProcessOf

\* Frames that were sent stay.
LEMMA SentGrows ==
    ASSUME WInv, FInv, NEW e \in Ends, NEW w \in Writers, WritePacket(e, w),
           NEW f \in Ends, NEW k \in DOMAIN sent[f]
    PROVE  k \in DOMAIN sent'[f] /\ sent'[f][k] = sent[f][k]
  <1>1. packet[e][w].text \in Seq(Symbols)
    BY DEF WritePacket, WInv, PacketType, Packets
  <1>2. sent'[f] = sent[f] \/ \E t \in Seq(Symbols) : sent'[f] = Append(sent[f], t)
    BY <1>1, Zenon DEF WritePacket, FInv
  <1>3. sent[f] \in Seq(Seq(Symbols))
    BY Zenon DEF FInv
  <1>4. CASE sent'[f] = sent[f]
    BY <1>4, Zenon
  <1>5. ASSUME NEW t \in Seq(Symbols), sent'[f] = Append(sent[f], t)
        PROVE  k \in DOMAIN sent'[f] /\ sent'[f][k] = sent[f][k]
    BY <1>3, <1>5
  <1> QED
    BY <1>2, <1>4, <1>5, Zenon

\* Every step keeps what is said of the readers that failed.
LEMMA FailedStep ==
    ASSUME HInv, WInv, FInv, GInv, FailedLong, [Next]_vars
    PROVE  FailedLong'
  <1> USE DEF lisVars, hsVars, readVars, writeVars
  <1>1. CASE sent' = sent /\ \A e \in Ends : e \in failed' /\ e[1] \in up' => e \in failed /\ e[1] \in up
    BY <1>1, Zenon DEF FailedLong, Other, Wraps
  <1>2. ASSUME NEW c \in Conns, Connect(c) PROVE FailedLong'
    <2>1. at[<<c, "i">>] = "none" /\ at[<<c, "r">>] = "none"
      BY <1>2, Zenon DEF Connect, HInv, AcceptedOnce
    <2>2. \A e \in Ends : e[1] = c => e = <<c, "i">> \/ e = <<c, "r">>
      BY DEF Ends
    <2>3. \A e \in Ends : e \in failed => e[1] # c
      BY <2>1, <2>2, Zenon DEF GInv, AfterHandshake
    <2> QED
      BY <1>1, <1>2, <2>3, Zenon DEF Connect
  <1>3. ASSUME NEW e \in Ends, NEW w \in Writers, WritePacket(e, w) PROVE FailedLong'
    <2>1. UNCHANGED <<up, failed>>
      BY <1>3, Zenon DEF WritePacket
    <2> SUFFICES ASSUME NEW f \in Ends, f \in failed, f[1] \in up
                 PROVE  \E k \in DOMAIN sent'[Other(f)] : Wraps(sent'[Other(f)][k])
      BY <2>1, Zenon DEF FailedLong, Other, Wraps
    <2>2. PICK k \in DOMAIN sent[Other(f)] : Wraps(sent[Other(f)][k])
      BY Zenon DEF FailedLong
    <2>3. k \in DOMAIN sent'[Other(f)] /\ sent'[Other(f)][k] = sent[Other(f)][k]
      BY <1>3, OtherEnd, SentGrows, Zenon
    <2> QED
      BY <2>2, <2>3, Zenon
  <1>4. ASSUME NEW e \in Ends, ReadPacket(e) PROVE FailedLong'
    <2>1. UNCHANGED <<up, sent>>
      BY <1>4, Zenon DEF ReadPacket
    <2>2. CASE Decrypts(e, Head(wire[Other(e)]))
      BY <1>1, <1>4, <2>1, <2>2, Zenon DEF ReadPacket
    <2>3. CASE ~Decrypts(e, Head(wire[Other(e)]))
      <3>1. failed' = failed \cup {e}
        BY <1>4, <2>3, Zenon DEF ReadPacket
      <3>2. \E k \in DOMAIN sent[Other(e)] : Wraps(sent[Other(e)][k])
        BY <1>4, <2>3, LongPacket, Zenon DEF ReadPacket
      <3> QED
        BY <2>1, <3>1, <3>2, Zenon DEF FailedLong, Other, Wraps
    <2> QED
      BY <2>2, <2>3, Zenon
  <1>5. ASSUME NEW e \in Ends, ReadFails(e) PROVE FailedLong'
    BY <1>1, <1>5, Zenon DEF ReadFails
  <1>6. CASE \/ \E c \in Conns : Hangup(c)
             \/ Accept \/ Idle \/ UNCHANGED vars
             \/ \E e \in Ends : HandshakeStep(e) \/ HandshakeReturns(e) \/ Timeout(e)
                                  \/ ReadBuffered(e) \/ DecryptPanics(e)
    BY <1>1, <1>6, ZenonT(40) DEF Hangup, Accept, Idle, vars, HandshakeStep, HandshakeMessage, ProcessMessage,
       HandshakeFails, HandshakeReturns, Timeout, Return, ReadBuffered, DecryptPanics
  <1>7. ASSUME NEW e \in Ends, NEW w \in Writers, NEW n \in PayLens, Encrypt(e, w, n) PROVE FailedLong'
    BY <1>1, <1>7, Zenon DEF Encrypt, EncryptPacket
  <1> QED
    BY <1>2, <1>3, <1>4, <1>5, <1>6, <1>7, Zenon DEF Next, ReadFrame

\* Every step keeps what is said of the processes that panicked.
LEMMA PanickedStep ==
    ASSUME HInv, WInv, FInv, GInv, PanickedLong, [Next]_vars
    PROVE  PanickedLong'
  <1> USE DEF lisVars, hsVars, readVars, writeVars
  <1>1. CASE sent' = sent /\ panicked' = panicked
    BY <1>1, Zenon DEF PanickedLong, ProcessOf, Other, LosesSeq, Wraps
  <1>2. ASSUME NEW e \in Ends, NEW w \in Writers, WritePacket(e, w) PROVE PanickedLong'
    <2>1. panicked' = panicked
      BY <1>2, Zenon DEF WritePacket
    <2> SUFFICES ASSUME NEW g \in panicked
                 PROVE  \E f \in ProcessOf(g) : \E k \in DOMAIN sent'[Other(f)] : LosesSeq(sent'[Other(f)][k])
      BY <2>1, Zenon DEF PanickedLong, ProcessOf, Other, LosesSeq, Wraps
    <2>2. PICK f \in ProcessOf(g) : \E k \in DOMAIN sent[Other(f)] : LosesSeq(sent[Other(f)][k])
      BY Zenon DEF PanickedLong
    <2>3. PICK k \in DOMAIN sent[Other(f)] : LosesSeq(sent[Other(f)][k])
      BY <2>2, Zenon
    <2>4. f \in Ends
      BY SameProcess, Zenon DEF HInv, HandshakeType
    <2>5. k \in DOMAIN sent'[Other(f)] /\ sent'[Other(f)][k] = sent[Other(f)][k]
      BY <1>2, <2>4, OtherEnd, SentGrows, Zenon
    <2> QED
      BY <2>3, <2>5, Zenon
  <1>3. ASSUME NEW e \in Ends, DecryptPanics(e) PROVE PanickedLong'
    <2>1. panicked' = panicked \cup ProcessOf(e) /\ sent' = sent
      BY <1>3, Zenon DEF DecryptPanics
    <2>2. \E k \in DOMAIN sent[Other(e)] : LosesSeq(sent[Other(e)][k])
      BY <1>3, ShortPacket, Zenon DEF DecryptPanics
    <2> SUFFICES ASSUME NEW g \in panicked'
                 PROVE  \E f \in ProcessOf(g) : \E k \in DOMAIN sent'[Other(f)] : LosesSeq(sent'[Other(f)][k])
      BY Zenon DEF PanickedLong, ProcessOf, Other, LosesSeq, Wraps
    <2>3. CASE g \in panicked
      BY <2>1, <2>3, Zenon DEF PanickedLong
    <2>4. CASE g \in ProcessOf(e)
      <3>1. e \in ProcessOf(g)
        BY <2>4, SameProcess, Zenon
      <3> QED
        BY <2>1, <2>2, <3>1, Zenon
    <2> QED
      BY <2>1, <2>3, <2>4, Zenon
  <1>4. CASE \/ \E c \in Conns : Connect(c) \/ Hangup(c)
             \/ Accept \/ Idle \/ UNCHANGED vars
             \/ \E e \in Ends : HandshakeStep(e) \/ HandshakeReturns(e) \/ Timeout(e)
    BY <1>1, <1>4, Zenon DEF Connect, Hangup, Accept, Idle, vars, HandshakeStep, HandshakeMessage, ProcessMessage,
       HandshakeFails, HandshakeReturns, Timeout, Return
  <1>5. ASSUME NEW e \in Ends, ReadBuffered(e) \/ ReadPacket(e) \/ ReadFails(e) PROVE PanickedLong'
    BY <1>1, <1>5, Zenon DEF ReadBuffered, ReadPacket, ReadFails
  <1>6. ASSUME NEW e \in Ends, NEW w \in Writers, NEW n \in PayLens, Encrypt(e, w, n) PROVE PanickedLong'
    BY <1>1, <1>6, Zenon DEF Encrypt, EncryptPacket
  <1> QED
    BY <1>2, <1>3, <1>4, <1>5, <1>6, Zenon DEF Next, ReadFrame

\* While its connection is up, a reader fails only after its peer wrote a frame that
\* is too long for the packet's 16 bits once encryption has added to it, and a process
\* panics only after such a frame whose length wrapped around to less than a sequence
\* number: keys match and no packet is cut, so nothing else keeps a packet from being
\* decrypted.
THEOREM NoiseOnlyLongFramesFail == Spec => []OnlyLongFramesFail
  <1>1. Init => FailedLong /\ PanickedLong
    BY Zenon DEF Init, FailedLong, PanickedLong
  <1>2. FailedLong /\ PanickedLong => OnlyLongFramesFail
    BY Zenon DEF FailedLong, PanickedLong, OnlyLongFramesFail
  <1> QED
    BY <1>1, <1>2, FailedStep, PanickedStep, GInvHolds, PTL DEF Spec

=============================================================================
