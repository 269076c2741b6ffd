-------------------------- MODULE ClientConnProofs ---------------------------
(***************************************************************************)
(* The locks of a connection and its listener do what they are for, for    *)
(* any number of dials, requests, ids and frames: the accept channel is    *)
(* not used after it was closed, an open transport is found by its id, and *)
(* close closes all but the orphans.                                       *)
(***************************************************************************)
EXTENDS ClientConn, TLAPS

\* Threads, the map and the transports are well typed.  A request has the id that
\* the server gave it; the ids of dials are numbers.
MapType ==
    /\ at \in [Threads -> Labels]
    /\ tps \in [Ids -> Transports \cup {None}]
    /\ tp \in [Transports -> {"none", "open", "closing", "closed"}]
    /\ DOMAIN tpID = Transports
    /\ \A r \in Requests : tpID[r] = r
    /\ \A d \in Dials : tp[d] # "none" => tpID[d] \in 0 .. InitIds - 1
    /\ nextInitID \in 0 .. InitIds - 1

QueueType ==
    /\ accept \in Seq(Transports) /\ Len(accept) <= AcceptBufferSize
    /\ lis \in {"none", "open", "closed"}

\* Listener.mx: who is in IntroduceTransport holds it and has found a listener, and
\* the listener is open while somebody is about to send on its channel.
ListenerLocked ==
    /\ \A r \in Requests :
          /\ at[r] \in {"select", "introduce"} => lis # "none"
          /\ at[r] \in {"send", "writeAccept", "closeMaxed", "closeFailed"} => lisMx = r
    /\ NoSendOnClosed

\* The goroutine of a request is started once, and a transport that it started to
\* serve is about to be entered into the map, or has been.
OneGoroutine ==
    /\ DOMAIN peer = Transports /\ serving \subseteq Transports
    /\ \A r \in Requests : r \in serving => at[r] \in {"setTp", "end"}
    /\ \A r \in Requests : peer[r] = "none" => at[r] = "none"
    /\ \A r \in Requests : tps[r] = r => at[r] = "end"
    /\ at["serve"] \in {"getTp", "delTp"} /\ frame.type = "REQUEST" =>
          frame.tp \in Requests /\ at[frame.tp] = "none" /\ peer[frame.tp] # "none"

\* close has taken every open transport of the map in hand, and none was added since.
AllTaken ==
    /\ once # "no" => done
    /\ \A p \in Threads : at[p] = "closeMx" => done
    /\ at["serve"] = "end" => once = "over"
    /\ once = "over" =>
          \A t \in Transports : Open(t) /\ t \notin orphans /\ tps[tpID[t]] = t => t \in toClose

CInv == MapType /\ QueueType /\ ListenerLocked /\ OneGoroutine /\ OpenTpIsMapped /\ AllTaken

\* The counter of ids stays among them (getNextInitID).
LEMMA NextIDType ==
    ASSUME NEW n \in 0 .. InitIds - 1 PROVE (n + 1) % InitIds \in 0 .. InitIds - 1
  BY ClientConnAssumption

\* The initial states satisfy the invariant.
LEMMA CInvInit == Init => CInv
  <1> SUFFICES ASSUME Init PROVE CInv
    BY Zenon
  <1> USE ClientConnAssumption
  <1>1. MapType
    BY Zenon DEF Init, MapType, Labels, Transports, Ids, Threads
  <1>2. QueueType
    BY DEF Init, QueueType
  <1>3. ListenerLocked /\ OneGoroutine
    BY Zenon DEF Init, ListenerLocked, NoSendOnClosed, OneGoroutine, Transports, Ids, Threads
  <1>4. OpenTpIsMapped /\ AllTaken
    BY Zenon DEF Init, OpenTpIsMapped, AllTaken, Open, Transports, Threads
  <1> QED
    BY <1>1, <1>2, <1>3, <1>4, Zenon DEF CInv

\* Every step keeps threads, map and transports well typed.
LEMMA MapTypeStep == MapType /\ [Next]_vars => MapType'
  <1> SUFFICES ASSUME MapType, [Next]_vars PROVE MapType'
    BY Zenon
  <1> USE ClientConnAssumption DEF MapType, Threads, Transports, Ids, Labels, tpVars, lisVars, mapVars, closeVars, peerVars
  <1>1. CASE UNCHANGED <<at, tps, tp, tpID, nextInitID>>
    BY <1>1, Zenon
  <1>2. CASE ReadFrame
    BY <1>2, Zenon DEF ReadFrame, Goto, Peer
  <1>3. CASE ReadFails
    BY <1>3, Zenon DEF ReadFails, Goto
  <1>4. CASE GetTp
    BY <1>4, Zenon DEF GetTp, Goto
  <1>5. CASE HandleFrame
    BY <1>5, Zenon DEF HandleFrame, Goto
  <1>6. CASE HandleFrameClosed
    BY <1>6, Zenon DEF HandleFrameClosed, Goto
  <1>7. CASE NoTp
    BY <1>7, Zenon DEF NoTp, Goto, DelTp
  <1>8. CASE WriteClose
    BY <1>8, Zenon DEF WriteClose, Goto, Peer
  <1>9. ASSUME NEW r \in Requests, RejectRequest(r) PROVE MapType'
    BY <1>9, Zenon DEF RejectRequest, Goto, Peer
  <1>10. ASSUME NEW r \in Requests, FindListener(r) PROVE MapType'
    BY <1>10 DEF FindListener, Goto
  <1>11. ASSUME NEW r \in Requests, SelectDone(r) PROVE MapType'
    BY <1>11, Zenon DEF SelectDone, Goto, CloseTp
  <1>12. ASSUME NEW r \in Requests, SelectDefault(r) PROVE MapType'
    BY <1>12, Zenon DEF SelectDefault, Goto
  <1>13. ASSUME NEW r \in Requests, IntroduceClosed(r) PROVE MapType'
    BY <1>13, Zenon DEF IntroduceClosed, Goto
  <1>14. ASSUME NEW r \in Requests, Introduce(r) PROVE MapType'
    BY <1>14, Zenon DEF Introduce, Goto
  <1>15. ASSUME NEW r \in Requests, SendAccept(r) PROVE MapType'
    BY <1>15, Zenon DEF SendAccept, Goto
  <1>16. ASSUME NEW r \in Requests, AcceptMaxed(r) PROVE MapType'
    BY <1>16, Zenon DEF AcceptMaxed, Goto, CloseTp
  <1>17. ASSUME NEW r \in Requests, WriteAccept(r) PROVE MapType'
    BY <1>17, Zenon DEF WriteAccept, Goto
  <1>18. ASSUME NEW r \in Requests, WriteAcceptFails(r) PROVE MapType'
    BY <1>18, Zenon DEF WriteAcceptFails, Goto, CloseTp
  <1>19. ASSUME NEW r \in Requests, RequestTpClosed(r) PROVE MapType'
    BY <1>19, Zenon DEF RequestTpClosed, Goto
  <1>20. ASSUME NEW r \in Requests, SetTp(r) PROVE MapType'
    BY <1>20, Zenon DEF SetTp, Goto
  <1>21. ASSUME NEW d \in Dials, Dial(d) PROVE MapType'
    BY <1>21, Zenon DEF Dial, Goto
  <1>22. ASSUME NEW d \in Dials, LockMx(d) PROVE MapType'
    BY <1>22, Zenon DEF LockMx, Goto
  <1>23. ASSUME NEW d \in Dials, GiveUp(d) PROVE MapType'
    BY <1>23, Zenon DEF GiveUp, Goto
  <1>24. ASSUME NEW d \in Dials, GetNextInitID(d) PROVE MapType'
    BY <1>24, NextIDType DEF GetNextInitID, Goto
  <1>25. ASSUME NEW d \in Dials, InitIDInUse(d) PROVE MapType'
    BY <1>25, NextIDType, Zenon DEF InitIDInUse
  <1>26. ASSUME NEW d \in Dials, WriteRequest(d) PROVE MapType'
    BY <1>26, Zenon DEF WriteRequest, Goto, Peer
  <1>27. ASSUME NEW d \in Dials, WriteRequestFails(d) PROVE MapType'
    BY <1>27, Zenon DEF WriteRequestFails, Goto, CloseTp
  <1>28. ASSUME NEW d \in Dials, ReadAccept(d) PROVE MapType'
    BY <1>28, Zenon DEF ReadAccept, Goto
  <1>29. ASSUME NEW d \in Dials, ReadAcceptFails(d) PROVE MapType'
    BY <1>29, Zenon DEF ReadAcceptFails, Goto, CloseTp
  <1>30. ASSUME NEW d \in Dials, ReadAcceptEnds(d) PROVE MapType'
    BY <1>30, Zenon DEF ReadAcceptEnds, Goto, CloseTp
  <1>31. ASSUME NEW d \in Dials, DialTpClosed(d) PROVE MapType'
    BY <1>31, Zenon DEF DialTpClosed, Goto
  <1>32. ASSUME NEW t \in Transports, ServeTp(t) PROVE MapType'
    BY <1>32 DEF ServeTp, CloseTp
  <1>33. ASSUME NEW t \in Transports, CloseGoroutine(t) PROVE MapType'
    BY <1>33, Zenon DEF CloseGoroutine, CloseTp
  <1>34. ASSUME NEW t \in Transports, DoneFunc(t) PROVE MapType'
    BY <1>34, Zenon DEF DoneFunc, DelTp
  <1>35. ASSUME NEW t \in Transports, UserCloseTp(t) PROVE MapType'
    BY <1>35, Zenon DEF UserCloseTp, CloseTp
  <1>36. ASSUME NEW p \in Threads, CloseOnce(p) PROVE MapType'
    BY <1>36, Zenon DEF CloseOnce, Goto
  <1>37. ASSUME NEW p \in Threads, CloseAgain(p) PROVE MapType'
    BY <1>37, Zenon DEF CloseAgain, Goto
  <1>38. ASSUME NEW p \in Threads, CloseMx(p) PROVE MapType'
    BY <1>38, Zenon DEF CloseMx, Goto
  <1>39. ASSUME NEW p \in Threads, WgWait(p) PROVE MapType'
    BY <1>39, Zenon DEF WgWait, Goto
  <1>40. CASE UserClose
    BY <1>40, Zenon DEF UserClose, Goto
  <1>41. CASE UserCloseListeners
    BY <1>41, Zenon DEF UserCloseListeners, Goto, CloseListener
  <1>42. CASE UserNoListeners
    BY <1>42, Zenon DEF UserNoListeners, Goto
  <1> QED
    BY Zenon, <1>1, <1>2, <1>3, <1>4, <1>5, <1>6, <1>7, <1>8, <1>9, <1>10, <1>11, <1>12,
       <1>13, <1>14, <1>15, <1>16, <1>17, <1>18, <1>19, <1>20, <1>21, <1>22, <1>23,
       <1>24, <1>25, <1>26, <1>27, <1>28, <1>29, <1>30, <1>31, <1>32, <1>33, <1>34,
       <1>35, <1>36, <1>37, <1>38, <1>39, <1>40, <1>41, <1>42
    DEF Next, ServeStep, RequestStep, DialStep, TpStep, CloseStep, Idle, vars, Cancel,
        Listen, ListenerClose, AcceptTransport, BreakConn

\* Every step keeps the accept queue within its buffer.
LEMMA QueueTypeStep == QueueType /\ [Next]_vars => QueueType'
  <1> SUFFICES ASSUME QueueType, [Next]_vars PROVE QueueType'
    BY Zenon
  <1> USE ClientConnAssumption DEF QueueType, Transports, tpVars, lisVars, mapVars, closeVars, peerVars
  <1>1. CASE UNCHANGED <<accept, lis>>
    BY <1>1, Zenon
  <1>2. ASSUME NEW r \in Requests, SendAccept(r) PROVE QueueType'
    BY <1>2 DEF SendAccept, Goto
  <1>3. CASE UserCloseListeners
    BY <1>3 DEF UserCloseListeners, Goto, CloseListener
  <1>4. CASE Listen
    BY <1>4, Zenon DEF Listen
  <1>5. CASE ListenerClose
    BY <1>5 DEF ListenerClose, CloseListener
  <1>6. CASE AcceptTransport
    BY <1>6 DEF AcceptTransport
  <1> QED
    BY <1>1, <1>2, <1>3, <1>4, <1>5, <1>6
    DEF Next, ServeStep, RequestStep, DialStep, TpStep, CloseStep, Idle, vars,
        ReadFrame, ReadFails, GetTp, HandleFrame, HandleFrameClosed, NoTp, WriteClose,
        RejectRequest, FindListener, SelectDone, SelectDefault, IntroduceClosed,
        Introduce, AcceptMaxed, WriteAccept, WriteAcceptFails, RequestTpClosed, SetTp,
        Dial, Cancel, LockMx, GiveUp, GetNextInitID, InitIDInUse, WriteRequest,
        WriteRequestFails, ReadAccept, ReadAcceptFails, ReadAcceptEnds, DialTpClosed,
        ServeTp, CloseGoroutine, DoneFunc, UserCloseTp, CloseOnce, CloseAgain, CloseMx,
        WgWait, UserClose, UserNoListeners, BreakConn

\* Every step keeps the lock of the listener (IntroduceTransport, Listener.close).
LEMMA ListenerStep == MapType /\ QueueType /\ ListenerLocked /\ [Next]_vars => ListenerLocked'
  <1> SUFFICES ASSUME MapType, QueueType, ListenerLocked, [Next]_vars PROVE ListenerLocked'
    BY Zenon
  <1> USE ClientConnAssumption DEF MapType, QueueType, ListenerLocked, NoSendOnClosed, Threads, Transports, tpVars, lisVars, mapVars, closeVars, peerVars
  <1>1. CASE UNCHANGED <<at, lis, lisMx>>
    BY <1>1, Zenon
  <1>2. CASE ReadFrame
    BY <1>2, Zenon DEF ReadFrame, Goto, Peer
  <1>3. CASE ReadFails
    BY <1>3, Zenon DEF ReadFails, Goto
  <1>4. CASE GetTp
    BY <1>4, Zenon DEF GetTp, Goto
  <1>5. CASE HandleFrame
    BY <1>5, Zenon DEF HandleFrame, Goto
  <1>6. CASE HandleFrameClosed
    BY <1>6, Zenon DEF HandleFrameClosed, Goto
  <1>7. CASE NoTp
    BY <1>7, Zenon DEF NoTp, Goto, DelTp
  <1>8. CASE WriteClose
    BY <1>8, Zenon DEF WriteClose, Goto, Peer
  <1>9. ASSUME NEW r \in Requests, RejectRequest(r) PROVE ListenerLocked'
    BY <1>9, Zenon DEF RejectRequest, Goto, Peer
  <1>10. ASSUME NEW r \in Requests, FindListener(r) PROVE ListenerLocked'
    BY <1>10, Zenon DEF FindListener, Goto
  <1>11. ASSUME NEW r \in Requests, SelectDone(r) PROVE ListenerLocked'
    BY <1>11, Zenon DEF SelectDone, Goto, CloseTp
  <1>12. ASSUME NEW r \in Requests, SelectDefault(r) PROVE ListenerLocked'
    BY <1>12, Zenon DEF SelectDefault, Goto
  <1>13. ASSUME NEW r \in Requests, IntroduceClosed(r) PROVE ListenerLocked'
    BY <1>13, Zenon DEF IntroduceClosed, Goto
  <1>14. ASSUME NEW r \in Requests, Introduce(r) PROVE ListenerLocked'
    BY <1>14, Zenon DEF Introduce, Goto
  <1>15. ASSUME NEW r \in Requests, SendAccept(r) PROVE ListenerLocked'
    BY <1>15, Zenon DEF SendAccept, Goto
  <1>16. ASSUME NEW r \in Requests, AcceptMaxed(r) PROVE ListenerLocked'
    BY <1>16, Zenon DEF AcceptMaxed, Goto, CloseTp
  <1>17. ASSUME NEW r \in Requests, WriteAccept(r) PROVE ListenerLocked'
    BY <1>17, Zenon DEF WriteAccept, Goto
  <1>18. ASSUME NEW r \in Requests, WriteAcceptFails(r) PROVE ListenerLocked'
    BY <1>18, Zenon DEF WriteAcceptFails, Goto, CloseTp
  <1>19. ASSUME NEW r \in Requests, RequestTpClosed(r) PROVE ListenerLocked'
    BY <1>19, Zenon DEF RequestTpClosed, Goto
  <1>20. ASSUME NEW r \in Requests, SetTp(r) PROVE ListenerLocked'
    BY <1>20, Zenon DEF SetTp, Goto
  <1>21. ASSUME NEW d \in Dials, Dial(d) PROVE ListenerLocked'
    BY <1>21, Zenon DEF Dial, Goto
  <1>22. ASSUME NEW d \in Dials, LockMx(d) PROVE ListenerLocked'
    BY <1>22, Zenon DEF LockMx, Goto
  <1>23. ASSUME NEW d \in Dials, GiveUp(d) PROVE ListenerLocked'
    BY <1>23, Zenon DEF GiveUp, Goto
  <1>24. ASSUME NEW d \in Dials, GetNextInitID(d) PROVE ListenerLocked'
    BY <1>24, Zenon DEF GetNextInitID, Goto
  <1>25. ASSUME NEW d \in Dials, WriteRequest(d) PROVE ListenerLocked'
    BY <1>25, Zenon DEF WriteRequest, Goto, Peer
  <1>26. ASSUME NEW d \in Dials, WriteRequestFails(d) PROVE ListenerLocked'
    BY <1>26, Zenon DEF WriteRequestFails, Goto, CloseTp
  <1>27. ASSUME NEW d \in Dials, ReadAccept(d) PROVE ListenerLocked'
    BY <1>27, Zenon DEF ReadAccept, Goto
  <1>28. ASSUME NEW d \in Dials, ReadAcceptFails(d) PROVE ListenerLocked'
    BY <1>28, Zenon DEF ReadAcceptFails, Goto, CloseTp
  <1>29. ASSUME NEW d \in Dials, ReadAcceptEnds(d) PROVE ListenerLocked'
    BY <1>29, Zenon DEF ReadAcceptEnds, Goto, CloseTp
  <1>30. ASSUME NEW d \in Dials, DialTpClosed(d) PROVE ListenerLocked'
    BY <1>30, Zenon DEF DialTpClosed, Goto
  <1>31. ASSUME NEW p \in Threads, CloseOnce(p) PROVE ListenerLocked'
    BY <1>31, Zenon DEF CloseOnce, Goto
  <1>32. ASSUME NEW p \in Threads, CloseAgain(p) PROVE ListenerLocked'
    BY <1>32, Zenon DEF CloseAgain, Goto
  <1>33. ASSUME NEW p \in Threads, CloseMx(p) PROVE ListenerLocked'
    BY <1>33, Zenon DEF CloseMx, Goto
  <1>34. ASSUME NEW p \in Threads, WgWait(p) PROVE ListenerLocked'
    BY <1>34, Zenon DEF WgWait, Goto
  <1>35. CASE UserClose
    BY <1>35, Zenon DEF UserClose, Goto
  <1>36. CASE UserCloseListeners
    BY <1>36, Zenon DEF UserCloseListeners, Goto, CloseListener
  <1>37. CASE UserNoListeners
    BY <1>37, Zenon DEF UserNoListeners, Goto
  <1>38. CASE Listen
    BY <1>38, Zenon DEF Listen
  <1>39. CASE ListenerClose
    BY <1>39, Zenon DEF ListenerClose, CloseListener
  <1> QED
    BY Zenon, <1>1, <1>2, <1>3, <1>4, <1>5, <1>6, <1>7, <1>8, <1>9, <1>10, <1>11, <1>12,
       <1>13, <1>14, <1>15, <1>16, <1>17, <1>18, <1>19, <1>20, <1>21, <1>22, <1>23,
       <1>24, <1>25, <1>26, <1>27, <1>28, <1>29, <1>30, <1>31, <1>32, <1>33, <1>34,
       <1>35, <1>36, <1>37, <1>38, <1>39
    DEF Next, ServeStep, RequestStep, DialStep, TpStep, CloseStep, Idle, vars, Cancel,
        InitIDInUse, ServeTp, CloseGoroutine, DoneFunc, UserCloseTp, AcceptTransport,
        BreakConn

\* Every step keeps one goroutine to a request (Serve, handleRequestFrame).
LEMMA GoroutineStep == MapType /\ OneGoroutine /\ [Next]_vars => OneGoroutine'
  <1> SUFFICES ASSUME MapType, OneGoroutine, [Next]_vars PROVE OneGoroutine'
    BY Zenon
  <1> USE ClientConnAssumption DEF MapType, OneGoroutine, Threads, Transports, Ids, tpVars, lisVars, mapVars, closeVars, peerVars
  <1>1. CASE UNCHANGED <<at, peer, serving, frame, tps>>
    BY <1>1, Zenon
  <1>2. CASE ReadFrame
    BY <1>2 DEF ReadFrame, Goto, Peer
  <1>3. CASE ReadFails
    BY <1>3, Zenon DEF ReadFails, Goto
  <1>4. CASE GetTp
    BY <1>4, Zenon DEF GetTp, Goto
  <1>5. CASE HandleFrame
    BY <1>5, Zenon DEF HandleFrame, Goto
  <1>6. CASE HandleFrameClosed
    BY <1>6, Zenon DEF HandleFrameClosed, Goto
  <1>7. CASE NoTp
    BY <1>7 DEF NoTp, Goto, DelTp
  <1>8. CASE WriteClose
    BY <1>8 DEF WriteClose, Goto, Peer
  <1>9. ASSUME NEW r \in Requests, RejectRequest(r) PROVE OneGoroutine'
    BY <1>9 DEF RejectRequest, Goto, Peer
  <1>10. ASSUME NEW r \in Requests, FindListener(r) PROVE OneGoroutine'
    BY <1>10, Zenon DEF FindListener, Goto
  <1>11. ASSUME NEW r \in Requests, SelectDone(r) PROVE OneGoroutine'
    BY <1>11, Zenon DEF SelectDone, Goto, CloseTp
  <1>12. ASSUME NEW r \in Requests, SelectDefault(r) PROVE OneGoroutine'
    BY <1>12, Zenon DEF SelectDefault, Goto
  <1>13. ASSUME NEW r \in Requests, IntroduceClosed(r) PROVE OneGoroutine'
    BY <1>13, Zenon DEF IntroduceClosed, Goto
  <1>14. ASSUME NEW r \in Requests, Introduce(r) PROVE OneGoroutine'
    BY <1>14, Zenon DEF Introduce, Goto
  <1>15. ASSUME NEW r \in Requests, SendAccept(r) PROVE OneGoroutine'
    BY <1>15, Zenon DEF SendAccept, Goto
  <1>16. ASSUME NEW r \in Requests, AcceptMaxed(r) PROVE OneGoroutine'
    BY <1>16, Zenon DEF AcceptMaxed, Goto, CloseTp
  <1>17. ASSUME NEW r \in Requests, WriteAccept(r) PROVE OneGoroutine'
    BY <1>17, Zenon DEF WriteAccept, Goto
  <1>18. ASSUME NEW r \in Requests, WriteAcceptFails(r) PROVE OneGoroutine'
    BY <1>18, Zenon DEF WriteAcceptFails, Goto, CloseTp
  <1>19. ASSUME NEW r \in Requests, RequestTpClosed(r) PROVE OneGoroutine'
    BY <1>19, Zenon DEF RequestTpClosed, Goto
  <1>20. ASSUME NEW r \in Requests, SetTp(r) PROVE OneGoroutine'
    BY <1>20, Zenon DEF SetTp, Goto
  <1>21. ASSUME NEW d \in Dials, Dial(d) PROVE OneGoroutine'
    BY <1>21, Zenon DEF Dial, Goto
  <1>22. ASSUME NEW d \in Dials, LockMx(d) PROVE OneGoroutine'
    BY <1>22, Zenon DEF LockMx, Goto
  <1>23. ASSUME NEW d \in Dials, GiveUp(d) PROVE OneGoroutine'
    BY <1>23, Zenon DEF GiveUp, Goto
  <1>24. ASSUME NEW d \in Dials, GetNextInitID(d) PROVE OneGoroutine'
    BY <1>24 DEF GetNextInitID, Goto
  <1>25. ASSUME NEW d \in Dials, WriteRequest(d) PROVE OneGoroutine'
    BY <1>25, Zenon DEF WriteRequest, Goto, Peer
  <1>26. ASSUME NEW d \in Dials, WriteRequestFails(d) PROVE OneGoroutine'
    BY <1>26, Zenon DEF WriteRequestFails, Goto, CloseTp
  <1>27. ASSUME NEW d \in Dials, ReadAccept(d) PROVE OneGoroutine'
    BY <1>27 DEF ReadAccept, Goto
  <1>28. ASSUME NEW d \in Dials, ReadAcceptFails(d) PROVE OneGoroutine'
    BY <1>28, Zenon DEF ReadAcceptFails, Goto, CloseTp
  <1>29. ASSUME NEW d \in Dials, ReadAcceptEnds(d) PROVE OneGoroutine'
    BY <1>29, Zenon DEF ReadAcceptEnds, Goto, CloseTp
  <1>30. ASSUME NEW d \in Dials, DialTpClosed(d) PROVE OneGoroutine'
    BY <1>30, Zenon DEF DialTpClosed, Goto
  <1>31. ASSUME NEW t \in Transports, DoneFunc(t) PROVE OneGoroutine'
    BY <1>31, Zenon DEF DoneFunc, DelTp
  <1>32. ASSUME NEW p \in Threads, CloseOnce(p) PROVE OneGoroutine'
    BY <1>32, Zenon DEF CloseOnce, Goto
  <1>33. ASSUME NEW p \in Threads, CloseAgain(p) PROVE OneGoroutine'
    BY <1>33, Zenon DEF CloseAgain, Goto
  <1>34. ASSUME NEW p \in Threads, CloseMx(p) PROVE OneGoroutine'
    BY <1>34, Zenon DEF CloseMx, Goto
  <1>35. ASSUME NEW p \in Threads, WgWait(p) PROVE OneGoroutine'
    BY <1>35, Zenon DEF WgWait, Goto
  <1>36. CASE UserClose
    BY <1>36, Zenon DEF UserClose, Goto
  <1>37. CASE UserCloseListeners
    BY <1>37, Zenon DEF UserCloseListeners, Goto, CloseListener
  <1>38. CASE UserNoListeners
    BY <1>38, Zenon DEF UserNoListeners, Goto
  <1> QED
    BY Zenon, <1>1, <1>2, <1>3, <1>4, <1>5, <1>6, <1>7, <1>8, <1>9, <1>10, <1>11, <1>12,
       <1>13, <1>14, <1>15, <1>16, <1>17, <1>18, <1>19, <1>20, <1>21, <1>22, <1>23,
       <1>24, <1>25, <1>26, <1>27, <1>28, <1>29, <1>30, <1>31, <1>32, <1>33, <1>34,
       <1>35, <1>36, <1>37, <1>38
    DEF Next, ServeStep, RequestStep, DialStep, TpStep, CloseStep, Idle, vars, Cancel,
        InitIDInUse, ServeTp, CloseGoroutine, UserCloseTp, Listen, ListenerClose,
        AcceptTransport, BreakConn

\* Every step keeps open transports in the map (addTp, setTp, delTp).
LEMMA MappedStep == MapType /\ OneGoroutine /\ OpenTpIsMapped /\ [Next]_vars => OpenTpIsMapped'
  <1> SUFFICES ASSUME MapType, OneGoroutine, OpenTpIsMapped, [Next]_vars PROVE OpenTpIsMapped'
    BY Zenon
  <1> USE ClientConnAssumption DEF MapType, OneGoroutine, OpenTpIsMapped, Open, Threads, Transports, Ids, tpVars, lisVars, mapVars, closeVars, peerVars
  <1>1. CASE UNCHANGED <<at, tps, tp, tpID, serving, orphans>>
    BY <1>1, Zenon
  <1>2. CASE ReadFrame
    BY <1>2, Zenon DEF ReadFrame, Goto, Peer
  <1>3. CASE ReadFails
    BY <1>3, Zenon DEF ReadFails, Goto
  <1>4. CASE GetTp
    BY <1>4, Zenon DEF GetTp, Goto
  <1>5. CASE HandleFrame
    BY <1>5, Zenon DEF HandleFrame, Goto
  <1>6. CASE HandleFrameClosed
    BY <1>6, Zenon DEF HandleFrameClosed, Goto
  <1>7. CASE NoTp
    <2>1. /\ UNCHANGED <<tp, tpID, serving>> /\ orphans \subseteq orphans'
          /\ \A i \in Ids : tps'[i] = tps[i] \/ i = tpID[frame.tp]
          /\ Open(tps[tpID[frame.tp]]) => tps[tpID[frame.tp]] \in orphans'
      BY <1>7, Zenon DEF NoTp, DelTp
    <2>2. \A r \in Requests : at'[r] = "end" => at[r] = "end"
      BY <1>7, Zenon DEF NoTp
    <2> SUFFICES ASSUME NEW t \in Transports, Open(t)', t \notin orphans',
                        t \in Dials \/ (at'[t] = "end" /\ t \in serving')
                 PROVE  tps'[tpID'[t]] = t
      BY Zenon DEF OpenTpIsMapped
    <2>3. tps[tpID[t]] = t /\ tpID[t] \in Ids
      BY <2>1, <2>2
    <2> HIDE DEF MapType, OneGoroutine, OpenTpIsMapped, Threads, Transports, Ids
    <2>4. tpID[t] # tpID[frame.tp]
      BY <2>1, <2>3, Zenon
    <2>5. tps'[tpID[t]] = tps[tpID[t]]
      BY <2>1, <2>3, <2>4, Zenon
    <2> QED
      BY <2>1, <2>3, <2>5, Zenon
  <1>8. CASE WriteClose
    BY <1>8, Zenon DEF WriteClose, Goto, Peer
  <1>9. ASSUME NEW r \in Requests, RejectRequest(r) PROVE OpenTpIsMapped'
    BY <1>9, Zenon DEF RejectRequest, Goto, Peer
  <1>10. ASSUME NEW r \in Requests, FindListener(r) PROVE OpenTpIsMapped'
    BY <1>10 DEF FindListener, Goto
  <1>11. ASSUME NEW r \in Requests, SelectDone(r) PROVE OpenTpIsMapped'
    BY <1>11, Zenon DEF SelectDone, Goto, CloseTp
  <1>12. ASSUME NEW r \in Requests, SelectDefault(r) PROVE OpenTpIsMapped'
    BY <1>12, Zenon DEF SelectDefault, Goto
  <1>13. ASSUME NEW r \in Requests, IntroduceClosed(r) PROVE OpenTpIsMapped'
    BY <1>13, Zenon DEF IntroduceClosed, Goto
  <1>14. ASSUME NEW r \in Requests, Introduce(r) PROVE OpenTpIsMapped'
    BY <1>14, Zenon DEF Introduce, Goto
  <1>15. ASSUME NEW r \in Requests, SendAccept(r) PROVE OpenTpIsMapped'
    BY <1>15, Zenon DEF SendAccept, Goto
  <1>16. ASSUME NEW r \in Requests, AcceptMaxed(r) PROVE OpenTpIsMapped'
    BY <1>16, Zenon DEF AcceptMaxed, Goto, CloseTp
  <1>17. ASSUME NEW r \in Requests, WriteAccept(r) PROVE OpenTpIsMapped'
    BY <1>17, Zenon DEF WriteAccept, Goto
  <1>18. ASSUME NEW r \in Requests, WriteAcceptFails(r) PROVE OpenTpIsMapped'
    BY <1>18, Zenon DEF WriteAcceptFails, Goto, CloseTp
  <1>19. ASSUME NEW r \in Requests, RequestTpClosed(r) PROVE OpenTpIsMapped'
    BY <1>19, Zenon DEF RequestTpClosed, Goto
  <1>20. ASSUME NEW r \in Requests, SetTp(r) PROVE OpenTpIsMapped'
    BY <1>20 DEF SetTp, Goto
  <1>21. ASSUME NEW d \in Dials, Dial(d) PROVE OpenTpIsMapped'
    BY <1>21, Zenon DEF Dial, Goto
  <1>22. ASSUME NEW d \in Dials, LockMx(d) PROVE OpenTpIsMapped'
    BY <1>22, Zenon DEF LockMx, Goto
  <1>23. ASSUME NEW d \in Dials, GiveUp(d) PROVE OpenTpIsMapped'
    BY <1>23, Zenon DEF GiveUp, Goto
  <1>24. ASSUME NEW d \in Dials, GetNextInitID(d) PROVE OpenTpIsMapped'
    BY <1>24 DEF GetNextInitID, Goto
  <1>25. ASSUME NEW d \in Dials, WriteRequest(d) PROVE OpenTpIsMapped'
    BY <1>25, Zenon DEF WriteRequest, Goto, Peer
  <1>26. ASSUME NEW d \in Dials, WriteRequestFails(d) PROVE OpenTpIsMapped'
    BY <1>26, Zenon DEF WriteRequestFails, Goto, CloseTp
  <1>27. ASSUME NEW d \in Dials, ReadAccept(d) PROVE OpenTpIsMapped'
    BY <1>27, Zenon DEF ReadAccept, Goto
  <1>28. ASSUME NEW d \in Dials, ReadAcceptFails(d) PROVE OpenTpIsMapped'
    BY <1>28, Zenon DEF ReadAcceptFails, Goto, CloseTp
  <1>29. ASSUME NEW d \in Dials, ReadAcceptEnds(d) PROVE OpenTpIsMapped'
    BY <1>29, Zenon DEF ReadAcceptEnds, Goto, CloseTp
  <1>30. ASSUME NEW d \in Dials, DialTpClosed(d) PROVE OpenTpIsMapped'
    BY <1>30, Zenon DEF DialTpClosed, Goto
  <1>31. ASSUME NEW t \in Transports, ServeTp(t) PROVE OpenTpIsMapped'
    BY <1>31 DEF ServeTp, CloseTp
  <1>32. ASSUME NEW t \in Transports, CloseGoroutine(t) PROVE OpenTpIsMapped'
    BY <1>32, Zenon DEF CloseGoroutine, CloseTp
  <1>33. ASSUME NEW t \in Transports, DoneFunc(t) PROVE OpenTpIsMapped'
    BY <1>33 DEF DoneFunc, DelTp
  <1>34. ASSUME NEW t \in Transports, UserCloseTp(t) PROVE OpenTpIsMapped'
    BY <1>34, Zenon DEF UserCloseTp, CloseTp
  <1>35. ASSUME NEW p \in Threads, CloseOnce(p) PROVE OpenTpIsMapped'
    BY <1>35, Zenon DEF CloseOnce, Goto
  <1>36. ASSUME NEW p \in Threads, CloseAgain(p) PROVE OpenTpIsMapped'
    BY <1>36, Zenon DEF CloseAgain, Goto
  <1>37. ASSUME NEW p \in Threads, CloseMx(p) PROVE OpenTpIsMapped'
    BY <1>37, Zenon DEF CloseMx, Goto
  <1>38. ASSUME NEW p \in Threads, WgWait(p) PROVE OpenTpIsMapped'
    BY <1>38, Zenon DEF WgWait, Goto
  <1>39. CASE UserClose
    BY <1>39, Zenon DEF UserClose, Goto
  <1>40. CASE UserCloseListeners
    BY <1>40, Zenon DEF UserCloseListeners, Goto, CloseListener
  <1>41. CASE UserNoListeners
    BY <1>41, Zenon DEF UserNoListeners, Goto
  <1> QED
    BY Zenon, <1>1, <1>2, <1>3, <1>4, <1>5, <1>6, <1>7, <1>8, <1>9, <1>10, <1>11, <1>12,
       <1>13, <1>14, <1>15, <1>16, <1>17, <1>18, <1>19, <1>20, <1>21, <1>22, <1>23,
       <1>24, <1>25, <1>26, <1>27, <1>28, <1>29, <1>30, <1>31, <1>32, <1>33, <1>34,
       <1>35, <1>36, <1>37, <1>38, <1>39, <1>40, <1>41
    DEF Next, ServeStep, RequestStep, DialStep, TpStep, CloseStep, Idle, vars, Cancel,
        InitIDInUse, Listen, ListenerClose, AcceptTransport, BreakConn

\* Every step keeps what close has taken in hand (close, addTp, setTp).
LEMMA TakenStep == MapType /\ OneGoroutine /\ AllTaken /\ [Next]_vars => AllTaken'
  <1> SUFFICES ASSUME MapType, OneGoroutine, AllTaken, [Next]_vars PROVE AllTaken'
    BY Zenon
  <1> USE ClientConnAssumption DEF MapType, OneGoroutine, AllTaken, Open, Threads, Transports, Ids, tpVars, lisVars, mapVars, closeVars, peerVars
  <1>1. CASE UNCHANGED <<once, done, at, tp, orphans, tps, tpID, toClose>>
    BY <1>1, Zenon
  <1>2. CASE ReadFrame
    BY <1>2, Zenon DEF ReadFrame, Goto, Peer
  <1>3. CASE ReadFails
    BY <1>3, Zenon DEF ReadFails, Goto
  <1>4. CASE GetTp
    BY <1>4, Zenon DEF GetTp, Goto
  <1>5. CASE HandleFrame
    BY <1>5, Zenon DEF HandleFrame, Goto
  <1>6. CASE HandleFrameClosed
    BY <1>6, Zenon DEF HandleFrameClosed, Goto
  <1>7. CASE NoTp
    BY SMTT(60), <1>7 DEF NoTp, Goto, DelTp
  <1>8. CASE WriteClose
    BY <1>8, Zenon DEF WriteClose, Goto, Peer
  <1>9. ASSUME NEW r \in Requests, RejectRequest(r) PROVE AllTaken'
    BY <1>9, Zenon DEF RejectRequest, Goto, Peer
  <1>10. ASSUME NEW r \in Requests, FindListener(r) PROVE AllTaken'
    BY <1>10 DEF FindListener, Goto
  <1>11. ASSUME NEW r \in Requests, SelectDone(r) PROVE AllTaken'
    BY <1>11, Zenon DEF SelectDone, Goto, CloseTp
  <1>12. ASSUME NEW r \in Requests, SelectDefault(r) PROVE AllTaken'
    BY <1>12, Zenon DEF SelectDefault, Goto
  <1>13. ASSUME NEW r \in Requests, IntroduceClosed(r) PROVE AllTaken'
    BY <1>13, Zenon DEF IntroduceClosed, Goto
  <1>14. ASSUME NEW r \in Requests, Introduce(r) PROVE AllTaken'
    BY <1>14, Zenon DEF Introduce, Goto
  <1>15. ASSUME NEW r \in Requests, SendAccept(r) PROVE AllTaken'
    BY <1>15, Zenon DEF SendAccept, Goto
  <1>16. ASSUME NEW r \in Requests, AcceptMaxed(r) PROVE AllTaken'
    BY <1>16, Zenon DEF AcceptMaxed, Goto, CloseTp
  <1>17. ASSUME NEW r \in Requests, WriteAccept(r) PROVE AllTaken'
    BY <1>17, Zenon DEF WriteAccept, Goto
  <1>18. ASSUME NEW r \in Requests, WriteAcceptFails(r) PROVE AllTaken'
    BY <1>18, Zenon DEF WriteAcceptFails, Goto, CloseTp
  <1>19. ASSUME NEW r \in Requests, RequestTpClosed(r) PROVE AllTaken'
    BY <1>19, Zenon DEF RequestTpClosed, Goto
  <1>20. ASSUME NEW r \in Requests, SetTp(r) PROVE AllTaken'
    BY <1>20 DEF SetTp, Goto
  <1>21. ASSUME NEW d \in Dials, Dial(d) PROVE AllTaken'
    BY <1>21, Zenon DEF Dial, Goto
  <1>22. ASSUME NEW d \in Dials, LockMx(d) PROVE AllTaken'
    BY <1>22, Zenon DEF LockMx, Goto
  <1>23. ASSUME NEW d \in Dials, GiveUp(d) PROVE AllTaken'
    BY <1>23, Zenon DEF GiveUp, Goto
  <1>24. ASSUME NEW d \in Dials, GetNextInitID(d) PROVE AllTaken'
    BY <1>24, Zenon DEF GetNextInitID, Goto
  <1>25. ASSUME NEW d \in Dials, WriteRequest(d) PROVE AllTaken'
    BY <1>25, Zenon DEF WriteRequest, Goto, Peer
  <1>26. ASSUME NEW d \in Dials, WriteRequestFails(d) PROVE AllTaken'
    BY <1>26, Zenon DEF WriteRequestFails, Goto, CloseTp
  <1>27. ASSUME NEW d \in Dials, ReadAccept(d) PROVE AllTaken'
    BY <1>27, Zenon DEF ReadAccept, Goto
  <1>28. ASSUME NEW d \in Dials, ReadAcceptFails(d) PROVE AllTaken'
    BY <1>28, Zenon DEF ReadAcceptFails, Goto, CloseTp
  <1>29. ASSUME NEW d \in Dials, ReadAcceptEnds(d) PROVE AllTaken'
    BY <1>29, Zenon DEF ReadAcceptEnds, Goto, CloseTp
  <1>30. ASSUME NEW d \in Dials, DialTpClosed(d) PROVE AllTaken'
    BY <1>30, Zenon DEF DialTpClosed, Goto
  <1>31. ASSUME NEW t \in Transports, ServeTp(t) PROVE AllTaken'
    BY <1>31, Zenon DEF ServeTp, CloseTp
  <1>32. ASSUME NEW t \in Transports, CloseGoroutine(t) PROVE AllTaken'
    BY <1>32, Zenon DEF CloseGoroutine, CloseTp
  <1>33. ASSUME NEW t \in Transports, DoneFunc(t) PROVE AllTaken'
    BY SMTT(60), <1>33 DEF DoneFunc, DelTp
  <1>34. ASSUME NEW t \in Transports, UserCloseTp(t) PROVE AllTaken'
    BY <1>34, Zenon DEF UserCloseTp, CloseTp
  <1>35. ASSUME NEW p \in Threads, CloseOnce(p) PROVE AllTaken'
    BY <1>35, Zenon DEF CloseOnce, Goto
  <1>36. ASSUME NEW p \in Threads, CloseAgain(p) PROVE AllTaken'
    BY <1>36, Zenon DEF CloseAgain, Goto
  <1>37. ASSUME NEW p \in Threads, CloseMx(p) PROVE AllTaken'
    BY <1>37 DEF CloseMx, Goto
  <1>38. ASSUME NEW p \in Threads, WgWait(p) PROVE AllTaken'
    BY <1>38, Zenon DEF WgWait, Goto
  <1>39. CASE UserClose
    BY <1>39, Zenon DEF UserClose, Goto
  <1>40. CASE UserCloseListeners
    BY <1>40, Zenon DEF UserCloseListeners, Goto, CloseListener
  <1>41. CASE UserNoListeners
    BY <1>41, Zenon DEF UserNoListeners, Goto
  <1> QED
    BY Zenon, <1>1, <1>2, <1>3, <1>4, <1>5, <1>6, <1>7, <1>8, <1>9, <1>10, <1>11, <1>12,
       <1>13, <1>14, <1>15, <1>16, <1>17, <1>18, <1>19, <1>20, <1>21, <1>22, <1>23,
       <1>24, <1>25, <1>26, <1>27, <1>28, <1>29, <1>30, <1>31, <1>32, <1>33, <1>34,
       <1>35, <1>36, <1>37, <1>38, <1>39, <1>40, <1>41
    DEF Next, ServeStep, RequestStep, DialStep, TpStep, CloseStep, Idle, vars, Cancel,
        InitIDInUse, Listen, ListenerClose, AcceptTransport, BreakConn

\* The invariant holds throughout.
LEMMA CInvHolds == Spec => []CInv
  <1>1. CInv /\ [Next]_vars => CInv'
    BY MapTypeStep, QueueTypeStep, ListenerStep, GoroutineStep, MappedStep, TakenStep, Zenon DEF CInv
  <1> QED
    BY CInvInit, <1>1, PTL DEF Spec

\* Threads, map and accept queue are well formed at all times.
THEOREM ConnTypeCorrect == Spec => []TypeOK
  <1>1. CInv => TypeOK
    BY Zenon DEF CInv, MapType, QueueType, TypeOK, Transports, Ids
  <1> QED
    BY CInvHolds, <1>1, PTL

\* IntroduceTransport never sends on the accept channel after Listener.close closed
\* it: Listener.mx is enough for any number of request goroutines.
THEOREM ConnNoSendOnClosed == Spec => []NoSendOnClosed
  BY CInvHolds, PTL DEF CInv, ListenerLocked

\* An open transport is found in tps by its id, however ids are reused and whoever
\* dials, unless delTp of the same id took it out.
THEOREM ConnOpenTpIsMapped == Spec => []OpenTpIsMapped
  BY CInvHolds, PTL DEF CInv

\* After close, once everything has settled, every transport that was served is
\* closed, but for the orphans: getNextInitID's look at done and mx leave no gap
\* for dials.
THEOREM ConnCloseComplete == Spec => []ConnCloseClosesTps
  <1>1. CInv => ConnCloseClosesTps
    <2> SUFFICES ASSUME CInv, Settled, NEW t \in serving, Open(t), t \notin orphans PROVE FALSE
      BY Zenon DEF ConnCloseClosesTps
    <2>1. once = "over" /\ toClose = {}
      BY Zenon DEF CInv, AllTaken, Settled
    <2>2. t \in Transports
      BY Zenon DEF CInv, OneGoroutine
    <2>3. t \in Requests => at[t] = "end"
      BY <2>2, Zenon DEF CInv, OneGoroutine, Settled, Threads, Transports
    <2>4. tps[tpID[t]] = t
      BY <2>2, <2>3, Zenon DEF CInv, OpenTpIsMapped, Transports
    <2> QED
      BY <2>1, <2>2, <2>4, Zenon DEF CInv, AllTaken
  <1> QED
    BY CInvHolds, <1>1, PTL

=============================================================================
