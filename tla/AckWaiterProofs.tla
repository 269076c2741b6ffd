--------------------------- MODULE AckWaiterProofs ---------------------------
(***************************************************************************)
(* The safety properties of AckWaiter for any set of calls and any number  *)
(* of sequence numbers.                                                    *)
(***************************************************************************)
EXTENDS AckWaiter, TLAPS

\* A call sits in the map only under the sequence number it was issued, so a
\* channel is stored at most once and closing it empties its only place.
MapOwnsSeq ==
    \A s \in Seqs : waiters[s] # None =>
        seq[waiters[s]] = s /\ at[waiters[s]] # "new"

\* The channel of a call that has not begun does not exist yet.
NewCallUntouched == \A c \in Calls : at[c] = "new" => c \notin closed

AWInv ==
    /\ TypeOK
    /\ MapOwnsSeq
    /\ NewCallUntouched
    /\ MapHoldsOpenChannels
    /\ WaiterReachable

\* The steps of ack_waiter.go keep every variable in its type.
LEMMA AWTypeStep == TypeOK /\ [Next]_awVars => TypeOK'
<1> SUFFICES ASSUME TypeOK, [Next]_awVars
             PROVE  TypeOK'
    OBVIOUS
<1> USE SeqModAssumption, CallsAssumption DEF TypeOK, Seqs, Move
<1>1. ASSUME NEW c \in Calls, Register(c)
      PROVE  TypeOK'
    BY <1>1 DEF Register
<1>2. ASSUME NEW c \in Calls, ActionOK(c) \/ ActionErr(c)
      PROVE  TypeOK'
    BY <1>2 DEF ActionOK, ActionErr
<1>3. ASSUME NEW c \in Calls, AckReceived(c) \/ WaiterStopped(c) \/ CtxDone(c)
      PROVE  TypeOK'
    BY <1>3 DEF AckReceived, WaiterStopped, CtxDone
<1>4. ASSUME NEW S \in SUBSET Seqs, StopWaiters(S)
      PROVE  /\ waiters' \in [Seqs -> Calls \cup {None}]
             /\ closed' \subseteq Calls
    BY <1>4 DEF StopWaiters
<1>5. ASSUME NEW c \in Calls, StopOwn(c)
      PROVE  TypeOK'
    <2>1. {seq[c]} \in SUBSET Seqs
        OBVIOUS
    <2>2. QED
        BY <1>4, <1>5, <2>1 DEF StopOwn
<1>6. ASSUME NEW s \in Seqs, Done(s)
      PROVE  TypeOK'
    BY <1>6 DEF Done
<1>7. CASE StopAll
    BY <1>4, <1>7 DEF StopAll
<1>8. CASE UNCHANGED awVars
    BY <1>8 DEF awVars
<1>9. QED
    BY <1>1, <1>2, <1>3, <1>5, <1>6, <1>7, <1>8 DEF Next, WaitStep

\* Stopping waiters, by Wait or by StopAll, closes channels and empties their
\* places together: what the map still holds stays open and in its place.
LEMMA StopWaitersLemma ==
    ASSUME AWInv, NEW S \in SUBSET Seqs, StopWaiters(S), UNCHANGED seq
    PROVE  /\ \A s \in Seqs : waiters'[s] # None => waiters'[s] = waiters[s]
           /\ \A s \in Seqs : waiters'[s] # None => waiters'[s] \notin closed'
           /\ \A c \in Calls : waiters[seq[c]] = c =>
                 waiters'[seq[c]] = c \/ c \in closed'
           /\ \A c \in closed' : c \in closed \/ at[c] # "new"
           /\ closed \subseteq closed'
<1> USE CallsAssumption DEF AWInv, TypeOK, MapOwnsSeq, MapHoldsOpenChannels, StopWaiters
<1>1. \A s \in Seqs : waiters'[s] # None => s \notin S /\ waiters'[s] = waiters[s]
    OBVIOUS
<1>2. ASSUME NEW s \in Seqs, waiters'[s] # None
      PROVE  waiters'[s] \notin closed'
    BY <1>1, <1>2
<1>3. QED
    BY <1>1, <1>2

\* Every step of ack_waiter.go keeps the inductive invariant.
LEMMA AWInvStep == AWInv /\ [Next]_awVars => AWInv'
<1> SUFFICES ASSUME AWInv, [Next]_awVars
             PROVE  AWInv'
    OBVIOUS
<1>t. TypeOK'
    BY AWTypeStep DEF AWInv
<1> USE CallsAssumption DEF AWInv, TypeOK, MapOwnsSeq, NewCallUntouched,
        MapHoldsOpenChannels, WaiterReachable, InWait, Move
<1>1. ASSUME NEW c \in Calls, Register(c)
      PROVE  AWInv'
    BY <1>1, <1>t DEF Register
<1>2. ASSUME NEW c \in Calls, ActionOK(c) \/ ActionErr(c)
      PROVE  AWInv'
    BY <1>2, <1>t DEF ActionOK, ActionErr
<1>3. ASSUME NEW c \in Calls, AckReceived(c) \/ WaiterStopped(c) \/ CtxDone(c)
      PROVE  AWInv'
    BY <1>3, <1>t DEF AckReceived, WaiterStopped, CtxDone
<1>4. ASSUME NEW c \in Calls, StopOwn(c)
      PROVE  AWInv'
    BY <1>4, <1>t, StopWaitersLemma DEF StopOwn
<1>5. ASSUME NEW s \in Seqs, Done(s)
      PROVE  AWInv'
    BY <1>5, <1>t DEF Done
<1>6. CASE StopAll
    BY <1>6, <1>t, StopWaitersLemma DEF StopAll
<1>7. CASE UNCHANGED awVars
    BY <1>7, <1>t DEF awVars
<1>8. QED
    BY <1>1, <1>2, <1>3, <1>4, <1>5, <1>6, <1>7 DEF Next, WaitStep

\* A new waiter satisfies the invariant.
LEMMA AWInvInit == Init => AWInv
BY SeqModAssumption, CallsAssumption
   DEF Init, AWInv, TypeOK, Seqs, MapOwnsSeq, NewCallUntouched,
       MapHoldsOpenChannels, WaiterReachable, InWait

\* So it always holds.
LEMMA AWInvHolds == Spec => []AWInv
BY AWInvInit, AWInvStep, PTL DEF Spec

\* ack_waiter.go never leaves the types of its state.
THEOREM AWTypeCorrect == Spec => []TypeOK
<1>1. AWInv => TypeOK
    BY DEF AWInv
<1>2. QED
    BY <1>1, AWInvHolds, PTL

\* Neither Done (a send) nor stopWaiter (a close) ever meets a closed channel:
\* the ack waiter does not panic, however many calls share it and however
\* often its counter comes round.
THEOREM AWNoPanic == Spec => []MapHoldsOpenChannels
<1>1. AWInv => MapHoldsOpenChannels
    BY DEF AWInv
<1>2. QED
    BY <1>1, AWInvHolds, PTL

\* No call is left waiting where neither Done nor StopAll can reach it,
\* unless its sequence number has been issued again.
THEOREM AWReachable == Spec => []WaiterReachable
<1>1. AWInv => WaiterReachable
    BY DEF AWInv
<1>2. QED
    BY <1>1, AWInvHolds, PTL

\* The end of a Wait closes no channel of a call with another sequence number.
THEOREM AWStopsOwn == Spec => StopsOwnChannelOnly
<1>1. ASSUME AWInv, [Next]_awVars
      PROVE  [\A c, d \in Calls :
                 (at[d] = "stop" /\ at'[d] = "end" /\ c \in closed' \ closed)
                     => seq[c] = seq[d]]_awVars
    <2> SUFFICES ASSUME NEW c \in Calls, NEW d \in Calls, Next,
                        at[d] = "stop", at'[d] = "end", c \in closed' \ closed
                 PROVE  seq[c] = seq[d]
        BY <1>1
    <2>1. StopOwn(d)
        <3>1. ASSUME NEW e \in Calls, Register(e) \/ WaitStep(e)
              PROVE  e = d /\ StopOwn(e)
            BY <3>1, <1>1 DEF AWInv, TypeOK, Register, WaitStep, ActionOK, ActionErr, AckReceived,
                    WaiterStopped, CtxDone, StopOwn, Move
        <3>2. ~ \E s \in Seqs : Done(s)
            BY DEF Done
        <3>3. ~ StopAll
            BY DEF StopAll
        <3>4. QED
            BY <3>1, <3>2, <3>3 DEF Next
    <2>2. QED
        BY <1>1, <2>1 DEF StopOwn, StopWaiters, AWInv, TypeOK, MapOwnsSeq
<1>2. QED
    BY <1>1, AWInvHolds, PTL DEF Spec, StopsOwnChannelOnly
=============================================================================
