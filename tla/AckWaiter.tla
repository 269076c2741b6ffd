------------------------------ MODULE AckWaiter ------------------------------
(***************************************************************************)
(* Uint16AckWaiter (src/ioutil/ack_waiter.go): matches ACK sequence        *)
(* numbers to the goroutines that wait for them.                           *)
(*                                                                         *)
(* A "call" is one invocation of Wait together with the channel ackCh it   *)
(* makes; a call is never reused, so a call names its channel.  Every      *)
(* critical section of mx is one step, since none of them blocks inside.   *)
(***************************************************************************)
EXTENDS Integers

CONSTANTS
    Calls,        \* the invocations of Wait
    Cancellable,  \* the calls whose context may be cancelled
    SeqMod,       \* number of sequence numbers (2^16 in the code)
    None          \* the nil channel

ASSUME SeqModAssumption == SeqMod \in Nat \ {0}
ASSUME CallsAssumption == Cancellable \subseteq Calls /\ None \notin Calls

VARIABLES
    nextSeq,  \* the sequence number of the next call
    waiters,  \* waiters[s]: the call whose channel is stored under s, or None
    seq,      \* seq[c]: the sequence number issued to call c
    full,     \* the calls whose ackCh (capacity 1) holds an element
    closed,   \* the calls whose ackCh is closed
    at,       \* at[c]: where call c is in Wait
    ret       \* ret[c]: what call c returned

awVars == <<nextSeq, waiters, seq, full, closed, at, ret>>

Seqs == 0 .. SeqMod - 1

\* The call is registered and has not left the select of Wait.
InWait(c) == at[c] \in {"action", "select"}

\* RandSeq: the first sequence number is random.
Init ==
    /\ nextSeq \in Seqs
    /\ waiters = [s \in Seqs |-> None]
    /\ seq = [c \in Calls |-> 0]
    /\ full = {}
    /\ closed = {}
    /\ at = [c \in Calls |-> "new"]
    /\ ret = [c \in Calls |-> "none"]

Move(c, from, to) == at[c] = from /\ at' = [at EXCEPT ![c] = to]

\* The first section of Wait.
Register(c) ==
    /\ Move(c, "new", "action")
    /\ seq' = [seq EXCEPT ![c] = nextSeq]
    /\ nextSeq' = (nextSeq + 1) % SeqMod
    /\ waiters' = [waiters EXCEPT ![nextSeq] = c]
    /\ UNCHANGED <<full, closed, ret>>

\* action(seq) returned nil: on to the select.
ActionOK(c) ==
    /\ Move(c, "action", "select")
    /\ UNCHANGED <<nextSeq, waiters, seq, full, closed, ret>>

\* action(seq) failed: Wait returns at once and leaves its waiter in the map.
ActionErr(c) ==
    /\ Move(c, "action", "end")
    /\ ret' = [ret EXCEPT ![c] = "actionErr"]
    /\ UNCHANGED <<nextSeq, waiters, seq, full, closed>>

\* A plausible bug: the select does not look whether ackCh was closed.
AckReceivedOrClosed(c) ==
    /\ c \in full \cup closed
    /\ Move(c, "select", "stop")
    /\ full' = full \ {c}
    /\ ret' = [ret EXCEPT ![c] = "acked"]
    /\ UNCHANGED <<nextSeq, waiters, seq, closed>>

\* The select of Wait: an element of ackCh is received before its closing is.
AckReceived(c) ==
    /\ c \in full
    /\ Move(c, "select", "stop")
    /\ full' = full \ {c}
    /\ ret' = [ret EXCEPT ![c] = "acked"]
    /\ UNCHANGED <<nextSeq, waiters, seq, closed>>

\* A plausible bug: the closing of an empty ackCh goes unnoticed.
WaiterStoppedIgnored(c) ==
    /\ c \in closed \cap full
    /\ Move(c, "select", "stop")
    /\ ret' = [ret EXCEPT ![c] = "closedPipe"]
    /\ UNCHANGED <<nextSeq, waiters, seq, full, closed>>

WaiterStopped(c) ==
    /\ c \in closed \ full
    /\ Move(c, "select", "stop")
    /\ ret' = [ret EXCEPT ![c] = "closedPipe"]
    /\ UNCHANGED <<nextSeq, waiters, seq, full, closed>>

CtxDone(c) ==
    /\ c \in Cancellable
    /\ Move(c, "select", "stop")
    /\ ret' = [ret EXCEPT ![c] = "ctxErr"]
    /\ UNCHANGED <<nextSeq, waiters, seq, full, closed>>

\* A plausible bug: the closed channel stays in the map.
StopWaitersKeepEntry(S) ==
    /\ closed' = closed \cup ({waiters[s] : s \in S} \ {None})
    /\ UNCHANGED waiters

\* A plausible bug: the entry is dropped but its channel is not closed.
StopWaitersNoClose(S) ==
    /\ waiters' = [s \in Seqs |-> IF s \in S THEN None ELSE waiters[s]]
    /\ UNCHANGED closed

\* stopWaiter on every sequence number of S: close the channel, forget it.
StopWaiters(S) ==
    /\ closed' = closed \cup ({waiters[s] : s \in S} \ {None})
    /\ waiters' = [s \in Seqs |-> IF s \in S THEN None ELSE waiters[s]]

\* The last section of Wait.
StopOwn(c) ==
    /\ Move(c, "stop", "end")
    /\ StopWaiters({seq[c]})
    /\ UNCHANGED <<nextSeq, seq, full, ret>>

StopAll ==
    /\ StopWaiters(Seqs)
    /\ UNCHANGED <<nextSeq, seq, full, at, ret>>

\* A send that does not block: a nil or a full channel takes nothing.
Done(s) ==
    /\ full' = full \cup ({waiters[s]} \ {None})
    /\ UNCHANGED <<nextSeq, waiters, seq, closed, at, ret>>

WaitStep(c) ==
    \/ ActionOK(c)
    \/ ActionErr(c)
    \/ AckReceived(c)
    \/ WaiterStopped(c)
    \/ CtxDone(c)
    \/ StopOwn(c)

Next ==
    \/ \E c \in Calls : Register(c) \/ WaitStep(c)
    \/ \E s \in Seqs : Done(s)
    \/ StopAll

\* Wait's own steps are those of a running goroutine; Done and StopAll depend
\* on the peer and on the transport, and are not fair.
Spec == Init /\ [][Next]_awVars /\ \A c \in Calls : WF_awVars(WaitStep(c))

-----------------------------------------------------------------------------
\* Sequence numbers wrap like a uint16, and channels, map and calls have their types.
TypeOK ==
    /\ nextSeq \in Seqs
    /\ waiters \in [Seqs -> Calls \cup {None}]
    /\ seq \in [Calls -> Seqs]
    /\ full \subseteq Calls
    /\ closed \subseteq Calls
    /\ at \in [Calls -> {"new", "action", "select", "stop", "end"}]
    /\ ret \in [Calls -> {"none", "acked", "closedPipe", "ctxErr", "actionErr"}]

\* Done sends on, and stopWaiter closes, whatever channel the map holds: each
\* must be open, or Done or StopAll panics.
MapHoldsOpenChannels ==
    \A s \in Seqs : waiters[s] # None => waiters[s] \notin closed

\* A call that waits can still be reached by Done and StopAll, or has been
\* reached already; the only exception is a call whose sequence number was
\* issued again after the uint16 counter came round.
WaiterReachable ==
    \A c \in Calls : InWait(c) =>
        \/ waiters[seq[c]] = c
        \/ c \in full \cup closed
        \/ \E d \in Calls \ {c} : at[d] # "new" /\ seq[d] = seq[c]

\* The end of one Wait closes its own channel only, never that of a call
\* with another sequence number.
StopsOwnChannelOnly ==
    [][\A c, d \in Calls :
          (at[d] = "stop" /\ at'[d] = "end" /\ c \in closed' \ closed)
             => seq[c] = seq[d]]_awVars

\* A call that was stopped returns: StopAll leaves no goroutine in Wait.
StoppedCallReturns ==
    \A c \in Calls : (c \in closed) ~> (at[c] = "end")
=============================================================================
