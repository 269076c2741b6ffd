-------------------------------- MODULE Noise --------------------------------
(***************************************************************************)
(* Encrypted connections: the handshake, Listener.Accept and WrapConn      *)
(* (src/noise/read_writer.go, src/noise/net.go), the packets of ReadWriter *)
(* (src/noise/noise.go) and the frames that are read and written on them   *)
(* (src/frame.go).                                                         *)
(*                                                                         *)
(* An end is a pair of a connection and a side: "i" dialled and starts the *)
(* handshake, "r" was accepted.  TCP keeps the bytes in order and          *)
(* io.ReadFull puts them together again, so the wire is a queue of packets *)
(* with the length their header claims; a reader stops at the first error. *)
(* The five bytes of a frame's header are always read together and are one *)
(* symbol here.  All connections are accepted by one server and each is    *)
(* dialled by a client of its own; a panic ends a process, not only the    *)
(* goroutine that reads.                                                   *)
(***************************************************************************)
EXTENDS Integers, Sequences

CONSTANTS
    Conns,
    Patterns,   \* the lengths of handshake patterns: 3 for XK, 2 for KK
    Writers,    \* the goroutines of an end that write frames
    PayLens,    \* the lengths of their payloads
    LenMod,     \* lengths are sent in 16 bits
    Overhead,   \* the bytes that encryption adds: sequence number and tag
    SeqLen,     \* how many of them are the sequence number
    Scenarios,  \* bounds: the connections that are made and the frames written to each
    None

Ends == Conns \X {"i", "r"}

ASSUME NoiseAssumption ==
    /\ Patterns \subseteq Nat \ {0, 1} /\ PayLens \subseteq Nat
    /\ LenMod \in Nat \ {0} /\ Overhead \in Nat /\ SeqLen \in 0 .. Overhead
    /\ Scenarios \subseteq [conns : SUBSET Conns, frames : [Conns -> Nat]]
    /\ None \notin Writers /\ None \notin Conns

\* Noise.seq is a uint32: fewer frames than it takes to wrap around.
ASSUME SeqAssumption == \A s \in Scenarios, c \in Conns : s.frames[c] <= 2147483647

VARIABLES
    scenario,
    pattern,    \* len(ns.pattern.Messages)
    wrongKey,   \* the connections whose initiator has a wrong key of the server
    backlog,    \* connections that the net.Listener has not returned yet
    accepting,  \* the connection in the hands of Listener.Accept
    up,         \* the connections that are not closed or broken
    panicked,   \* the ends whose process has panicked
    at,         \* where the handshake goroutine of an end is
    result,     \* what Handshake returned at an end
    index,      \* hs.MessageIndex
    enc, dec,   \* the cipher states of an end
    wire,       \* the packets an end has written and its peer has not read
    wMx,        \* the writer that holds ReadWriter.wMx
    packet,     \* the packet that a writer is about to write
    seq,        \* Noise.seq
    previousSeq, highestPrevious,
    warned,     \* history: DecryptUnsafe met an old sequence number
    rBuf,
    have,       \* what readFrame has read of the next frame
    failed,     \* the ends where readFrame failed
    sent, received  \* history: the frames written and read

hsVars == <<at, result, index, enc, dec>>
readVars == <<previousSeq, highestPrevious, warned, rBuf, have, failed, received>>
writeVars == <<wMx, packet, seq, sent>>
lisVars == <<scenario, pattern, wrongKey, backlog, accepting, up, panicked>>
vars == <<lisVars, hsVars, wire, readVars, writeVars>>

Init ==
    /\ scenario \in Scenarios /\ pattern \in Patterns /\ wrongKey \in SUBSET scenario.conns
    /\ backlog = <<>> /\ accepting = None /\ up = {} /\ panicked = {}
    /\ at = [e \in Ends |-> "none"] /\ result = [e \in Ends |-> "none"]
    /\ index = [e \in Ends |-> 0]
    /\ enc = [e \in Ends |-> None] /\ dec = [e \in Ends |-> None]
    /\ wire = [e \in Ends |-> <<>>]
    /\ wMx = [e \in Ends |-> None] /\ packet = [e \in Ends |-> [w \in Writers |-> None]]
    /\ seq = [e \in Ends |-> 0]
    /\ previousSeq = [e \in Ends |-> 0] /\ highestPrevious = [e \in Ends |-> 0]
    /\ warned = {} /\ failed = {}
    /\ rBuf = [e \in Ends |-> <<>>] /\ have = [e \in Ends |-> <<>>]
    /\ sent = [e \in Ends |-> <<>>] /\ received = [e \in Ends |-> <<>>]

Other(e) == <<e[1], IF e[2] = "i" THEN "r" ELSE "i">>
Finished(e) == index[e] = pattern

\* The ends that one process holds.
ProcessOf(e) == IF e[2] = "r" THEN Conns \X {"r"} ELSE {e}
Runs(e) == e \notin panicked

-----------------------------------------------------------------------------
(* Handshake                                                               *)

\* net.Dial: WrapConn starts the handshake of the initiator.
Connect(c) ==
    /\ c \in scenario.conns /\ at[<<c, "i">>] = "none" /\ Runs(<<c, "r">>)
    /\ up' = up \cup {c} /\ backlog' = Append(backlog, c)
    /\ at' = [at EXCEPT ![<<c, "i">>] = "write"]
    /\ UNCHANGED <<scenario, pattern, wrongKey, accepting, panicked, result, index, enc, dec, wire, readVars,
                   writeVars>>

\* Listener.Accept takes a connection and starts the handshake of the responder.
Accept ==
    /\ accepting = None /\ backlog # <<>> /\ Runs(<<Head(backlog), "r">>)
    /\ accepting' = Head(backlog) /\ backlog' = Tail(backlog)
    /\ at' = [at EXCEPT ![<<Head(backlog), "r">>] = "read"]
    /\ UNCHANGED <<scenario, pattern, wrongKey, up, panicked, result, index, enc, dec, wire, readVars,
                   writeVars>>

\* The next turn of initiatorHandshake or responderHandshake.
AfterMessage(e, l) == IF index[e] + 1 = pattern THEN "finished" ELSE l

\* A plausible bug: the last writer keeps the cipher states in the reader's order.
HandshakeMessageSwapped(e) ==
    /\ at[e] = "write" /\ e[1] \in up
    /\ index' = [index EXCEPT ![e] = @ + 1]
    /\ enc' = [enc EXCEPT ![e] = IF index[e] < pattern - 1 THEN @ ELSE "cs1"]
    /\ dec' = [dec EXCEPT ![e] = IF index[e] < pattern - 1 THEN @ ELSE "cs2"]
    /\ wire' = [wire EXCEPT ![e] = Append(@, [msg |-> index[e]])]
    /\ at' = [at EXCEPT ![e] = AfterMessage(e, "read")]
    /\ UNCHANGED <<lisVars, result, readVars, writeVars>>

\* HandshakeMessage and writePacket.  The last message yields the cipher states,
\* in the order of the initiator's and the responder's.
HandshakeMessage(e) ==
    /\ at[e] = "write" /\ e[1] \in up
    /\ index' = [index EXCEPT ![e] = @ + 1]
    /\ dec' = [dec EXCEPT ![e] = IF index[e] < pattern - 1 THEN @ ELSE "cs1"]
    /\ enc' = [enc EXCEPT ![e] = IF index[e] < pattern - 1 THEN @ ELSE "cs2"]
    /\ wire' = [wire EXCEPT ![e] = Append(@, [msg |-> index[e]])]
    /\ at' = [at EXCEPT ![e] = AfterMessage(e, "read")]
    /\ UNCHANGED <<lisVars, result, readVars, writeVars>>

\* readPacket and ProcessMessage
ProcessMessage(e) ==
    /\ at[e] = "read" /\ wire[Other(e)] # <<>>
    /\ ~(e[2] = "r" /\ e[1] \in wrongKey)
    /\ Head(wire[Other(e)]) = [msg |-> index[e]]
    /\ index' = [index EXCEPT ![e] = @ + 1]
    /\ enc' = [enc EXCEPT ![e] = IF index[e] < pattern - 1 THEN @ ELSE "cs1"]
    /\ dec' = [dec EXCEPT ![e] = IF index[e] < pattern - 1 THEN @ ELSE "cs2"]
    /\ wire' = [wire EXCEPT ![Other(e)] = Tail(@)]
    /\ at' = [at EXCEPT ![e] = AfterMessage(e, "write")]
    /\ UNCHANGED <<lisVars, result, readVars, writeVars>>

\* The message does not decrypt, or the connection is closed.
HandshakeFails(e) ==
    /\ \/ at[e] \in {"read", "write"} /\ e[1] \notin up
       \/ at[e] = "read" /\ e[2] = "r" /\ e[1] \in wrongKey /\ wire[Other(e)] # <<>>
    /\ at' = [at EXCEPT ![e] = "failed"]
    /\ UNCHANGED <<lisVars, result, index, enc, dec, wire, readVars, writeVars>>

HandshakeStep(e) == HandshakeMessage(e) \/ ProcessMessage(e) \/ HandshakeFails(e)

\* Accept goes on with the next connection; a failed one is not closed.
Return(e, r) ==
    /\ result' = [result EXCEPT ![e] = r]
    /\ accepting' = IF e[2] = "r" THEN None ELSE accepting
    /\ UNCHANGED <<scenario, pattern, wrongKey, backlog, up, panicked, at, index, enc, dec, wire, readVars,
                   writeVars>>

\* Handshake receives from doneChan.
HandshakeReturns(e) ==
    /\ result[e] = "none"
    /\ \/ at[e] = "finished" /\ Return(e, "ok")
       \/ at[e] = "failed" /\ Return(e, "error")

\* A plausible bug: only the initiator has a timeout.
TimeoutOfInitiator(e) == e[2] = "i" /\ at[e] # "none" /\ result[e] = "none" /\ Return(e, "error")

\* time.After(hsTimeout): the goroutine is left behind.
Timeout(e) == at[e] # "none" /\ result[e] = "none" /\ Return(e, "error")

\* A side closes the connection, or the network breaks it.
Hangup(c) ==
    /\ c \in up
    /\ up' = up \ {c}
    /\ UNCHANGED <<scenario, pattern, wrongKey, backlog, accepting, panicked, hsVars, wire, readVars,
                   writeVars>>

-----------------------------------------------------------------------------
(* writeFrame                                                              *)

\* MakeFrame: the header with the length of the payload, and the payload.
MakeFrame(e, w, n) ==
    <<[from |-> w, no |-> seq[e] + 1, payLen |-> n % LenMod]>> \o [k \in 1 .. n |-> [pay |-> k]]

FramesOf(c) == seq[<<c, "i">>] + seq[<<c, "r">>]

\* A plausible bug: the length in a packet's header leaves out what was added.
PacketOfText(e, f) == [len |-> Len(f) % LenMod, key |-> enc[e], seq |-> seq[e] + 1, text |-> f]

\* The header of a packet holds its length in 16 bits.
Packet(e, f) ==
    [len |-> (Len(f) + Overhead) % LenMod, key |-> enc[e], seq |-> seq[e] + 1, text |-> f]

\* A plausible bug: Conn.Write takes frames of any length.
FitsAlways(f) == TRUE

\* The limit of Conn.Write
Fits(f) == Len(f) <= LenMod - 1

EncryptPacket(e, w, n) ==
    /\ result[e] = "ok" /\ e[1] \in up /\ FramesOf(e[1]) < scenario.frames[e[1]]
    /\ packet[e][w] = None /\ Fits(MakeFrame(e, w, n))
    /\ seq' = [seq EXCEPT ![e] = @ + 1]
    /\ packet' = [packet EXCEPT ![e][w] = Packet(e, MakeFrame(e, w, n))]
    /\ wMx' = [wMx EXCEPT ![e] = w]
    /\ UNCHANGED <<lisVars, hsVars, wire, readVars, sent>>

\* A plausible bug: Write does not take wMx.
EncryptUnlocked(e, w, n) == EncryptPacket(e, w, n)

\* Conn.Write and EncryptUnsafe, under wMx
Encrypt(e, w, n) == wMx[e] = None /\ EncryptPacket(e, w, n)

\* writePacket
WritePacket(e, w) ==
    /\ packet[e][w] # None
    /\ wire' = [wire EXCEPT ![e] = IF e[1] \in up THEN Append(@, packet[e][w]) ELSE @]
    /\ sent' = [sent EXCEPT ![e] = IF e[1] \in up THEN Append(@, packet[e][w].text) ELSE @]
    /\ packet' = [packet EXCEPT ![e][w] = None] /\ wMx' = [wMx EXCEPT ![e] = None]
    /\ UNCHANGED <<lisVars, hsVars, readVars, seq>>

-----------------------------------------------------------------------------
(* readFrame                                                               *)

\* What io.ReadFull still wants: the header, then the payload.
Needed(e) == IF have[e] = <<>> THEN 1 ELSE have[e][1].payLen + 1 - Len(have[e])

\* readFrame has read s: the frame is complete or more has to be read.
HaveRead(e, s) ==
    LET f == have[e] \o s
    IN  IF Len(f) = f[1].payLen + 1
        THEN received' = [received EXCEPT ![e] = Append(@, f)] /\ have' = [have EXCEPT ![e] = <<>>]
        ELSE have' = [have EXCEPT ![e] = f] /\ UNCHANGED received

\* At most n elements of s, and what is left of it.
Upto(s, n) == SubSeq(s, 1, IF n < Len(s) THEN n ELSE Len(s))
Beyond(s, n) == SubSeq(s, n + 1, Len(s))

Reading(e) == result[e] = "ok" /\ e \notin failed

\* A plausible bug: a payload is always read from a packet.
ReadBufferedHeader(e) ==
    /\ Reading(e) /\ rBuf[e] # <<>> /\ have[e] = <<>>
    /\ HaveRead(e, Upto(rBuf[e], Needed(e)))
    /\ rBuf' = [rBuf EXCEPT ![e] = Beyond(@, Needed(e))]
    /\ UNCHANGED <<lisVars, hsVars, wire, previousSeq, highestPrevious, warned, failed, writeVars>>

\* ReadWriter.Read takes what rBuf holds.
ReadBuffered(e) ==
    /\ Reading(e) /\ rBuf[e] # <<>>
    /\ HaveRead(e, Upto(rBuf[e], Needed(e)))
    /\ rBuf' = [rBuf EXCEPT ![e] = Beyond(@, Needed(e))]
    /\ UNCHANGED <<lisVars, hsVars, wire, previousSeq, highestPrevious, warned, failed, writeVars>>

\* The sequence numbers that DecryptUnsafe keeps.
NoteSeq(e, n) ==
    /\ warned' = IF n <= previousSeq[e] THEN warned \cup {e} ELSE warned
    /\ previousSeq' = [previousSeq EXCEPT ![e] = IF n <= @ THEN @ ELSE n]
    /\ highestPrevious' = [highestPrevious EXCEPT ![e] = IF @ < previousSeq[e] /\ previousSeq[e] < n THEN n ELSE @]

\* The reader gets as many bytes as the header claims, and decrypts them.
Decrypts(e, p) == p.key = dec[e] /\ p.len = Len(p.text) + Overhead

\* A plausible bug: what does not fit into the reader's slice is lost.
BufReadLoses(e, s) == HaveRead(e, Upto(s, Needed(e))) /\ UNCHANGED rBuf

\* ioutil.BufRead: what does not fit into the reader's slice goes to rBuf.
BufRead(e, s) ==
    /\ HaveRead(e, Upto(s, Needed(e)))
    /\ rBuf' = [rBuf EXCEPT ![e] = Beyond(s, Needed(e))]

\* The packet that comes has all of its sequence number, by its length.
HasSeq(e) == Head(wire[Other(e)]).len >= SeqLen

\* ReadWriter.Read reads a packet; an error ends the reading of frames.
ReadPacket(e) ==
    /\ Reading(e) /\ rBuf[e] = <<>> /\ wire[Other(e)] # <<>> /\ HasSeq(e)
    /\ wire' = [wire EXCEPT ![Other(e)] = Tail(@)]
    /\ NoteSeq(e, Head(wire[Other(e)]).seq)
    /\ failed' = IF Decrypts(e, Head(wire[Other(e)])) THEN failed ELSE failed \cup {e}
    /\ IF Decrypts(e, Head(wire[Other(e)])) THEN BufRead(e, Head(wire[Other(e)]).text)
                                            ELSE UNCHANGED <<rBuf, have, received>>
    /\ UNCHANGED <<lisVars, hsVars, writeVars>>

\* DecryptUnsafe slices the sequence number from a packet that is shorter: the
\* process ends and its connections break.  What it took off the wire is lost like
\* what is still on it, so the wire may stay as it is.
DecryptPanics(e) ==
    /\ Reading(e) /\ rBuf[e] = <<>> /\ wire[Other(e)] # <<>> /\ ~HasSeq(e)
    /\ panicked' = panicked \cup ProcessOf(e)
    /\ up' = up \ {f[1] : f \in ProcessOf(e)}
    /\ UNCHANGED <<scenario, pattern, wrongKey, backlog, accepting, hsVars, wire, readVars, writeVars>>

ReadFails(e) ==
    /\ Reading(e) /\ rBuf[e] = <<>> /\ e[1] \notin up
    /\ failed' = failed \cup {e}
    /\ UNCHANGED <<lisVars, hsVars, wire, previousSeq, highestPrevious, warned, rBuf, have, received,
                   writeVars>>

ReadFrame(e) == ReadBuffered(e) \/ ReadPacket(e) \/ DecryptPanics(e) \/ ReadFails(e)

-----------------------------------------------------------------------------

\* Nothing is under way: what is left is up to clients that do not connect.
Idle ==
    /\ (accepting = None /\ backlog = <<>>) \/ \E c \in Conns : ~Runs(<<c, "r">>)
    /\ \A e \in Ends \ panicked : wMx[e] = None /\ (at[e] # "none" => result[e] # "none")
    /\ UNCHANGED vars

Next ==
    \/ \E c \in Conns : Connect(c) \/ Hangup(c)
    \/ Accept
    \/ \E e \in Ends \ panicked :
          \/ HandshakeStep(e) \/ HandshakeReturns(e) \/ Timeout(e) \/ ReadFrame(e)
          \/ \E w \in Writers : WritePacket(e, w) \/ \E n \in PayLens : Encrypt(e, w, n)
    \/ Idle

\* The server keeps calling Accept, timers fire and frames are read.  Nobody has
\* to connect or to write, and a client may stop in the middle of its handshake.
Fairness ==
    /\ WF_vars(Accept)
    /\ \A e \in Ends :
          /\ WF_vars(Runs(e) /\ (HandshakeReturns(e) \/ Timeout(e))) /\ WF_vars(Runs(e) /\ ReadFrame(e))
          /\ \A w \in Writers : WF_vars(Runs(e) /\ WritePacket(e, w))

Spec == Init /\ [][Next]_vars /\ Fairness
-----------------------------------------------------------------------------
(* Properties                                                              *)

\* The handshake's state is well formed, and it is finished exactly after the last
\* message of the pattern.
TypeOK ==
    /\ at \in [Ends -> {"none", "write", "read", "finished", "failed"}]
    /\ result \in [Ends -> {"none", "ok", "error"}]
    /\ index \in [Ends -> 0 .. pattern]
    /\ \A e \in Ends : at[e] = "finished" <=> Finished(e)
    /\ accepting \in Conns \cup {None} /\ up \subseteq Conns
    /\ failed \subseteq Ends /\ panicked \subseteq Ends

\* After a handshake, what one end encrypts the other end decrypts, whichever side
\* writes the last message of the pattern.
KeysMatch ==
    \A e \in Ends : Finished(e) /\ Finished(Other(e)) => enc[e] = dec[Other(e)] /\ enc[e] # dec[e]

\* Frames arrive whole, in the order they were written in, and none is skipped.
FramesIntact ==
    \A e \in Ends :
        /\ Len(received[e]) <= Len(sent[Other(e)])
        /\ \A k \in 1 .. Len(received[e]) : received[e][k] = sent[Other(e)][k]

\* The length in a frame's header is the length of its payload: the limit on what is
\* encrypted at once keeps it from wrapping around.
FrameLenExact ==
    \A e \in Ends : \A k \in DOMAIN sent[e] : Len(sent[e][k]) = sent[e][k][1].payLen + 1

\* The length of a frame's packet does not fit into the packet's header; what the
\* header says then may be too short for the sequence number.
Wraps(f) == Len(f) + Overhead >= LenMod
LosesSeq(f) == Wraps(f) /\ (Len(f) + Overhead) % LenMod < SeqLen

\* A reader fails while its connection is up, and a process panics in DecryptUnsafe,
\* only because of a frame that Conn.Write took although its packet is too long for
\* the 16 bits of the length; a panic takes a length that wraps around to less than
\* a sequence number, on a connection of that process.
OnlyLongFramesFail ==
    /\ \A e \in Ends : e \in failed /\ e[1] \in up =>
          \E k \in DOMAIN sent[Other(e)] : Wraps(sent[Other(e)][k])
    /\ \A e \in panicked : \E f \in ProcessOf(e) :
          \E k \in DOMAIN sent[Other(f)] : LosesSeq(sent[Other(f)][k])

\* Packets go out in the order of their sequence numbers, so a reader is never
\* warned of an old one.
NoOldSeq == warned = {}

\* Every connection is dealt with while the server runs, even if the clients before
\* it say nothing.
AcceptReachesAll ==
    \A c \in Conns : (at[<<c, "i">>] # "none") ~> (result[<<c, "r">>] # "none" \/ ~Runs(<<c, "r">>))

\* Frames that were written are read, until the reader fails or its process panics.
FramesArrive ==
    \A e \in Ends : <>[](result[e] = "ok" => received[e] = sent[Other(e)] \/ e \in failed \/ ~Runs(e))

=============================================================================
