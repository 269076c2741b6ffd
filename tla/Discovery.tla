------------------------------ MODULE Discovery ------------------------------
(***************************************************************************)
(* The updates of one discovery entry: updateDiscEntry of Client           *)
(* (src/client.go), updateDiscEntry and retryUpdateEntry of Server         *)
(* (src/server.go), Entry, SetEntry and UpdateEntry of the HTTP client     *)
(* (src/disc/client.go) and the validation of entries (src/disc/entry.go), *)
(* against a discovery service that applies this validation to one POST    *)
(* request after the other.                                                *)
(*                                                                         *)
(* An updater is a process that owns the key: its updates follow each      *)
(* other (Client.mx, httpClient.updateMux), but a process that was started *)
(* anew may meet requests of its predecessor.  A request whose answer is   *)
(* lost may take effect at any time, or never.                             *)
(***************************************************************************)
EXTENDS Integers, FiniteSets

CONSTANTS
    Updaters,
    Servers,     \* the updaters that retry, as Server does
    MaxUpdates,  \* bound: the updates of an updater
    MaxLost,     \* bound: the requests that fail or are not answered
    MaxTime,     \* bound: the clock
    None

ASSUME DiscoveryAssumption ==
    /\ Servers \subseteq Updaters /\ MaxUpdates \in Nat /\ MaxLost \in Nat /\ MaxTime \in Nat

Entries == [seq : Nat, time : Nat, by : Updaters, no : Nat]

ASSUME NoneAssumption == None \notin Entries

VARIABLES
    clock,    \* time.Now
    stored,   \* the entry that the service holds
    at,       \* where an updater is
    e,        \* the entry that it is about to set
    updates,  \* how many updates it has begun
    expired,  \* the servers whose context of retryUpdateEntry is done
    late,     \* requests that were not answered
    lost,
    done      \* history: the entries that SetEntry or UpdateEntry reported as set

vars == <<clock, stored, at, e, updates, expired, late, lost, done>>

Init ==
    /\ clock = 0 /\ stored = None
    /\ at = [u \in Updaters |-> "idle"] /\ e = [u \in Updaters |-> None]
    /\ updates = [u \in Updaters |-> 0]
    /\ expired = {} /\ late = {} /\ lost = 0 /\ done = {}

Goto(u, l) == at' = [at EXCEPT ![u] = l]

\* A plausible bug: the time is not looked at.
ValidateIterationNoTime(next) ==
    IF stored # None /\ (next.seq = 0 \/ stored.seq # next.seq - 1) THEN "wrong sequence" ELSE "ok"

\* ValidateIteration of the stored entry; Sequence is unsigned, so that nothing
\* comes before 0.
ValidateIteration(next) ==
    IF stored = None THEN "ok"
    ELSE IF next.seq = 0 \/ stored.seq # next.seq - 1 THEN "wrong sequence"
    ELSE IF ~(stored.time < next.time) THEN "wrong time"
    ELSE "ok"

Now == IF clock < MaxTime THEN {clock, clock + 1} ELSE {clock}

-----------------------------------------------------------------------------

\* updateDiscEntry is called.
Update(u) ==
    /\ at[u] = "idle" /\ updates[u] < MaxUpdates
    /\ updates' = [updates EXCEPT ![u] = @ + 1]
    /\ expired' = expired \ {u}
    /\ Goto(u, "entry")
    /\ UNCHANGED <<clock, stored, e, late, lost, done>>

NewEntry(u, n, t) == [seq |-> n, time |-> t, by |-> u, no |-> updates[u]]

\* Entry finds one, and UpdateEntry begins: the next sequence number, the time.
EntryFound(u) ==
    /\ at[u] = "entry" /\ stored # None
    /\ clock' \in Now
    /\ e' = [e EXCEPT ![u] = NewEntry(u, stored.seq + 1, clock')]
    /\ Goto(u, "update")
    /\ UNCHANGED <<stored, updates, expired, late, lost, done>>

\* Entry fails, whatever the reason: a first entry is made.
EntryFails(u) ==
    /\ at[u] = "entry"
    /\ \/ stored = None /\ UNCHANGED lost
       \/ lost < MaxLost /\ lost' = lost + 1
    /\ clock' \in Now
    /\ e' = [e EXCEPT ![u] = NewEntry(u, 0, clock')]
    /\ Goto(u, "create")
    /\ UNCHANGED <<stored, updates, expired, late, done>>

\* An error ends the update of a client; a server tries again.
Failed(u) == Goto(u, IF u \in Servers THEN "retry" ELSE "idle")

\* SetEntry succeeds.
SetEntry(u) ==
    /\ at[u] \in {"create", "update"} /\ ValidateIteration(e[u]) = "ok"
    /\ stored' = e[u] /\ done' = done \cup {e[u]}
    /\ Goto(u, "idle")
    /\ UNCHANGED <<clock, e, updates, expired, late, lost>>

\* SetEntry is refused: only UpdateEntry looks further, and only for a sequence.
SetEntryRefused(u) ==
    /\ at[u] \in {"create", "update"} /\ ValidateIteration(e[u]) # "ok"
    /\ IF at[u] = "update" /\ ValidateIteration(e[u]) = "wrong sequence"
       THEN Goto(u, "compare") ELSE Failed(u)
    /\ UNCHANGED <<clock, stored, e, updates, expired, late, lost, done>>

\* SetEntry gets no answer.
SetEntryFails(u) ==
    /\ at[u] \in {"create", "update"} /\ lost < MaxLost
    /\ lost' = lost + 1 /\ late' = late \cup {e[u]}
    /\ Failed(u)
    /\ UNCHANGED <<clock, stored, e, updates, expired, done>>

\* A plausible bug: the sequence number is not corrected.
CompareKeepsSequence(u) ==
    /\ at[u] = "compare" /\ stored # None
    /\ IF stored.time > e[u].time
       THEN done' = done \cup {e[u]} /\ Goto(u, "idle") /\ UNCHANGED e
       ELSE Goto(u, "update") /\ UNCHANGED <<e, done>>
    /\ UNCHANGED <<clock, stored, updates, expired, late, lost>>

\* UpdateEntry compares itself with the stored entry: it drops the update in
\* favour of a newer one, or takes the next sequence number.
Compare(u) ==
    /\ at[u] = "compare" /\ stored # None
    /\ IF stored.time > e[u].time
       THEN done' = done \cup {e[u]} /\ Goto(u, "idle") /\ UNCHANGED e
       ELSE e' = [e EXCEPT ![u].seq = stored.seq + 1] /\ Goto(u, "update") /\ UNCHANGED done
    /\ UNCHANGED <<clock, stored, updates, expired, late, lost>>

CompareFails(u) ==
    /\ at[u] = "compare" /\ lost < MaxLost
    /\ lost' = lost + 1
    /\ Failed(u)
    /\ UNCHANGED <<clock, stored, e, updates, expired, late, done>>

\* retryUpdateEntry
Retry(u) ==
    /\ at[u] = "retry"
    /\ Goto(u, IF u \in expired THEN "idle" ELSE "entry")
    /\ UNCHANGED <<clock, stored, e, updates, expired, late, lost, done>>

Expire(u) ==
    /\ u \in Servers \ expired /\ at[u] # "idle"
    /\ expired' = expired \cup {u}
    /\ UNCHANGED <<clock, stored, at, e, updates, late, lost, done>>

UpdaterStep(u) ==
    \/ EntryFound(u) \/ EntryFails(u) \/ SetEntry(u) \/ SetEntryRefused(u) \/ SetEntryFails(u)
    \/ Compare(u) \/ CompareFails(u) \/ Retry(u)

\* The service gets to a request whose sender did not wait.
LateRequest(x) ==
    /\ x \in late /\ late' = late \ {x}
    /\ stored' = IF ValidateIteration(x) = "ok" THEN x ELSE stored
    /\ UNCHANGED <<clock, at, e, updates, expired, lost, done>>

Idle == (\A u \in Updaters : at[u] = "idle") /\ UNCHANGED vars

Next ==
    \/ \E u \in Updaters : Update(u) \/ UpdaterStep(u) \/ Expire(u)
    \/ \E x \in late : LateRequest(x)
    \/ Idle

\* Requests are answered or fail, and the context of retryUpdateEntry has a timeout.
Fairness == \A u \in Updaters : WF_vars(UpdaterStep(u)) /\ WF_vars(Expire(u))

Spec == Init /\ [][Next]_vars /\ Fairness
-----------------------------------------------------------------------------
(* Properties                                                              *)

\* The updaters' state is well formed; who is about to set an entry has made one.
TypeOK ==
    /\ clock \in Nat /\ stored \in Entries \cup {None}
    /\ at \in [Updaters -> {"idle", "entry", "create", "update", "compare", "retry"}]
    /\ e \in [Updaters -> Entries \cup {None}]
    /\ \A u \in Updaters : at[u] \in {"create", "update", "compare"} => e[u] # None
    /\ updates \in [Updaters -> Nat] /\ expired \subseteq Servers
    /\ late \subseteq Entries /\ lost \in 0 .. MaxLost /\ done \subseteq Entries

R == INSTANCE EntryRegister WITH entry <- stored

\* The entry is a register in which the newest update wins, whatever requests are
\* lost, late or in competition.
IsRegister == R!RSpec

\* An update that SetEntry or UpdateEntry reported as done is never lost to an older
\* one.
NewestWins == R!NewestWins

\* The entry advances by one sequence number at a time, forward in time.
EntryAdvances ==
    [][stored' # stored /\ stored # None =>
          stored'.seq = stored.seq + 1 /\ stored'.time > stored.time]_vars

\* UpdateEntry and retryUpdateEntry return, whatever the others do.
UpdateReturns == \A u \in Updaters : (at[u] # "idle") ~> (at[u] = "idle")

=============================================================================
