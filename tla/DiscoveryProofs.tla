--------------------------- MODULE DiscoveryProofs ---------------------------
(***************************************************************************)
(* The discovery entry is a register in which the newest update wins, for  *)
(* any number of updaters, updates, lost and late requests.                *)
(***************************************************************************)
EXTENDS Discovery, TLAPS

\* What a step of an updater leaves behind is typed as TypeOK says.
UpdaterType ==
    /\ at \in [Updaters -> {"idle", "entry", "create", "update", "compare", "retry"}]
    /\ e \in [Updaters -> Entries \cup {None}]
    /\ \A u \in Updaters : at[u] \in {"create", "update", "compare"} => e[u] # None
    /\ updates \in [Updaters -> Nat] /\ expired \subseteq Servers

ServiceType ==
    /\ clock \in Nat /\ stored \in Entries \cup {None}
    /\ late \subseteq Entries /\ lost \in 0 .. MaxLost /\ done \subseteq Entries

\* The initial state is well typed.
LEMMA InitType == Init => UpdaterType /\ ServiceType
  BY DiscoveryAssumption DEF Init, UpdaterType, ServiceType

\* The clock goes on in natural numbers.
LEMMA NowType == ASSUME clock \in Nat, clock' \in Now PROVE clock' \in Nat
  BY DEF Now

\* An updater makes well-formed entries (NewClientEntry, UpdateEntry).
LEMMA NewEntryType ==
    ASSUME UpdaterType, NEW u \in Updaters, NEW n \in Nat, NEW t \in Nat
    PROVE  NewEntry(u, n, t) \in Entries /\ NewEntry(u, n, t) # None
  BY NoneAssumption DEF UpdaterType, NewEntry, Entries

\* Every step keeps the updaters well typed.
LEMMA UpdaterTypeStep == UpdaterType /\ ServiceType /\ [Next]_vars => UpdaterType'
  <1> SUFFICES ASSUME UpdaterType, ServiceType, [Next]_vars PROVE UpdaterType'
    OBVIOUS
  <1> USE DiscoveryAssumption, NoneAssumption
  <1>1. CASE UNCHANGED <<at, e, updates, expired>>
    BY <1>1 DEF UpdaterType
  <1>2. ASSUME NEW u \in Updaters, Update(u) PROVE UpdaterType'
    BY <1>2 DEF Update, Goto, UpdaterType
  <1>3. ASSUME NEW u \in Updaters, EntryFound(u) PROVE UpdaterType'
    <2>1. clock' \in Nat /\ stored.seq + 1 \in Nat
      BY <1>3, NowType DEF EntryFound, ServiceType, Entries
    <2>2. NewEntry(u, stored.seq + 1, clock') \in Entries \ {None}
      BY <2>1, NewEntryType
    <2> QED
      BY <1>3, <2>2 DEF EntryFound, Goto, UpdaterType
  <1>4. ASSUME NEW u \in Updaters, EntryFails(u) PROVE UpdaterType'
    <2>1. clock' \in Nat
      BY <1>4, NowType DEF EntryFails, ServiceType
    <2>2. NewEntry(u, 0, clock') \in Entries \ {None}
      BY <2>1, NewEntryType
    <2> QED
      BY <1>4, <2>2 DEF EntryFails, Goto, UpdaterType
  <1>5. ASSUME NEW u \in Updaters, SetEntry(u) PROVE UpdaterType'
    BY <1>5 DEF SetEntry, Goto, UpdaterType
  <1>6. ASSUME NEW u \in Updaters, SetEntryRefused(u) PROVE UpdaterType'
    BY <1>6 DEF SetEntryRefused, Goto, Failed, UpdaterType
  <1>7. ASSUME NEW u \in Updaters, SetEntryFails(u) PROVE UpdaterType'
    BY <1>7 DEF SetEntryFails, Goto, Failed, UpdaterType
  <1>8. ASSUME NEW u \in Updaters, Compare(u) PROVE UpdaterType'
    <2>1. e[u] \in Entries /\ stored.seq + 1 \in Nat
      BY <1>8 DEF Compare, UpdaterType, ServiceType, Entries
    <2>2. [e[u] EXCEPT !.seq = stored.seq + 1] \in Entries \ {None}
      BY <2>1 DEF Entries
    <2> QED
      BY <1>8, <2>2 DEF Compare, Goto, UpdaterType
  <1>9. ASSUME NEW u \in Updaters, CompareFails(u) PROVE UpdaterType'
    BY <1>9 DEF CompareFails, Goto, Failed, UpdaterType
  <1>10. ASSUME NEW u \in Updaters, Retry(u) PROVE UpdaterType'
    BY <1>10 DEF Retry, Goto, UpdaterType
  <1>11. ASSUME NEW u \in Updaters, Expire(u) PROVE UpdaterType'
    BY <1>11 DEF Expire, UpdaterType
  <1> QED
    BY <1>1, <1>2, <1>3, <1>4, <1>5, <1>6, <1>7, <1>8, <1>9, <1>10, <1>11
    DEF Next, UpdaterStep, LateRequest, Idle, vars

\* Every step keeps the service and the network well typed.
LEMMA ServiceTypeStep == UpdaterType /\ ServiceType /\ [Next]_vars => ServiceType'
  <1> SUFFICES ASSUME UpdaterType, ServiceType, [Next]_vars PROVE ServiceType'
    OBVIOUS
  <1> USE DiscoveryAssumption
  <1>1. CASE UNCHANGED <<clock, stored, late, lost, done>>
    BY <1>1 DEF ServiceType
  <1>2. ASSUME NEW u \in Updaters, EntryFound(u) PROVE ServiceType'
    BY <1>2, NowType DEF EntryFound, ServiceType
  <1>3. ASSUME NEW u \in Updaters, EntryFails(u) PROVE ServiceType'
    BY <1>3, NowType DEF EntryFails, ServiceType
  <1>4. ASSUME NEW u \in Updaters, SetEntry(u) PROVE ServiceType'
    BY <1>4 DEF SetEntry, UpdaterType, ServiceType
  <1>5. ASSUME NEW u \in Updaters, SetEntryFails(u) PROVE ServiceType'
    BY <1>5 DEF SetEntryFails, UpdaterType, ServiceType
  <1>6. ASSUME NEW u \in Updaters, Compare(u) PROVE ServiceType'
    BY <1>6 DEF Compare, UpdaterType, ServiceType
  <1>7. ASSUME NEW u \in Updaters, CompareFails(u) PROVE ServiceType'
    BY <1>7 DEF CompareFails, ServiceType
  <1>8. ASSUME NEW x \in late, LateRequest(x) PROVE ServiceType'
    BY <1>8 DEF LateRequest, ServiceType
  <1> QED
    BY <1>1, <1>2, <1>3, <1>4, <1>5, <1>6, <1>7, <1>8
    DEF Next, UpdaterStep, Update, SetEntryRefused, Retry, Expire, Idle, vars

\* The types hold throughout.
LEMMA TypesHold == Spec => [](UpdaterType /\ ServiceType)
  BY InitType, UpdaterTypeStep, ServiceTypeStep, PTL DEF Spec

\* Updaters, requests and the service are well typed at all times.
THEOREM DiscoveryTypeCorrect == Spec => []TypeOK
  <1>1. UpdaterType /\ ServiceType => TypeOK
    BY DEF UpdaterType, ServiceType, TypeOK
  <1> QED
    BY TypesHold, <1>1, PTL

\* An entry that passes ValidateIteration follows the stored one.
LEMMA ValidFollows ==
    ASSUME ServiceType, NEW x \in Entries, ValidateIteration(x) = "ok", stored # None
    PROVE  x.seq = stored.seq + 1 /\ stored.time < x.time
  BY DEF ServiceType, Entries, ValidateIteration

\* A step that changes the stored entry puts a valid one in its place, and tells at
\* most its own sender.
LEMMA StoredStep ==
    ASSUME UpdaterType, ServiceType, [Next]_vars, stored' # stored
    PROVE  /\ stored' \in Entries /\ ValidateIteration(stored') = "ok"
           /\ done' = done \/ done' = done \cup {stored'}
  <1>1. ASSUME NEW u \in Updaters, SetEntry(u)
        PROVE  stored' \in Entries /\ ValidateIteration(stored') = "ok" /\ done' = done \cup {stored'}
    BY <1>1 DEF SetEntry, UpdaterType
  <1>2. ASSUME NEW x \in late, LateRequest(x)
        PROVE  stored' \in Entries /\ ValidateIteration(stored') = "ok" /\ done' = done
    BY <1>2 DEF LateRequest, ServiceType
  <1> QED
    BY <1>1, <1>2
    DEF Next, UpdaterStep, Update, EntryFound, EntryFails, SetEntryRefused, SetEntryFails,
        Compare, CompareFails, Retry, Expire, Idle, vars

\* A step that only reports reports an update older than the stored one (UpdateEntry).
LEMMA DoneStep ==
    ASSUME UpdaterType, ServiceType, [Next]_vars, stored' = stored, done' # done
    PROVE  stored # None /\ \E x \in Entries : x.time <= stored.time /\ done' = done \cup {x}
  <1>1. ASSUME NEW u \in Updaters, Compare(u)
        PROVE  stored # None /\ \E x \in Entries : x.time <= stored.time /\ done' = done \cup {x}
    <2>1. /\ stored # None /\ e[u] \in Entries /\ stored \in Entries
          /\ stored.time > e[u].time /\ done' = done \cup {e[u]}
      BY <1>1 DEF Compare, UpdaterType, ServiceType
    <2> QED
      BY <2>1 DEF Entries
  <1>2. ASSUME NEW u \in Updaters, SetEntry(u)
        PROVE  stored # None /\ \E x \in Entries : x.time <= stored.time /\ done' = done \cup {x}
    <2>1. e[u] \in Entries /\ stored' = e[u] /\ done' = done \cup {e[u]}
      BY <1>2 DEF SetEntry, UpdaterType
    <2> QED
      BY <2>1, NoneAssumption DEF Entries
  <1> QED
    BY <1>1, <1>2
    DEF Next, UpdaterStep, Update, EntryFound, EntryFails, SetEntryRefused, SetEntryFails,
        CompareFails, Retry, Expire, LateRequest, Idle, vars

\* Every step is a step of the register.
LEMMA RegisterStep == UpdaterType /\ ServiceType /\ [Next]_vars => [R!RNext]_(R!rvars)
  <1> SUFFICES ASSUME UpdaterType, ServiceType, [Next]_vars PROVE [R!RNext]_(R!rvars)
    OBVIOUS
  <1>1. CASE stored' # stored
    <2>1. stored' # None
      BY <1>1, StoredStep, NoneAssumption
    <2>2. stored = None \/ stored.time < stored'.time
      BY <1>1, StoredStep, ValidFollows
    <2> QED
      BY <1>1, <2>1, <2>2, StoredStep DEF R!RNext, R!Publish
  <1>2. CASE stored' = stored /\ done' # done
    BY <1>2, DoneStep DEF R!RNext, R!Supersede
  <1>3. CASE UNCHANGED <<stored, done>>
    BY <1>3 DEF R!rvars
  <1> QED
    BY <1>1, <1>2, <1>3

\* The discovery implements the last-writer-wins register: every POST that
\* ValidateIteration lets through, however late, is the publication of a newer
\* update, and UpdateEntry reports success only for updates that took effect or
\* were superseded.
THEOREM DiscoveryIsRegister == Spec => IsRegister
  <1>1. Init => R!RInit
    BY DEF Init, R!RInit
  <1> QED
    BY <1>1, RegisterStep, TypesHold, PTL DEF Spec, IsRegister, R!RSpec

\* An update that SetEntry or UpdateEntry reported as done is never lost to an
\* older one, whatever the interleaving of updaters.
THEOREM DiscoveryNewestWins == Spec => []NewestWins
  <1>1. Init => NewestWins
    BY DEF Init, NewestWins, R!NewestWins
  <1>2. UpdaterType /\ ServiceType /\ NewestWins /\ [Next]_vars => NewestWins'
    <2> SUFFICES ASSUME UpdaterType, ServiceType, NewestWins, [Next]_vars PROVE NewestWins'
      OBVIOUS
    <2>1. CASE stored' # stored
      <3>1. stored' \in Entries /\ stored' # None
        BY <2>1, StoredStep, NoneAssumption
      <3>2. \A u \in done : u.time <= stored'.time
        <4> SUFFICES ASSUME NEW u \in done PROVE u.time <= stored'.time
          OBVIOUS
        <4>1. stored # None /\ u.time <= stored.time /\ u \in Entries /\ stored \in Entries
          BY DEF NewestWins, R!NewestWins, ServiceType
        <4>2. stored.time < stored'.time
          BY <2>1, <4>1, StoredStep, ValidFollows
        <4> QED
          BY <3>1, <4>1, <4>2 DEF Entries
      <3> QED
        BY <2>1, <3>1, <3>2, StoredStep DEF NewestWins, R!NewestWins, Entries
    <2>2. CASE stored' = stored /\ done' # done
      BY <2>2, DoneStep DEF NewestWins, R!NewestWins
    <2>3. CASE UNCHANGED <<stored, done>>
      BY <2>3 DEF NewestWins, R!NewestWins
    <2> QED
      BY <2>1, <2>2, <2>3
  <1> QED
    BY <1>1, <1>2, TypesHold, PTL DEF Spec

\* The stored entry goes up by exactly one sequence number and forward in time,
\* for every accepted POST (ValidateIteration).
THEOREM DiscoveryAdvances == Spec => EntryAdvances
  <1>1. UpdaterType /\ ServiceType /\ [Next]_vars =>
           [stored' # stored /\ stored # None =>
               stored'.seq = stored.seq + 1 /\ stored'.time > stored.time]_vars
    <2> SUFFICES ASSUME UpdaterType, ServiceType, [Next]_vars, stored' # stored, stored # None
                 PROVE  stored'.seq = stored.seq + 1 /\ stored'.time > stored.time
      OBVIOUS
    <2>1. stored' \in Entries /\ stored \in Entries /\ stored'.seq = stored.seq + 1 /\ stored.time < stored'.time
      BY StoredStep, ValidFollows DEF ServiceType
    <2> QED
      BY <2>1 DEF Entries
  <1> QED
    BY <1>1, TypesHold, PTL DEF Spec, EntryAdvances

=============================================================================
