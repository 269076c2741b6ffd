---------------------------- MODULE EntryRegister ----------------------------
(***************************************************************************)
(* What an entry of the discovery promises to those who update it: the     *)
(* newest update wins, and an update that was reported as done is either   *)
(* the entry or superseded by a newer one.  An update u has a timestamp,   *)
(* u.time.                                                                 *)
(***************************************************************************)
EXTENDS Integers

CONSTANT None

VARIABLES
    entry,  \* the newest update, or None
    done    \* the updates that were reported as done

rvars == <<entry, done>>

RInit == entry = None /\ done = {}

\* An update takes effect, and its writer may learn of it at once.
Publish ==
    /\ entry' # None /\ (entry = None \/ entry.time < entry'.time)
    /\ done' = done \/ done' = done \cup {entry'}

\* The writer of u is told that it is done, as a newer one took its place.
Supersede ==
    /\ entry # None /\ UNCHANGED entry
    /\ \E u \in done' : u.time <= entry.time /\ done' = done \cup {u}

RNext == Publish \/ Supersede

RSpec == RInit /\ [][RNext]_rvars

\* No update that was reported as done is lost to an older one.
NewestWins == \A u \in done : entry # None /\ u.time <= entry.time
=============================================================================
