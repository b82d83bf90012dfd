----------------------------- MODULE SessionLease -----------------------------
(***************************************************************************)
(* What the session lock of pkg/apis/sessions/interfaces.go promises,        *)
(* without Redis: a lease on a session, given for Duration to one holder at  *)
(* a time.  A holder may keep working after its lease has run out; the lease *)
(* is then no longer an obstacle to the next one.                            *)
(***************************************************************************)
EXTENDS Integers

CONSTANTS
  Holders,    \* who may hold a lease
  Resources,  \* what a lease is held on
  Duration    \* how long a lease runs

VARIABLES
  clock,
  lease       \* holder -> the lease it believes to hold

leaseVars == <<clock, lease>>

NoLease == [on |-> 0, until |-> 0]

\* h holds a lease on k that has not run out.
Holds(h, k) == lease[h].on = k /\ clock < lease[h].until

LeaseInit ==
  /\ clock = 0
  /\ lease = [h \in Holders |-> NoLease]

\* Obtain succeeds.
Take(h, k) ==
  /\ lease[h] = NoLease
  /\ \A other \in Holders : ~Holds(other, k)
  /\ lease' = [lease EXCEPT ![h] = [on |-> k, until |-> clock + Duration]]
  /\ UNCHANGED clock

\* The holder is done, whether or not its lease still runs.
Give(h) ==
  /\ lease[h] # NoLease
  /\ lease' = [lease EXCEPT ![h] = NoLease]
  /\ UNCHANGED clock

Pass ==
  /\ clock' = clock + 1
  /\ UNCHANGED lease

LeaseNext ==
  \/ \E h \in Holders : Give(h) \/ \E k \in Resources : Take(h, k)
  \/ Pass

LeaseSpec == LeaseInit /\ [][LeaseNext]_leaseVars
=============================================================================
