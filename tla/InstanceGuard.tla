--------------------------- MODULE InstanceGuard ----------------------------
(***************************************************************************)
(* utils/instance_guard.py: the processes that want to run the live engine *)
(* of one mode share a lock row in the settings table (db.py).  Reading    *)
(* and writing the row are two statements, and nothing makes a process     *)
(* renew its row: starts may overlap and heartbeats may be missed.  Time   *)
(* is the age of the row in heartbeat periods; ages from Timeout on are    *)
(* all the same to the code.                                               *)
(***************************************************************************)
EXTENDS Naturals, FiniteSets

CONSTANTS
    Procs,      \* the processes, named by their pids
    Timeout,    \* timeout_seconds
    MaxLapses   \* bound: overlapping starts and missed heartbeats

ASSUME GuardAssumption == /\ IsFiniteSet(Procs)
                          /\ "none" \notin Procs
                          /\ Timeout \in Nat \ {0}
                          /\ MaxLapses \in Nat

VARIABLES
    lock,       \* settings: instance_lock, as [pid, age]; NoLock when there is no row
    acquired,   \* InstanceGuard.acquired of every process
    pc,         \* "idle", or "write" when acquire() has read the row and goes on
    lapses      \* history: overlapping starts and missed heartbeats so far

vars == <<lock, acquired, pc, lapses>>

NoLock == [pid |-> "none", age |-> Timeout]

Init == /\ lock = NoLock
        /\ acquired = [p \in Procs |-> FALSE]
        /\ pc = [p \in Procs |-> "idle"]
        /\ lapses = 0

\* The row is a valid lock of p's.
Current(p) == lock.pid = p /\ lock.age < Timeout

CountIf(lapse) == IF lapse THEN lapses < MaxLapses /\ lapses' = lapses + 1
                           ELSE UNCHANGED lapses

\* Wrong on purpose: the lock goes stale one period early.
FreshTooBriefly == lock.age + 1 < Timeout

Fresh == lock.age < Timeout

\* acquire() reads the row: a fresh one of another pid raises, and nothing changes.
ReadLock(p) ==
    /\ pc[p] = "idle"
    /\ ~(Fresh /\ lock.pid # p)
    /\ pc' = [pc EXCEPT ![p] = "write"]
    /\ UNCHANGED <<lock, acquired, lapses>>

\* A lock that another process has written since then is overwritten unseen.
WriteLock(p) ==
    /\ pc[p] = "write"
    /\ CountIf(\E q \in Procs \ {p} : Current(q))
    /\ lock' = [pid |-> p, age |-> 0]
    /\ acquired' = [acquired EXCEPT ![p] = TRUE]
    /\ pc' = [pc EXCEPT ![p] = "idle"]

\* Writes the row, whoever's pid is in it.
Heartbeat(p) ==
    /\ pc[p] = "idle"
    /\ acquired[p]
    /\ lock' = [pid |-> p, age |-> 0]
    /\ UNCHANGED <<acquired, pc, lapses>>

\* Wrong on purpose: the row is deleted by a process that never got it.
ReleaseAnyway(p) ==
    /\ pc[p] = "idle"
    /\ lock' = NoLock
    /\ acquired' = [acquired EXCEPT ![p] = FALSE]
    /\ UNCHANGED <<pc, lapses>>

\* Wrong on purpose: the pid is cleared and the row stays.
ReleaseKeepsRow(p) ==
    /\ pc[p] = "idle"
    /\ acquired[p]
    /\ lock' = [lock EXCEPT !.pid = "none"]
    /\ acquired' = [acquired EXCEPT ![p] = FALSE]
    /\ UNCHANGED <<pc, lapses>>

\* Deletes the row, whoever's pid is in it.
Release(p) ==
    /\ pc[p] = "idle"
    /\ acquired[p]
    /\ lock' = NoLock
    /\ acquired' = [acquired EXCEPT ![p] = FALSE]
    /\ UNCHANGED <<pc, lapses>>

\* The process dies; its row stays.  It may come back under the same pid.
Crash(p) ==
    /\ acquired' = [acquired EXCEPT ![p] = FALSE]
    /\ pc' = [pc EXCEPT ![p] = "idle"]
    /\ UNCHANGED <<lock, lapses>>

\* A period passes.  The row of a process that runs may go stale: nothing in
\* src/ calls heartbeat().
Tick ==
    /\ lock.age < Timeout
    /\ CountIf(lock.age + 1 = Timeout /\ \E p \in Procs : acquired[p] /\ Current(p))
    /\ lock' = [lock EXCEPT !.age = @ + 1]
    /\ UNCHANGED <<acquired, pc>>

Next == \/ \E p \in Procs : \/ ReadLock(p) \/ WriteLock(p)
                            \/ Heartbeat(p) \/ Release(p) \/ Crash(p)
        \/ Tick

Spec == Init /\ [][Next]_vars

(***************************************************************************)
(* Properties                                                              *)
(***************************************************************************)

Locks == [pid : Procs \cup {"none"}, age : 0..Timeout]

\* Every variable holds a value of its kind; a missing row reads as stale.
TypeOK == /\ lock \in Locks
          /\ (lock.pid = "none" => lock = NoLock)
          /\ acquired \in [Procs -> BOOLEAN]
          /\ pc \in [Procs -> {"idle", "write"}]
          /\ lapses \in 0..MaxLapses

\* H4 (instance_guard.py:17): one live engine at a time.
OneInstance == \A p, q \in Procs : acquired[p] /\ acquired[q] => p = q

Running == {p \in Procs : acquired[p]}

\* Every instance beyond the first is due to an overlapping start or a missed
\* heartbeat of its own: what comes after one, heartbeats that overwrite and
\* releases that delete another's row (instance_guard.py:58, 63), adds none.
InstancesCounted == Cardinality(Running) <= 1 + lapses

\* p runs with a valid lock; nobody else runs or is starting.
Sole(p) == /\ acquired[p] /\ Current(p)
           /\ \A q \in Procs \ {p} : ~acquired[q] /\ pc[q] = "idle"

SoleStays == \A p \in Procs : Sole(p) =>
    \/ Sole(p)'
    \/ ~acquired'[p]
    \/ lock' = [pid |-> p, age |-> Timeout]

\* instance_guard.py:42: a process that runs alone, whatever happened before,
\* goes on alone, and others are refused in its name, until it stops or has
\* missed its heartbeats for timeout_seconds.
SoleHolderStays == [][SoleStays]_vars

=============================================================================
