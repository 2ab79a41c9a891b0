------------------------ MODULE InstanceGuardProofs -------------------------
(***************************************************************************)
(* What the instance guard guarantees, for any finite set of processes and *)
(* any timeout, however starts overlap and heartbeats are missed.          *)
(***************************************************************************)
EXTENDS InstanceGuard, TLAPS, FiniteSetTheorems

LEMMA CountIfType ==
    ASSUME NEW c \in BOOLEAN, lapses \in 0..MaxLapses, CountIf(c)
    PROVE  /\ lapses' \in 0..MaxLapses
           /\ lapses' = IF c THEN lapses + 1 ELSE lapses
BY GuardAssumption DEF CountIf

LEMMA GuardTypeStep == TypeOK /\ [Next]_vars => TypeOK'
<1> SUFFICES ASSUME TypeOK, [Next]_vars PROVE TypeOK'
    OBVIOUS
<1> USE GuardAssumption DEF TypeOK, Locks, NoLock
<1>1. ASSUME NEW p \in Procs, ReadLock(p) PROVE TypeOK'
    BY <1>1 DEF ReadLock
<1>2. ASSUME NEW p \in Procs, WriteLock(p) PROVE TypeOK'
    <2>1. lapses' \in 0..MaxLapses
        BY <1>2, CountIfType DEF WriteLock
    <2> QED
        BY <1>2, <2>1 DEF WriteLock
<1>3. ASSUME NEW p \in Procs, Heartbeat(p) PROVE TypeOK'
    BY <1>3 DEF Heartbeat
<1>4. ASSUME NEW p \in Procs, Release(p) PROVE TypeOK'
    BY <1>4 DEF Release
<1>5. ASSUME NEW p \in Procs, Crash(p) PROVE TypeOK'
    BY <1>5 DEF Crash
<1>6. CASE Tick
    <2>1. lapses' \in 0..MaxLapses
        BY <1>6, CountIfType DEF Tick
    <2> QED
        BY <1>6, <2>1 DEF Tick
<1>7. CASE UNCHANGED vars
    BY <1>7 DEF vars
<1> QED
    BY <1>1, <1>2, <1>3, <1>4, <1>5, <1>6, <1>7 DEF Next

LEMMA GuardTypeInit == Init => TypeOK
BY GuardAssumption DEF Init, TypeOK, Locks, NoLock

\* The settings hold no lock or the lock of one process, and a lock without a
\* process is none (instance_guard.py:52-79).
THEOREM GuardTypeCorrect == Spec => []TypeOK
BY GuardTypeInit, GuardTypeStep, PTL DEF Spec

(***************************************************************************)
(* A stray runs without a valid lock of its own.  There is at most one     *)
(* process that runs and is no stray; a stray comes from a lapse, or takes *)
(* the place of another one, whose heartbeat or release takes the lock     *)
(* away from its holder.                                                   *)
(***************************************************************************)
Strays == {p \in Procs : acquired[p] /\ ~Current(p)}

CountInv == Cardinality(Strays) <= lapses

LEMMA StraysFinite ==
    /\ IsFiniteSet(Strays) /\ Cardinality(Strays) \in Nat
    /\ IsFiniteSet(Strays') /\ Cardinality(Strays') \in Nat
<1>1. Strays \subseteq Procs /\ Strays' \subseteq Procs
    BY DEF Strays
<1> QED
    BY <1>1, GuardAssumption, FS_Subset, FS_CardinalityType

LEMMA AddOne ==
    ASSUME NEW S, NEW x, IsFiniteSet(S)
    PROVE  /\ IsFiniteSet(S \cup {x})
           /\ Cardinality(S) \in Nat /\ Cardinality(S \cup {x}) \in Nat
           /\ Cardinality(S \cup {x}) <= Cardinality(S) + 1
<1> DEFINE T == S \cup {x}
           n == Cardinality(S)
<1>1. IsFiniteSet(T) /\ Cardinality(T) = IF x \in S THEN n ELSE n + 1
    BY FS_AddElement
<1>2. n \in Nat
    BY FS_CardinalityType
<1> HIDE DEF T, n
<1>3. Cardinality(T) = n \/ Cardinality(T) = n + 1
    BY <1>1
<1>4. Cardinality(T) \in Nat /\ Cardinality(T) <= n + 1
    BY <1>2, <1>3
<1> QED
    BY <1>1, <1>2, <1>4 DEF T, n

\* No new stray: their number does not grow.
LEMMA NoNewStray ==
    ASSUME Strays' \subseteq Strays PROVE Cardinality(Strays') <= Cardinality(Strays)
BY StraysFinite, FS_Subset

\* One more at most.
LEMMA OneNewStray ==
    ASSUME NEW q, Strays' \subseteq Strays \cup {q}
    PROVE  Cardinality(Strays') <= Cardinality(Strays) + 1
<1> DEFINE U == Strays \cup {q}
<1>1. IsFiniteSet(U) /\ Cardinality(U) \in Nat /\ Cardinality(U) <= Cardinality(Strays) + 1
    BY StraysFinite, AddOne
<1>2. Cardinality(Strays') <= Cardinality(U)
    BY <1>1, FS_Subset
<1> HIDE DEF U
<1> QED
    BY <1>1, <1>2, StraysFinite

\* One goes, one comes.
LEMMA StrayReplaced ==
    ASSUME NEW p \in Strays, NEW q, Strays' \subseteq (Strays \ {p}) \cup {q}
    PROVE  Cardinality(Strays') <= Cardinality(Strays)
<1> DEFINE R == Strays \ {p}
<1>1. IsFiniteSet(R) /\ Cardinality(R) = Cardinality(Strays) - 1
    BY StraysFinite, FS_RemoveElement
<1>2. /\ IsFiniteSet(R \cup {q}) /\ Cardinality(R \cup {q}) <= Cardinality(R) + 1
      /\ Cardinality(R) \in Nat /\ Cardinality(R \cup {q}) \in Nat
    BY <1>1, AddOne
<1>3. Cardinality(Strays') <= Cardinality(R \cup {q})
    BY <1>2, FS_Subset
<1> HIDE DEF R
<1> QED
    BY <1>1, <1>2, <1>3, StraysFinite

\* Where the row is taken from the process lock.pid: only that one may become
\* a stray.
LEMMA OnlyHolderStrays ==
    ASSUME TypeOK, NEW p \in Procs,
           \A r \in Procs \ {p} : acquired'[r] = acquired[r],
           p \notin Strays'
    PROVE  /\ Strays' \subseteq (Strays \ {p}) \cup {lock.pid}
           /\ ~(\E q \in Procs \ {p} : Current(q)) => Strays' \subseteq Strays
BY DEF Strays, Current

LEMMA CountStep == TypeOK /\ CountInv /\ [Next]_vars => CountInv'
<1> SUFFICES ASSUME TypeOK, CountInv, [Next]_vars PROVE CountInv'
    OBVIOUS
<1>0. /\ lapses \in Nat /\ lapses' \in Nat
      /\ Cardinality(Strays) \in Nat /\ Cardinality(Strays') \in Nat
    BY GuardTypeStep, StraysFinite, GuardAssumption DEF TypeOK
<1>1. ASSUME NEW p \in Procs, ReadLock(p) PROVE CountInv'
    <2>1. Strays' \subseteq Strays /\ lapses' = lapses
        BY <1>1 DEF ReadLock, Strays, Current
    <2> QED
        BY <1>0, <2>1, NoNewStray DEF CountInv
<1>2. ASSUME NEW p \in Procs, WriteLock(p) PROVE CountInv'
    <2>1. p \notin Strays' /\ \A r \in Procs \ {p} : acquired'[r] = acquired[r]
        BY <1>2, GuardAssumption DEF WriteLock, Strays, Current, TypeOK
    <2>2. CASE \E q \in Procs \ {p} : Current(q)
        <3>1. lapses' = lapses + 1
            BY <1>2, <2>2 DEF WriteLock, CountIf
        <3>2. Strays' \subseteq Strays \cup {lock.pid}
            BY <2>1, OnlyHolderStrays
        <3> QED
            BY <1>0, <3>1, <3>2, OneNewStray DEF CountInv
    <2>3. CASE ~(\E q \in Procs \ {p} : Current(q))
        <3>1. lapses' = lapses
            BY <1>2, <2>3 DEF WriteLock, CountIf
        <3>2. Strays' \subseteq Strays
            BY <2>1, <2>3, OnlyHolderStrays
        <3> QED
            BY <1>0, <3>1, <3>2, NoNewStray DEF CountInv
    <2> QED
        BY <2>2, <2>3
<1>3. ASSUME NEW p \in Procs, Heartbeat(p) \/ Release(p) PROVE CountInv'
    <2>1. p \notin Strays' /\ \A r \in Procs \ {p} : acquired'[r] = acquired[r]
        BY <1>3, GuardAssumption DEF Heartbeat, Release, Strays, Current, TypeOK
    <2>2. lapses' = lapses /\ acquired[p]
        BY <1>3 DEF Heartbeat, Release
    <2>3. CASE p \in Strays
        BY <1>0, <2>1, <2>2, <2>3, OnlyHolderStrays, StrayReplaced DEF CountInv
    <2>4. CASE p \notin Strays
        <3>1. ~(\E q \in Procs \ {p} : Current(q))
            BY <2>2, <2>4 DEF Strays, Current
        <3> QED
            BY <1>0, <2>1, <2>2, <3>1, OnlyHolderStrays, NoNewStray DEF CountInv
    <2> QED
        BY <2>3, <2>4
<1>4. ASSUME NEW p \in Procs, Crash(p) PROVE CountInv'
    <2>1. Strays' \subseteq Strays /\ lapses' = lapses
        BY <1>4 DEF Crash, Strays, Current, TypeOK
    <2> QED
        BY <1>0, <2>1, NoNewStray DEF CountInv
<1>5. CASE Tick
    <2> DEFINE missed == lock.age + 1 = Timeout /\ \E p \in Procs : acquired[p] /\ Current(p)
    <2>1. lock'.pid = lock.pid /\ lock'.age = lock.age + 1 /\ acquired' = acquired /\ CountIf(missed)
        BY <1>5 DEF Tick, TypeOK, Locks
    <2>2. Strays' \subseteq Strays \cup {lock.pid}
        BY <2>1 DEF Strays, Current
    <2>3. CASE missed
        BY <1>0, <2>1, <2>2, <2>3, OneNewStray DEF CountInv, CountIf
    <2>4. CASE ~missed
        <3>1. Strays' \subseteq Strays
            BY <2>1, <2>4, GuardAssumption DEF Strays, Current, TypeOK, Locks
        <3> QED
            BY <1>0, <2>1, <2>4, <3>1, NoNewStray DEF CountInv, CountIf
    <2> QED
        BY <2>3, <2>4
<1>6. CASE UNCHANGED vars
    BY <1>6 DEF vars, CountInv, Strays, Current
<1> QED
    BY <1>1, <1>2, <1>3, <1>4, <1>5, <1>6 DEF Next

LEMMA StraysAndHolder == ASSUME TypeOK, CountInv PROVE InstancesCounted
<1>1. Running \subseteq Strays \cup {lock.pid}
    BY DEF Running, Strays, Current
<1> DEFINE U == Strays \cup {lock.pid}
<1>2. IsFiniteSet(U) /\ Cardinality(U) \in Nat /\ Cardinality(U) <= Cardinality(Strays) + 1
    BY StraysFinite, AddOne
<1>3. Cardinality(Running) <= Cardinality(U) /\ IsFiniteSet(Running)
    BY <1>1, <1>2, FS_Subset
<1> HIDE DEF U
<1>4. Cardinality(Running) \in Nat /\ lapses \in Nat
    BY <1>3, FS_CardinalityType, GuardAssumption DEF TypeOK
<1> QED
    BY <1>2, <1>3, <1>4, StraysFinite DEF InstancesCounted, CountInv

\* Not one instance (instance_guard.py:17), but never more than one for every
\* overlapping start and every missed heartbeat, and one: no heartbeat, release
\* or crash after them lets another process in.
THEOREM InstancesAreCounted == Spec => []InstancesCounted
<1>1. Init => CountInv
    <2>1. Init => Strays = {} /\ lapses = 0
        BY DEF Init, Strays
    <2> QED
        BY <2>1, FS_EmptySet DEF CountInv
<1> QED
    BY <1>1, CountStep, StraysAndHolder, GuardTypeCorrect, PTL DEF Spec

(***************************************************************************)
(* A process that runs alone                                               *)
(***************************************************************************)
LEMMA SoleStep == ASSUME TypeOK, [Next]_vars PROVE SoleStays
<1> SUFFICES ASSUME NEW p \in Procs, Sole(p), acquired'[p], ~(lock' = [pid |-> p, age |-> Timeout])
             PROVE  Sole(p)'
    BY DEF SoleStays
<1> USE DEF Sole, Current, TypeOK
<1>1. ASSUME NEW q \in Procs, ReadLock(q) PROVE Sole(p)'
    BY <1>1 DEF ReadLock, Fresh
<1>2. ASSUME NEW q \in Procs, WriteLock(q) PROVE Sole(p)'
    BY <1>2, GuardAssumption DEF WriteLock
<1>3. ASSUME NEW q \in Procs, Heartbeat(q) PROVE Sole(p)'
    BY <1>3, GuardAssumption DEF Heartbeat
<1>4. ASSUME NEW q \in Procs, Release(q) PROVE Sole(p)'
    BY <1>4 DEF Release
<1>5. ASSUME NEW q \in Procs, Crash(q) PROVE Sole(p)'
    BY <1>5 DEF Crash
<1>6. CASE Tick
    <2>1. lock' = [pid |-> p, age |-> lock.age + 1]
        BY <1>6 DEF Tick, Locks
    <2> QED
        BY <1>6, <2>1, GuardAssumption DEF Tick, Locks
<1>7. CASE UNCHANGED vars
    BY <1>7 DEF vars
<1> QED
    BY <1>1, <1>2, <1>3, <1>4, <1>5, <1>6, <1>7 DEF Next

\* instance_guard.py:42: whatever happened before, a process that has come to
\* run alone goes on alone until it stops or misses its heartbeats.
THEOREM SoleHoldersStay == Spec => SoleHolderStays
BY GuardTypeCorrect, SoleStep, PTL DEF Spec, SoleHolderStays

=============================================================================
