-------------------------- MODULE SmpBarrierProofs --------------------------
(***************************************************************************)
(* For any finite set of processes and any number of calls, the counting   *)
(* barrier of SMPSWBarrier implements a barrier.                           *)
(***************************************************************************)
EXTENDS SmpBarrier, FiniteSetTheorems, TLAPS

\* The number of processes on the host is a positive natural number.
LEMMA CommSizeType == commSize \in Nat \ {0}
<1>1. commSize \in Nat
  BY ProcsAssumption, FS_CardinalityType DEF commSize
<1>2. commSize # 0
  BY ProcsAssumption, FS_EmptySet DEF commSize
<1> QED BY <1>1, <1>2

\* The processes that are ahead can be counted, they are at most all of them,
\* and when they are as many as all of them, they are all of them.
LEMMA AheadCount ==
  ASSUME NEW R \in Nat
  PROVE  /\ IsFiniteSet(Ahead(R))
         /\ Cardinality(Ahead(R)) \in Nat
         /\ Cardinality(Ahead(R)) <= commSize
         /\ Cardinality(Ahead(R)) = commSize => Ahead(R) = Procs
<1>1. Ahead(R) \subseteq Procs
  BY DEF Ahead
<1>2. /\ IsFiniteSet(Ahead(R))
      /\ Cardinality(Ahead(R)) <= Cardinality(Procs)
      /\ Cardinality(Ahead(R)) = Cardinality(Procs) => Ahead(R) = Procs
  BY <1>1, ProcsAssumption, FS_Subset
<1> QED BY <1>2, FS_CardinalityType DEF commSize

\* Counting one more process that was not ahead adds one to the number ahead.
LEMMA OneMoreAhead ==
  ASSUME NEW S, IsFiniteSet(S), NEW p, p \notin S
  PROVE  Cardinality(S \cup {p}) = Cardinality(S) + 1
BY FS_AddElement

-----------------------------------------------------------------------------
(* The part of the invariant about one process, and the part about all.     *)

One(p) ==
    /\ releaseCnt[p] = calls[p] * commSize
    /\ at[p] # "out" => calls[p] > 0
    /\ at[p] \in {"load", "store", "unlock"} <=> holder = {p}
    /\ at[p] = "store" => loaded[p] = Counter
    /\ returns[p] * commSize <= Counter

Total ==
    \E R \in 0..MaxCalls :
        /\ \A p \in Procs : Counted(p) \in {R, R + 1}
        /\ Counter = R * commSize + Cardinality(Ahead(R))

\* The invariant is its two parts.
LEMMA InvParts == BarrierInv <=> BarrierTypeOK /\ (\A p \in Procs : One(p)) /\ Total
BY DEF BarrierInv, One, Total

\* A step that changes neither the counter nor who has been counted keeps Total.
LEMMA TotalKept ==
  ASSUME Total, Counter' = Counter, \A p \in Procs : Counted(p)' = Counted(p)
  PROVE  Total'
<1>1. PICK R \in 0..MaxCalls :
        /\ \A p \in Procs : Counted(p) \in {R, R + 1}
        /\ Counter = R * commSize + Cardinality(Ahead(R))
  BY DEF Total
<1>2. Ahead(R)' = Ahead(R)
  BY DEF Ahead
<1>3. Counter' = R * commSize + Cardinality(Ahead(R)')
  BY <1>1, <1>2
<1>4. \A p \in Procs : Counted(p)' \in {R, R + 1}
  BY <1>1
<1> QED BY <1>3, <1>4 DEF Total, commSize

\* The initial state satisfies the invariant, with nobody counted yet.
LEMMA InitInv == BarrierInit => BarrierInv
<1> SUFFICES ASSUME BarrierInit PROVE BarrierInv
  OBVIOUS
<1>1. BarrierTypeOK
  BY MaxCallsAssumption DEF BarrierInit, BarrierTypeOK, Counting
<1>2. \A p \in Procs : One(p)
  BY CommSizeType DEF BarrierInit, One, returns
<1>3. \A p \in Procs : Counted(p) = 0
  BY DEF BarrierInit, Counted, Counting
<1>4. Ahead(0) = {}
  BY <1>3 DEF Ahead
<1>5. Counter = 0 * commSize + Cardinality(Ahead(0))
  BY <1>4, FS_EmptySet, CommSizeType DEF BarrierInit
<1>6. Total
  BY <1>3, <1>5, MaxCallsAssumption DEF Total
<1> QED BY <1>1, <1>2, <1>6, InvParts

\* A process that is counted R+1 times, and that was released that many times,
\* shows that everybody has been counted R+1 times.
LEMMA AllAhead ==
  ASSUME NEW R \in 0..MaxCalls, Counter \in Nat,
         Counter = R * commSize + Cardinality(Ahead(R)),
         (R + 1) * commSize <= Counter
  PROVE  /\ \A p \in Procs : Counted(p) = R + 1
         /\ Counter = (R + 1) * commSize
<1>1. R \in Nat
  BY MaxCallsAssumption
<1> DEFINE N == commSize
<1> DEFINE C == Cardinality(Ahead(R))
<1>2. N \in Nat /\ C \in Nat /\ C <= N
  BY <1>1, AheadCount, CommSizeType
<1>3. (R + 1) * N = R * N + N
  <2> HIDE DEF N, C
  <2> QED BY <1>1, <1>2
<1>4. R * N \in Nat
  <2> HIDE DEF N, C
  <2> QED BY <1>1, <1>2
<1>5. C = N
  <2> DEFINE M == R * N
  <2>1. M \in Nat /\ M + N <= M + C
    BY <1>3, <1>4
  <2> HIDE DEF M, N, C
  <2> QED BY <2>1, <1>2
<1>6. Ahead(R) = Procs
  BY <1>1, <1>5, AheadCount
<1>7. Counter = (R + 1) * commSize
  BY <1>3, <1>5
<1> QED BY <1>6, <1>7 DEF Ahead

\* When one more process is counted, the counter still says how many were.
LEMMA TotalCounted ==
  ASSUME BarrierInv, NEW p \in Procs, Store(p)
  PROVE  Total'
<1>1. PICK R \in 0..MaxCalls :
        /\ \A q \in Procs : Counted(q) \in {R, R + 1}
        /\ Counter = R * commSize + Cardinality(Ahead(R))
  BY DEF BarrierInv
<1>2. R \in Nat /\ Counter \in Nat
  BY MaxCallsAssumption DEF BarrierInv, BarrierTypeOK
<1>3. Counter' = Counter + 1
  BY DEF BarrierInv, BarrierTypeOK, Store
<1>4. /\ Counted(p) = calls[p] - 1
      /\ Counted(p)' = calls[p]
      /\ \A q \in Procs : q # p => Counted(q)' = Counted(q)
  BY DEF BarrierInv, BarrierTypeOK, Store, Counted, Counting
<1>5. calls[p] \in 0..MaxCalls /\ calls[p] > 0
  BY DEF BarrierInv, BarrierTypeOK, Store
<1>6. CASE Counted(p) = R
  <2>1. Counted(p)' = R + 1
    BY <1>2, <1>4, <1>5, <1>6, MaxCallsAssumption
  <2>2. p \notin Ahead(R)
    BY <1>2, <1>6 DEF Ahead
  <2>3. Ahead(R)' = Ahead(R) \cup {p}
    BY <2>1, <1>4 DEF Ahead
  <2>4. Cardinality(Ahead(R)') = Cardinality(Ahead(R)) + 1
    BY <2>2, <2>3, <1>2, AheadCount, OneMoreAhead
  <2>5. Counter' = R * commSize + Cardinality(Ahead(R)')
    BY <2>4, <1>1, <1>2, <1>3, AheadCount, CommSizeType
  <2>6. \A q \in Procs : Counted(q)' \in {R, R + 1}
    BY <2>1, <1>1, <1>4
  <2> QED BY <2>5, <2>6 DEF Total, commSize
<1>7. CASE Counted(p) = R + 1
  <2>1. returns[p] = R + 1
    BY <1>4, <1>7 DEF returns, Store
  <2>2. (R + 1) * commSize <= Counter
    BY <2>1 DEF BarrierInv
  <2>3. /\ \A q \in Procs : Counted(q) = R + 1
        /\ Counter = (R + 1) * commSize
    BY <2>2, <1>1, <1>2, AllAhead
  <2>4. Counted(p)' = (R + 1) + 1
    BY <1>2, <1>4, <1>5, <1>7, MaxCallsAssumption
  <2>5. Ahead(R + 1)' = {p}
    BY <1>2, <1>4, <2>3, <2>4 DEF Ahead
  <2>6. Cardinality(Ahead(R + 1)') = 1
    BY <2>5, FS_Singleton
  <2>7. Counter' = (R + 1) * commSize + Cardinality(Ahead(R + 1)')
    BY <1>3, <2>3, <2>6
  <2>8. \A q \in Procs : Counted(q)' \in {R + 1, (R + 1) + 1}
    BY <1>4, <2>3, <2>4
  <2>9. R + 1 \in 0..MaxCalls
    BY <1>2, <1>4, <1>5, <1>7, MaxCallsAssumption
  <2> QED BY <2>7, <2>8, <2>9 DEF Total, commSize
<1> QED BY <1>1, <1>6, <1>7

\* Every step keeps the invariant.
LEMMA StepInv == BarrierInv /\ [BarrierNext]_barrierVars => BarrierInv'
<1> SUFFICES ASSUME BarrierInv, [BarrierNext]_barrierVars PROVE BarrierInv'
  OBVIOUS
<1>0. BarrierTypeOK /\ (\A p \in Procs : One(p)) /\ Total
  BY InvParts
<1>i. (BarrierTypeOK' /\ (\A p \in Procs : One(p)') /\ Total') => BarrierInv'
  BY DEF BarrierInv, One, Total
<1>n. commSize \in Nat
  BY CommSizeType
<1>1. ASSUME NEW p \in Procs, Enter(p) PROVE BarrierInv'
  <2>1. BarrierTypeOK'
    BY <1>0, <1>1, <1>n, MaxCallsAssumption DEF BarrierTypeOK, Enter, Counting
  <2>2. \A q \in Procs : Counted(q)' = Counted(q) /\ returns[q]' = returns[q]
    BY <1>0, <1>1, MaxCallsAssumption DEF BarrierTypeOK, Enter, Counted, Counting, returns
  <2>3. Counter' = Counter
    BY <1>1 DEF Enter
  <2>4. (calls[p] + 1) * commSize = calls[p] * commSize + commSize
    BY <1>0, <1>n, MaxCallsAssumption DEF BarrierTypeOK
  <2>5. \A q \in Procs : One(q)'
    BY <1>0, <1>1, <2>2, <2>4, MaxCallsAssumption DEF BarrierTypeOK, One, Enter, commSize
  <2> QED BY <2>1, <2>2, <2>3, <2>5, <1>0, <1>i, TotalKept
<1>2. ASSUME NEW p \in Procs, Lock(p) PROVE BarrierInv'
  <2>1. BarrierTypeOK'
    BY <1>0, <1>2 DEF BarrierTypeOK, Lock, Counting
  <2>2. \A q \in Procs : Counted(q)' = Counted(q) /\ returns[q]' = returns[q]
    BY <1>0, <1>2 DEF BarrierTypeOK, Lock, Counted, Counting, returns
  <2>5. \A q \in Procs : One(q)'
    BY <1>0, <1>2, <2>2 DEF BarrierTypeOK, One, Lock, commSize
  <2> QED BY <2>1, <2>2, <2>5, <1>0, <1>2, <1>i, TotalKept DEF Lock
<1>3. ASSUME NEW p \in Procs, Load(p) PROVE BarrierInv'
  <2>1. BarrierTypeOK'
    BY <1>0, <1>3 DEF BarrierTypeOK, Load, Counting
  <2>2. \A q \in Procs : Counted(q)' = Counted(q) /\ returns[q]' = returns[q]
    BY <1>0, <1>3 DEF BarrierTypeOK, Load, Counted, Counting, returns
  <2>5. \A q \in Procs : One(q)'
    BY <1>0, <1>3, <2>2 DEF BarrierTypeOK, One, Load, commSize
  <2> QED BY <2>1, <2>2, <2>5, <1>0, <1>3, <1>i, TotalKept DEF Load
<1>4. ASSUME NEW p \in Procs, Store(p) PROVE BarrierInv'
  <2>1. BarrierTypeOK'
    BY <1>0, <1>4 DEF BarrierTypeOK, Store, Counting
  <2>2. Counter' = Counter + 1
    BY <1>0, <1>4 DEF BarrierTypeOK, One, Store
  <2>3. \A q \in Procs : returns[q]' = returns[q]
    BY <1>0, <1>4 DEF BarrierTypeOK, Store, returns
  <2>4. \A q \in Procs : returns[q] * commSize <= Counter'
    <3>1. \A q \in Procs : returns[q] \in Nat
      BY <1>0, MaxCallsAssumption DEF BarrierTypeOK, One, returns
    <3> QED BY <3>1, <2>2, <1>0, <1>n DEF One, BarrierTypeOK
  <2>5. \A q \in Procs : One(q)'
    BY <1>0, <1>4, <2>3, <2>4 DEF BarrierTypeOK, One, Store, commSize
  <2> QED BY <2>1, <2>5, <1>4, <1>i, TotalCounted
<1>5. ASSUME NEW p \in Procs, Unlock(p) PROVE BarrierInv'
  <2>1. BarrierTypeOK'
    BY <1>0, <1>5 DEF BarrierTypeOK, Unlock, Counting
  <2>2. \A q \in Procs : Counted(q)' = Counted(q) /\ returns[q]' = returns[q]
    BY <1>0, <1>5 DEF BarrierTypeOK, Unlock, Counted, Counting, returns
  <2>3. holder = {p} /\ holder' = {}
    BY <1>0, <1>5 DEF One, Unlock
  <2>5. \A q \in Procs : One(q)'
    BY <1>0, <1>5, <2>2, <2>3 DEF BarrierTypeOK, One, Unlock, commSize
  <2> QED BY <2>1, <2>2, <2>5, <1>0, <1>5, <1>i, TotalKept DEF Unlock
<1>6. ASSUME NEW p \in Procs, Leave(p) PROVE BarrierInv'
  <2>1. BarrierTypeOK'
    BY <1>0, <1>6 DEF BarrierTypeOK, Leave, Counting
  <2>2. \A q \in Procs : Counted(q)' = Counted(q)
    BY <1>0, <1>6 DEF BarrierTypeOK, Leave, Counted, Counting
  <2>3. returns[p]' = calls[p] /\ \A q \in Procs : q # p => returns[q]' = returns[q]
    BY <1>0, <1>6 DEF BarrierTypeOK, Leave, returns
  <2>4. calls[p] * commSize <= Counter
    BY <1>0, <1>6 DEF One, Leave, Released, BarrierTypeOK
  <2>5. \A q \in Procs : One(q)'
    BY <1>0, <1>6, <2>3, <2>4 DEF BarrierTypeOK, One, Leave, commSize
  <2> QED BY <2>1, <2>2, <2>5, <1>0, <1>6, <1>i, TotalKept DEF Leave
<1>7. ASSUME UNCHANGED barrierVars PROVE BarrierInv'
  <2>1. BarrierTypeOK'
    BY <1>0, <1>7 DEF barrierVars, BarrierTypeOK
  <2>2. \A q \in Procs : Counted(q)' = Counted(q) /\ returns[q]' = returns[q]
    BY <1>7 DEF barrierVars, Counted, returns
  <2>3. \A q \in Procs : One(q)'
    BY <1>0, <1>7, <2>2 DEF barrierVars, One, commSize
  <2> QED BY <2>1, <2>2, <2>3, <1>0, <1>7, <1>i, TotalKept DEF barrierVars
<1> QED BY <1>1, <1>2, <1>3, <1>4, <1>5, <1>6, <1>7 DEF BarrierNext, InBarrier

-----------------------------------------------------------------------------
\* The invariant of SMPSWBarrier holds for any number of processes on the host
\* and any number of calls: the counter accounts for every arrival.
THEOREM BarrierIsInductive == BarrierSpec => []BarrierInv
<1> QED BY InitInv, StepInv, PTL DEF BarrierSpec

\* A process that is released knows that all others have made the same call.
LEMMA ReleasedTogether ==
  ASSUME BarrierInv, NEW p \in Procs, Leave(p)
  PROVE  \A q \in Procs : calls[q] >= calls[p]
<1>1. PICK R \in 0..MaxCalls :
        /\ \A q \in Procs : Counted(q) \in {R, R + 1}
        /\ Counter = R * commSize + Cardinality(Ahead(R))
  BY DEF BarrierInv
<1>2. R \in Nat /\ Counter \in Nat
  BY MaxCallsAssumption DEF BarrierInv, BarrierTypeOK
<1>3. \A q \in Procs : calls[q] \in Nat /\ Counted(q) <= calls[q]
  BY MaxCallsAssumption DEF BarrierInv, BarrierTypeOK, Counted
<1>4. Counted(p) = calls[p]
  BY DEF Leave, Counted, Counting
<1>5. calls[p] * commSize <= Counter
  BY DEF BarrierInv, BarrierTypeOK, Leave, Released
<1>6. CASE calls[p] = R
  BY <1>1, <1>2, <1>3, <1>6
<1>7. CASE calls[p] = R + 1
  <2>1. \A q \in Procs : Counted(q) = R + 1
    BY <1>1, <1>2, <1>5, <1>7, AllAhead
  <2> QED BY <1>2, <1>3, <1>7, <2>1
<1> QED BY <1>1, <1>4, <1>6, <1>7

\* Every step is a step of the abstract barrier, or changes nothing of it.
LEMMA StepRefines ==
  ASSUME BarrierInv, [BarrierNext]_barrierVars
  PROVE  [Abstract!Next]_<<calls, returns>>
<1>0. BarrierTypeOK
  BY DEF BarrierInv
<1>1. ASSUME NEW p \in Procs, Enter(p) PROVE Abstract!Call(p)
  <2>1. returns' = returns
    BY <1>0, <1>1, MaxCallsAssumption DEF BarrierTypeOK, Enter, returns
  <2>2. returns[p] = calls[p]
    BY <1>1 DEF Enter, returns
  <2> QED BY <2>1, <2>2, <1>1 DEF Abstract!Call, Enter
<1>2. ASSUME NEW p \in Procs, Lock(p) \/ Load(p) \/ Store(p) \/ Unlock(p)
      PROVE  UNCHANGED <<calls, returns>>
  BY <1>0, <1>2 DEF BarrierTypeOK, Lock, Load, Store, Unlock, returns
<1>3. ASSUME NEW p \in Procs, Leave(p) PROVE Abstract!Return(p)
  <2>1. \A q \in Procs : calls[q] >= calls[p]
    BY <1>3, ReleasedTogether
  <2>2. calls' = calls
    BY <1>3 DEF Leave
  <2>3. returns' = [returns EXCEPT ![p] = calls[p]]
    BY <1>0, <1>3 DEF BarrierTypeOK, Leave, returns
  <2>4. calls[p] \in Nat
    BY <1>0, MaxCallsAssumption DEF BarrierTypeOK
  <2>5. returns[p] < calls[p]
    BY <2>4, <1>3 DEF Leave, returns
  <2> QED BY <2>1, <2>2, <2>3, <2>5 DEF Abstract!Return
<1>4. ASSUME UNCHANGED barrierVars PROVE UNCHANGED <<calls, returns>>
  BY <1>4 DEF barrierVars, returns
<1> QED BY <1>1, <1>2, <1>3, <1>4 DEF BarrierNext, InBarrier, Abstract!Next

\* SMPSWBarrier implements a barrier: a process returns from its n-th call only
\* after every process of the host has made its n-th call.
THEOREM SmpBarrierImplementsBarrier == BarrierSpec => ImplementsBarrier
<1>1. BarrierInit => Abstract!Init
  BY DEF BarrierInit, Abstract!Init, returns
<1>2. BarrierInv /\ [BarrierNext]_barrierVars => [Abstract!Next]_<<calls, returns>>
  BY StepRefines
<1> QED BY <1>1, <1>2, BarrierIsInductive, PTL
       DEF BarrierSpec, ImplementsBarrier, Abstract!Spec
=============================================================================
