-------------------------- MODULE ContextIDsProofs --------------------------
(***************************************************************************)
(* For any number of processes, any size of the blocks and any calls, two  *)
(* communicators never get the same identifier.                            *)
(***************************************************************************)
EXTENDS ContextIDs, TLAPS

\* Multiplication keeps the order.
LEMMA TimesMonotone ==
  ASSUME NEW a \in Nat, NEW b \in Nat, NEW m \in Nat, a <= b
  PROVE  a * m <= b * m
<1>1. PICK d \in Nat : b = a + d
  <2> WITNESS b - a \in Nat
  <2> QED OBVIOUS
<1>2. b * m = a * m + d * m
  BY <1>1
<1>3. d * m \in Nat /\ a * m \in Nat
  OBVIOUS
<1> QED BY <1>2, <1>3

\* The sizes are positive numbers, and a cycle is a block for each process.
LEMMA Sizes ==
  /\ NProcs \in Nat \ {0} /\ BlockSize \in Nat \ {0} /\ FirstID \in Nat
  /\ cycleSize \in Nat \ {0} /\ cycleSize >= BlockSize
  /\ cycleSize = NProcs * BlockSize
<1>1. NProcs \in Nat \ {0} /\ BlockSize \in Nat \ {0} /\ FirstID \in Nat
  BY JobAssumption
<1>2. cycleSize = NProcs * BlockSize /\ cycleSize \in Nat
  BY <1>1 DEF cycleSize
<1>3. 1 * BlockSize <= NProcs * BlockSize
  BY <1>1, TimesMonotone
<1> QED BY <1>1, <1>2, <1>3

\* The block of process p in cycle c lies within the cycle.
LEMMA BlockInCycle ==
  ASSUME NEW p \in IdProcs, NEW c \in Nat
  PROVE  /\ p * BlockSize \in Nat /\ c * cycleSize \in Nat
         /\ (p + 1) * BlockSize = p * BlockSize + BlockSize
         /\ (c + 1) * cycleSize = c * cycleSize + cycleSize
         /\ (p + 1) * BlockSize <= cycleSize
<1>1. p \in Nat /\ p + 1 \in Nat /\ p + 1 <= NProcs
  BY Sizes DEF IdProcs
<1>2. (p + 1) * BlockSize <= NProcs * BlockSize
  BY <1>1, Sizes, TimesMonotone
<1>3. (p + 1) * BlockSize = p * BlockSize + BlockSize /\ p * BlockSize \in Nat
  BY <1>1, Sizes
<1>4. (c + 1) * cycleSize = c * cycleSize + cycleSize /\ c * cycleSize \in Nat
  BY Sizes
<1> QED BY <1>2, <1>3, <1>4, Sizes

\* Blocks of different processes have nothing in common, in whatever cycles.
LEMMA StripesDisjoint ==
  ASSUME NEW p \in IdProcs, NEW q \in IdProcs, p < q
  PROVE  Stripe(p) \cap Stripe(q) = {}
<1> SUFFICES ASSUME NEW i \in Nat, i \in Stripe(p), i \in Stripe(q) PROVE FALSE
  BY DEF Stripe
<1>1. PICK c \in Nat : /\ FirstID + p * BlockSize + c * cycleSize <= i
                       /\ i < FirstID + (p + 1) * BlockSize + c * cycleSize
  BY DEF Stripe
<1>2. PICK d \in Nat : /\ FirstID + q * BlockSize + d * cycleSize <= i
                       /\ i < FirstID + (q + 1) * BlockSize + d * cycleSize
  BY DEF Stripe
<1>3. /\ p * BlockSize \in Nat /\ c * cycleSize \in Nat
      /\ (p + 1) * BlockSize <= cycleSize
      /\ (c + 1) * cycleSize = c * cycleSize + cycleSize
  BY BlockInCycle
<1>4. /\ q * BlockSize \in Nat /\ d * cycleSize \in Nat
      /\ (q + 1) * BlockSize <= cycleSize
      /\ (d + 1) * cycleSize = d * cycleSize + cycleSize
  BY BlockInCycle
<1>5. CASE c = d
  <2>1. p + 1 \in Nat /\ q \in Nat /\ p + 1 <= q
    BY Sizes DEF IdProcs
  <2>2. (p + 1) * BlockSize <= q * BlockSize
    BY <2>1, Sizes, TimesMonotone
  <2>3. (p + 1) * BlockSize \in Nat
    BY <2>1, Sizes
  <2> QED BY <1>1, <1>2, <1>3, <1>4, <1>5, <2>2, <2>3, Sizes
<1>6. CASE c < d
  <2>1. (c + 1) * cycleSize <= d * cycleSize
    BY <1>6, Sizes, TimesMonotone
  <2>2. (p + 1) * BlockSize \in Int
    BY Sizes DEF IdProcs
  <2> QED BY <1>1, <1>2, <1>3, <1>4, <2>1, <2>2, Sizes
<1>7. CASE d < c
  <2>1. (d + 1) * cycleSize <= c * cycleSize
    BY <1>7, Sizes, TimesMonotone
  <2>2. (q + 1) * BlockSize \in Int
    BY Sizes DEF IdProcs
  <2> QED BY <1>1, <1>2, <1>3, <1>4, <2>1, <2>2, Sizes
<1> QED BY <1>5, <1>6, <1>7

\* The number a process would take next lies in one of its own blocks.
LEMMA NextInStripe ==
  ASSUME IdInv, NEW p \in IdProcs
  PROVE  nextID[p] \in Nat /\ nextID[p] \in Stripe(p)
<1>1. nextID[p] \in Nat
  BY DEF IdInv
<1>2. PICK c \in Nat : /\ outOfBounds[p] = FirstID + (p + 1) * BlockSize + c * cycleSize
                       /\ nextID[p] >= outOfBounds[p] - BlockSize
                       /\ nextID[p] < outOfBounds[p]
  BY DEF IdInv
<1>3. (p + 1) * BlockSize = p * BlockSize + BlockSize /\ p * BlockSize \in Nat
      /\ c * cycleSize \in Nat
  BY BlockInCycle
<1>4. /\ FirstID + p * BlockSize + c * cycleSize <= nextID[p]
      /\ nextID[p] < FirstID + (p + 1) * BlockSize + c * cycleSize
  BY <1>1, <1>2, <1>3, Sizes
<1> QED BY <1>1, <1>4 DEF Stripe

\* Nobody was issued the number a process would take next.
LEMMA NextIsNew ==
  ASSUME IdInv, NEW p \in IdProcs, NEW r \in issued
  PROVE  r.id # nextID[p]
<1>1. r.proc \in IdProcs /\ r.id \in Nat /\ r.id \in Stripe(r.proc) /\ r.id < nextID[r.proc]
  BY DEF IdInv
<1>2. nextID[p] \in Nat /\ nextID[p] \in Stripe(p)
  BY NextInStripe
<1>3. CASE r.proc = p
  BY <1>1, <1>2, <1>3
<1>4. CASE r.proc # p
  <2>1. r.proc < p \/ p < r.proc
    BY <1>1, <1>4, Sizes DEF IdProcs
  <2>2. Stripe(r.proc) \cap Stripe(p) = {}
    <3>1. CASE r.proc < p
      BY <1>1, <3>1, StripesDisjoint
    <3>2. CASE p < r.proc
      <4>1. Stripe(p) \cap Stripe(r.proc) = {}
        BY <1>1, <3>2, StripesDisjoint
      <4> QED BY <4>1
    <3> QED BY <2>1, <3>1, <3>2
  <2> QED BY <1>1, <1>2, <2>2
<1> QED BY <1>3, <1>4

\* What Advance does: the process stays in its blocks and moves up.
LEMMA AdvanceStep ==
  ASSUME IdInv, NEW p \in IdProcs, Advance(p)
  PROVE  /\ nextID' \in [IdProcs -> Nat] /\ outOfBounds' \in [IdProcs -> Nat]
         /\ nextID'[p] > nextID[p]
         /\ \A q \in IdProcs : q # p => /\ nextID'[q] = nextID[q]
                                        /\ outOfBounds'[q] = outOfBounds[q]
         /\ \E c \in Nat :
              /\ outOfBounds'[p] = FirstID + (p + 1) * BlockSize + c * cycleSize
              /\ nextID'[p] >= outOfBounds'[p] - BlockSize
              /\ nextID'[p] < outOfBounds'[p]
<1>1. nextID \in [IdProcs -> Nat] /\ outOfBounds \in [IdProcs -> Nat]
  BY DEF IdInv
<1>2. PICK c \in Nat : /\ outOfBounds[p] = FirstID + (p + 1) * BlockSize + c * cycleSize
                       /\ nextID[p] >= outOfBounds[p] - BlockSize
                       /\ nextID[p] < outOfBounds[p]
  BY DEF IdInv
<1>3. CASE nextID[p] + 1 = outOfBounds[p]
  <2>1. PICK n \in Nat : n = nextID[p] + 1 + (cycleSize - BlockSize)
    BY <1>1, Sizes
  <2>2. PICK b \in Nat : b = outOfBounds[p] + cycleSize
    BY <1>1, Sizes
  <2>3. nextID' = [nextID EXCEPT ![p] = n] /\ outOfBounds' = [outOfBounds EXCEPT ![p] = b]
    BY <1>1, <1>3, <2>1, <2>2 DEF Advance
  <2>4. n > nextID[p] /\ n >= b - BlockSize /\ n < b
    BY <1>1, <1>2, <1>3, <2>1, <2>2, Sizes
  <2>5. b = FirstID + (p + 1) * BlockSize + (c + 1) * cycleSize
    <3>1. (c + 1) * cycleSize = c * cycleSize + cycleSize
      BY BlockInCycle
    <3>2. (p + 1) * BlockSize \in Int /\ c * cycleSize \in Int
      BY Sizes DEF IdProcs
    <3> QED BY <1>2, <2>2, <3>1, <3>2, Sizes
  <2>6. c + 1 \in Nat
    OBVIOUS
  <2> QED BY <1>1, <2>3, <2>4, <2>5, <2>6
<1>4. CASE nextID[p] + 1 # outOfBounds[p]
  <2>1. nextID' = [nextID EXCEPT ![p] = nextID[p] + 1] /\ outOfBounds' = outOfBounds
    BY <1>1, <1>4 DEF Advance
  <2>2. nextID[p] + 1 < outOfBounds[p] /\ nextID[p] + 1 >= outOfBounds[p] - BlockSize
    BY <1>1, <1>2, <1>4, Sizes
  <2> QED BY <1>1, <1>2, <2>1, <2>2
<1> QED BY <1>3, <1>4

-----------------------------------------------------------------------------
\* At the start every process is at the beginning of its first block.
LEMMA IdInitInv == IdInit => IdInv
<1> SUFFICES ASSUME IdInit PROVE IdInv
  OBVIOUS
<1>1. ASSUME NEW p \in IdProcs
      PROVE  /\ nextID[p] \in Nat /\ outOfBounds[p] \in Nat
             /\ outOfBounds[p] = FirstID + (p + 1) * BlockSize + 0 * cycleSize
             /\ nextID[p] >= outOfBounds[p] - BlockSize
             /\ nextID[p] < outOfBounds[p]
  <2>1. (p + 1) * BlockSize = p * BlockSize + BlockSize /\ p * BlockSize \in Nat
    BY BlockInCycle
  <2>2. 0 * cycleSize = 0
    BY Sizes
  <2>3. nextID[p] = FirstID + p * BlockSize
        /\ outOfBounds[p] = FirstID + p * BlockSize + BlockSize
    BY DEF IdInit
  <2> QED BY <2>1, <2>2, <2>3, Sizes
<1>2. nextID \in [IdProcs -> Nat] /\ outOfBounds \in [IdProcs -> Nat]
  BY <1>1 DEF IdInit
<1>3. \A p \in IdProcs : \E c \in Nat :
          /\ outOfBounds[p] = FirstID + (p + 1) * BlockSize + c * cycleSize
          /\ nextID[p] >= outOfBounds[p] - BlockSize
          /\ nextID[p] < outOfBounds[p]
  BY <1>1
<1>4. /\ newID \in [CallIds -> [IdProcs -> Nat \cup {NoID}]]
      /\ \A k \in CallIds, p \in IdProcs : newID[k][p] = NoID
      /\ issued = {}
  BY DEF IdInit
<1> QED BY <1>2, <1>3, <1>4 DEF IdInv

\* Taking a new identifier keeps the invariant.
LEMMA GenerateStep ==
  ASSUME IdInv, NEW k \in CallIds, NEW p \in IdProcs, Generate(k, p)
  PROVE  IdInv'
<1> DEFINE new == [id |-> nextID[p], call |-> k, proc |-> p]
<1>1. nextID[p] \in Nat /\ nextID[p] \in Stripe(p)
  BY NextInStripe
<1>2. /\ newID' = [newID EXCEPT ![k][p] = nextID[p]]
      /\ issued' = issued \cup {new}
      /\ Advance(p)
  BY DEF Generate
<1>3. /\ nextID' \in [IdProcs -> Nat] /\ outOfBounds' \in [IdProcs -> Nat]
      /\ nextID'[p] > nextID[p]
      /\ \A q \in IdProcs : q # p => /\ nextID'[q] = nextID[q]
                                     /\ outOfBounds'[q] = outOfBounds[q]
      /\ \E c \in Nat :
           /\ outOfBounds'[p] = FirstID + (p + 1) * BlockSize + c * cycleSize
           /\ nextID'[p] >= outOfBounds'[p] - BlockSize
           /\ nextID'[p] < outOfBounds'[p]
  BY <1>2, AdvanceStep
<1>4. newID \in [CallIds -> [IdProcs -> Nat \cup {NoID}]]
      /\ issued \subseteq [id : Nat, call : CallIds, proc : IdProcs]
  BY DEF IdInv
<1>5. newID' \in [CallIds -> [IdProcs -> Nat \cup {NoID}]]
  BY <1>1, <1>2, <1>4
<1>6. issued' \subseteq [id : Nat, call : CallIds, proc : IdProcs]
  BY <1>1, <1>2, <1>4
<1>7. \A q \in IdProcs : \E c \in Nat :
          /\ outOfBounds'[q] = FirstID + (q + 1) * BlockSize + c * cycleSize
          /\ nextID'[q] >= outOfBounds'[q] - BlockSize
          /\ nextID'[q] < outOfBounds'[q]
  <2> TAKE q \in IdProcs
  <2>1. CASE q = p
    BY <1>3, <2>1
  <2>2. CASE q # p
    <3>1. nextID'[q] = nextID[q] /\ outOfBounds'[q] = outOfBounds[q]
      BY <1>3, <2>2
    <3> QED BY <3>1 DEF IdInv
  <2> QED BY <2>1, <2>2
<1>8. \A r \in issued' : r.id \in Stripe(r.proc) /\ r.id < nextID'[r.proc]
  <2> TAKE r \in issued'
  <2>1. CASE r = new
    BY <1>1, <1>3, <2>1
  <2>2. CASE r \in issued
    <3>1. r.proc \in IdProcs /\ r.id \in Nat /\ r.id \in Stripe(r.proc) /\ r.id < nextID[r.proc]
      BY <2>2 DEF IdInv
    <3>2. nextID[r.proc] \in Nat /\ nextID'[r.proc] \in Nat
      BY <1>3, <3>1 DEF IdInv
    <3>3. CASE r.proc = p
      BY <1>3, <3>1, <3>2, <3>3
    <3>4. CASE r.proc # p
      BY <1>3, <3>1, <3>4
    <3> QED BY <3>3, <3>4
  <2> QED BY <1>2, <2>1, <2>2
<1>9. \A r, s \in issued' : r.id = s.id => r = s
  <2>1. \A r \in issued : r.id # nextID[p]
    BY NextIsNew
  <2>2. \A r, s \in issued : r.id = s.id => r = s
    BY DEF IdInv
  <2>3. new.id = nextID[p]
    OBVIOUS
  <2> QED BY <1>2, <2>1, <2>2, <2>3
<1>10. \A j \in CallIds, q \in IdProcs :
          newID'[j][q] # NoID => \E r \in issued' : r.id = newID'[j][q] /\ r.call = j
  <2> TAKE j \in CallIds, q \in IdProcs
  <2>1. CASE j = k /\ q = p
    <3>1. newID'[j][q] = nextID[p]
      BY <1>2, <1>4, <2>1
    <3>2. new \in issued' /\ new.id = nextID[p] /\ new.call = j
      BY <1>2, <2>1
    <3> QED BY <3>1, <3>2
  <2>2. CASE ~(j = k /\ q = p)
    <3>1. newID'[j][q] = newID[j][q]
      BY <1>2, <1>4, <2>2
    <3>2. newID[j][q] # NoID => \E r \in issued : r.id = newID[j][q] /\ r.call = j
      BY DEF IdInv
    <3> QED BY <1>2, <3>1, <3>2
  <2> QED BY <2>1, <2>2
<1>11. \A q : Stripe(q)' = Stripe(q)
  BY DEF Stripe
<1> QED BY <1>3, <1>5, <1>6, <1>7, <1>8, <1>9, <1>10, <1>11 DEF IdInv

\* Getting the identifier from another process keeps the invariant.
LEMMA GetFromStep ==
  ASSUME IdInv, NEW k \in CallIds, NEW p \in IdProcs, NEW q \in IdProcs, GetFrom(k, q, p)
  PROVE  IdInv'
<1>1. /\ newID' = [newID EXCEPT ![k][p] = newID[k][q]]
      /\ newID[k][q] # NoID
      /\ nextID' = nextID /\ outOfBounds' = outOfBounds /\ issued' = issued
  BY DEF GetFrom
<1>2. newID \in [CallIds -> [IdProcs -> Nat \cup {NoID}]]
  BY DEF IdInv
<1>3. newID' \in [CallIds -> [IdProcs -> Nat \cup {NoID}]]
  BY <1>1, <1>2
<1>4. \A j \in CallIds, i \in IdProcs :
          newID'[j][i] # NoID => \E r \in issued : r.id = newID'[j][i] /\ r.call = j
  <2>1. \A j \in CallIds, i \in IdProcs :
          newID[j][i] # NoID => \E r \in issued : r.id = newID[j][i] /\ r.call = j
    BY DEF IdInv
  <2> QED BY <1>1, <1>2, <2>1
<1>5. \A i : Stripe(i)' = Stripe(i)
  BY DEF Stripe
<1> QED BY <1>1, <1>3, <1>4, <1>5 DEF IdInv

\* The invariant holds in every state of a job.
THEOREM IdsAreIssuedOnce == IdSpec => []IdInv
<1>1. IdInv /\ [IdNext]_idVars => IdInv'
  <2> SUFFICES ASSUME IdInv, [IdNext]_idVars PROVE IdInv'
    OBVIOUS
  <2>1. CASE IdNext
    <3>1. PICK k \in CallIds, p \in IdProcs :
             Generate(k, p) \/ \E q \in IdProcs : GetFrom(k, q, p)
      BY <2>1 DEF IdNext, IdStep
    <3>2. CASE Generate(k, p)
      BY <3>2, GenerateStep
    <3>3. CASE \E q \in IdProcs : GetFrom(k, q, p)
      BY <3>3, GetFromStep
    <3> QED BY <3>1, <3>2, <3>3
  <2>2. CASE UNCHANGED idVars
    <3>1. \A i : Stripe(i)' = Stripe(i)
      BY DEF Stripe
    <3> QED BY <2>2, <3>1 DEF IdInv, idVars
  <2> QED BY <2>1, <2>2
<1> QED BY <1>1, IdInitInv, PTL DEF IdSpec

\* No two communicators of a job have the same context identifier
\* (getNewContextID), whichever processes generate them.
THEOREM ContextsNeverShared == IdSpec => []ContextsDistinct
<1>1. IdInv => ContextsDistinct
  <2> SUFFICES ASSUME IdInv, NEW j \in CallIds, NEW k \in CallIds,
                      NEW p \in IdProcs, NEW q \in IdProcs,
                      j # k, newID[j][p] # NoID, newID[j][p] = newID[k][q]
               PROVE  FALSE
    BY DEF ContextsDistinct
  <2>1. PICK r \in issued : r.id = newID[j][p] /\ r.call = j
    BY DEF IdInv
  <2>2. PICK s \in issued : s.id = newID[k][q] /\ s.call = k
    BY DEF IdInv
  <2>3. r = s
    BY <2>1, <2>2 DEF IdInv
  <2> QED BY <2>1, <2>2, <2>3
<1> QED BY <1>1, IdsAreIssuedOnce, PTL
=============================================================================
