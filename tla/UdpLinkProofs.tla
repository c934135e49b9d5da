---------------------------- MODULE UdpLinkProofs ----------------------------
(***************************************************************************)
(* Proofs about UdpLink, for any number of messages, fragments,            *)
(* descriptors and sequence numbers.  IInv is inductive when copying to    *)
(* the application succeeds; type correctness, reliability in both         *)
(* directions, the truth of acks and the implementation of ReliableLink    *)
(* follow from it.                                                         *)
(***************************************************************************)
EXTENDS UdpLink, FiniteSetTheorems, SequenceTheorems, TLAPS

(***************************************************************************)
(* Allocation of descriptors (udpPath::send, first loop).                  *)
(***************************************************************************)

\* The pool, and any other set of descriptors, is finite.
LEMMA DescsFinite ==
  ASSUME NEW S \in SUBSET Descs
  PROVE  IsFiniteSet(S) /\ Cardinality(S) \in Nat
  BY FinitePool, FS_Subset, FS_CardinalityType

\* The loop never allocates more descriptors than the message has fragments left.
LEMMA AllocsBounded ==
  ASSUME TypeOK, NEW m \in Msgs, NEW s \in SendDesc, s.allocated <= NumFrags[m]
  PROVE  Allocs(m, s) \in Nat /\ s.allocated + Allocs(m, s) <= NumFrags[m]
<1>1. Cardinality(Pool) \in Nat
  BY DescsFinite DEF Pool
<1>2. /\ s.allocated \in Nat /\ s.acked \in Nat /\ NumFrags[m] \in Nat \ {0}
      /\ MaxOutstanding \in Nat
  BY MsgsAssumption DEF SendDesc
<1>3. Room(s) \in Nat
  BY <1>2 DEF Room, Less
<1> QED
  BY <1>1, <1>2, <1>3 DEF Allocs, Least

\* The descriptors in new get the sequence numbers nextSeq, nextSeq + 1, ... in
\* turn, and the others are left alone.
LEMMA InitialisedFrags ==
  ASSUME TypeOK, NEW m \in Msgs, NEW n \in Nat, NEW new \in [1..n -> Descs],
         TakesFromPool(new), nextSeq + n - 1 <= MaxSeq
  PROVE  LET fs == Initialised(m, new)
         IN /\ fs \in [Descs -> FragDesc]
            /\ \A d \in Descs \ Elements(new) : fs[d] = frag[d]
            /\ \A i \in 1..n : /\ fs[new[i]].seq = nextSeq + i - 1
                               /\ fs[new[i]].where = "toSend"
            /\ \A d \in Elements(new) : \E i \in 1..n : d = new[i]
<1> DEFINE fs == Initialised(m, new)
<1>1. DOMAIN new = 1..n /\ nextSeq \in Nat /\ nextSeq >= 1
  BY SeqBound DEF TypeOK, SenderTypeOK
<1>2. ASSUME NEW i \in 1..n
      PROVE  /\ fs[new[i]].seq = nextSeq + i - 1
             /\ fs[new[i]].where = "toSend"
             /\ fs[new[i]] \in FragDesc
  <2>1. (CHOOSE j \in DOMAIN new : new[j] = new[i]) = i
    BY <1>1, <1>2 DEF TakesFromPool
  <2>2. new[i] \in Elements(new) /\ new[i] \in Descs
    BY <1>1 DEF Elements
  <2>3. fs[new[i]] = [where |-> "toSend", parent |-> m,
                      packed |-> Data[m] # "packed", seq |-> nextSeq + i - 1]
    BY <2>1, <2>2 DEF Initialised
  <2>4. nextSeq + i - 1 \in 0..MaxSeq
    BY <1>1, SeqBound
  <2> QED
    BY <2>3, <2>4 DEF FragDesc
<1>3. \A d \in Elements(new) : \E i \in 1..n : d = new[i]
  BY <1>1 DEF Elements
<1>4. \A d \in Descs \ Elements(new) : fs[d] = frag[d]
  BY DEF Initialised
<1>5. fs \in [Descs -> FragDesc]
  <2>1. fs = [d \in Descs |-> fs[d]]
    BY DEF Initialised
  <2>2. ASSUME NEW d \in Descs PROVE fs[d] \in FragDesc
    BY <1>2, <1>3, <1>4 DEF TypeOK, SenderTypeOK
  <2> QED
    BY <2>1, <2>2
<1> QED
  BY <1>2, <1>3, <1>4, <1>5

-----------------------------------------------------------------------------
(***************************************************************************)
(* udpPath::send.                                                          *)
(***************************************************************************)

\* Initialising descriptors from the pool adds the numbers handed out to those
\* alive, and takes none away.
LEMMA LiveGrows ==
  ASSUME TypeOK, SenderInv, NEW m \in Msgs, NEW n \in Nat, NEW new \in [1..n -> Descs],
         TakesFromPool(new), nextSeq + n - 1 <= MaxSeq,
         \A d \in Descs : frag'[d].seq = Initialised(m, new)[d].seq
  PROVE  /\ Live' = Live \union (nextSeq..(nextSeq + n - 1))
         /\ \A d \in Descs : frag'[d].seq < nextSeq + n
<1> DEFINE fs == Initialised(m, new)
<1>1. /\ \A d \in Descs \ Elements(new) : fs[d] = frag[d]
      /\ \A i \in 1..n : fs[new[i]].seq = nextSeq + i - 1
      /\ \A d \in Elements(new) : \E i \in 1..n : d = new[i]
  BY InitialisedFrags
<1>2. nextSeq \in Nat /\ nextSeq >= 1
  BY SeqBound DEF TypeOK, SenderTypeOK
<1>3. \A d \in Elements(new) : frag[d].seq = 0
  BY <1>1 DEF TakesFromPool, Pool, SenderInv
<1>4. \A d \in Descs : frag[d].seq \in 0..MaxSeq /\ frag[d].seq < nextSeq
  BY DEF TypeOK, SenderTypeOK, FragDesc, SenderInv
<1>5. \A d \in Descs : fs[d].seq < nextSeq + n
  BY <1>1, <1>2, <1>4, SeqBound
<1>6. ASSUME NEW q \in Live' PROVE q \in Live \union (nextSeq..(nextSeq + n - 1))
  <2>1. PICK d \in Descs : q = fs[d].seq /\ q # 0
    BY DEF Live
  <2>2. CASE d \in Elements(new)
    BY <2>1, <2>2, <1>1, <1>2
  <2>3. CASE d \notin Elements(new)
    BY <2>1, <2>3, <1>1 DEF Live
  <2> QED
    BY <2>2, <2>3
<1>7. ASSUME NEW q \in Live PROVE q \in Live'
  <2>1. PICK d \in Descs : q = frag[d].seq /\ q # 0
    BY DEF Live
  <2> QED
    BY <2>1, <1>1, <1>3 DEF Live
<1>8. ASSUME NEW q \in nextSeq..(nextSeq + n - 1) PROVE q \in Live'
  <2>1. q - nextSeq + 1 \in 1..n
    BY <1>2
  <2>2. new[q - nextSeq + 1] \in Descs /\ fs[new[q - nextSeq + 1]].seq = q
    BY <2>1, <1>1, <1>2
  <2> QED
    BY <2>2, <1>2 DEF Live
<1> QED
  BY <1>5, <1>6, <1>7, <1>8

\* What a call of send that hands out n sequence numbers does to what IInv
\* speaks of.
SendEffect(n) ==
  /\ nextSeq' = nextSeq + n /\ nextSeq + n - 1 <= MaxSeq
  /\ msg' \in [Msgs -> SendDesc]
  /\ \A q \in Msgs : msg'[q].allocated <= NumFrags[q]
  /\ frag' \in [Descs -> FragDesc]
  /\ \A d \in Descs : /\ frag'[d].seq < nextSeq'
                      /\ frag'[d].seq = 0 <=> frag'[d].where \in {"pool", "lost"}
  /\ Live' = Live \union (nextSeq..(nextSeq + n - 1))
  /\ packets' \subseteq packets \union {p \in Packet : p.seq < nextSeq'}

\* A call of send that goes through its second loop.
LEMMA SendStep ==
  ASSUME TypeOK, SenderInv, NEW m \in Msgs, NEW s \in SendDesc,
         NEW n \in Nat, s.allocated + n <= NumFrags[m], NEW new \in [1..n -> Descs],
         TakesFromPool(new), nextSeq + n - 1 <= MaxSeq, send(m, s, new)
  PROVE  SendEffect(n)
<1> DEFINE fs == Initialised(m, new)
           queued == FragsToSend(m, fs)
           unpacked == {d \in queued : ~fs[d].packed}
<1>1. Len(new) = n
  OBVIOUS
<1>2. /\ fs \in [Descs -> FragDesc]
      /\ \A d \in Descs \ Elements(new) : fs[d] = frag[d]
      /\ \A i \in 1..n : fs[new[i]].seq = nextSeq + i - 1 /\ fs[new[i]].where = "toSend"
      /\ \A d \in Elements(new) : \E i \in 1..n : d = new[i]
  BY InitialisedFrags
<1>3. PICK pack \in SUBSET unpacked :
        \E out \in SUBSET (queued \ (unpacked \ pack)) :
          LET copied == s.copied + Cardinality(pack)
                        + (IF Data[m] = "contig" THEN Len(new) ELSE 0)
              t == [s EXCEPT !.allocated = @ + Len(new), !.copied = copied,
                             !.clear = ClearAfter(m, s),
                             !.sent = @ + Cardinality(out),
                             !.toAckLen = @ + Cardinality(out),
                             !.armed = Armed(s, out),
                             !.done = @ \/ DoneOnceCopied(m, copied)]
          IN /\ msg' = [msg EXCEPT ![m] = Placed(m, s, t)]
             /\ frag' = [d \in Descs |->
                  [fs[d] EXCEPT !.packed = @ \/ d \in pack,
                                !.where = IF d \in out THEN "toAck" ELSE @]]
             /\ packets' \in Transmit(packets, {[ptr |-> d, seq |-> fs[d].seq] : d \in out})
             /\ nextSeq' = nextSeq + Len(new)
  BY Zenon DEF send
<1> DEFINE copied == s.copied + Cardinality(pack) + (IF Data[m] = "contig" THEN n ELSE 0)
           done == s.done \/ DoneOnceCopied(m, copied)
           t(out) == [s EXCEPT !.allocated = @ + n, !.copied = copied,
                               !.clear = ClearAfter(m, s),
                               !.sent = @ + Cardinality(out),
                               !.toAckLen = @ + Cardinality(out),
                               !.armed = Armed(s, out), !.done = done]
<1>4. PICK out \in SUBSET (queued \ (unpacked \ pack)) :
      /\ msg' = [msg EXCEPT ![m] = Placed(m, s, t(out))]
      /\ frag' = [d \in Descs |->
           [fs[d] EXCEPT !.packed = @ \/ d \in pack,
                         !.where = IF d \in out THEN "toAck" ELSE @]]
      /\ packets' \in Transmit(packets, {[ptr |-> d, seq |-> fs[d].seq] : d \in out})
      /\ nextSeq' = nextSeq + n
  BY <1>1, <1>3, Zenon
<1>5. nextSeq \in Nat /\ nextSeq >= 1
  BY SeqBound DEF TypeOK, SenderTypeOK
<1>6. pack \subseteq Descs /\ out \subseteq Descs /\ out \subseteq queued
  BY DEF FragsToSend
<1>7. Cardinality(pack) \in Nat /\ Cardinality(out) \in Nat
  BY <1>6, DescsFinite
<1>8. msg' \in [Msgs -> SendDesc] /\ \A q \in Msgs : msg'[q].allocated <= NumFrags[q]
  <2>1. /\ s.allocated \in Nat /\ s.sent \in Int /\ s.acked \in Nat /\ s.copied \in Nat
        /\ s.toAckLen \in Nat /\ s.clear \in BOOLEAN /\ s.armed \in BOOLEAN
        /\ s.done \in BOOLEAN /\ s.freeCalled \in BOOLEAN
        /\ s.queue \in {"idle", "incomplete", "unacked", "none", "pool"}
    BY DEF SendDesc
  <2>2. copied \in Nat
    BY <1>7, <2>1
  <2>5. ClearAfter(m, s) \in BOOLEAN /\ Armed(s, out) \in BOOLEAN /\ done \in BOOLEAN
    BY Zenon DEF ClearAfter, Armed
  <2> HIDE DEF copied, done
  <2>3. t(out) \in SendDesc /\ t(out).allocated = s.allocated + n
    <3>1. PICK al \in Nat, se \in Int, len \in Nat :
            /\ al = s.allocated + n /\ se = s.sent + Cardinality(out)
            /\ len = s.toAckLen + Cardinality(out)
      <4>1. /\ s.allocated + n \in Nat /\ s.sent + Cardinality(out) \in Int
            /\ s.toAckLen + Cardinality(out) \in Nat
        <5>1. PICK c \in Nat : c = Cardinality(out)
          BY <1>7, Zenon
        <5> HIDE DEF fs, queued, unpacked
        <5> QED
          BY <2>1, <5>1
      <4> QED
        BY <4>1, Zenon
    <3>2. t(out) = [s EXCEPT !.allocated = al, !.copied = copied, !.clear = ClearAfter(m, s),
                             !.sent = se, !.toAckLen = len, !.armed = Armed(s, out),
                             !.done = done]
      BY <3>1, Zenon
    <3> HIDE DEF t
    <3> QED
      BY <3>1, <3>2, <2>2, <2>5 DEF SendDesc
  <2> HIDE DEF t
  <2>4. Placed(m, s, t(out)) \in SendDesc /\ Placed(m, s, t(out)).allocated = t(out).allocated
    BY <2>3 DEF Placed, SendDesc
  <2> QED
    BY <1>4, <2>3, <2>4 DEF TypeOK, SenderTypeOK, SenderInv
<1>9. /\ frag' \in [Descs -> FragDesc]
      /\ \A d \in Descs : /\ frag'[d].seq = fs[d].seq
                          /\ frag'[d].where = IF d \in out THEN "toAck" ELSE fs[d].where
  <2> DEFINE packed(d) == fs[d].packed \/ d \in pack
             where(d) == IF d \in out THEN "toAck" ELSE fs[d].where
  <2>2. frag' = [d \in Descs |-> [fs[d] EXCEPT !.packed = packed(d), !.where = where(d)]]
    BY <1>4
  <2> HIDE DEF fs
  <2>3. ASSUME NEW d \in Descs
        PROVE  packed(d) \in BOOLEAN /\ where(d) \in {"pool", "toSend", "toAck", "lost"}
    <3>1. packed(d) \in BOOLEAN
      BY Zenon
    <3> QED
      BY <3>1, <1>2 DEF FragDesc
  <2> HIDE DEF packed, where
  <2>1. ASSUME NEW d \in Descs
        PROVE  /\ frag'[d] \in FragDesc /\ frag'[d].seq = fs[d].seq
               /\ frag'[d].where = where(d)
    <3>1. frag'[d] = [fs[d] EXCEPT !.packed = packed(d), !.where = where(d)]
      BY <2>2
    <3>2. fs[d] \in FragDesc
      BY <1>2
    <3> QED
      BY <3>1, <3>2, <2>3 DEF FragDesc
  <2> QED
    BY <2>1, <2>2 DEF where
<1>10. ASSUME NEW d \in Descs
       PROVE  fs[d].seq = 0 <=> fs[d].where \in {"pool", "lost"}
  <2> HIDE DEF fs
  <2>1. CASE d \in Elements(new)
    <3>1. PICK i \in 1..n : d = new[i]
      BY <1>2, <2>1
    <3>2. fs[d].seq = nextSeq + i - 1 /\ fs[d].where = "toSend"
      BY <1>2, <3>1
    <3> QED
      BY <3>2, <1>5
  <2>2. CASE d \notin Elements(new)
    BY <1>2, <2>2 DEF SenderInv
  <2> QED
    BY <2>1, <2>2
<1>11. \A d \in Descs : frag'[d].seq = 0 <=> frag'[d].where \in {"pool", "lost"}
  BY <1>6, <1>9, <1>10 DEF FragsToSend
<1>12. /\ Live' = Live \union (nextSeq..(nextSeq + n - 1))
       /\ \A d \in Descs : frag'[d].seq < nextSeq + n
  BY <1>9, LiveGrows
<1>13. packets' \subseteq packets \union {p \in Packet : p.seq < nextSeq'}
  <2>1. ASSUME NEW d \in out
        PROVE  [ptr |-> d, seq |-> fs[d].seq] \in {p \in Packet : p.seq < nextSeq'}
    <3>1. fs[d].seq \in 0..MaxSeq /\ fs[d].seq # 0 /\ fs[d].seq < nextSeq'
      BY <1>2, <1>4, <1>6, <1>9, <1>10, <1>12 DEF FragDesc, FragsToSend
    <3> QED
      BY <3>1, <1>6, SeqBound DEF Packet, Seqs
  <2>2. packets' \subseteq packets \union {[ptr |-> d, seq |-> fs[d].seq] : d \in out}
    BY <1>4, Zenon DEF Transmit
  <2> HIDE DEF fs
  <2> QED
    BY <2>1, <2>2
<1>14. nextSeq' = nextSeq + n
  BY <1>4
<1>15. \A d \in Descs : /\ frag'[d].seq < nextSeq'
                        /\ frag'[d].seq = 0 <=> frag'[d].where \in {"pool", "lost"}
  BY <1>11, <1>12, <1>14, Zenon
<1>16. frag' \in [Descs -> FragDesc]
  BY <1>9
<1> QED
  BY <1>8, <1>12, <1>13, <1>14, <1>15, <1>16, Zenon DEF SendEffect

\* A call of send that returns because an early-send buffer is missing.
LEMMA EarlyStep ==
  ASSUME TypeOK, SenderInv, NEW m \in Msgs, NEW s \in SendDesc,
         NEW n \in Nat, s.allocated + n <= NumFrags[m], NEW all \in [1..(n + 1) -> Descs],
         TakesFromPool(all), nextSeq + n - 1 <= MaxSeq,
         sendEarlyFails(m, s, SubSeq(all, 1, n), all[n + 1])
  PROVE  SendEffect(n)
<1> DEFINE new == SubSeq(all, 1, n)
           fs == Initialised(m, new)
           spare == all[n + 1]
<1>1. /\ new \in [1..n -> Descs] /\ Len(new) = n
      /\ \A i \in 1..n : new[i] = all[i]
  <2>1. /\ new \in Seq(Descs) /\ Len(new) = IF 1 <= n THEN n - 1 + 1 ELSE 0
        /\ \A i \in 1..(n - 1 + 1) : new[i] = all[1 + i - 1]
    BY SubSeqProperties
  <2> HIDE DEF new
  <2>2. Len(new) = n
    BY <2>1
  <2> QED
    BY <2>1, <2>2, LenProperties
<1>2. TakesFromPool(new) /\ spare \in Pool /\ spare \in Descs \ Elements(new)
  BY <1>1 DEF TakesFromPool, Elements, Pool
<1> HIDE DEF new
<1>3. /\ fs \in [Descs -> FragDesc]
      /\ \A d \in Descs \ Elements(new) : fs[d] = frag[d]
      /\ \A i \in 1..n : fs[new[i]].seq = nextSeq + i - 1 /\ fs[new[i]].where = "toSend"
      /\ \A d \in Elements(new) : \E i \in 1..n : d = new[i]
  BY <1>1, <1>2, InitialisedFrags
<1>4. /\ msg' = [msg EXCEPT ![m] =
           [s EXCEPT !.allocated = @ + n, !.copied = @ + n,
                     !.clear = IF s.allocated = 0 THEN NumFrags[m] = 1 ELSE @,
                     !.queue = "incomplete"]]
      /\ frag' = [fs EXCEPT ![spare] = [where |-> "lost", parent |-> m, seq |-> 0,
                                        packed |-> FALSE]]
      /\ nextSeq' = nextSeq + n
      /\ packets' = packets
  BY <1>1, Zenon DEF sendEarlyFails, new
<1>5. nextSeq \in Nat /\ nextSeq >= 1
  BY SeqBound DEF TypeOK, SenderTypeOK
<1>6. msg' \in [Msgs -> SendDesc] /\ \A q \in Msgs : msg'[q].allocated <= NumFrags[q]
  <2>1. s.allocated \in Nat /\ s.copied \in Nat /\ s.clear \in BOOLEAN
    BY DEF SendDesc
  <2>2. PICK clear \in BOOLEAN : clear = IF s.allocated = 0 THEN NumFrags[m] = 1 ELSE s.clear
    BY <2>1, Zenon
  <2>3. PICK al \in Nat, co \in Nat : al = s.allocated + n /\ co = s.copied + n
    BY <2>1
  <2> DEFINE t == [s EXCEPT !.allocated = al, !.copied = co, !.clear = clear,
                            !.queue = "incomplete"]
  <2>4. msg' = [msg EXCEPT ![m] = t]
    BY <1>4, <2>2, <2>3, Zenon
  <2>5. t \in SendDesc /\ t.allocated = al
    BY DEF SendDesc
  <2> HIDE DEF t
  <2> QED
    BY <2>3, <2>4, <2>5 DEF TypeOK, SenderTypeOK, SenderInv
<1>7. PICK lost \in FragDesc : /\ lost = [where |-> "lost", parent |-> m, seq |-> 0,
                                           packed |-> FALSE]
                               /\ lost.seq = 0 /\ lost.where = "lost"
  <2> DEFINE r == [where |-> "lost", parent |-> m, seq |-> 0, packed |-> FALSE]
  <2>1. r \in FragDesc
    BY SeqBound DEF FragDesc
  <2>2. r.seq = 0 /\ r.where = "lost"
    BY Zenon
  <2> HIDE DEF r
  <2> QED
    BY <2>1, <2>2, Zenon DEF r
<1> HIDE DEF fs
<1>8. fs[spare].seq = 0
  BY <1>2, <1>3 DEF Pool, SenderInv
<1>9. /\ frag' \in [Descs -> FragDesc]
      /\ \A d \in Descs : /\ frag'[d].seq = fs[d].seq
                          /\ frag'[d].where = IF d = spare THEN "lost" ELSE fs[d].where
  BY <1>2, <1>3, <1>4, <1>7, <1>8
<1>10. \A d \in Descs : frag'[d].seq = 0 <=> frag'[d].where \in {"pool", "lost"}
  <2>1. ASSUME NEW d \in Descs
        PROVE  fs[d].seq = 0 <=> fs[d].where \in {"pool", "lost"}
    <3>1. CASE d \in Elements(new)
      <4>1. PICK i \in 1..n : d = new[i]
        BY <1>3, <3>1
      <4>2. fs[d].seq = nextSeq + i - 1 /\ fs[d].where = "toSend"
        BY <1>3, <4>1
      <4> QED
        BY <4>2, <1>5
    <3>2. CASE d \notin Elements(new)
      BY <1>3, <3>2 DEF SenderInv
    <3> QED
      BY <3>1, <3>2
  <2> QED
    BY <2>1, <1>8, <1>9
<1>11. /\ Live' = Live \union (nextSeq..(nextSeq + n - 1))
       /\ \A d \in Descs : frag'[d].seq < nextSeq + n
  BY <1>1, <1>2, <1>9, LiveGrows DEF fs
<1> QED
  BY <1>4, <1>6, <1>9, <1>10, <1>11 DEF SendEffect

\* Both outcomes of a call of send.
LEMMA SendsStep ==
  ASSUME TypeOK, SenderInv, NEW m \in Msgs, NEW s \in SendDesc,
         s.allocated <= NumFrags[m], Sends(m, s)
  PROVE  /\ \E n \in Nat : SendEffect(n)
         /\ UNCHANGED <<acks, ackinfo, corrupted>>
<1> DEFINE k == Allocs(m, s)
<1>1. k \in Nat /\ s.allocated + k <= NumFrags[m]
  BY AllocsBounded
<1>2. nextSeq + k - 1 <= MaxSeq /\ nextSeq \in Nat
  BY SeqBound DEF Sends, TypeOK, SenderTypeOK
<1> HIDE DEF k
<1>3. s.allocated \in Nat /\ NumFrags[m] \in Nat
  BY MsgsAssumption DEF SendDesc
<1>4. CASE \E new \in [1..k -> Descs] : TakesFromPool(new) /\ send(m, s, new)
  <2>1. PICK new \in [1..k -> Descs] : TakesFromPool(new) /\ send(m, s, new)
    BY <1>4
  <2>2. SendEffect(k)
    BY <1>1, <1>2, <2>1, SendStep
  <2> QED
    BY <1>1, <2>2 DEF Sends
<1>5. CASE \E j \in 0..(k - 1) : \E new \in [1..(j + 1) -> Descs] :
             /\ TakesFromPool(new)
             /\ sendEarlyFails(m, s, SubSeq(new, 1, j), new[j + 1])
  <2>0. PICK j \in 0..(k - 1) : \E new \in [1..(j + 1) -> Descs] :
             /\ TakesFromPool(new)
             /\ sendEarlyFails(m, s, SubSeq(new, 1, j), new[j + 1])
    BY <1>5
  <2>1. PICK new \in [1..(j + 1) -> Descs] :
             /\ TakesFromPool(new)
             /\ sendEarlyFails(m, s, SubSeq(new, 1, j), new[j + 1])
    BY <2>0
  <2>2. j \in Nat /\ s.allocated + j <= NumFrags[m] /\ nextSeq + j - 1 <= MaxSeq
    BY <1>1, <1>2, <1>3, SeqBound
  <2>3. SendEffect(j)
    BY <2>1, <2>2, EarlyStep
  <2> QED
    BY <2>2, <2>3 DEF Sends
<1> QED
  BY <1>4, <1>5 DEF Sends, k

-----------------------------------------------------------------------------
(***************************************************************************)
(* The steps in which the sender lets go of fragments: resend, processAck. *)
(***************************************************************************)

\* What a step of the sender other than send does to what IInv speaks of: the
\* fragments that it lets go of are delivered ones.
ReleaseEffect ==
  /\ msg' \in [Msgs -> SendDesc]
  /\ \A q \in Msgs : msg'[q].allocated <= NumFrags[q]
  /\ frag' \in [Descs -> FragDesc]
  /\ \A d \in Descs : frag'[d].seq = 0 <=> frag'[d].where \in {"pool", "lost"}
  /\ \A d \in Descs : \/ frag'[d].seq = frag[d].seq
                      \/ frag[d].seq \in delivered /\ frag'[d].seq = 0
  /\ ackinfo' \in [received : 0..MaxSeq, delivered : 0..MaxSeq]
  /\ 1..ackinfo'.delivered \subseteq delivered
  /\ acks' \subseteq acks
  /\ corrupted' \in BOOLEAN
  /\ UNCHANGED <<nextSeq, packets>>

\* A descriptor that has been returned to the pool.
LEMMA InPoolType == InPool \in FragDesc /\ InPool.seq = 0 /\ InPool.where = "pool"
<1>1. InPool \in FragDesc
  BY SeqBound DEF InPool, FragDesc
<1> QED
  BY <1>1, Zenon DEF InPool

\* resend frees what the aggregate information says was delivered.
LEMMA ResendStep ==
  ASSUME IInv, NEW m \in Msgs, resend(m)
  PROVE  ReleaseEffect
<1> DEFINE s == msg[m]
           listed == FragsToAck(m, frag)
           taken == {d \in listed : frag[d].seq <= ackinfo.delivered}
<1> USE DEF IInv, TypeOK, SenderTypeOK
<1>1. PICK timedOut \in SUBSET (listed \ taken) :
        \/ UNCHANGED <<msg, frag>> /\ corrupted' = TRUE
        \/ /\ msg' = [msg EXCEPT ![m] =
                [s EXCEPT !.toAckLen = Less(@, 2 * Cardinality(taken) + Cardinality(timedOut)),
                          !.sent = @ - Cardinality(timedOut),
                          !.acked = @ + Cardinality(taken),
                          !.clear = @ \/ taken # {},
                          !.armed = listed # taken \union timedOut,
                          !.queue = IF timedOut # {} THEN "incomplete" ELSE @]]
           /\ frag' = [d \in Descs |->
                IF d \in taken THEN InPool
                ELSE IF d \in timedOut THEN [frag[d] EXCEPT !.where = "toSend"]
                ELSE frag[d]]
           /\ UNCHANGED corrupted
  BY Zenon DEF resend
<1>2. UNCHANGED <<nextSeq, ackinfo, packets, acks>>
  BY DEF resend
<1>3. taken \subseteq Descs /\ timedOut \subseteq Descs /\ timedOut \subseteq listed
  BY DEF FragsToAck
<1>4. CASE UNCHANGED <<msg, frag>> /\ corrupted' = TRUE
  BY <1>2, <1>4 DEF ReleaseEffect, SenderInv
<1>5. CASE /\ msg' = [msg EXCEPT ![m] =
                [s EXCEPT !.toAckLen = Less(@, 2 * Cardinality(taken) + Cardinality(timedOut)),
                          !.sent = @ - Cardinality(timedOut),
                          !.acked = @ + Cardinality(taken),
                          !.clear = @ \/ taken # {},
                          !.armed = listed # taken \union timedOut,
                          !.queue = IF timedOut # {} THEN "incomplete" ELSE @]]
           /\ frag' = [d \in Descs |->
                IF d \in taken THEN InPool
                ELSE IF d \in timedOut THEN [frag[d] EXCEPT !.where = "toSend"]
                ELSE frag[d]]
           /\ UNCHANGED corrupted
  <2>1. msg' \in [Msgs -> SendDesc] /\ \A q \in Msgs : msg'[q].allocated <= NumFrags[q]
    <3>1. s \in SendDesc /\ Cardinality(taken) \in Nat /\ Cardinality(timedOut) \in Nat
      BY <1>3, DescsFinite
    <3>2. PICK len \in Nat, se \in Int, ac \in Nat :
            /\ len = Less(s.toAckLen, 2 * Cardinality(taken) + Cardinality(timedOut))
            /\ se = s.sent - Cardinality(timedOut)
            /\ ac = s.acked + Cardinality(taken)
      <4>1. s.toAckLen \in Nat /\ s.sent \in Int /\ s.acked \in Nat
        BY <3>1 DEF SendDesc
      <4> HIDE DEF s, taken
      <4>2. /\ Less(s.toAckLen, 2 * Cardinality(taken) + Cardinality(timedOut)) \in Nat
            /\ s.sent - Cardinality(timedOut) \in Int /\ s.acked + Cardinality(taken) \in Nat
        BY <3>1, <4>1 DEF Less
      <4> QED
        BY <4>2, Zenon
    <3>3. PICK cl \in BOOLEAN, ar \in BOOLEAN :
            cl = (s.clear \/ taken # {}) /\ ar = (listed # taken \union timedOut)
      BY Zenon
    <3>4. PICK qu \in {"idle", "incomplete", "unacked", "none", "pool"} :
            qu = IF timedOut # {} THEN "incomplete" ELSE s.queue
      BY <3>1 DEF SendDesc
    <3> DEFINE t == [s EXCEPT !.toAckLen = len, !.sent = se, !.acked = ac, !.clear = cl,
                              !.armed = ar, !.queue = qu]
    <3>5. msg' = [msg EXCEPT ![m] = t]
      BY <1>5, <3>2, <3>3, <3>4, Zenon
    <3> HIDE DEF s
    <3>6. t \in SendDesc /\ t.allocated = s.allocated
      BY <3>1 DEF SendDesc
    <3> HIDE DEF t
    <3> QED
      BY <3>5, <3>6 DEF SenderInv, s
  <2>2. ASSUME NEW d \in Descs
        PROVE  /\ frag'[d] \in FragDesc
               /\ frag'[d].seq = 0 <=> frag'[d].where \in {"pool", "lost"}
               /\ \/ frag'[d].seq = frag[d].seq
                  \/ frag[d].seq \in delivered /\ frag'[d].seq = 0
    <3>1. CASE d \in taken
      <4>1. frag'[d] = InPool
        BY <1>5, <3>1
      <4>2. frag[d].seq \in 1..ackinfo.delivered
        BY <3>1 DEF FragsToAck, SenderInv, FragDesc
      <4> QED
        BY <4>1, <4>2, InPoolType DEF SenderInv
    <3>2. CASE d \in timedOut
      <4>1. frag'[d] = [frag[d] EXCEPT !.where = "toSend"]
        BY <1>5, <3>2
      <4>2. frag[d] \in FragDesc /\ frag[d].seq # 0
        BY <1>3, <3>2 DEF FragsToAck, SenderInv
      <4> QED
        BY <4>1, <4>2 DEF FragDesc
    <3>3. CASE d \notin taken /\ d \notin timedOut
      BY <1>5, <3>3 DEF SenderInv
    <3> QED
      BY <3>1, <3>2, <3>3
  <2>3. frag' = [d \in Descs |-> frag'[d]]
    BY <1>5
  <2> QED
    BY <1>2, <1>5, <2>1, <2>2, <2>3 DEF ReleaseEffect, SenderInv
<1> QED
  BY <1>1, <1>4, <1>5

\* processAck frees the fragment whose own number the ack carries.
LEMMA ProcessAckStep ==
  ASSUME IInv, NEW a \in acks, processAck(a)
  PROVE  ReleaseEffect
<1> DEFINE d == a.ptr
           m == frag[d].parent
<1> USE DEF IInv, TypeOK, SenderTypeOK
<1>1. /\ a \in Ack /\ d \in Descs /\ a.received \in 0..MaxSeq /\ a.delivered \in 0..MaxSeq
      /\ frag[d] \in FragDesc
  BY DEF Ack
<1>2. acks' \subseteq acks /\ UNCHANGED <<nextSeq, packets>>
  BY DEF processAck, Receipt
<1>3. CASE UNCHANGED <<msg, frag, ackinfo, corrupted>>
  BY <1>2, <1>3 DEF ReleaseEffect, SenderInv
<1>4. CASE m # None /\ ackinfo' = UpdatedAckinfo(a)
  <2>1. /\ ackinfo' \in [received : 0..MaxSeq, delivered : 0..MaxSeq]
        /\ ackinfo'.delivered \in {a.delivered, ackinfo.delivered}
    BY <1>1, <1>4 DEF UpdatedAckinfo
  <2>2. 1..ackinfo'.delivered \subseteq delivered
    BY <2>1 DEF SenderInv, NetworkInv
  <2>3. CASE UNCHANGED <<msg, frag>> /\ corrupted' \in BOOLEAN
    BY <1>2, <2>1, <2>2, <2>3 DEF ReleaseEffect, SenderInv
  <2>4. CASE /\ a.status = "good" /\ frag[d].seq = a.seq
             /\ msg' = [msg EXCEPT ![m] = Freed(msg[m], d)]
             /\ frag' = [frag EXCEPT ![d] = InPool]
             /\ UNCHANGED corrupted
    <3>1. m \in Msgs
      BY <1>1, <1>4 DEF FragDesc
    <3>2. Freed(msg[m], d) \in SendDesc /\ Freed(msg[m], d).allocated = msg[m].allocated
      <4>1. PICK s \in SendDesc : s = msg[m]
        BY <3>1
      <4>2. s.toAckLen \in Nat /\ s.acked \in Nat /\ s.sent \in Int
        BY DEF SendDesc
      <4>3. PICK len \in Nat, ac \in Nat, se \in Int :
              len = Less(s.toAckLen, 1) /\ ac = s.acked + 1 /\ se = s.sent + 1
        BY <4>2 DEF Less
      <4>4. Freed(s, d) = IF frag[d].where = "toAck"
                          THEN [s EXCEPT !.toAckLen = len, !.acked = ac, !.clear = TRUE]
                          ELSE [s EXCEPT !.sent = se, !.acked = ac, !.clear = TRUE]
        BY <4>3, Zenon DEF Freed
      <4>5. /\ [s EXCEPT !.toAckLen = len, !.acked = ac, !.clear = TRUE] \in SendDesc
            /\ [s EXCEPT !.sent = se, !.acked = ac, !.clear = TRUE] \in SendDesc
        BY DEF SendDesc
      <4>6. /\ [s EXCEPT !.toAckLen = len, !.acked = ac, !.clear = TRUE].allocated = s.allocated
            /\ [s EXCEPT !.sent = se, !.acked = ac, !.clear = TRUE].allocated = s.allocated
        BY DEF SendDesc
      <4> QED
        BY <4>1, <4>4, <4>5, <4>6
    <3>3. a.seq \in delivered
      BY <2>4 DEF NetworkInv
    <3>4. msg' \in [Msgs -> SendDesc] /\ \A q \in Msgs : msg'[q].allocated <= NumFrags[q]
      BY <2>4, <3>1, <3>2 DEF SenderInv
    <3>5. /\ frag' \in [Descs -> FragDesc]
          /\ frag'[d].seq = 0 /\ frag'[d].where = "pool"
          /\ \A e \in Descs \ {d} : frag'[e] = frag[e]
      BY <1>1, <2>4, InPoolType
    <3> QED
      BY <1>2, <2>1, <2>2, <2>4, <3>3, <3>4, <3>5 DEF ReleaseEffect, SenderInv
  <2> QED
    BY <1>4, <2>3, <2>4 DEF processAck, AckMatches
<1> QED
  BY <1>3, <1>4 DEF processAck

\* Completion and the user's free change only the two flags and the queue.
LEMMA CompletionStep ==
  ASSUME IInv, NEW m \in Msgs, CheckForAcked(m) \/ ulm_request_free(m)
  PROVE  ReleaseEffect
<1> USE DEF IInv, TypeOK, SenderTypeOK
<1>1. UNCHANGED <<frag, nextSeq, ackinfo, corrupted, packets, acks>>
  BY DEF CheckForAcked, ulm_request_free
<1>2. PICK t \in SendDesc : msg' = [msg EXCEPT ![m] = t] /\ t.allocated = msg[m].allocated
  <2>1. PICK s \in SendDesc : s = msg[m]
    OBVIOUS
  <2>2. CASE CheckForAcked(m)
    <3>1. PICK qu \in {"idle", "incomplete", "unacked", "none", "pool"} :
            qu = IF s.freeCalled THEN "pool" ELSE s.queue
      BY DEF SendDesc
    <3> DEFINE t == [s EXCEPT !.done = TRUE, !.queue = qu]
    <3>2. msg' = [msg EXCEPT ![m] = t]
      BY <2>1, <2>2, <3>1 DEF CheckForAcked
    <3>3. t \in SendDesc /\ t.allocated = s.allocated
      BY DEF SendDesc
    <3> QED
      BY <2>1, <3>2, <3>3
  <2>3. CASE ulm_request_free(m)
    <3> DEFINE t == [s EXCEPT !.freeCalled = TRUE]
    <3>2. msg' = [msg EXCEPT ![m] = t]
      BY <2>1, <2>3 DEF ulm_request_free
    <3>3. t \in SendDesc /\ t.allocated = s.allocated
      BY DEF SendDesc
    <3> QED
      BY <2>1, <3>2, <3>3
  <2> QED
    BY <2>2, <2>3
<1> QED
  BY <1>1, <1>2 DEF ReleaseEffect, SenderInv

-----------------------------------------------------------------------------
(***************************************************************************)
(* The receiver.                                                           *)
(***************************************************************************)

\* AckData for a fragment whose data is good: the tracking lists are right before
\* the ack leaves, so the ack is true, and stays true if it waits in unsent.
LEMMA AckDataStep ==
  ASSUME TypeOK, ReceiverInv, NetworkInv, NEW f \in RecvFrag, f.ok,
         f.dup = "delivered" => f.seq \in delivered,
         NEW rcvd, NEW waiting \in SUBSET unsent, AckData(f, rcvd, waiting)
  PROVE  /\ received' = rcvd
         /\ delivered' = IF f.dup = "unique" THEN delivered \union {f.seq} ELSE delivered
         /\ unsent' \subseteq RecvFrag
         /\ \A g \in unsent' : g.ok /\ (g.dup # "received" => g.seq \in delivered')
         /\ acks' \subseteq Ack
         /\ \A a \in acks' : /\ a.status = "good" => a.seq \in delivered'
                             /\ 1..a.delivered \subseteq delivered'
<1>1. /\ received' = rcvd
      /\ delivered' = IF f.dup = "unique" THEN delivered \union {f.seq} ELSE delivered
  BY DEF AckData
<1>2. f.dup # "received" => f.seq \in delivered'
  BY <1>1 DEF RecvFrag
<1>3. unsent' \subseteq waiting \union {f}
  BY DEF AckData
<1>4. /\ unsent' \subseteq RecvFrag
      /\ \A g \in unsent' : g.ok /\ (g.dup # "received" => g.seq \in delivered')
  BY <1>1, <1>2, <1>3 DEF ReceiverInv, TypeOK, ReceiverTypeOK
<1>5. ASSUME NEW a \in acks'
      PROVE  /\ a \in Ack /\ (a.status = "good" => a.seq \in delivered')
             /\ 1..a.delivered \subseteq delivered'
  <2>1. CASE a \in acks
    BY <1>1, <2>1 DEF NetworkInv, TypeOK
  <2>2. CASE a \notin acks
    <3>1. PICK r \in 0..MaxSeq, d \in 0..MaxSeq :
            IsLargestInOrder(delivered', d) /\ a = AckFor(f, r, d)
      <4>1. PICK r \in 0..MaxSeq, d \in 0..MaxSeq :
              IsLargestInOrder(delivered', d) /\ acks' \in Transmit(acks, {AckFor(f, r, d)})
        BY <2>2, Zenon DEF AckData
      <4>2. acks' \subseteq acks \union {AckFor(f, r, d)}
        BY <4>1, Zenon DEF Transmit
      <4> QED
        BY <2>2, <4>1, <4>2, Zenon
    <3>2. /\ f.ptr \in Descs /\ f.seq \in 0..MaxSeq
          /\ f.dup \in {"unique", "delivered", "received"}
      BY SeqBound DEF RecvFrag, Seqs
    <3>3. PICK q \in 0..MaxSeq, st \in {"good", "agginfo"} :
            /\ a = [ptr |-> f.ptr, seq |-> q, status |-> st, received |-> r, delivered |-> d]
            /\ st = "good" => q = f.seq /\ f.dup # "received"
      <4>1. CASE f.dup = "received"
        <5>1. a = [ptr |-> f.ptr, seq |-> 0, status |-> "agginfo", received |-> r,
                   delivered |-> d]
          BY <3>1, <4>1 DEF AckFor
        <5> QED
          BY <5>1, SeqBound
      <4>2. CASE f.dup # "received"
        <5>1. a = [ptr |-> f.ptr, seq |-> f.seq, status |-> "good", received |-> r,
                   delivered |-> d]
          BY <3>1, <4>2 DEF AckFor
        <5> QED
          BY <5>1, <3>2, <4>2
      <4> QED
        BY <4>1, <4>2
    <3>4. a \in Ack /\ a.delivered = d /\ a.seq = q /\ a.status = st
      BY <3>2, <3>3 DEF Ack
    <3> QED
      BY <1>2, <3>1, <3>3, <3>4 DEF IsLargestInOrder
  <2> QED
    BY <2>1, <2>2
<1> QED
  BY <1>1, <1>4, <1>5

\* What a step of the receiver does when it copies fragment p.
DeliverEffect(p) ==
  /\ p.seq \in Sent
  /\ delivered' = delivered \union {p.seq}
  /\ copies' = [copies EXCEPT ![p.seq] = @ + 1]

\* A fragment that is copied was not delivered before.
LEMMA ProcessMatchedStep ==
  ASSUME CopySucceeds, TypeOK, ReceiverInv, NetworkInv, NEW p \in Packet, NEW rcvd,
         p.seq \in Sent, ProcessMatchedData(p, rcvd)
  PROVE  /\ DeliverEffect(p)
         /\ received' = rcvd
         /\ unsent' \subseteq RecvFrag
         /\ \A g \in unsent' : g.ok /\ (g.dup # "received" => g.seq \in delivered')
         /\ acks' \subseteq Ack
         /\ \A a \in acks' : /\ a.status = "good" => a.seq \in delivered'
                             /\ 1..a.delivered \subseteq delivered'
<1> DEFINE f == Acked(p, TRUE, "unique")
<1>1. /\ copies' = [copies EXCEPT ![p.seq] = @ + 1]
      /\ AckData(f, rcvd, unsent)
  <2>1. PICK o \in CopyOutcomes :
          /\ copies' = IF o.copied THEN [copies EXCEPT ![p.seq] = @ + 1] ELSE copies
          /\ AckData(Acked(p, o.ok, "unique"), rcvd, unsent)
    BY Zenon DEF ProcessMatchedData
  <2>2. o.ok = TRUE /\ o.copied = TRUE
    BY CopyOutcomesTyped DEF CopySucceeds
  <2> QED
    BY <2>1, <2>2
<1>2. f \in RecvFrag /\ f.ok /\ f.dup = "unique" /\ f.seq = p.seq
  BY DEF Acked, RecvFrag, Packet
<1> HIDE DEF f
<1>3. /\ received' = rcvd
      /\ delivered' = IF f.dup = "unique" THEN delivered \union {f.seq} ELSE delivered
      /\ unsent' \subseteq RecvFrag
      /\ \A g \in unsent' : g.ok /\ (g.dup # "received" => g.seq \in delivered')
      /\ acks' \subseteq Ack
      /\ \A a \in acks' : /\ a.status = "good" => a.seq \in delivered'
                          /\ 1..a.delivered \subseteq delivered'
  BY <1>1, <1>2, AckDataStep
<1> QED
  BY <1>1, <1>2, <1>3 DEF DeliverEffect

-----------------------------------------------------------------------------
(***************************************************************************)
(* The invariant is preserved.                                             *)
(***************************************************************************)

\* The invariant holds at the start.
LEMMA InitIInv == Init => IInv
<1> SUFFICES ASSUME Init PROVE IInv
  OBVIOUS
<1> USE SeqBound DEF Init, SenderInit, ReceiverInit
<1>1. Sent = {} /\ Seqs \subseteq Nat
  BY DEF Sent, Seqs
<1>2. \A d \in Descs : frag[d] \in FragDesc /\ frag[d].seq = 0 /\ frag[d].where = "pool"
  BY InPoolType
<1>3. TypeOK
  <2> DEFINE idle == [queue |-> "idle", allocated |-> 0, sent |-> 0, acked |-> 0,
                      copied |-> 0, toAckLen |-> 0, clear |-> FALSE, armed |-> FALSE,
                      done |-> FALSE, freeCalled |-> FALSE]
  <2>1. idle \in SendDesc
    BY DEF SendDesc
  <2>2. msg = [m \in Msgs |-> idle]
    BY Zenon
  <2>3. msg \in [Msgs -> SendDesc]
    BY <2>1, <2>2, Zenon
  <2>4. ackinfo \in [received : 0..MaxSeq, delivered : 0..MaxSeq]
    OBVIOUS
  <2>5. frag \in [Descs -> FragDesc]
    BY InPoolType
  <2>6. nextSeq \in 1..(MaxSeq + 1)
    OBVIOUS
  <2>7. corrupted \in BOOLEAN
    BY Zenon
  <2>8. SenderTypeOK
    BY <2>3, <2>4, <2>5, <2>6, <2>7, Zenon DEF SenderTypeOK
  <2>9. ReceiverTypeOK
    BY DEF ReceiverTypeOK
  <2> QED
    BY <2>8, <2>9 DEF TypeOK
<1>4. ReceiverInv
  BY <1>1 DEF ReceiverInv
<1>5. NetworkInv
  BY DEF NetworkInv
<1>6. SenderInv
  BY <1>1, <1>2, MsgsAssumption DEF SenderInv
<1> QED
  BY <1>3, <1>4, <1>5, <1>6 DEF IInv

\* A step of send preserves it: it adds numbers to Sent and to Live alike.
LEMMA SendPreserves ==
  ASSUME IInv, NEW n \in Nat, SendEffect(n),
         UNCHANGED <<acks, ackinfo, corrupted, receiverVars>>
  PROVE  IInv'
<1> USE DEF SendEffect, receiverVars
<1>1. nextSeq \in Nat /\ nextSeq >= 1 /\ nextSeq' \in 1..(MaxSeq + 1)
  BY SeqBound DEF IInv, TypeOK, SenderTypeOK
<1>2. Sent' = Sent \union (nextSeq..(nextSeq + n - 1))
  BY <1>1 DEF Sent
<1>3. TypeOK'
  BY <1>1 DEF IInv, TypeOK, SenderTypeOK, ReceiverTypeOK
<1>4. ReceiverInv'
  BY <1>2 DEF IInv, ReceiverInv
<1>5. NetworkInv'
  <2>1. ASSUME NEW p \in packets' PROVE p.seq \in Sent'
    <3>1. CASE p \in packets
      BY <1>2, <3>1 DEF IInv, NetworkInv
    <3>2. CASE p \in Packet /\ p.seq < nextSeq'
      BY <1>1, <3>2, SeqBound DEF Packet, Seqs, Sent
    <3> QED
      BY <3>1, <3>2
  <2> QED
    BY <2>1 DEF IInv, NetworkInv
<1>6. SenderInv'
  BY <1>2 DEF IInv, SenderInv
<1> QED
  BY <1>3, <1>4, <1>5, <1>6 DEF IInv

\* The numbers that are no longer alive after a step of the sender are delivered.
LEMMA ReleasedAreDelivered ==
  ASSUME IInv, ReleaseEffect
  PROVE  Live' \subseteq Live /\ Live \ Live' \subseteq delivered
  BY DEF ReleaseEffect, Live

\* Any other step of the sender preserves it.
LEMMA ReleasePreserves ==
  ASSUME IInv, ReleaseEffect, UNCHANGED receiverVars
  PROVE  IInv'
<1> USE DEF ReleaseEffect, receiverVars
<1>1. Sent' = Sent
  BY DEF Sent
<1>2. TypeOK'
  BY DEF IInv, TypeOK, SenderTypeOK, ReceiverTypeOK
<1>3. ReceiverInv'
  BY <1>1 DEF IInv, ReceiverInv
<1>4. NetworkInv'
  BY <1>1 DEF IInv, NetworkInv
<1>5. Sent' \ Live' \subseteq delivered'
  BY <1>1, ReleasedAreDelivered DEF IInv, SenderInv
<1>6. ASSUME NEW d \in Descs PROVE frag'[d].seq < nextSeq'
  BY SeqBound DEF IInv, SenderInv, TypeOK, SenderTypeOK
<1>7. SenderInv'
  BY <1>5, <1>6 DEF IInv, SenderInv
<1> QED
  BY <1>2, <1>3, <1>4, <1>7 DEF IInv

\* A step of the receiver preserves it if it preserves the receiver's part, never
\* takes a delivery back and sends only true acks.
LEMMA ReceiverPreserves ==
  ASSUME IInv, UNCHANGED senderVars, delivered \subseteq delivered',
         packets' \subseteq packets, acks' \subseteq Ack,
         \A a \in acks' : /\ a.status = "good" => a.seq \in delivered'
                          /\ 1..a.delivered \subseteq delivered',
         held' \subseteq Packet, unsent' \subseteq RecvFrag, ReceiverInv'
  PROVE  IInv'
<1> USE DEF senderVars
<1>1. Sent' = Sent /\ Live' = Live
  BY DEF Sent, Live
<1>2. received' \subseteq Seqs /\ delivered' \subseteq Seqs
  BY <1>1, SeqBound DEF ReceiverInv, IInv, TypeOK, SenderTypeOK, Sent, Seqs
<1>3. copies' \in [Seqs -> Nat]
  BY DEF ReceiverInv
<1>4. TypeOK'
  <2>1. SenderTypeOK'
    BY DEF IInv, TypeOK, SenderTypeOK
  <2> QED
    BY <1>2, <1>3, <2>1 DEF IInv, TypeOK, ReceiverTypeOK
<1>5. NetworkInv'
  BY <1>1 DEF IInv, NetworkInv
<1>6. SenderInv'
  BY <1>1 DEF IInv, SenderInv
<1> QED
  BY <1>4, <1>5, <1>6 DEF IInv

\* handleReceivedFrag, a new fragment.
LEMMA ReceiveNewStep ==
  ASSUME CopySucceeds, IInv, NEW p \in packets, ReceiveNew(p), UNCHANGED senderVars
  PROVE  IInv' /\ (DeliverEffect(p) \/ UNCHANGED copies)
<1> USE DEF IInv
<1>1. /\ p \in Packet /\ p.seq \in Seqs /\ p.seq \in Sent /\ p.seq \notin received
      /\ packets' \subseteq packets /\ Sent' = Sent
  BY DEF ReceiveNew, IsNew, Receipt, TypeOK, Packet, NetworkInv, senderVars, Sent
<1>2. CASE /\ received' = received \union {p.seq}
           /\ held' = held \union {p}
           /\ UNCHANGED <<delivered, unsent, copies, acks>>
  <2>1. ReceiverInv'
    BY <1>1, <1>2 DEF ReceiverInv
  <2> QED
    BY <1>1, <1>2, <2>1, ReceiverPreserves DEF TypeOK, ReceiverTypeOK, NetworkInv
<1>3. CASE ProcessMatchedData(p, received \union {p.seq}) /\ UNCHANGED held
  <2>1. /\ DeliverEffect(p)
        /\ received' = received \union {p.seq}
        /\ unsent' \subseteq RecvFrag
        /\ \A g \in unsent' : g.ok /\ (g.dup # "received" => g.seq \in delivered')
        /\ acks' \subseteq Ack
        /\ \A a \in acks' : /\ a.status = "good" => a.seq \in delivered'
                            /\ 1..a.delivered \subseteq delivered'
    BY <1>1, <1>3, ProcessMatchedStep
  <2>2. copies' = [s \in Seqs |-> IF s \in delivered' THEN 1 ELSE 0]
    BY <1>1, <2>1 DEF DeliverEffect, ReceiverInv
  <2>3. ReceiverInv'
    BY <1>1, <1>3, <2>1, <2>2 DEF ReceiverInv, DeliverEffect
  <2> QED
    BY <1>1, <1>3, <2>1, <2>3, ReceiverPreserves DEF DeliverEffect, TypeOK, ReceiverTypeOK
<1> QED
  BY <1>2, <1>3 DEF ReceiveNew

\* A held fragment is matched.
LEMMA MatchHeldStep ==
  ASSUME CopySucceeds, IInv, NEW p \in held, MatchHeld(p), UNCHANGED senderVars
  PROVE  IInv' /\ DeliverEffect(p)
<1> USE DEF IInv
<1>1. /\ p \in Packet /\ p.seq \in Seqs /\ p.seq \in Sent
      /\ p.seq \in received /\ p.seq \notin delivered
      /\ packets' = packets /\ Sent' = Sent /\ held' = held \ {p}
      /\ ProcessMatchedData(p, received)
  BY DEF MatchHeld, TypeOK, ReceiverTypeOK, Packet, ReceiverInv, senderVars, Sent
<1>2. /\ DeliverEffect(p)
      /\ received' = received
      /\ unsent' \subseteq RecvFrag
      /\ \A g \in unsent' : g.ok /\ (g.dup # "received" => g.seq \in delivered')
      /\ acks' \subseteq Ack
      /\ \A a \in acks' : /\ a.status = "good" => a.seq \in delivered'
                          /\ 1..a.delivered \subseteq delivered'
  BY <1>1, ProcessMatchedStep
<1>3. copies' = [s \in Seqs |-> IF s \in delivered' THEN 1 ELSE 0]
  BY <1>1, <1>2 DEF DeliverEffect, ReceiverInv
<1>4. ReceiverInv'
  BY <1>1, <1>2, <1>3 DEF ReceiverInv, DeliverEffect
<1> QED
  BY <1>1, <1>2, <1>4, ReceiverPreserves DEF DeliverEffect, TypeOK, ReceiverTypeOK

\* handleReceivedFrag, a duplicate: nothing is copied.
LEMMA ReceiveDuplicateStep ==
  ASSUME IInv, NEW p \in packets, ReceiveDuplicate(p), UNCHANGED senderVars
  PROVE  IInv' /\ UNCHANGED copies
<1> USE DEF IInv
<1>1. /\ p \in Packet /\ packets' \subseteq packets /\ Sent' = Sent
      /\ UNCHANGED <<held, copies>>
  BY DEF ReceiveDuplicate, Receipt, TypeOK, senderVars, Sent
<1>2. CASE UNCHANGED <<received, delivered, unsent, acks>>
  <2>1. ReceiverInv'
    BY <1>1, <1>2 DEF ReceiverInv
  <2> QED
    BY <1>1, <1>2, <2>1, ReceiverPreserves DEF TypeOK, ReceiverTypeOK, NetworkInv
<1>3. CASE \E dup \in {"delivered", "received"} :
             /\ dup = "delivered" => p.seq \in delivered
             /\ AckData(Acked(p, TRUE, dup), received, unsent)
  <2>1. PICK dup \in {"delivered", "received"} :
             /\ dup = "delivered" => p.seq \in delivered
             /\ AckData(Acked(p, TRUE, dup), received, unsent)
    BY <1>3
  <2> DEFINE f == Acked(p, TRUE, dup)
  <2>2. f \in RecvFrag /\ f.ok /\ f.dup = dup /\ f.seq = p.seq
    BY <1>1 DEF Acked, RecvFrag, Packet
  <2> HIDE DEF f
  <2>3. /\ received' = received /\ delivered' = delivered
        /\ unsent' \subseteq RecvFrag
        /\ \A g \in unsent' : g.ok /\ (g.dup # "received" => g.seq \in delivered')
        /\ acks' \subseteq Ack
        /\ \A a \in acks' : /\ a.status = "good" => a.seq \in delivered'
                            /\ 1..a.delivered \subseteq delivered'
    BY <2>1, <2>2, AckDataStep DEF f
  <2>4. ReceiverInv'
    BY <1>1, <2>3 DEF ReceiverInv
  <2> QED
    BY <1>1, <2>3, <2>4, ReceiverPreserves DEF TypeOK, ReceiverTypeOK
<1> QED
  BY <1>2, <1>3 DEF ReceiveDuplicate

\* SendUnsentAcks: AckData runs again and finds the lists as it left them.
LEMMA SendUnsentStep ==
  ASSUME IInv, NEW f \in unsent, SendUnsentAck(f), UNCHANGED senderVars
  PROVE  IInv' /\ UNCHANGED copies
<1> USE DEF IInv
<1>1. /\ f \in RecvFrag /\ f.ok /\ (f.dup # "received" => f.seq \in delivered)
      /\ Sent' = Sent /\ UNCHANGED <<held, copies, packets>>
      /\ AckData(f, received, unsent \ {f})
  BY DEF SendUnsentAck, TypeOK, ReceiverTypeOK, ReceiverInv, senderVars, Sent
<1>2. /\ received' = received
      /\ delivered' = IF f.dup = "unique" THEN delivered \union {f.seq} ELSE delivered
      /\ unsent' \subseteq RecvFrag
      /\ \A g \in unsent' : g.ok /\ (g.dup # "received" => g.seq \in delivered')
      /\ acks' \subseteq Ack
      /\ \A a \in acks' : /\ a.status = "good" => a.seq \in delivered'
                          /\ 1..a.delivered \subseteq delivered'
  BY <1>1, AckDataStep
<1>3. delivered' = delivered
  BY <1>1, <1>2
<1>4. ReceiverInv'
  BY <1>1, <1>2, <1>3 DEF ReceiverInv
<1> QED
  BY <1>1, <1>2, <1>3, <1>4, ReceiverPreserves DEF TypeOK, ReceiverTypeOK

-----------------------------------------------------------------------------
(***************************************************************************)
(* Each step in turn, and the theorems.                                    *)
(***************************************************************************)

\* A step is a call of send, another step of the sender, a step of the receiver
\* that copies one fragment, or one that copies none; the invariant survives.
LEMMA StepCases ==
  ASSUME CopySucceeds, IInv, Next
  PROVE  /\ IInv'
         /\ \/ \E n \in Nat : SendEffect(n) /\ UNCHANGED copies
            \/ ReleaseEffect /\ UNCHANGED copies
            \/ \E p \in Packet : DeliverEffect(p) /\ p.seq \notin delivered
                                 /\ UNCHANGED senderVars
            \/ UNCHANGED <<copies, senderVars>>
<1>1. ASSUME NEW m \in Msgs, isend_start(m) \/ push_frags(m), UNCHANGED receiverVars
      PROVE  IInv' /\ \E n \in Nat : SendEffect(n) /\ UNCHANGED copies
  <2>1. PICK s \in SendDesc : Sends(m, s) /\ s.allocated = msg[m].allocated
    <3>1. CASE isend_start(m)
      <4>1. PICK r \in SendDesc : r = msg[m]
        BY DEF IInv, TypeOK, SenderTypeOK
      <4>2. PICK done \in BOOLEAN, clear \in BOOLEAN :
              done = (Kind[m] = "buffered") /\ clear = (Kind[m] # "sync")
        BY Zenon
      <4> DEFINE s == [r EXCEPT !.done = done, !.clear = clear]
      <4>3. s \in SendDesc /\ s.allocated = r.allocated
        BY DEF SendDesc
      <4>4. Sends(m, s)
        BY <3>1, <4>1, <4>2, Zenon DEF isend_start
      <4> HIDE DEF s
      <4> QED
        BY <4>1, <4>3, <4>4
    <3>2. CASE push_frags(m)
      BY <3>2 DEF push_frags, IInv, TypeOK, SenderTypeOK
    <3> QED
      BY <1>1, <3>1, <3>2
  <2>2. s.allocated <= NumFrags[m]
    BY <2>1 DEF IInv, SenderInv
  <2>3. (\E n \in Nat : SendEffect(n)) /\ UNCHANGED <<acks, ackinfo, corrupted>>
    BY <2>1, <2>2, SendsStep DEF IInv
  <2> QED
    BY <1>1, <2>3, SendPreserves DEF receiverVars
<1>2. ASSUME ReleaseEffect, UNCHANGED receiverVars
      PROVE  IInv' /\ ReleaseEffect /\ UNCHANGED copies
  BY <1>2, ReleasePreserves DEF receiverVars
<1>3. ASSUME NEW m \in Msgs, resend(m) \/ CheckForAcked(m) \/ ulm_request_free(m),
             UNCHANGED receiverVars
      PROVE  IInv' /\ ReleaseEffect /\ UNCHANGED copies
  BY <1>2, <1>3, ResendStep, CompletionStep
<1>4. ASSUME NEW a \in acks, processAck(a), UNCHANGED receiverVars
      PROVE  IInv' /\ ReleaseEffect /\ UNCHANGED copies
  BY <1>2, <1>4, ProcessAckStep
<1>5. ASSUME NEW p \in packets, ReceiveNew(p), UNCHANGED senderVars
      PROVE  /\ IInv' /\ p \in Packet /\ p.seq \notin delivered
             /\ DeliverEffect(p) \/ UNCHANGED copies
  BY <1>5, ReceiveNewStep DEF IInv, TypeOK, ReceiverInv, ReceiveNew, IsNew
<1>6. ASSUME NEW p \in packets, ReceiveDuplicate(p), UNCHANGED senderVars
      PROVE  IInv' /\ UNCHANGED copies
  BY <1>6, ReceiveDuplicateStep
<1>7. ASSUME NEW p \in held, MatchHeld(p), UNCHANGED senderVars
      PROVE  IInv' /\ p \in Packet /\ p.seq \notin delivered /\ DeliverEffect(p)
  BY <1>7, MatchHeldStep DEF IInv, TypeOK, ReceiverTypeOK, ReceiverInv
<1>8. ASSUME NEW f \in unsent, SendUnsentAck(f), UNCHANGED senderVars
      PROVE  IInv' /\ UNCHANGED copies
  BY <1>8, SendUnsentStep
<1> QED
  BY <1>1, <1>3, <1>4, <1>5, <1>6, <1>7, <1>8, Zenon DEF Next

\* IInv is an invariant of the UDP path: it holds at the start and every handler of
\* the sender and of the receiver preserves it.
THEOREM Inductive ==
  ASSUME CopySucceeds
  PROVE  Spec => []IInv
<1>1. ASSUME IInv, UNCHANGED vars PROVE IInv'
  <2> USE <1>1 DEF IInv, vars, senderVars, receiverVars
  <2>1. Sent' = Sent /\ Live' = Live
    BY DEF Sent, Live
  <2>2. SenderTypeOK' /\ ReceiverTypeOK'
    BY DEF TypeOK, SenderTypeOK, ReceiverTypeOK
  <2>3. TypeOK'
    BY <2>2 DEF TypeOK
  <2>4. ReceiverInv'
    BY <2>1 DEF ReceiverInv
  <2>5. NetworkInv'
    BY <2>1 DEF NetworkInv
  <2>6. SenderInv'
    BY <2>1 DEF SenderInv
  <2> QED
    BY <2>3, <2>4, <2>5, <2>6
<1>2. IInv /\ [Next]_vars => IInv'
  BY <1>1, StepCases
<1> QED
  BY <1>2, InitIInv, PTL DEF Spec

\* Descriptors, counters, lists and datagrams keep their types in every handler.
THEOREM TypeCorrect ==
  ASSUME CopySucceeds
  PROVE  Spec => []TypeOK
<1>1. IInv => TypeOK
  BY DEF IInv
<1> QED
  BY <1>1, Inductive, PTL

\* What IInv says of the fragments that the sender let go of, of those copied
\* and of the acks.
LEMMA IInvImplies == IInv => NoFragmentLost /\ AtMostOnce /\ AcksAreTrue
<1> SUFFICES ASSUME IInv PROVE NoFragmentLost /\ AtMostOnce /\ AcksAreTrue
  OBVIOUS
<1>1. /\ delivered \subseteq Seqs /\ delivered \subseteq Sent
      /\ \A s \in Seqs : copies[s] = IF s \in delivered THEN 1 ELSE 0
  BY DEF IInv, TypeOK, ReceiverTypeOK, ReceiverInv
<1>2. NoFragmentLost
  BY <1>1 DEF NoFragmentLost, IInv, SenderInv
<1>3. AtMostOnce
  BY <1>1 DEF AtMostOnce
<1>4. AcksAreTrue
  BY <1>1 DEF AcksAreTrue, IInv, NetworkInv, SenderInv
<1> QED
  BY <1>2, <1>3, <1>4

\* For any number of messages, fragments and descriptors, and whatever the network
\* loses, duplicates or reorders: a fragment whose descriptor resend or processAck
\* has freed was copied to the application.
THEOREM NothingIsLost ==
  ASSUME CopySucceeds
  PROVE  Spec => []NoFragmentLost
  BY Inductive, IInvImplies, PTL

\* No fragment is copied to the application twice, however often it is resent.
THEOREM NothingIsCopiedTwice ==
  ASSUME CopySucceeds
  PROVE  Spec => []AtMostOnce
  BY Inductive, IInvImplies, PTL

\* Every ack under way, and the aggregate information the sender keeps, is true.
THEOREM AcksAreAlwaysTrue ==
  ASSUME CopySucceeds
  PROVE  Spec => []AcksAreTrue
  BY Inductive, IInvImplies, PTL

-----------------------------------------------------------------------------
(***************************************************************************)
(* UdpLink implements ReliableLink.                                        *)
(***************************************************************************)

\* A step of the UDP path is a step of the abstract link, or changes nothing there.
LEMMA StepImplements ==
  ASSUME CopySucceeds, IInv, IInv', Next
  PROVE  [Abstract!Next]_(Abstract!vars)
<1> USE DEF Abstract!vars
<1>1. nextSeq \in Nat /\ nextSeq >= 1
  BY SeqBound DEF IInv, TypeOK, SenderTypeOK
<1>2. /\ delivered' \subseteq Seqs /\ delivered' \subseteq received'
      /\ \A s \in Seqs : copies'[s] = IF s \in delivered' THEN 1 ELSE 0
      /\ Sent' \ Live' \subseteq delivered'
  BY DEF IInv, TypeOK, ReceiverTypeOK, ReceiverInv, SenderInv
<1>3. CASE \E n \in Nat : SendEffect(n) /\ UNCHANGED copies
  <2>1. PICK n \in Nat : SendEffect(n) /\ UNCHANGED copies
    BY <1>3
  <2>2. Sent' = Sent \union (nextSeq..(nextSeq + n - 1))
    BY <1>1, <2>1 DEF Sent, SendEffect
  <2>3. Sent \intersect (nextSeq..(nextSeq + n - 1)) = {}
    BY <1>1 DEF Sent
  <2>4. Sent' \ Live' = Sent \ Live
    BY <2>1, <2>2, <2>3 DEF SendEffect
  <2>5. CASE n = 0
    BY <1>1, <2>1, <2>4, <2>5 DEF SendEffect
  <2>6. CASE n # 0
    <3>1. nextSeq' - 1 \in (nextSeq - 1 + 1)..MaxSeq
      BY <1>1, <2>1, <2>6, SeqBound DEF SendEffect
    <3> QED
      BY <2>1, <2>4, <3>1 DEF Abstract!Next, Abstract!Submit
  <2> QED
    BY <2>5, <2>6
<1>4. CASE ReleaseEffect /\ UNCHANGED copies
  <2>1. nextSeq' = nextSeq /\ Sent' = Sent
    BY <1>4 DEF ReleaseEffect, Sent
  <2>2. Sent \ Live \subseteq Sent' \ Live'
    BY <1>4, <2>1, ReleasedAreDelivered
  <2>3. Sent' \ Live' \subseteq {s \in 1..(nextSeq - 1) : copies[s] = 1}
    BY <1>2, <1>4, <2>1 DEF Sent
  <2> QED
    BY <1>4, <2>1, <2>2, <2>3 DEF Abstract!Next, Abstract!Release
<1>5. CASE \E p \in Packet : DeliverEffect(p) /\ p.seq \notin delivered
                             /\ UNCHANGED senderVars
  <2>1. PICK p \in Packet : DeliverEffect(p) /\ p.seq \notin delivered
                            /\ UNCHANGED senderVars
    BY <1>5
  <2>2. nextSeq' = nextSeq /\ Sent' \ Live' = Sent \ Live
    BY <2>1 DEF senderVars, Sent, Live
  <2>3. p.seq \in 1..MaxSeq /\ p.seq <= nextSeq - 1
    BY <1>1, <2>1 DEF DeliverEffect, Packet, Seqs, Sent
  <2>4. copies[p.seq] = 0 /\ copies' = [copies EXCEPT ![p.seq] = 1]
    BY <2>1, <2>3 DEF DeliverEffect, IInv, ReceiverInv, Seqs
  <2>5. Abstract!Deliver(p.seq)
    BY <2>2, <2>3, <2>4 DEF Abstract!Deliver
  <2> QED
    BY <2>3, <2>5 DEF Abstract!Next
<1>6. CASE UNCHANGED <<copies, senderVars>>
  BY <1>6 DEF senderVars, Sent, Live
<1> QED
  BY <1>3, <1>4, <1>5, <1>6, StepCases

\* The UDP path, with its losses, retransmissions, duplicates and descriptors used
\* again, implements the reliable link.
THEOREM UdpImplementsReliableLink ==
  ASSUME CopySucceeds
  PROVE  Spec => ImplementsReliableLink
<1>1. ASSUME Init PROVE Abstract!Init
  <2>1. nextSeq - 1 = 0 /\ Sent = {}
    BY <1>1 DEF Init, SenderInit, Sent
  <2>2. copies = [s \in 1..MaxSeq |-> 0]
    BY <1>1 DEF Init, ReceiverInit, Seqs
  <2> QED
    BY <2>1, <2>2 DEF Abstract!Init
<1>2. IInv /\ IInv' /\ UNCHANGED vars => UNCHANGED Abstract!vars
  BY DEF vars, senderVars, receiverVars, Abstract!vars, Sent, Live
<1>3. IInv /\ IInv' /\ [Next]_vars => [Abstract!Next]_(Abstract!vars)
  BY <1>2, StepImplements
<1> QED
  BY <1>1, <1>3, Inductive, PTL DEF Spec, ImplementsReliableLink, Abstract!Spec
=============================================================================
