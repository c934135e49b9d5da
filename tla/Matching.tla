------------------------------- MODULE Matching -------------------------------
(***************************************************************************)
(* Matching of message fragments with posted receives in one process and   *)
(* one communicator (Communicator::handleReceivedFrag,                     *)
(* matchFragsInAheadOfSequenceList, irecv_start and the lists of           *)
(* privateQueues), with the thread support of the library on: a step is    *)
(* what one thread does while it holds the locks of a source process       *)
(* (next_expected_isendSeqsLock[p] and recvLock[p]).                       *)
(*                                                                         *)
(* Fragments arrive in any order, each one once: FragReceiver filters the  *)
(* duplicates.  A fragment whose checksum is wrong is refused when it is   *)
(* copied, and arrives again.  Receives are posted by one thread; the n-th *)
(* one has irecvSeq_m = n.                                                 *)
(***************************************************************************)
EXTENDS Integers, Sequences, FiniteSets, SequencesExt, FiniteSetsExt

CONSTANTS GroupSize,    \* remoteGroup->groupSize
          Sends,        \* Sends[p]: how many messages p sends
          Parts,        \* Parts[p][n]: number of fragments of message n of p
          Tags,         \* the tags in use; negative ones are the library's own
          AnyTag, AnyProc, NoMsg,
          MaxRecvs,     \* bound on the receives posted
          MaxCorrupt    \* bound on the fragments that arrive damaged

Procs == 0..(GroupSize - 1)
Msgs == UNION {{[src |-> p, seq |-> n] : n \in 0..(Sends[p] - 1)} : p \in Procs}
FragsOf(m) == {[src |-> m.src, seq |-> m.seq, idx |-> i] : i \in 1..Parts[m.src][m.seq + 1]}
Frags == UNION {FragsOf(m) : m \in Msgs}
MsgOf(f) == [src |-> f.src, seq |-> f.seq]
Recvs == 1..MaxRecvs

ASSUME SendsTyped == GroupSize \in Nat /\ Sends \in [Procs -> Nat]
ASSUME PartsTyped == \A m \in Msgs : Parts[m.src][m.seq + 1] \in Nat \ {0}
ASSUME TagsTyped == Tags \subseteq Int /\ AnyTag \notin Tags /\ AnyProc \notin Procs

VARIABLES tagOf,           \* tag_m of each message
          transit,         \* fragments still to be handed to handleReceivedFrag
          next,            \* next_expected_isendSeqs
          ahead,           \* privateQueues.AheadOfSeqRecvFrags
          okToMatch,       \* privateQueues.OkToMatchRecvFrags
          postedSpecific,  \* privateQueues.PostedSpecificRecv
          postedWild,      \* privateQueues.PostedWildRecv
          matched,         \* privateQueues.MatchedRecv
          recv,            \* the receive descriptors
          copied,          \* fragments whose data is in the buffer of a receive
          posted,          \* next_irecv_id_counter - 1
          draining,        \* the locks of p are held, to look at ahead[p]
          atEnd,           \* receive that handler will mark done once it is out, or 0
          toMark,          \* receives that a thread out of the locks will mark done
          late,            \* fragments with the receive found for them, out of the locks
          corrupted        \* number of fragments that arrived damaged so far

lists == <<postedSpecific, postedWild>>
vars == <<tagOf, transit, next, ahead, okToMatch, lists, matched, recv, copied,
          posted, draining, atEnd, toMark, late, corrupted>>

\* posted_m (peer, tag), the message recorded in isendSeq_m and reslts_m.peer_m,
\* reslts_m.tag_m (AnyTag: what the descriptor was left with) and messageDone.
Unposted == [peer |-> AnyProc, tag |-> AnyTag, msg |-> NoMsg, resTag |-> AnyTag, done |-> FALSE]

Init ==
  /\ tagOf \in [Msgs -> Tags]
  /\ transit = Frags
  /\ next = [p \in Procs |-> 0]
  /\ ahead = [p \in Procs |-> <<>>] /\ okToMatch = [p \in Procs |-> <<>>]
  /\ postedSpecific = [p \in Procs |-> <<>>] /\ postedWild = <<>>
  /\ matched = [p \in Procs |-> {}]
  /\ recv = [r \in Recvs |-> Unposted]
  /\ copied = [r \in Recvs |-> {}]
  /\ posted = 0 /\ corrupted = 0
  /\ draining = [p \in Procs |-> FALSE] /\ atEnd = [p \in Procs |-> 0]
  /\ toMark = {} /\ late = {}

-----------------------------------------------------------------------------
\* A receive for tag t takes a message with tag u: the library's own tags have
\* to be asked for by name.
Accepts_AnyTakesAll(t, u) == u = t \/ t = AnyTag
Accepts(t, u) == u = t \/ (t = AnyTag /\ u >= 0)

\* checkWildPostedRecvListForMatch, checkSpecificPostedRecvListForMatch: the first
\* receive of the list that takes tag u, with reslts_m.tag_m to be filled in.
NoMatch == [recv |-> 0, sets |-> FALSE]
FirstPosted(list, u) ==
  LET i == SelectInSeq(list, LAMBDA r : Accepts(recv[r].tag, u))
  IN IF i = 0 THEN NoMatch ELSE [recv |-> list[i], sets |-> TRUE]

\* checkSpecificAndWildPostedRecvListForMatch: walk both lists, the older receive
\* first; a specific receive found on the way does not get its tag filled in.
Older_SpecificFirst(wild, specific) == FALSE
Older(wild, specific) == wild < specific
SpecificOrWild(specific, wild, u) ==
  LET walk[i \in 1..(Len(specific) + 1), j \in 1..(Len(wild) + 1)] ==
        IF j > Len(wild) THEN FirstPosted(specific, u)
        ELSE IF i > Len(specific) THEN FirstPosted(wild, u)
        ELSE IF Older(wild[j], specific[i])
        THEN IF Accepts(recv[wild[j]].tag, u)
             THEN [recv |-> wild[j], sets |-> TRUE] ELSE walk[i, j + 1]
        ELSE IF Accepts(recv[specific[i]].tag, u)
             THEN [recv |-> specific[i], sets |-> FALSE] ELSE walk[i + 1, j]
  IN walk[1, 1]

checkPostedRecvListForMatch(m) ==
  IF postedSpecific[m.src] = <<>> THEN FirstPosted(postedWild, tagOf[m])
  ELSE IF postedWild = <<>> THEN FirstPosted(postedSpecific[m.src], tagOf[m])
  ELSE SpecificOrWild(postedSpecific[m.src], postedWild, tagOf[m])

\* Fragments of one message in a list, and the list without them.
Of_FirstOnly(list, m) ==
  LET fs == SelectSeq(list, LAMBDA f : MsgOf(f) = m)
  IN SubSeq(fs, 1, IF fs = <<>> THEN 0 ELSE 1)
Of(list, m) == SelectSeq(list, LAMBDA f : MsgOf(f) = m)
Without(list, m) == SelectSeq(list, LAMBDA f : MsgOf(f) # m)

\* CopyToApp for the fragments fs: the damaged ones are refused, to be sent again.
Damaged(fs) == {bad \in SUBSET fs : corrupted + Cardinality(bad) <= MaxCorrupt}
Copy(r, fs, bad, others) ==
  /\ copied' = [copied EXCEPT ![r] = @ \union (fs \ bad)]
  /\ transit' = others \union bad
  /\ corrupted' = corrupted + Cardinality(bad)
Complete_AnyData(r, m, fs) == copied[r] \union fs # {}
Complete(r, m, fs) == copied[r] \union fs = FragsOf(m)

\* A posted receive c.recv is found for message m, of which the fragments fs are here.
MatchPosted(c, m, fs, bad, others) ==
  LET all == Complete(c.recv, m, fs \ bad) IN
  /\ postedSpecific' = [postedSpecific EXCEPT
       ![m.src] = SelectSeq(@, LAMBDA r : r # c.recv)]
  /\ postedWild' = SelectSeq(postedWild, LAMBDA r : r # c.recv)
  /\ matched' = [matched EXCEPT ![m.src] = IF all THEN @ ELSE @ \union {c.recv}]
  /\ Copy(c.recv, fs, bad, others)
Found(c, m) == [recv[c.recv] EXCEPT !.msg = m, !.resTag = IF c.sets THEN tagOf[m] ELSE @]

\* The sequence number expected from a source once message n was handled.
Expect(n) == n + 1

-----------------------------------------------------------------------------
\* handleReceivedFrag, the next expected message: match it, or keep it for a
\* receive to come; then, still holding the locks, look at what was ahead of it.
HandleExpected(f) ==
  LET p == f.src
      m == MsgOf(f)
      c == checkPostedRecvListForMatch(m)
      fs == {f} \union ToSet(Of(okToMatch[p], m))
      drains == ahead[p] # <<>>
  IN
  /\ f \in transit /\ ~draining[p] /\ f.seq = next[p]
  /\ next' = [next EXCEPT ![p] = Expect(@)]
  /\ draining' = [draining EXCEPT ![p] = drains]
  /\ IF c.recv = 0
     THEN /\ okToMatch' = [okToMatch EXCEPT ![p] = Append(@, f)]
          /\ transit' = transit \ {f}
          /\ UNCHANGED <<lists, matched, recv, copied, corrupted, atEnd, toMark>>
     ELSE \E bad \in Damaged(fs) :
          LET all == Complete(c.recv, m, fs \ bad) IN
          /\ MatchPosted(c, m, fs, bad, transit \ {f})
          /\ recv' = [recv EXCEPT ![c.recv] = Found(c, m)]
          /\ okToMatch' = [okToMatch EXCEPT ![p] = Without(@, m)]
          /\ atEnd' = [atEnd EXCEPT ![p] = IF all /\ drains THEN c.recv ELSE 0]
          /\ toMark' = IF all /\ ~drains THEN toMark \union {c.recv} ELSE toMark
  /\ UNCHANGED <<tagOf, ahead, posted, late>>

\* One round of matchFragsInAheadOfSequenceList: all fragments of the message that
\* is expected now.  A receive that is complete is marked done at once.
DrainAhead(p) ==
  LET m == [src |-> p, seq |-> next[p]]
      c == checkPostedRecvListForMatch(m)
      fs == ToSet(Of(ahead[p], m))
  IN
  /\ draining[p] /\ fs # {}
  /\ next' = [next EXCEPT ![p] = Expect(@)]
  /\ ahead' = [ahead EXCEPT ![p] = Without(@, m)]
  /\ IF c.recv = 0
     THEN /\ okToMatch' = [okToMatch EXCEPT ![p] = @ \o Of(ahead[p], m)]
          /\ UNCHANGED <<transit, lists, matched, recv, copied, corrupted>>
     ELSE \E bad \in Damaged(fs) :
          /\ MatchPosted(c, m, fs, bad, transit)
          /\ recv' = [recv EXCEPT
               ![c.recv] = [Found(c, m) EXCEPT !.done = Complete(c.recv, m, fs \ bad)]]
          /\ UNCHANGED okToMatch
  /\ UNCHANGED <<tagOf, posted, draining, atEnd, toMark, late>>

\* Nothing more can be matched: the locks are released.
EndDrain(p) ==
  /\ draining[p] /\ Of(ahead[p], [src |-> p, seq |-> next[p]]) = <<>>
  /\ draining' = [draining EXCEPT ![p] = FALSE]
  /\ toMark' = toMark \union ({atEnd[p]} \ {0})
  /\ atEnd' = [atEnd EXCEPT ![p] = 0]
  /\ UNCHANGED <<tagOf, transit, next, ahead, okToMatch, lists, matched, recv,
                 copied, posted, late, corrupted>>

\* The matched receives whose message f belongs to.
isThisMissingFrag_Never(f) == {}
isThisMissingFrag(f) == {r \in matched[f.src] : recv[r].msg = MsgOf(f)}

\* handleReceivedFrag, a fragment of an earlier message: it belongs to a matched
\* receive, or no receive has taken the message yet.
HandleEarlier(f) ==
  LET p == f.src
      rs == isThisMissingFrag(f)
  IN
  /\ f \in transit /\ ~draining[p] /\ f.seq < next[p]
  /\ transit' = transit \ {f}
  /\ IF rs = {}
     THEN okToMatch' = [okToMatch EXCEPT ![p] = Append(@, f)] /\ UNCHANGED late
     ELSE late' = late \union {[frag |-> f, recv |-> Min(rs)]} /\ UNCHANGED okToMatch
  /\ UNCHANGED <<tagOf, next, ahead, lists, matched, recv, copied, posted,
                 draining, atEnd, toMark, corrupted>>

\* ProcessMatchedData for that fragment, after the locks were released.
ProcessLate(l) ==
  LET m == MsgOf(l.frag) IN
  /\ l \in late
  /\ late' = late \ {l}
  /\ \E bad \in Damaged({l.frag}) :
       /\ Copy(l.recv, {l.frag}, bad, transit)
       /\ IF Complete(l.recv, m, {l.frag} \ bad)
          THEN /\ matched' = [matched EXCEPT ![m.src] = @ \ {l.recv}]
               /\ toMark' = toMark \union {l.recv}
          ELSE UNCHANGED <<matched, toMark>>
  /\ UNCHANGED <<tagOf, next, ahead, okToMatch, lists, recv, posted, draining, atEnd>>

\* handleReceivedFrag, a later message: kept until its turn comes.
HandleAhead(f) ==
  /\ f \in transit /\ ~draining[f.src] /\ f.seq > next[f.src]
  /\ transit' = transit \ {f}
  /\ ahead' = [ahead EXCEPT ![f.src] = Append(@, f)]
  /\ UNCHANGED <<tagOf, next, okToMatch, lists, matched, recv, copied, posted,
                 draining, atEnd, toMark, late, corrupted>>

\* A thread that is out of the locks marks its receive as done.
MarkDone(r) ==
  /\ r \in toMark
  /\ toMark' = toMark \ {r}
  /\ recv' = [recv EXCEPT ![r].done = TRUE]
  /\ UNCHANGED <<tagOf, transit, next, ahead, okToMatch, lists, matched, copied,
                 posted, draining, atEnd, late, corrupted>>

-----------------------------------------------------------------------------
\* The first fragment of list that a receive for tag t takes, or 0.
FirstArrived_Last(list, t) ==
  SelectLastInSubSeq(list, 1, Len(list), LAMBDA f : Accepts(t, tagOf[MsgOf(f)]))
FirstArrived(list, t) == SelectInSeq(list, LAMBDA f : Accepts(t, tagOf[MsgOf(f)]))

\* checkFragListsForWildMatch, checkFragListsForSpecificMatch: the message a new
\* receive takes, from the lowest source that has one.
Candidates(peer, t) ==
  {p \in IF peer = AnyProc THEN Procs ELSE {peer} : FirstArrived(okToMatch[p], t) # 0}
ArrivedMatch(peer, t) ==
  LET ps == Candidates(peer, t) IN
  IF ps = {} THEN NoMsg
  ELSE MsgOf(okToMatch[Min(ps)][FirstArrived(okToMatch[Min(ps)], t)])

\* irecv_start: a wild receive holds the receive locks of every source.
irecv_start(peer, t) ==
  LET r == posted + 1
      m == ArrivedMatch(peer, t)
      new == [Unposted EXCEPT !.peer = peer, !.tag = t]
  IN
  /\ posted < MaxRecvs
  /\ \A p \in Procs : peer \in {p, AnyProc} => ~draining[p]
  /\ posted' = r
  /\ IF m = NoMsg
     THEN /\ recv' = [recv EXCEPT ![r] = new]
          /\ IF peer = AnyProc
             THEN postedWild' = Append(postedWild, r) /\ UNCHANGED postedSpecific
             ELSE /\ postedSpecific' = [postedSpecific EXCEPT ![peer] = Append(@, r)]
                  /\ UNCHANGED postedWild
          /\ UNCHANGED <<transit, okToMatch, matched, copied, corrupted>>
     ELSE LET fs == ToSet(Of(okToMatch[m.src], m)) IN
          \E bad \in Damaged(fs) :
          LET all == Complete(r, m, fs \ bad) IN
          /\ Copy(r, fs, bad, transit)
          /\ okToMatch' = [okToMatch EXCEPT ![m.src] = Without(@, m)]
          /\ recv' = [recv EXCEPT ![r] = [new EXCEPT !.msg = m, !.resTag = tagOf[m], !.done = all]]
          /\ matched' = [matched EXCEPT ![m.src] = IF all THEN @ ELSE @ \union {r}]
          /\ UNCHANGED lists
  /\ UNCHANGED <<tagOf, next, ahead, draining, atEnd, toMark, late>>

Progress ==
  \/ \E f \in transit : HandleExpected(f) \/ HandleEarlier(f) \/ HandleAhead(f)
  \/ \E p \in Procs : DrainAhead(p) \/ EndDrain(p)
  \/ \E l \in late : ProcessLate(l)
  \/ \E r \in toMark : MarkDone(r)
Post == \E peer \in Procs \union {AnyProc}, t \in Tags \union {AnyTag} : irecv_start(peer, t)

Next == Progress \/ Post
Spec == Init /\ [][Next]_vars

\* A thread that waits for a receive drives the library (ulm_wait calls
\* ulm_make_progress until messageDone is set).
Fairness == WF_vars(Progress)
FairSpec == Spec /\ Fairness

-----------------------------------------------------------------------------
\* Communicator::iprobe: the message it reports.  Its loops are written out for
\* each kind of source and of tag; a probe for any tag skips the library's own, and
\* one for a given source and tag asserts that the tag is not one of them.
MayProbe(source, t) == (source # AnyProc /\ t # AnyTag) => t >= 0
iprobe(source, t) ==
  LET hit == [p \in Procs |->
        IF t = AnyTag THEN SelectInSeq(okToMatch[p], LAMBDA f : tagOf[MsgOf(f)] >= 0)
        ELSE SelectInSeq(okToMatch[p], LAMBDA f : tagOf[MsgOf(f)] = t)]
      ps == {p \in Procs : source \in {p, AnyProc} /\ hit[p] # 0}
  IN IF ps = {} THEN NoMsg ELSE MsgOf(okToMatch[Min(ps)][hit[Min(ps)]])

-----------------------------------------------------------------------------
Matched(r) == recv[r].msg # NoMsg
Taken == {recv[r].msg : r \in Recvs} \ {NoMsg}
\* Receive r, as it was posted, may take message m.
Fits(r, m) == recv[r].peer \in {m.src, AnyProc} /\ Accepts(recv[r].tag, tagOf[m])
Waiting == ToSet(postedWild) \union UNION {ToSet(postedSpecific[p]) : p \in Procs}

\* Messages do not overtake each other: when a receive has taken a message, every
\* earlier message of that source that it could have taken is taken too, although
\* fragments arrive in any order and a damaged one comes again later.
NonOvertaking ==
  \A r \in Recvs : Matched(r) =>
    \A m \in Msgs : m.src = recv[r].msg.src /\ m.seq < recv[r].msg.seq /\ Fits(r, m)
                    => m \in Taken

\* Receives are served in the order they were posted, specific and wild ones
\* together: when a message went to a receive, no older one that fits is waiting.
OldestReceiveFirst ==
  \A r \in Recvs : Matched(r) =>
    \A q \in 1..(r - 1) : Fits(q, recv[r].msg) => Matched(q)

\* No fragment is left on the list of unmatched ones while a posted receive fits it
\* or after its message was matched: nothing would look at it again.
NothingStranded ==
  \A p \in Procs : \A f \in ToSet(okToMatch[p]) :
    MsgOf(f) \notin Taken /\ \A r \in Waiting : ~Fits(r, MsgOf(f))

\* Each fragment is in one place: not yet handled, on one list, in the hands of a
\* thread, or in the buffer of the one receive its message was matched with.
FragmentsConserved ==
  /\ \A f \in Frags :
       Cardinality({x \in {1} : f \in transit})
       + Quantify(Procs, LAMBDA p : f \in ToSet(ahead[p]))
       + Quantify(Procs, LAMBDA p : f \in ToSet(okToMatch[p]))
       + Quantify(late, LAMBDA l : l.frag = f)
       + Quantify(Recvs, LAMBDA r : f \in copied[r]) = 1
  /\ \A r \in Recvs :
       /\ copied[r] # {} => Matched(r) /\ copied[r] \subseteq FragsOf(recv[r].msg)
       /\ \A q \in Recvs \ {r} : Matched(r) => recv[q].msg # recv[r].msg

\* A receive is reported as done only with all the data of its message, and one that
\* was found for a late fragment is still open when the thread gets to use it, after
\* it released the locks.  A receive that is done reports the tag of its message
\* (Pt2PtGroupMatchFrags.cc:588, "fill in received data information"), except where
\* line 591 leaves it out: one for a given source that was taken while a wild one was
\* posted.
DoneIsComplete ==
  /\ \A r \in Recvs : recv[r].done =>
       /\ copied[r] = FragsOf(recv[r].msg)
       /\ \/ recv[r].resTag = tagOf[recv[r].msg]
          \/ recv[r].peer # AnyProc /\ \E w \in 1..posted : recv[w].peer = AnyProc
  /\ \A l \in late : l.recv \in matched[l.frag.src] /\ ~recv[l.recv].done

\* A receive posted right after a probe with the same arguments takes the message
\* that the probe reported (Communicator::iprobe, irecv_start).
ProbeFindsReceived ==
  [][LET new == recv'[posted'] IN
       posted' = posted + 1 /\ MayProbe(new.peer, new.tag)
         => new.msg = iprobe(new.peer, new.tag)]_vars

\* A receive that was matched completes, as long as damaged fragments are sent again
\* (ProcessMatchedData, isThisMissingFrag).  A receive stays matched, and there are
\* finitely many, so again and again all the matched ones are done.
MatchedCompletes == []<>(\A r \in Recvs : Matched(r) => recv[r].done)
=============================================================================
