------------------------------ MODULE SharedMem ------------------------------
(***************************************************************************)
(* The shared-memory path (path/sharedmem) between a sending and a         *)
(* receiving process of one host.  The first fragment of a message is      *)
(* passed through a circular buffer, before its data is there; the others  *)
(* wait at the send descriptor until the receiver has told it which        *)
(* receive was matched, and go straight to the receiver from then on.      *)
(* Everything the two processes exchange is in memory that both write.     *)
(*                                                                         *)
(* The application of the sender sends Messages in order, one call after   *)
(* the other, while its progress loop works on what was left over.  The    *)
(* receiver has one thread or several; one of them posts the receives.     *)
(* A step is what runs without looking at what others may change.  A       *)
(* fragment has one unit of data, so a message of length n has n of them,  *)
(* and an empty message has one.                                           *)
(***************************************************************************)
EXTENDS CbQueue, SequencesExt, FiniteSets

CONSTANTS Messages,        \* the messages: [len, tag, sync]
          FragDescs,       \* SMPFragPool
          MaxOutstanding,  \* maxOutstandingSMPFrags
          Threads,         \* the threads of the receiver that make progress
          Poster,          \* the one that also posts receives
          Receives,        \* the receives that may be posted: [wild, tag, len]
          MaxRecvs,        \* bound on their number
          AnyTag

Msgs == 1..Len(Messages)
Recvs == 1..MaxRecvs
Descs == Items

ASSUME SmpTyped ==
    /\ \A m \in Msgs : Messages[m].len \in Nat /\ Messages[m].sync \in BOOLEAN
    /\ MaxOutstanding \in Nat \ {0} /\ Poster \in Threads

VARIABLES next,          \* the next message to be sent
          app,           \* the sending call under way: where it is, its descriptor
          sendsToPost,   \* SMPSendsToPost
          pushing,       \* push: the slot taken, for which descriptor
          desc,          \* SendDesc_t, private to the sender
          shared,        \* sharedMemData_t of the descriptor and its first fragment
          frag,          \* SMPSecondFragDesc_t
          pool,          \* the fragment descriptors not handed out
          cache,         \* sendDescCache
          recv,          \* RecvDesc_t
          copied,        \* what was copied to the buffer of a receive
          posted,        \* number of receives posted
          specific,      \* PostedSpecificRecv
          wild,          \* PostedWildRecv
          okToMatch,     \* OkToMatchSMPFrags
          firstFrags,    \* matched first fragments without their data
          matchedFrags,  \* SMPMatchedFrags
          th             \* the threads of the receiver

senderVars == <<next, app, sendsToPost, pushing, desc, pool, cache>>
receiverVars == <<recv, copied, posted, specific, wild, okToMatch, firstFrags, th>>
smpVars == <<cbVars, senderVars, shared, frag, matchedFrags, receiverVars>>

NumFrags(m) == IF Messages[m].len = 0 THEN 1 ELSE Messages[m].len
Idle == [pc |-> "idle", d |-> 0, r |-> 0, f |-> 0, n |-> 0]
At(t, pc) == th[t].pc = pc

\* A pool hands out its elements in some fixed order.
NextOf(S) == CHOOSE x \in S : TRUE

\* clearToSend_m of a descriptor new from its pool was never set.
SmpInit ==
    /\ CbInit
    /\ next = 1 /\ app = [pc |-> "idle", d |-> 0]
    /\ sendsToPost = <<>> /\ pushing = <<>>
    /\ desc = [d \in Descs |-> [msg |-> 0, alloc |-> 0, sent |-> 0, done |-> FALSE,
                                freed |-> FALSE, on |-> "pool"]]
    /\ \E clear \in BOOLEAN :
        shared = [d \in Descs |-> [recv |-> 0, acked |-> 0, clear |-> clear, ok |-> FALSE,
                                   data |-> 0, ready |-> <<>>, free |-> <<>>]]
    /\ frag = [f \in FragDescs |-> [msg |-> 0, idx |-> 0, owner |-> 0, recv |-> 0]]
    /\ pool = FragDescs /\ cache = <<>>
    /\ recv = [r \in Recvs |-> [wild |-> FALSE, tag |-> AnyTag, len |-> 0,
                                msg |-> 0, got |-> 0, done |-> FALSE]]
    /\ copied = [r \in Recvs |-> {}]
    /\ posted = 0 /\ specific = <<>> /\ wild = <<>>
    /\ okToMatch = <<>> /\ firstFrags = {} /\ matchedFrags = <<>>
    /\ th = [t \in Threads |-> Idle]

-----------------------------------------------------------------------------
(* The sending process.                                                     *)

\* isend_start: ulm_bind_pt2pt_message takes a descriptor from the cache or a new
\* one, and init fills in what nobody else can see yet.  Sends that are waiting
\* for room in the buffer must stay ahead of this one.
\* Mutants: sends that wait are overtaken; the flag of the last use is kept.
WhereToPost_Direct == "post"
WhereToPost == IF sendsToPost = <<>> THEN "post" ELSE "append"
Fresh_KeepsOk(s) == [s EXCEPT !.recv = 0, !.acked = 0]
Fresh(s) == [s EXCEPT !.recv = 0, !.acked = 0, !.ok = FALSE]
Isend(d) ==
    /\ app.pc = "idle" /\ next \in Msgs
    /\ \E e \in Descs : desc[e].on \in {"pool", "cache"}
    /\ IF cache # <<>> THEN d = Last(cache) /\ cache' = Front(cache)
                       ELSE d = NextOf({e \in Descs : desc[e].on = "pool"}) /\ cache' = cache
    /\ desc' = [desc EXCEPT ![d] = [msg |-> next, alloc |-> 1, sent |-> 0,
                                    done |-> FALSE, freed |-> FALSE, on |-> "none"]]
    /\ shared' = [shared EXCEPT ![d] = Fresh(@)]
    /\ app' = [pc |-> WhereToPost, d |-> d]
    /\ next' = next + 1
    /\ UNCHANGED <<cbVars, sendsToPost, pushing, pool, frag, matchedFrags, receiverVars>>

AfterPost(d) == IF Messages[desc[d].msg].len = 0 THEN "last" ELSE "copy"

PostFirst ==
    /\ app.pc = "post"
    /\ \/ /\ writeToHead(app.d)
          /\ app' = [app EXCEPT !.pc = AfterPost(app.d)]
       \/ /\ ~HeadIsFree
          /\ app' = [app EXCEPT !.pc = "append"]
          /\ UNCHANGED cbVars
    /\ UNCHANGED <<next, sendsToPost, pushing, desc, pool, cache, shared, frag,
                   matchedFrags, receiverVars>>

\* The list is locked by push while that has a slot to fill.
AppendFirst ==
    /\ app.pc = "append" /\ pushing = <<>>
    /\ sendsToPost' = Append(sendsToPost, app.d)
    /\ app' = [app EXCEPT !.pc = AfterPost(app.d)]
    /\ UNCHANGED <<cbVars, next, pushing, desc, pool, cache, shared, frag,
                   matchedFrags, receiverVars>>

\* The data is copied after the fragment was posted, then the receiver may read it.
CopyFirst ==
    /\ app.pc = "copy"
    /\ shared' = [shared EXCEPT ![app.d].data = desc[app.d].msg]
    /\ app' = [app EXCEPT !.pc = "last"]
    /\ UNCHANGED <<cbVars, next, sendsToPost, pushing, desc, pool, cache, frag,
                   matchedFrags, receiverVars>>

AllowRead ==
    /\ app.pc = "last"
    /\ shared' = [shared EXCEPT ![app.d].ok = (Messages[desc[app.d].msg].len # 0)]
    /\ desc' = [desc EXCEPT ![app.d].sent = 1]
    /\ app' = [app EXCEPT !.pc = "send"]
    /\ UNCHANGED <<cbVars, next, sendsToPost, pushing, pool, cache, frag,
                   matchedFrags, receiverVars>>

\* The loop of sharedmemPath::send, one fragment a step.  clearToSend_m is set
\* again in each round, except for a synchronous send before its first ack.
Throttled(d) == desc[d].alloc - shared[d].acked >= MaxOutstanding
\* Mutant: a message that was held back is not let go again.
ClearToSend_Latched(d) == ~Throttled(d) /\ shared[d].clear
ClearToSend(d) ==
    IF Throttled(d) THEN FALSE
    ELSE IF Messages[desc[d].msg].sync /\ shared[d].acked = 0 THEN shared[d].clear
    ELSE TRUE
\* A pool that is empty for the moment ends the round.  One that may not grow any
\* more is an error that send returns and the call fails with; that is left out.
More(d) == desc[d].alloc < NumFrags(desc[d].msg)
MaySend(d) == More(d) /\ ClearToSend(d) /\ (shared[d].free # <<>> \/ pool # {})

\* Where the fragment goes is decided under the lock of fragsReadyToSend; what is read
\* before that (NumAcked, freeFrags) the receiver only changes in favour of sending.
SendFrag(d) ==
    /\ MaySend(d)
    /\ \E f \in IF shared[d].free # <<>> THEN {Last(shared[d].free)} ELSE {NextOf(pool)} :
        LET here == shared[d].free # <<>>
            r == shared[d].recv
        IN
        /\ frag' = [frag EXCEPT ![f] = [msg |-> desc[d].msg, idx |-> desc[d].alloc + 1,
                                        owner |-> d, recv |-> r]]
        /\ shared' = [shared EXCEPT
             ![d].clear = TRUE,
             ![d].free = IF here THEN Front(@) ELSE @,
             ![d].ready = IF r = 0 THEN Append(@, f) ELSE @]
        /\ matchedFrags' = IF r = 0 THEN matchedFrags ELSE Append(matchedFrags, f)
        /\ pool' = IF here THEN pool ELSE pool \ {f}
    /\ desc' = [desc EXCEPT ![d].alloc = @ + 1, ![d].sent = @ + 1]
    /\ UNCHANGED <<cbVars, next, app, sendsToPost, pushing, cache, receiverVars>>

\* The end of send: a message all of which is in shared memory is done, unless it
\* is synchronous.
AllSent(d) == desc[d].sent = NumFrags(desc[d].msg)
DoneBySend(d) == desc[d].done \/ (AllSent(d) /\ ~Messages[desc[d].msg].sync)
StopSend(d, on) ==
    /\ ~MaySend(d)
    /\ desc' = [desc EXCEPT ![d].done = DoneBySend(d), ![d].on = on]
    /\ shared' = [shared EXCEPT ![d].clear = IF More(d) THEN ClearToSend(d) ELSE @]

AppSend ==
    /\ app.pc = "send"
    /\ \/ SendFrag(app.d)
       \/ /\ StopSend(app.d, IF AllSent(app.d) THEN "unacked" ELSE "incomplete")
          /\ app' = [pc |-> "idle", d |-> 0]
          /\ UNCHANGED <<cbVars, next, sendsToPost, pushing, pool, cache, frag,
                         matchedFrags, receiverVars>>

\* ReturnDesc, for a message that was acknowledged and freed.
GiveBack(d, new) ==
    /\ desc' = [desc EXCEPT ![d] = IF new.freed THEN [new EXCEPT !.on = "cache"] ELSE new]
    /\ cache' = IF new.freed THEN Append(cache, d) ELSE cache

\* Mutant: one ack is enough.
AllAcked_First(d) == shared[d].acked >= 1 /\ AllSent(d)
AllAcked(d) == shared[d].acked >= NumFrags(desc[d].msg) /\ AllSent(d)

\* push_frags_into_network for one message.
Progress(d) ==
    /\ desc[d].on = "incomplete"
    /\ \/ SendFrag(d)
       \/ /\ AllSent(d) /\ ~AllAcked(d)
          /\ StopSend(d, "unacked")
          /\ UNCHANGED <<cbVars, next, app, sendsToPost, pushing, pool, cache, frag,
                         matchedFrags, receiverVars>>
       \/ /\ AllSent(d) /\ AllAcked(d)
          /\ GiveBack(d, [desc[d] EXCEPT !.done = TRUE, !.on = "off"])
          /\ UNCHANGED <<cbVars, next, app, sendsToPost, pushing, pool, shared, frag,
                         matchedFrags, receiverVars>>
       \/ /\ ~AllSent(d)
          /\ StopSend(d, "incomplete")
          /\ UNCHANGED <<cbVars, next, app, sendsToPost, pushing, pool, cache, frag,
                         matchedFrags, receiverVars>>

\* CheckForAckedMessages for one message.
CheckAcked(d) ==
    /\ desc[d].on = "unacked" /\ AllAcked(d)
    /\ GiveBack(d, [desc[d] EXCEPT !.done = TRUE])
    /\ UNCHANGED <<cbVars, next, app, sendsToPost, pushing, pool, shared, frag,
                   matchedFrags, receiverVars>>

\* ulm_request_free, at any time after the send was started, or by ulm_wait.
FreeSend(d) ==
    /\ desc[d].on \in {"incomplete", "unacked", "off"} /\ ~desc[d].freed
    /\ desc' = [desc EXCEPT ![d].freed = TRUE]
    /\ UNCHANGED <<cbVars, next, app, sendsToPost, pushing, pool, cache, shared, frag,
                   matchedFrags, receiverVars>>

\* push: take a slot for the first send that waits, then fill it in.
Push ==
    /\ pushing = <<>> /\ sendsToPost # <<>>
    /\ getSlot
    /\ pushing' = <<headIndex, Head(sendsToPost)>>
    /\ sendsToPost' = Tail(sendsToPost)
    /\ UNCHANGED <<next, app, desc, pool, cache, shared, frag, matchedFrags, receiverVars>>

FillSlot ==
    /\ pushing # <<>>
    /\ writeToSlot(pushing[1], pushing[2])
    /\ pushing' = <<>>
    /\ UNCHANGED <<next, app, sendsToPost, desc, pool, cache, shared, frag, matchedFrags,
                   receiverVars>>

-----------------------------------------------------------------------------
(* The receiving process.                                                   *)

TagOf(d) == Messages[desc[d].msg].tag
LenOf(d) == Messages[desc[d].msg].len

\* Negative tags are the library's own: a receive has to ask for them by name.
Accepts(t, u) == u = t \/ (t = AnyTag /\ u >= 0)

\* checkSMPSpecificRecvListForMatch, checkSMPWildRecvListForMatch: the first
\* receive on a list that takes tag u, or 0.
FirstPosted(list, u) ==
    LET i == SelectInSeq(list, LAMBDA r : Accepts(recv[r].tag, u))
    IN IF i = 0 THEN 0 ELSE list[i]

\* checkSMPSpecificAndWildRecvListForMatch: walk both lists, the older one first.
Older(w, s) == w < s
SpecificOrWild(u) ==
    LET walk[i \in 1..(Len(specific) + 1), j \in 1..(Len(wild) + 1)] ==
          IF j > Len(wild) THEN FirstPosted(specific, u)
          ELSE IF i > Len(specific) THEN FirstPosted(wild, u)
          ELSE IF Older(wild[j], specific[i])
          THEN IF Accepts(recv[wild[j]].tag, u) THEN wild[j] ELSE walk[i, j + 1]
          ELSE IF Accepts(recv[specific[i]].tag, u) THEN specific[i] ELSE walk[i + 1, j]
    IN walk[1, 1]

checkSMPRecvListForMatch(u) ==
    IF specific = <<>> THEN FirstPosted(wild, u)
    ELSE IF wild = <<>> THEN FirstPosted(specific, u)
    ELSE SpecificOrWild(u)

\* recvLock of the source is held from the search to the end of processMatch, and
\* with it the lock of the receive that was found.
Holding == {"first", "tell", "cts", "drain", "ack"}
RecvLocked == \E t \in Threads : th[t].pc \in Holding
DescLocked(r) == \E t \in Threads : th[t].pc \in Holding /\ th[t].r = r

\* SMPCopyToApp: what does not fit is dropped, and counted all the same.
Copy(r, m, i) ==
    copied' = [copied EXCEPT ![r] = IF i <= recv[r].len THEN @ \union {<<m, i>>} ELSE @]
Counted(r) == [recv[r] EXCEPT !.got = @ + 1]
Complete(new, d) == new.got >= LenOf(d)

\* irecv_start: a fragment that waits on OkToMatchSMPFrags, or the receive is posted.
PostRecv(k) ==
    LET r == posted + 1
        i == SelectInSeq(okToMatch, LAMBDA d : Accepts(k.tag, TagOf(d)))
    IN
    /\ At(Poster, "idle") /\ r \in Recvs /\ ~RecvLocked
    /\ posted' = r
    /\ recv' = [recv EXCEPT ![r] = [wild |-> k.wild, tag |-> k.tag, len |-> k.len,
                                    msg |-> IF i = 0 THEN 0 ELSE desc[okToMatch[i]].msg,
                                    got |-> 0, done |-> FALSE]]
    /\ IF i = 0
       THEN /\ specific' = IF k.wild THEN specific ELSE Append(specific, r)
            /\ wild' = IF k.wild THEN Append(wild, r) ELSE wild
            /\ UNCHANGED <<okToMatch, th>>
       ELSE /\ okToMatch' = RemoveAt(okToMatch, i)
            /\ th' = [th EXCEPT ![Poster] = [Idle EXCEPT !.pc = "first", !.r = r,
                                                         !.d = okToMatch[i]]]
            /\ UNCHANGED <<specific, wild>>
    /\ UNCHANGED <<cbVars, senderVars, shared, frag, matchedFrags, copied, firstFrags>>

\* receive: take a first fragment out of the buffer.  The thread that has to clear
\* slots does so before it goes on.
ReadBuffer(t) ==
    /\ At(t, "idle")
    /\ \E d \in Descs :
        /\ readFromTail(d)
        /\ th' = [th EXCEPT ![t] = [Idle EXCEPT !.pc = IF clearing' THEN "clear" ELSE "match",
                                                !.d = d]]
    /\ UNCHANGED <<senderVars, shared, frag, matchedFrags, recv, copied, posted, specific,
                   wild, okToMatch, firstFrags>>

ClearBuffer(t) ==
    /\ At(t, "clear")
    /\ ClearSlot
    /\ th' = [th EXCEPT ![t].pc = IF clearing' THEN "clear" ELSE "match"]
    /\ UNCHANGED <<senderVars, shared, frag, matchedFrags, recv, copied, posted, specific,
                   wild, okToMatch, firstFrags>>

Match(t) ==
    LET d == th[t].d
        r == checkSMPRecvListForMatch(TagOf(d))
    IN
    /\ At(t, "match") /\ ~RecvLocked
    /\ IF r = 0
       THEN /\ okToMatch' = Append(okToMatch, d)
            /\ th' = [th EXCEPT ![t] = Idle]
            /\ UNCHANGED <<specific, wild, recv>>
       ELSE /\ specific' = Remove(specific, r)
            /\ wild' = Remove(wild, r)
            /\ recv' = [recv EXCEPT ![r].msg = desc[d].msg]
            /\ th' = [th EXCEPT ![t].pc = "first", ![t].r = r]
            /\ UNCHANGED okToMatch
    /\ UNCHANGED <<cbVars, senderVars, shared, frag, matchedFrags, copied, posted, firstFrags>>

\* processMatch, the first fragment: an empty message is done; data that is there
\* is copied, and otherwise the fragment is put aside.
MatchFirst(t) ==
    LET d == th[t].d
        r == th[t].r
    IN
    /\ At(t, "first")
    /\ \/ /\ LenOf(d) = 0
          /\ recv' = [recv EXCEPT ![r].done = TRUE]
          /\ shared' = [shared EXCEPT ![d].acked = 1]
          /\ th' = [th EXCEPT ![t] = Idle]
          /\ UNCHANGED <<copied, firstFrags>>
       \/ /\ LenOf(d) # 0 /\ shared[d].ok
          /\ Copy(r, shared[d].data, 1)
          /\ recv' = [recv EXCEPT ![r] = Counted(r)]
          /\ th' = [th EXCEPT ![t].pc = "tell", ![t].n = 1]
          /\ UNCHANGED <<shared, firstFrags>>
       \/ /\ LenOf(d) # 0 /\ ~shared[d].ok
          /\ firstFrags' = firstFrags \union {<<d, r>>}
          /\ th' = [th EXCEPT ![t].pc = "tell"]
          /\ UNCHANGED <<shared, recv, copied>>
    /\ UNCHANGED <<cbVars, senderVars, frag, matchedFrags, posted, specific, wild, okToMatch>>

\* ... the sender is told, under the lock of its list, where its other fragments are
\* to go ...
TellSender(t) ==
    /\ At(t, "tell")
    /\ shared' = [shared EXCEPT ![th[t].d].recv = th[t].r]
    /\ th' = [th EXCEPT ![t].pc = "cts"]
    /\ UNCHANGED <<cbVars, senderVars, frag, matchedFrags, recv, copied, posted, specific,
                   wild, okToMatch, firstFrags>>

\* ... and, after that lock is released, that it may send them ...
LetSend(t) ==
    /\ At(t, "cts")
    /\ shared' = [shared EXCEPT ![th[t].d].clear = TRUE]
    /\ th' = [th EXCEPT ![t].pc = "drain"]
    /\ UNCHANGED <<cbVars, senderVars, frag, matchedFrags, recv, copied, posted, specific,
                   wild, okToMatch, firstFrags>>

\* ... those that waited for this are copied ...
DrainReady(t) ==
    LET d == th[t].d
        f == Head(shared[d].ready)
    IN
    /\ At(t, "drain") /\ shared[d].ready # <<>>
    /\ Copy(th[t].r, frag[f].msg, frag[f].idx)
    /\ recv' = [recv EXCEPT ![th[t].r] = Counted(th[t].r)]
    /\ shared' = [shared EXCEPT ![d].ready = Tail(@), ![d].free = Append(@, f)]
    /\ th' = [th EXCEPT ![t].n = @ + 1]
    /\ UNCHANGED <<cbVars, senderVars, frag, matchedFrags, posted, specific, wild, okToMatch,
                   firstFrags>>

\* ... and the receive is done, or stays on the list of matched receives.
FinishMatch(t) ==
    /\ At(t, "drain") /\ shared[th[t].d].ready = <<>>
    /\ recv' = [recv EXCEPT ![th[t].r].done = Complete(recv[th[t].r], th[t].d)]
    /\ th' = [th EXCEPT ![t].pc = "ack"]
    /\ UNCHANGED <<cbVars, senderVars, shared, frag, matchedFrags, copied, posted, specific,
                   wild, okToMatch, firstFrags>>

\* fetchNadd on NumAcked: from here on the sender may use the descriptor again.
Ack(t) ==
    /\ At(t, "ack") \/ At(t, "ackone")
    /\ shared' = [shared EXCEPT ![th[t].d].acked = @ + th[t].n]
    /\ th' = [th EXCEPT ![t] = Idle]
    /\ UNCHANGED <<cbVars, senderVars, frag, matchedFrags, recv, copied, posted, specific,
                   wild, okToMatch, firstFrags>>

\* A fragment for a receive that is already matched.
TakeMatched(t) ==
    LET f == Head(matchedFrags) IN
    /\ At(t, "idle") /\ matchedFrags # <<>>
    /\ matchedFrags' = Tail(matchedFrags)
    /\ th' = [th EXCEPT ![t] = [Idle EXCEPT !.pc = "late", !.f = f, !.r = frag[f].recv,
                                            !.d = frag[f].owner]]
    /\ UNCHANGED <<cbVars, senderVars, shared, frag, recv, copied, posted, specific, wild,
                   okToMatch, firstFrags>>

CopyMatched(t) ==
    LET r == th[t].r IN
    /\ At(t, "late") /\ ~DescLocked(r)
    /\ Copy(r, frag[th[t].f].msg, frag[th[t].f].idx)
    /\ recv' = [recv EXCEPT ![r] = [Counted(r) EXCEPT !.done = Complete(Counted(r), th[t].d)]]
    /\ th' = [th EXCEPT ![t].pc = "return"]
    /\ UNCHANGED <<cbVars, senderVars, shared, frag, matchedFrags, posted, specific, wild,
                   okToMatch, firstFrags>>

ReturnFrag(t) ==
    /\ At(t, "return")
    /\ shared' = [shared EXCEPT ![th[t].d].free = Append(@, th[t].f)]
    /\ th' = [th EXCEPT ![t].pc = "ackone", ![t].n = 1]
    /\ UNCHANGED <<cbVars, senderVars, frag, matchedFrags, recv, copied, posted, specific,
                   wild, okToMatch, firstFrags>>

\* A first fragment that was put aside has its data now.
CopyFirstFrag(t) ==
    /\ At(t, "idle")
    /\ \E df \in firstFrags :
        LET d == df[1]
            r == df[2]
        IN
        /\ shared[d].ok /\ ~DescLocked(r)
        /\ Copy(r, shared[d].data, 1)
        /\ recv' = [recv EXCEPT ![r] = [Counted(r) EXCEPT !.done = Complete(Counted(r), d)]]
        /\ firstFrags' = firstFrags \ {df}
        /\ th' = [th EXCEPT ![t] = [Idle EXCEPT !.pc = "ackone", !.d = d, !.n = 1]]
    /\ UNCHANGED <<cbVars, senderVars, shared, frag, matchedFrags, posted, specific, wild,
                   okToMatch>>

-----------------------------------------------------------------------------
Sending == PostFirst \/ AppendFirst \/ CopyFirst \/ AllowRead \/ AppSend
Pushing == Push \/ FillSlot

\* What sharedmemPath::receive does for one thread, and what it was called from.
Receiving(t) ==
    \/ ReadBuffer(t) \/ ClearBuffer(t) \/ Match(t)
    \/ MatchFirst(t) \/ TellSender(t) \/ LetSend(t) \/ DrainReady(t) \/ FinishMatch(t) \/ Ack(t)
    \/ TakeMatched(t) \/ CopyMatched(t) \/ ReturnFrag(t) \/ CopyFirstFrag(t)

SmpNext ==
    \/ \E d \in Descs : Isend(d) \/ Progress(d) \/ CheckAcked(d) \/ FreeSend(d)
    \/ Sending \/ Pushing
    \/ \E k \in Receives : PostRecv(k)
    \/ \E t \in Threads : Receiving(t)

SmpSpec == SmpInit /\ [][SmpNext]_smpVars

\* A call that was made runs on, and both processes call ulm_make_progress while
\* they wait.  Nothing is assumed about sending, posting or freeing.
SmpFairSpec ==
    /\ SmpSpec
    /\ WF_smpVars(Sending) /\ WF_smpVars(Pushing)
    /\ \A d \in Descs : WF_smpVars(Progress(d)) /\ WF_smpVars(CheckAcked(d))
    /\ \A t \in Threads : WF_smpVars(Receiving(t))

-----------------------------------------------------------------------------
(* Properties.                                                              *)

Matched(m) == \E r \in 1..posted : recv[r].msg = m
Takes(r, m) == Accepts(recv[r].tag, Messages[m].tag)

\* Messages are matched in the order in which they were sent, receives in the order
\* in which they were posted: a receive gets a message only when every earlier one
\* that it takes is matched, and while no older receive that takes it waits
\* (sharedmemPath::receive and the lists it searches).
SmpInOrder ==
    \A r \in 1..posted : recv[r].msg # 0 =>
        /\ \A m \in 1..(recv[r].msg - 1) : Takes(r, m) => Matched(m)
        /\ \A q \in 1..(r - 1) : Takes(q, recv[r].msg) => recv[q].msg # 0

\* A receive that is done has exactly the data of its message, up to the length that
\* was posted, though the data was shared before it was written, in fragments that
\* are used again; and a synchronous send is done only when it is matched
\* (processMatch, SMPCopyToApp, sharedmemPath::send).
SmpDoneIsTrue ==
    /\ \A r \in 1..posted : recv[r].done =>
        LET m == recv[r].msg IN
        /\ recv[r].got = Messages[m].len
        /\ copied[r] = {<<m, i>> : i \in {i \in 1..Messages[m].len : i <= recv[r].len}}
    /\ \A d \in Descs : (desc[d].done /\ Messages[desc[d].msg].sync) => Matched(desc[d].msg)

\* A descriptor goes back to the cache when its last fragment is acknowledged, while
\* its data lies in memory the receiver uses without asking: by then the receiver
\* has no way to it left, on any list or in any thread (ReturnDesc, NumAcked).
ReturnedIsUnreferenced ==
    \A d \in Descs : desc[d].on = "cache" =>
        /\ ~Contains(Waiting \o sendsToPost \o okToMatch, d)
        /\ pushing # <<>> => pushing[2] # d
        /\ \A df \in firstFrags : df[1] # d
        /\ \A t \in Threads : th[t].d # d
        /\ \A f \in FragDescs : Contains(matchedFrags \o shared[d].ready, f) => frag[f].owner # d

\* A message that was sent does not wait for ever beside a receive that takes it, and
\* a receive that has its message gets all of it, full buffer, clearing in batches
\* and limit on fragments notwithstanding (push, readFromTail, send).  Messages are
\* finitely many, so again and again there is no such message or receive.
WaitsBeside(m, r) == next > m /\ ~Matched(m) /\ recv[r].msg = 0 /\ Takes(r, m)
SmpMessagesArrive ==
    []<>(\A r \in 1..posted :
            /\ \A m \in Msgs : ~WaitsBeside(m, r)
            /\ recv[r].msg # 0 => recv[r].done)
=============================================================================
