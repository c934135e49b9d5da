-------------------------- MODULE HostCollectives --------------------------
(***************************************************************************)
(* The collective operations between the processes of one host, through    *)
(* the ring of shared descriptors of the communicator (collective/,        *)
(* queue/Communicator.h).  A descriptor has a flag, a buffer with a slot   *)
(* per process and, for reductions, two flags per slot.  What a process    *)
(* does in a call is given as a script: the reads and writes of shared     *)
(* memory in the order of the code, each one a step.  A call of smpBarrier *)
(* is two instructions (arrive, pass); SmpBarrier is shown to behave so.   *)
(***************************************************************************)
EXTENDS Integers, Sequences, SequencesExt, FiniteSets, Bitwise

CONSTANTS
    NProcs,         \* the processes of the communicator on the host
    NDesc,          \* N_COLLCTL_PER_COMM
    Programs        \* what the application calls: sequences of calls

Ranks == 0..(NProcs - 1)
Descs == 0..(NDesc - 1)
None == -1

VARIABLES
    program,    \* the calls that all processes make, in this order
    pc,         \* per process: the call it is in and the next instruction
    flag,       \* collDesc->flag
    mem,        \* the slots of the buffer: what was written, by whom
    sig,        \* self_flag[parity] of the slots, for reductions
    tag,        \* collDesc->tag: the call that initialised sig
    held,       \* the process that holds collDesc->lock
    arrived     \* calls of smpBarrier

collVars == <<program, pc, flag, mem, sig, tag, held, arrived>>

-----------------------------------------------------------------------------
(* Instructions.                                                            *)

Write(slots, stripe) == <<[do |-> "write", slots |-> slots, stripe |-> stripe]>>
Read(slots, stripe) == <<[do |-> "read", slots |-> slots, stripe |-> stripe]>>
Set(v) == <<[do |-> "set", v |-> v]>>
Wait(vs) == <<[do |-> "wait", until |-> vs]>>
SmpBarrierCall == <<[do |-> "arrive"], [do |-> "pass"]>>
When(b, script) == IF b THEN script ELSE <<>>

\* The concatenation of F(1), ..., F(n).
ForStripes(F(_), n) == FlattenSeq([s \in 1..n |-> F(s)])

\* Mutant: the next stripe is written although some may not have read this one.
BcastNoBarrier(p, c) == ForStripes(LAMBDA s :
    (IF p = c.root THEN Write(Ranks, s) \o Set(2)
                   ELSE Wait({2}) \o Read({p}, s))
    \o When(s # c.stripes, Set(1)), c.stripes)

\* ulm_bcast on one host.
Bcast(p, c) == ForStripes(LAMBDA s :
    (IF p = c.root THEN Write(Ranks, s) \o Set(2)
                   ELSE Wait({2}) \o Read({p}, s))
    \o When(s # c.stripes, SmpBarrierCall \o Set(1) \o SmpBarrierCall), c.stripes)

\* ulm_scatter: process 0 exchanges with other hosts once the root has written.
\* The returns when packing or that exchange fails are left out, here and in
\* ulm_scatterv: the MPI call fails, and by default the program ends.
Scatter(p, c) == ForStripes(LAMBDA s :
    When(p = c.root, Write(Ranks, s) \o Set(1))
    \o When(p = 0, Wait({1, 2}) \o Set(2))
    \o Wait({2}) \o Read({p}, s)
    \o When(c.stripes > 1, SmpBarrierCall \o Set(0) \o SmpBarrierCall), c.stripes)

\* ulm_scatterv: the sizes come first, as stripe 0.
Scatterv(p, c) ==
    When(p = c.root, Write(Ranks, 0) \o Set(1))
    \o Wait({1, 2, 3}) \o Read(Ranks, 0) \o SmpBarrierCall
    \o ForStripes(LAMBDA s :
         When(p = c.root, Write(Ranks, s) \o Set(2))
         \o When(p = 0, Wait({2, 3}) \o Set(3))
         \o Wait({3}) \o Read({p}, s)
         \o When(c.stripes > 1, SmpBarrierCall \o Set(0) \o SmpBarrierCall), c.stripes)

\* ulm_gather, with one stripe or several.
Gather(p, c) == ForStripes(LAMBDA s :
    Write({p}, s) \o When(p = 0, Set(0)) \o SmpBarrierCall
    \o When(p = 0, Set(1)) \o Wait({1})
    \o When(p = c.root, Read(Ranks, s))
    \o When(c.stripes > 1, SmpBarrierCall), c.stripes)

\* ulm_gatherv: the sizes, then as ulm_gather, but the root clears the flag.
Gatherv(p, c) ==
    When(p = c.root, Write(Ranks, 0) \o Set(1))
    \o Wait({1}) \o Read(Ranks, 0) \o SmpBarrierCall
    \o ForStripes(LAMBDA s :
         Write({p}, s) \o When(p = c.root, Set(0)) \o SmpBarrierCall
         \o When(p = 0, Set(1)) \o Wait({1})
         \o When(p = c.root, Read(Ranks, s))
         \o When(c.stripes > 1, SmpBarrierCall), c.stripes)

\* ulm_allgather and ulm_allgatherv: everybody reads.
Allgather(p, c) == ForStripes(LAMBDA s :
    Write({p}, s) \o When(p = 0, Set(0)) \o SmpBarrierCall
    \o When(p = 0, Set(1)) \o Wait({1}) \o Read(Ranks, s)
    \o When(c.stripes > 1, SmpBarrierCall), c.stripes)

\* The number of masks 1, 2, 4, ... below the number of processes.
NPhases == CHOOSE k \in 0..NProcs : 2^k >= NProcs /\ (k = 0 \/ 2^(k - 1) < NProcs)

\* Mutant: the upper process goes on as soon as it has posted its flag.
PairingNoDrain(self, mask, par, s) ==
    LET peer == self ^^ mask
        With(what) == <<[do |-> what, self |-> self, peer |-> peer, par |-> par,
                         stripe |-> s]>>
    IN  CASE peer >= NProcs -> <<>>
          [] self < peer -> With("post") \o With("await") \o With("fold")
                              \o With("clearPeer") \o With("clearSelf")
          [] OTHER -> With("post")

\* One pairing in ulm_reduce_intrahost; ranks are relative to the root.
Pairing(self, mask, par, s) ==
    LET peer == self ^^ mask
        With(what) == <<[do |-> what, self |-> self, peer |-> peer, par |-> par,
                         stripe |-> s]>>
    IN  CASE peer >= NProcs -> <<>>
          [] self < peer -> With("post") \o With("await") \o With("fold")
                              \o With("clearPeer") \o With("clearSelf")
          [] OTHER -> With("post") \o With("drain")

\* ulm_reduce_intrahost.  The parity alternates over phases and blocks.
Reduce(p, c) ==
    LET self == (p - c.root + NProcs) % NProcs
    IN  <<[do |-> "initSig"], [do |-> "setTag"]>>
        \o ForStripes(LAMBDA s :
             Write({self}, s)
             \o ForStripes(LAMBDA k :
                  Pairing(self, 2^(k - 1), ((s - 1) * NPhases + k - 1) % 2, s), NPhases)
             \o When(self = 0, <<[do |-> "result", slots |-> {0}, stripe |-> s]>>),
           c.stripes)

\* releaseCollectiveSMBuffer when the index has wrapped to 0.
Release(p) == SmpBarrierCall \o When(p = 0, <<[do |-> "reset"]>>) \o SmpBarrierCall

\* What a process does for a call of the application.
Body(p, c) ==
    CASE c.op = "bcast" -> Bcast(p, c)
      [] c.op = "scatter" -> Scatter(p, c)
      [] c.op = "scatterv" -> Scatterv(p, c)
      [] c.op = "gather" -> Gather(p, c)
      [] c.op = "gatherv" -> Gatherv(p, c)
      [] c.op = "allgather" -> Allgather(p, c)
      [] c.op = "reduce" -> Reduce(p, c)

Calls == UNION {{pr[i] : i \in DOMAIN pr} : pr \in Programs}

MaxLength == Max({Len(pr) : pr \in Programs})

Script == [p \in Ranks |-> [c \in Calls |-> [wraps \in BOOLEAN |->
              Body(p, c) \o When(wraps, Release(p))]]]

-----------------------------------------------------------------------------
(* Running the scripts.                                                     *)

\* getCollectiveSMBuffer: the calls take the descriptors in turn.
Desc(i) == (i - 1) % NDesc

\* A process is in a call, or in the application before its next call.
Inside(p) == pc[p].at > 0

ScriptOf(p) == Script[p][program[pc[p].call]][pc[p].call % NDesc = 0]

\* The instruction a process is about to execute, and where.
Ins(p) == IF Inside(p) THEN ScriptOf(p)[pc[p].at] ELSE [do |-> "nothing"]
My(p) == Desc(pc[p].call)

CollInit ==
    /\ program \in Programs
    /\ pc = [p \in Ranks |-> [call |-> 1, at |-> 0]]
    /\ flag = [d \in Descs |-> 0]
    /\ mem = [d \in Descs |-> [s \in Ranks |-> [call |-> 0, stripe |-> 0, who |-> {}]]]
    /\ sig = [d \in Descs |-> [s \in Ranks |-> [par \in 0..1 |-> None]]]
    /\ tag = [d \in Descs |-> 0]
    /\ held = [d \in Descs |-> {}]
    /\ arrived = [p \in Ranks |-> 0]

Goto(p, n) ==
    pc' = [pc EXCEPT ![p] = IF n > Len(ScriptOf(p)) THEN [call |-> @.call + 1, at |-> 0]
                            ELSE [@ EXCEPT !.at = n]]

Advance(p) == Goto(p, pc[p].at + 1)

CollEnter(p) ==
    /\ ~Inside(p)
    /\ pc[p].call <= Len(program)
    /\ pc' = [pc EXCEPT ![p].at = 1]
    /\ UNCHANGED <<program, flag, mem, sig, tag, held, arrived>>

CollStore(p) ==
    LET in == Ins(p)
    IN  /\ in.do \in {"write", "set", "reset"}
        /\ mem' = IF in.do # "write" THEN mem
                  ELSE [mem EXCEPT ![My(p)] = [s \in Ranks |->
                          IF s \in in.slots
                          THEN [call |-> pc[p].call, stripe |-> in.stripe, who |-> {s}]
                          ELSE @[s]]]
        /\ flag' = CASE in.do = "set" -> [flag EXCEPT ![My(p)] = in.v]
                     [] in.do = "reset" -> [d \in Descs |-> 0]
                     [] OTHER -> flag
        /\ Advance(p)
        /\ UNCHANGED <<program, sig, tag, held, arrived>>

\* A read ends; ULM_SPIN_AND_MAKE_PROGRESS sees what it waits for.
CollLook(p) ==
    LET in == Ins(p)
    IN  /\ \/ in.do \in {"read", "result"}
           \/ in.do = "wait" /\ flag[My(p)] \in in.until
           \/ in.do = "await" /\ sig[My(p)][in.peer][in.par] = in.self
           \/ in.do = "drain" /\ sig[My(p)][in.self][in.par] # in.peer
           \/ in.do = "pass" /\ \A q \in Ranks : arrived[q] >= arrived[p]
        /\ Advance(p)
        /\ UNCHANGED <<program, flag, mem, sig, tag, held, arrived>>

CollArrive(p) ==
    /\ Ins(p).do = "arrive"
    /\ arrived' = [arrived EXCEPT ![p] = @ + 1]
    /\ Advance(p)
    /\ UNCHANGED <<program, flag, mem, sig, tag, held>>

\* Mutant: the tag is not looked at again once the lock is held.
InitSigAlways(p) ==
    /\ Ins(p).do = "initSig"
    /\ held[My(p)] = {}
    /\ held' = [held EXCEPT ![My(p)] = {p}]
    /\ sig' = [sig EXCEPT ![My(p)] = [s \in Ranks |-> [par \in 0..1 |-> None]]]
    /\ Advance(p)
    /\ UNCHANGED <<program, flag, mem, tag, arrived>>

\* The flags of a reduction are in the slots; the first process clears them.
InitSig(p) ==
    /\ Ins(p).do = "initSig"
    /\ IF tag[My(p)] = pc[p].call
       THEN /\ Goto(p, pc[p].at + 2)
            /\ UNCHANGED <<sig, mem, held>>
       ELSE /\ held[My(p)] = {}
            /\ held' = [held EXCEPT ![My(p)] = {p}]
            /\ sig' = [sig EXCEPT ![My(p)] = [s \in Ranks |-> [par \in 0..1 |-> None]]]
            /\ mem' = [mem EXCEPT ![My(p)] =
                         [s \in Ranks |-> [call |-> 0, stripe |-> 0, who |-> {}]]]
            /\ Advance(p)
    /\ UNCHANGED <<program, flag, tag, arrived>>

SetTag(p) ==
    /\ Ins(p).do = "setTag"
    /\ tag' = [tag EXCEPT ![My(p)] = pc[p].call]
    /\ held' = [held EXCEPT ![My(p)] = {}]
    /\ Advance(p)
    /\ UNCHANGED <<program, flag, mem, sig, arrived>>

CollSignal(p) ==
    LET in == Ins(p)
    IN  /\ in.do \in {"post", "clearPeer", "clearSelf"}
        /\ sig' = [sig EXCEPT ![My(p)] =
             CASE in.do = "post" -> [@ EXCEPT ![in.self][in.par] = in.peer]
               [] in.do = "clearPeer" -> [@ EXCEPT ![in.peer][in.par] = None]
               [] in.do = "clearSelf" -> [@ EXCEPT ![in.self][in.par] = None]]
        /\ Advance(p)
        /\ UNCHANGED <<program, flag, mem, tag, held, arrived>>

\* func(peer_buf, self_buf, ...)
Fold(p) ==
    LET in == Ins(p)
    IN  /\ in.do = "fold"
        /\ mem' = [mem EXCEPT ![My(p)][in.self].who = @ \cup mem[My(p)][in.peer].who]
        /\ Advance(p)
        /\ UNCHANGED <<program, flag, sig, tag, held, arrived>>

CollStep(p) ==
    \/ CollStore(p)
    \/ CollLook(p)
    \/ CollArrive(p)
    \/ InitSig(p)
    \/ SetTag(p)
    \/ CollSignal(p)
    \/ Fold(p)

CollNext == \E p \in Ranks : CollEnter(p) \/ CollStep(p)

-----------------------------------------------------------------------------
Holds(p, s) ==
    /\ mem[My(p)][s].call = pc[p].call
    /\ mem[My(p)][s].stripe = Ins(p).stripe

\* As long as a process reads the shared buffer it finds what was written for
\* its own call and stripe: nobody writes there early, from the next stripe or
\* from a later call on the same descriptor.  Processes that use the same
\* descriptor are in the same call, so the ring is never reused while a process
\* still needs the flag or the buffer.
ReadsItsOwnCall ==
    /\ \A p \in Ranks : Ins(p).do = "read" => \A s \in Ins(p).slots : Holds(p, s)
    /\ \A p, q \in Ranks : Inside(p) /\ Inside(q) /\ My(p) = My(q)
        => pc[p].call = pc[q].call

\* A reduction adds up each contribution once: the buffers that are combined
\* belong to the same block and have no contribution in common, and the result
\* at the root has those of all processes.
ReducesEachOnce ==
    \A p \in Ranks :
        /\ Ins(p).do = "fold" =>
             /\ Holds(p, Ins(p).self) /\ Holds(p, Ins(p).peer)
             /\ mem[My(p)][Ins(p).self].who \cap mem[My(p)][Ins(p).peer].who = {}
        /\ Ins(p).do = "result" => Holds(p, 0) /\ mem[My(p)][0].who = Ranks

\* A call that all processes have made returns at all of them: no process
\* waits for a flag that was reset before it looked, or for one that waits for
\* it.
CallsReturn ==
    \A n \in 1..MaxLength :
        (\A p \in Ranks : pc[p].call > n \/ (pc[p].call = n /\ Inside(p)))
            ~> (\A p \in Ranks : pc[p].call > n)
=============================================================================
