# A verification of LA-MPI's message delivery

LA-MPI is an MPI library whose distinguishing feature is that it survives an
unreliable network: it splits messages into fragments, numbers them, detects
duplicates, acknowledges, and retransmits. This directory holds TLA+ models of
the parts of the library where several processes, threads or messages meet,
TLC configurations that check them on small instances, and TLAPS proofs that hold
for every instance. Paths below are relative to `src/src/`.

## The system and its parts

| Part | Source | Model |
|---|---|---|
| Sequence tracking lists | `queue/SeqTrackingList.*` | `SeqTrackingList`, `SeqSet` |
| Reliability protocol, receiving side | `queue/Pt2PtGroupRecvFrags.cc`, `path/common/BaseDesc.cc`, `path/udp/recvFrag.cc` | `FragReceiver` |
| UDP path, sending side | `path/udp/*`, `path/common/path.*`, `queue/Pt2PtGroupSend.cc`, `queue/Pt2PtGroupProgress.cc` | `UdpSender` |
| Both ends over a network | | `FragNetwork`, `UdpLink`, `ReliableLink`, `UdpLinkProofs` |
| Matching of fragments with receives | `queue/Pt2PtGroupMatch*.cc`, `Pt2PtGroupRecv*.cc`, `Pt2PtGroupTestRecv.cc` | `Matching` |
| TCP path | `path/tcp/*` | `TcpPeer` (connections), `TcpLink` (messages) |
| Shared-memory path | `util/cbQueue.h`, `path/sharedmem/*` | `CbQueue`, `Fifo`, `CbQueueProofs`, `SharedMem` |
| Barriers, collective operations on a host | `queue/barrier.cc`, `collective/*` | `Barrier`, `SmpBarrier`, `SmpBarrierProofs`, `BarrierPool`, `HostCollectives` |
| Buffered sends | `interface/ulm_bsend_info.cc`, `mpi/c/mpi_*bsend*.c`, `mpi/c/mpi_buffer_*.c` | `BsendBuffer`, `BsendBufferProofs` |
| Communicators and groups | `interface/ulm_comm_*.cc`, `queue/Group.cc` | `CommTable` |
| Context identifiers | `queue/getNewContextID.cc`, `interface/ulm_intercomm_create.cc` | `ContextIDs`, `ContextIDsProofs` |
| Requests | `interface/ulm_{wait,test,start,request_free}.cc` | in part, within `UdpSender`, `SharedMem`, `BsendBuffer`, `Matching` |
| Lists, locks, reactor | `util/DblLinkList.h`, `util/Lock.h`, `util/Reactor.cc` | in part, within the modules that use them |
| GM; InfiniBand, Quadrics; path selection; memory pools; start-up and `mpirun`; MPI bindings | `path/{gm,ib,quadrics}`, `path/common/pathContainer.h`, `mem/`, `client/`, `run/`, `init/`, `mpi/` | – |

How they interact. `MPI_Isend` ends in `isend_start`, which binds the message to
a path: shared memory for a process of the same host, a network path otherwise.
The path's `send` cuts it into fragments and hands on what its window allows. On
UDP each fragment has a number that is unique between the two processes; the
receiver looks it up in two tracking lists (received, delivered) to recognise
duplicates. On TCP and in shared memory nothing is lost, only the first fragment
is sent until a receive was matched, and the others then carry its address. The
receiver matches messages with posted receives in the order of the sends, copies
the data and acknowledges it. The progress loops of `ulm_make_progress` push what
is left over, send again what has timed out, and return descriptors whose
fragments are acknowledged. Buffered sends keep a range of the user's buffer for
as long as their descriptor lives. Collective operations among the processes of a
host go through buffers and barriers in shared memory, which belong to a
communicator.

`PROJECT.json` gives, for each definition, the lines it is translated from, and
lists every component and the hazards found while reading.

## The modules

**`SeqTrackingList`** – a sorted list of ranges in an array, with growth and
shrinking of the array. The element where a search starts (`hintp`) may be any of them:
`QueriesAgree` compares the searches from each.
One action per operation that changes it (`record`, `recordIfNotRecorded`, `erase`);
`isRecorded` is a query. Numbers are unsigned and wrap (`Modulus` for 2^64). What a call
does to the array is an outcome: does it need a new element, does it
free some, and does it use an element it held before the array moved? A call of
this last kind leads to a state marked stale. **`SeqSet`** is what the list
promises: a set with the same operations.

**`FragNetwork`** – the datagrams under way. A lost datagram never enters the
set, a duplicated one stays in it when received; sets have no order. This part
is external to the code.

**`FragReceiver`** – duplicate detection, copying, the tracking lists (here the
sets that `SeqTrackingList` is shown to implement), acks, and acks that could not be
sent and are tried again. Whether a fragment matches a receive is left open;
`Matching` refines that choice.

**`UdpSender`** – send descriptors with their counters and lists, fragment
descriptors with the list they are on, the window, early-send buffers that may
be missing, packing and `sendmsg` that may fail for any of the fragments,
`resend`, the handling of acks, completion, and freeing of the request.
`toAckLen` is the length `DblLinkList` keeps apart from its links; `corrupted`
is set where a list operation has no defined result, and the sender stops there.

**`UdpLink`** – both ends and the network. **`ReliableLink`** is what a path
promises: fragments are submitted, each is delivered at most once and released
by the sender only after that. The refinement mapping takes the numbers handed
out as submitted, the copies made for the application as delivered, and numbers
held by no descriptor as released.

**`Matching`** – one process and one communicator with threads on. A step is
what a thread does while it holds the locks of a source; draining the
ahead-of-sequence list takes several steps, because a thread with another source
may take a wild receive in between. The work done after the locks are released
(a late fragment for a receive already matched, setting `messageDone`) has steps of its
own. Every fragment arrives once, which is what `UdpLink` establishes.

**`TcpPeer`** – how two processes connect, each on its own initiative: the states
of a socket at either end, the number sent first and its answer, who gives way
when both connect at once, refused and broken connections, process numbers that can
not be sent, retries, and the
count of connected sockets. A connection is a pair of streams; what is written
after an end was closed is lost. **`TcpLink`** – messages over the connected
sockets: fragments written in pieces, header and data read in two steps, the
early match of the header (`matchReceivedFrag`), acks that wait for a free socket.

**`CbQueue`** – the circular buffer of a pair of processes. Writer and reader share
only the slots; slots that were read are cleared in batches, one by one, while
the writer runs. **`Fifo`** is what it promises: a bounded queue in which a place
may be reserved first and filled later. **`SharedMem`** – the path over it: the
first fragment is posted before its data is copied; sends that find the buffer
full wait on a list that `push` empties; the other fragments wait at the
descriptor or go to the receiver, depending on whether it has stored its receive
there (`TellSender`; it lets the sender go on in a step after that, `LetSend`); the limit on fragments; acks; descriptors and fragment descriptors used
again. Its steps are small, because both processes write the same memory.
`clearToSend_m` is not initialised by the code, so its first value is a choice.

**`SmpBarrier`** – the counting barrier with load and store as steps of their own;
**`Barrier`** is what it promises (nobody leaves call n before all have made it).
**`BarrierPool`** – how the processes of a communicator find, initialise and give
back a barrier and a buffer of the shared pools. **`HostCollectives`** – each
collective operation as the script of reads, writes, flags and barriers of a
process, over the ring of descriptors.

**`BsendBuffer`** – attach, detach, the ranges (first fit), their counts, and the
life of the descriptors that use them, persistent requests included.
**`CommTable`** – communicators and groups of one process with their counts, marks and
lazy deletion; one action per call that creates or frees. **`ContextIDs`** – which
process takes the identifier of a new communicator, and who sends it to whom.

The `MC*` modules give the constants their values. `MCOnHost`, `MCProcess` and `MCTcp`
put components side by side that share no state: the variable `part` picks one of
them at the start, so the state spaces add up and do not multiply.

## What TLC checks

| Run | Instance | Distinct states | Shows |
|---|---|---|---|
| `udp_reuse` | 2 messages, 1 descriptor, 2 datagrams each way | 416 k | acks are true, a descriptor is returned only when empty; implements `ReliableLink`: nothing lost, nothing copied twice |
| `udp_frags` | 4 fragments, window 2, 3 descriptors | 40 k | the inductive invariant `IInv`, counters and window, synchronous completion |
| `udp_live` | 3 fragments, window 2, 2 descriptors | 8 k | a send completes, and its descriptor returns, while the length of `FragsToAck` is right |
| `match` | 2 sources, 3 messages, 3 receives, 1 damaged fragment | 508 k | sends do not overtake, the oldest receive is served, no fragment stranded, each in one place, done means complete with the right status, probe and receive agree; a matched receive completes |
| `tcp` | 2 processes connecting, 1 fault; 2 messages on 2 sockets | 77 k | no message lost and both ends on one connection (without faults), addresses in headers are live, done is true and copied once; messages get through |
| `on_host` | 3 processes; pools of 2; ring of 2; list of 2 ranges | 26 k | the barrier implements `Barrier`, pool elements serve one communicator, collective calls read and reduce what belongs to them and return, the tracking list implements `SeqSet` and its searches agree |
| `process` | 3 requests and ranges; 5 communicators and groups; 4 calls of 4 processes | 321 k | ranges apart and kept, detach waits for sends only, counts of communicators and groups exact, what is still used is kept, identifiers distinct and agreed on |
| `shared` | 4 messages, 2 descriptors, 3 fragment descriptors, 2 slots | 209 k | messages matched in order, done is true, descriptors return unreferenced; `CbQueue` implements `Fifo`; messages arrive |

Four runs show a disagreement between the code and what the repository says of
it (`findings` in `PROJECT.json` has the quotations):

* `seq_erase_grow` – `erase` in the middle of a range uses the old element after
  the array was reallocated for the new one.
* `tcp_queue` – a TCP fragment that is ahead of its sequence is put on the list when
  its header is read, and again when its data is; or it is taken in between.
* `shared_threads` – with two receiving threads, one overtakes the other between
  the buffer and the lock of the source, and messages are matched out of order.
* `udp_stall` – `resend` and `freeResources` unlink the same fragment, so that the length of
  `FragsToAck` is 0 while another one is on it. `retransmitP` goes by the length: if that
  fragment was lost it is never sent again, and the send does not complete.

### What the passing properties leave out

Each of these is behaviour of the models, excluded by the statement of a property
or by a constant, because the code does not do better:

* `IntactSendsComplete` and `FreedIsReturned` say nothing of a message once the length of its
  `FragsToAck` is wrong (`LengthIntact`); `udp_stall` is about those. In `udp_live` early-send
  buffers are never missing (`EarlyMayFail = FALSE`); in `udp_frags` they may be.
* `FreedIsReturned` is about messages on a list. One acknowledged in full before
  its request is freed is on none, and its descriptor is not returned
  (`Pt2PtGroupProgress.cc:172`).
* `AcksAreTrue` is checked with copies that succeed. With `CopyOutcomes <-
  CopiedOrNot` in `udp_reuse.cfg` TLC finds it violated: a fragment that could not
  be copied is acknowledged as good, against the comment at `recvFrag.cc:761`.
* `CountersAgree` says that the length of `FragsToAck` is never too large. It can be
  too small, since `resend` and `freeResources` unlink a delivered fragment twice
  (`udp_stall`).
* `ProbeFindsReceived` leaves out probes for a negative tag from a given source, which
  `iprobe` asserts do not occur (`Pt2PtGroupTestRecv.cc:372`).
* `DoneIsComplete` excepts the tag of a receive for a given source, taken while a wild one
  was posted (`Pt2PtGroupMatchFrags.cc:591`).
* `CountedSendKeepsRange` is about sends that count their range. A persistent one
  does not, and loses it when its active request is freed, against the comment at
  `Pt2PtGroupSend.cc:108`.
* `CommCountsExact` and `UsedCommsKept` have `AttributesOnInter = FALSE`. With `TRUE`, a delete function
  that refuses leaves the local communicator freed once too often.
* `CallsAgree` has leaders that are the lowest of their groups. With
  `Create(<<0, 3>>, <<1, 2>>, 2, 1)` in `MCCalls` it is violated.
* `NoMessageLost` and `TcpDelivers` hold without network faults. After one,
  `decrementSocketCount` counts up, and a process may believe it is connected.
* `shared` has one receiving thread, and fragment descriptors enough. They stay
  with the send descriptor that used them; from a pool of two, one message can
  hold what another waits for. The pool has no limit by default.

### Bounds, and why they are enough

* Tracking list: the numbers 1–5 give up to three separate ranges, one more than
  the array holds, and every way two ranges can touch, overlap or contain each
  other; `<<0, 3>>` and `<<3, 2>>` are invalid calls. The upper end,
  where `upper + 1` wraps, is not reached: it takes 2^64 - 1 fragments.
* `udp_reuse`: with one descriptor the second message reuses it, so acks of the
  first one, delayed or duplicated, name a descriptor that holds something else;
  two datagrams each way allow reordering. `MaxUnsent` lets one ack wait.
* `udp_frags`: four fragments exceed both the window and the pool, so both limits
  are met; one datagram each way keeps it tractable, and since a datagram may be
  lost or stay, losses and duplicates still occur. More reordering is
  covered by the proof for `IInv`, but not for the counters.
* `match`: source 0 sends two messages, the first in two fragments, so fragments
  arrive before, with and after their turn; source 1 competes for wild receives.
  One user tag and one of the library's (negative) tags tell the tag rules apart.
  Receives posted and fragments damaged are three together (`Budget`), so a fragment is
  damaged where there are two receives.
* `udp_live`, `udp_stall`: three fragments exceed the window and the two descriptors, so a
  send has to wait for acks to go on; one datagram each way, which may be lost or stay.
* `tcp`: four connection attempts let both ends start, reject, and start again;
  one fault breaks or refuses one. A message of two fragments and one of one, on
  two sockets, can pass each other; a stream holds two items, so writes are partial.
* `on_host`: three processes and two calls let one be a call ahead of another; two contexts, one
  split in two groups, compete for pools of two elements; programs of
  three calls wrap the ring of two descriptors, with one stripe or two.
* `process`: a buffer of 4 with messages of 1 and 2 leaves holes to fit and not to
  fit. Persistent requests are examined with two that fill the buffer. Five
  communicators allow one inter-communicator of a duplicate. Blocks of one
  identifier are used up at once, so the next block is needed.
* `shared`: the buffer has two slots, cleared in a batch of two, so it is full
  while slots wait to be cleared; the first message needs more fragments than may be
  outstanding; four messages on two descriptors use each twice, and the third can
  wait for a slot while the fourth is sent. The second receive is too short.

Names that begin with `Max`, `PoolCalls`, `NContexts`, `SockBuf` and the sizes of the sets of messages,
descriptors and blocks bound the models, not the code. Deadlock is not checked:
when all was delivered and returned these systems really stop.

### Fairness

`UdpLink!FairSpec`: timers expire, and the loops of `ulm_make_progress` visit every
message, fragment and ack again and again while a process waits (weak fairness).
The network does not lose every copy of what is sent for ever (strong fairness
of a push or an arrival of each fragment that gets through); the protocol can promise nothing
without it. A held fragment is eventually matched, because the application posts
its receives. `MCMatching!MCSpec` and `SharedMem!SmpFairSpec` are weak fairness of the
progress steps: `ulm_wait` calls `ulm_make_progress` until `messageDone` is set.
`MCTcp!TcpSpec`: the reactor reports a ready socket until it is handled, and the
network ends a connection attempt. `MCOnHost!OnHostSpec`: a process inside a barrier or a
collective call keeps running. Making a call, posting a receive and freeing a
request are never assumed.

## What is proved

For all values of the constants that satisfy the `ASSUME`s of the modules:

| Module | Theorem | Statement |
|---|---|---|
| `UdpLinkProofs` | `TypeCorrect`, `Inductive` | `TypeOK` and `IInv` are invariants |
| | `NothingIsLost` | a fragment the sender has let go of was copied to the application |
| | `NothingIsCopiedTwice` | none is copied twice, or before it was sent |
| | `AcksAreAlwaysTrue` | acks under way, and the aggregate kept by the sender, are true |
| | `UdpImplementsReliableLink` | `Spec => Abstract!Spec` |
| `CbQueueProofs` | `CbInductive` | `CbInv` is an invariant of the circular buffer |
| | `CbQueueImplementsFifo` | the buffer implements `Fifo`, for any size and batch |
| `SmpBarrierProofs` | `BarrierIsInductive` | `BarrierInv` is an invariant |
| | `SmpBarrierImplementsBarrier` | the counting barrier implements `Barrier` |
| `ContextIDsProofs` | `IdsAreIssuedOnce` | `IdInv` is an invariant |
| | `ContextsNeverShared` | no two communicators of a job have the same identifier |
| `BsendBufferProofs` | `RangesAlwaysApart` | ranges of the buffer never overlap and lie within it |

**The UDP path.** Those theorems also assume `CopySucceeds` (above). None of the
properties is inductive: that an ack may free a descriptor depends on what the
receiver delivered, which depends on what it holds and on what was sent. `IInv`
adds these links. At the receiver, `delivered` is within `received` within the
numbers handed out, `copies` is 1 exactly on `delivered`, and held fragments are
received, not delivered, and distinct. In the network, acks say only what is in
`delivered`. At the sender, what was let go of is in `delivered`, and a descriptor has a
number exactly when it is on a list; with the comparison of numbers in
`handlePt2PtMessageAck` this is why a late ack for a reused descriptor does no harm.
The proof has one lemma per handler that says what it does to the numbers; the
preservation lemmas are about those effects only, so that one covers all the handlers
that send, and one those that release. `StepCases` collects the cases for the
invariant and for the refinement.

**The circular buffer.** Number the slots taken from 0. `CbInv` says that those from
`Cleared` to `put - 1` are in use and the next ones, up to `Cleared + Size - 1`, are marked unused;
two numbers less than `Size` apart have different slots (`SlotsDistinct`). So an unused slot at
the head means there is room, the slot at the tail is the oldest one not read,
and the loop clears slots the reader has left. For each operation one lemma
says what it does to the sequence of waiting items; that gives the refinement.

**The barrier.** The counter is never reset. `BarrierInv`: there is a round R such
that each process has been counted R or R + 1 times, and the counter is the sum of
these counts; the process between its load and its store holds the lock, and what it
loaded is still the counter. A process in its n-th call waits until the counter
reaches n times the number of processes. It does not while one is missing, so all have
arrived when it returns.

**Identifiers.** `IdInv`: process p takes identifiers from the blocks p, p + NProcs, ...
only, `nextID` lies in such a block, and each identifier was issued for one call.
Blocks of different processes are disjoint, and a process never goes back.

**Ranges.** `RangesApart` is preserved because a range is put at a place that `OpenAt`
finds apart from all others, and every other operation only drops ranges or changes their
counts; the lemmas say this of each of them.

Only model-checked: liveness; the tracking list and the collective operations (recursion over
sequences, and `Bitwise`); the counters and completion of
`UdpSender`; everything about `Matching`, the TCP path, `SharedMem` above the buffer,
`BarrierPool`, `CommTable`, and in `BsendBuffer` and `ContextIDs` what is not named above.

## What is not modelled

Within the modelled parts: header formats, checksums and clock values (a timer
may expire at any moment); the long socket of the UDP path is treated as the
short one; several progress threads in `UdpLink`, `TcpLink` and `CommTable` (in `Matching` and
`SharedMem` they are there); messages that reach one communicator through different paths;
truncation in `Matching` (it is in `SharedMem`); freeing a receive before
it completes; a communicator freed while a thread still uses it (the comment
at `Pt2PtGroupRecvFrags.cc:209` is about that); data on a TCP connection that then fails;
the part of a collective operation between hosts, which sends messages along trees.
Errors that make an MPI call fail or end the program: those of `send` that are not temporary,
a failing `socket()` or `ulm_malloc` in the TCP path, a pool of shared-memory fragments that may not
grow, a collective operation that can not pack, a persistent buffered send that can not start.
Negative acks are left out because UDP receivers set `DataOK` for every fragment.

Parts left out:

* GM has the receiving side of `FragReceiver`; its send completion comes from callbacks of a
  library whose rules are not in the repository. The same holds, more so, for InfiniBand and Quadrics.
* Path selection: paths are chosen at start-up, and the code that would bind a
  message to another path is disabled (`queue/Pt2PtGroupSend.cc:182`).
* Memory pools: descriptors come from bounded sets; the allocator, its retries and limits are left out.
* `util/SharedMemBarrier.cc` is used by start-up only. Start-up, the daemons and `mpirun` are process
  creation, standard input and output, and configuration; the heartbeat and
  shutdown exchange is the one protocol among it that is worth a model.
* The MPI bindings are argument checks around the `ulm_` functions; datatypes and reduction
  operators are sequential arithmetic on buffers. These, with `run/`, `init/` and the network
  libraries' code, make up most of the repository's lines.

## What could follow

`GmSender` over `FragReceiver`, checked against `ReliableLink`; several threads in `TcpLink`
and `CommTable`; receives freed before they complete; proofs of `CountersAgree`, of
`ReturnedIsUnreferenced` and of `FragmentsConserved`.
