----------------------------- MODULE OutputPath -----------------------------
(***************************************************************************)
(* How matches get from the workers to stdout: the per-worker pools of     *)
(* fixed slots and the overflow budget (output.rs), the writer each worker *)
(* fills (OutputSlotWriter), the channel, the OutputWorker thread that     *)
(* batches and writes (worker.rs), and the flush request of                *)
(* RawGrepCtx::wait (ctx.rs).                                              *)
(*                                                                         *)
(* A slot is shared memory: a message names it and says how much of it is  *)
(* used, and its cells are read when they are written out.  A cell <<w, n>>*)
(* is one unit of the n-th record of worker w.                             *)
(***************************************************************************)
EXTENDS Naturals, Sequences, FiniteSets, SequencesExt, FiniteSetsExt

CONSTANTS Workers,        \* the worker threads
          SlotsPerWorker, \* SLOTS_PER_WORKER
          SlotCap,        \* SLOT_CAP, in cells
          OverflowCap,    \* overflow_cap, in cells
          FlushBatch,     \* OUTPUTTER_FLUSH_BATCH, in cells
          IovMax,         \* IOV_MAX, in buffers
          Sizes,          \* [Workers -> the sizes of its records], in cells
          MaxRecords,     \* bound: [Workers -> Nat], records each may write
          MaxSearches     \* bound: searches one context is used for

ASSUME OutputAssumption ==
  /\ IsFiniteSet(Workers)
  /\ {SlotsPerWorker, SlotCap, OverflowCap, FlushBatch, IovMax} \subseteq Nat \ {0}
  /\ Sizes \in [Workers -> SUBSET (Nat \ {0})]
  /\ MaxRecords \in [Workers -> Nat]
  /\ MaxSearches \in Nat

SlotIds == Workers \X (1..SlotsPerWorker)
Cells == Workers \X Nat

VARIABLES
  free,       \* the slots whose bit is set in their worker's mask
  used,       \* overflow_used
  mem,        \* [SlotIds -> Seq(Cells)]: the slab
  buf,        \* [Workers -> buffer]: OutputSlotWriter.buf
  pc,         \* [Workers -> where the worker is in write_record or flush]
  size,       \* [Workers -> the size of the record being written, 0 if none]
  resume,     \* [Workers -> where it goes on after the rotation]
  records,    \* [Workers -> how many records it has written]
  stream,     \* [Workers -> Seq(Cells)]: everything it has written, in order
  chan,       \* the channel to the output worker
  writer,     \* where the OutputWorker thread is
  afterwards, \* where it goes on after flush_batch
  batch,      \* OutputWorker.batch
  sent,       \* cells of the batch write_vectored has taken so far
  failed,     \* TRUE once a write to stdout has failed
  written,    \* what stdout has received
  phase,      \* where the thread that searches and waits is
  searches    \* searches it has finished

poolVars == <<free, used>>
workerVars == <<buf, pc, size, resume, records, stream, mem>>
writerVars == <<writer, afterwards, batch, sent, failed, written>>
mainVars == <<phase, searches>>
vars == <<free, used, mem, buf, pc, size, resume, records, stream, chan,
          writer, afterwards, batch, sent, failed, written, phase, searches>>

-----------------------------------------------------------------------------
(* Buffers.                                                                *)

SlabBuffers == [kind : {"slab"}, slot : SlotIds, len : Nat]
OwnedBuffers == [kind : {"owned"}, data : Seq(Cells), reserved : Nat]
FlushReq == [kind |-> "flush"]

Slab(slot) == [kind |-> "slab", slot |-> slot, len |-> 0]
Owned(cap) == [kind |-> "owned", data |-> <<>>, reserved |-> cap]

BufLen(b) == IF b.kind = "slab" THEN b.len ELSE Len(b.data)

\* A flush request has no content.
Content(b) == CASE b.kind = "slab"  -> SubSeq(mem[b.slot], 1, b.len)
                [] b.kind = "owned" -> b.data
                [] OTHER            -> <<>>

\* The contents of a sequence of buffers, one after the other.
Flat(bufs) == FlattenSeq([i \in 1..Len(bufs) |-> Content(bufs[i])])

Remaining(b) ==
  IF b.kind = "slab" THEN SlotCap - b.len
  ELSE IF b.reserved >= Len(b.data) THEN b.reserved - Len(b.data) ELSE 0

\* The slots that a sequence of buffers holds.
SlotsIn(bufs) == {b.slot : b \in {c \in ToSet(bufs) : c.kind = "slab"}}
\* Mutant: dropping a slab buffer gives budget back too.
BudgetOfAny(b) == IF b.kind = "owned" THEN b.reserved ELSE SlotCap
BudgetOf(b) == IF b.kind = "owned" THEN b.reserved ELSE 0

\* The overflow budget that buffers hold together, those of a sequence or the
\* ones the workers have: their units of budget, counted.
Budget(bufs) ==
  Cardinality(UNION {{i} \X (1..BudgetOf(bufs[i])) : i \in DOMAIN bufs})

Alive == writer \notin {"dead", "absent"}

Init ==
  /\ free = {s \in SlotIds : s[2] # 1}
  /\ used = 0
  /\ mem = [s \in SlotIds |-> <<>>]
  /\ buf = [w \in Workers |-> Slab(<<w, 1>>)]
  /\ pc = [w \in Workers |-> "ready"]
  /\ size = [w \in Workers |-> 0]
  /\ resume = [w \in Workers |-> "ready"]
  /\ records = [w \in Workers |-> 0]
  /\ stream = [w \in Workers |-> <<>>]
  /\ chan = <<>>
  /\ writer \in {"recv", "absent"}     \* absent: stdout is /dev/null
  /\ afterwards = "recv"
  /\ batch = <<>>
  /\ sent = 0
  /\ failed = FALSE
  /\ written = <<>>
  /\ phase = "searching"
  /\ searches = 0

-----------------------------------------------------------------------------
(* A worker writes records.                                                *)

NewCells(w, s) == [i \in 1..s |-> <<w, records[w]>>]

\* append_unchecked, into a buffer that is about to be the worker's.
PutIn(w, b, cells) ==
  /\ buf' = [buf EXCEPT ![w] =
       IF b.kind = "slab" THEN [b EXCEPT !.len = @ + Len(cells)]
       ELSE [b EXCEPT !.data = @ \o cells]]
  /\ mem' = IF b.kind = "slab"
            THEN [mem EXCEPT ![b.slot] =
                   SubSeq(@, 1, b.len) \o cells
                     \o SubSeq(@, b.len + Len(cells) + 1, Len(@))]
            ELSE mem
  /\ stream' = [stream EXCEPT ![w] = @ \o cells]

\* write_record, when the record fits in what remains of the buffer.
WriteFits(w) ==
  /\ pc[w] = "ready"
  /\ records[w] < MaxRecords[w]
  /\ \E s \in Sizes[w] :
       /\ s <= Remaining(buf[w])
       /\ PutIn(w, buf[w], [i \in 1..s |-> <<w, records[w] + 1>>])
  /\ records' = [records EXCEPT ![w] = @ + 1]
  /\ UNCHANGED <<poolVars, pc, size, resume, chan, writerVars, mainVars>>

\* Mutant: the buffer is filled up with the record's beginning first.
WriteOverSplits(w) ==
  /\ pc[w] = "ready"
  /\ records[w] < MaxRecords[w]
  /\ \E s \in Sizes[w] :
       /\ s > Remaining(buf[w])
       /\ size' = [size EXCEPT ![w] = s - Remaining(buf[w])]
       /\ PutIn(w, buf[w], [i \in 1..Remaining(buf[w]) |-> <<w, records[w] + 1>>])
  /\ records' = [records EXCEPT ![w] = @ + 1]
  /\ pc' = [pc EXCEPT ![w] = "rotate"]
  /\ resume' = [resume EXCEPT ![w] = "place"]
  /\ UNCHANGED <<poolVars, chan, writerVars, mainVars>>

\* write_record, when it does not: rotate first.
WriteOver(w) ==
  /\ pc[w] = "ready"
  /\ records[w] < MaxRecords[w]
  /\ \E s \in Sizes[w] :
       /\ s > Remaining(buf[w])
       /\ size' = [size EXCEPT ![w] = s]
  /\ records' = [records EXCEPT ![w] = @ + 1]
  /\ pc' = [pc EXCEPT ![w] = "rotate"]
  /\ resume' = [resume EXCEPT ![w] = "place"]
  /\ UNCHANGED <<poolVars, buf, stream, mem, chan, writerVars, mainVars>>

\* The rest of rotate once fresh is acquired (freeNow and usedNow are the pool
\* then): what was buffered is shipped, or dropped if it is empty or nobody
\* receives.  Then the pending record goes into fresh, if it fits a slot.
Rotate(w, fresh, freeNow, usedNow) ==
  LET old     == buf[w]
      empty   == BufLen(old) = 0
      dropped == empty \/ ~Alive
      places  == resume[w] = "place" /\ size[w] <= SlotCap
  IN  /\ chan' = IF dropped THEN chan ELSE Append(chan, old)
      /\ free' = IF empty /\ old.kind = "slab" THEN freeNow \union {old.slot}
                 ELSE freeNow
      /\ used' = IF dropped THEN usedNow - BudgetOf(old) ELSE usedNow
      /\ PutIn(w, fresh, IF places THEN NewCells(w, size[w]) ELSE <<>>)
      /\ size' = [size EXCEPT ![w] = IF places THEN 0 ELSE @]
      /\ pc' = [pc EXCEPT ![w] = IF places THEN "ready"
                                 ELSE IF resume[w] = "place" THEN "big"
                                 ELSE resume[w]]
      /\ UNCHANGED <<resume, records>>

FreeOf(w) == {s \in free : s[1] = w}

\* Mutant: the mask is not written back.
ClaimKeepsBit(w) ==
  /\ pc[w] = "rotate"
  /\ FreeOf(w) # {}
  /\ LET slot == <<w, Min({s[2] : s \in FreeOf(w)})>>
     IN  Rotate(w, Slab(slot), free, used)
  /\ UNCHANGED <<writerVars, mainVars>>

\* acquire, with try_claim: the lowest set bit of the worker's own mask.
Claim(w) ==
  /\ pc[w] = "rotate"
  /\ FreeOf(w) # {}
  /\ LET slot == <<w, Min({s[2] : s \in FreeOf(w)})>>
     IN  Rotate(w, Slab(slot), free \ {slot}, used)
  /\ UNCHANGED <<writerVars, mainVars>>

\* acquire, when every slot is spoken for: from here on the worker asks for
\* overflow budget only, even if a slot comes back meanwhile.
NoSlot(w) ==
  /\ pc[w] = "rotate"
  /\ FreeOf(w) = {}
  /\ pc' = [pc EXCEPT ![w] = "overflow"]
  /\ UNCHANGED <<poolVars, buf, size, resume, records, stream, mem, chan,
                 writerVars, mainVars>>

\* try_reserve_overflow; while it fails, acquire_overflow parks and retries.
MayReserve(n) == used + n <= OverflowCap

ReserveFresh(w) ==
  /\ pc[w] = "overflow"
  /\ MayReserve(SlotCap)
  /\ Rotate(w, Owned(SlotCap), free, used + SlotCap)
  /\ UNCHANGED <<writerVars, mainVars>>

\* Mutant: assigning over self.buf forgets the empty buffer it held.
ReserveBigLeaks(w) ==
  /\ pc[w] = "big"
  /\ MayReserve(size[w])
  /\ used' = used + size[w]
  /\ PutIn(w, Owned(size[w]), NewCells(w, size[w]))
  /\ size' = [size EXCEPT ![w] = 0]
  /\ pc' = [pc EXCEPT ![w] = "rotate"]
  /\ resume' = [resume EXCEPT ![w] = "ready"]
  /\ UNCHANGED <<free, records, chan, writerVars, mainVars>>

\* write_record, a record bigger than a slot: it gets a buffer of its own size
\* in place of the empty one, and is shipped at once.
ReserveBig(w) ==
  /\ pc[w] = "big"
  /\ MayReserve(size[w])
  /\ used' = used + size[w] - BudgetOf(buf[w])
  /\ free' = free \union SlotsIn(<<buf[w]>>)
  /\ PutIn(w, Owned(size[w]), NewCells(w, size[w]))
  /\ size' = [size EXCEPT ![w] = 0]
  /\ pc' = [pc EXCEPT ![w] = "rotate"]
  /\ resume' = [resume EXCEPT ![w] = "ready"]
  /\ UNCHANGED <<records, chan, writerVars, mainVars>>

\* flush_output, from the pacer's poll or an idle iteration; with stdout on
\* /dev/null the buffer is cleared instead.
Flush(w) ==
  /\ pc[w] = "ready"
  /\ BufLen(buf[w]) > 0
  /\ writer # "absent"
  /\ pc' = [pc EXCEPT ![w] = "rotate"]
  /\ resume' = [resume EXCEPT ![w] = "ready"]
  /\ UNCHANGED <<poolVars, buf, size, records, stream, mem, chan, writerVars,
                 mainVars>>

Cleared(b) == IF b.kind = "slab" THEN [b EXCEPT !.len = 0]
              ELSE [b EXCEPT !.data = <<>>]

Clear(w) ==
  /\ pc[w] = "ready"
  /\ BufLen(buf[w]) > 0
  /\ writer = "absent"
  /\ buf' = [buf EXCEPT ![w] = Cleared(@)]
  /\ UNCHANGED <<poolVars, pc, size, resume, records, stream, mem, chan,
                 writerVars, mainVars>>

\* Mutant: the worker leaves without its last flush.
FinishUnflushed(w) ==
  /\ pc[w] = "ready"
  /\ pc' = [pc EXCEPT ![w] = "done"]
  /\ UNCHANGED <<poolVars, buf, size, resume, records, stream, mem, chan,
                 writerVars, mainVars>>

\* finish: the last flush of a search, then job_done counts the worker out.
Finish(w) ==
  /\ pc[w] = "ready"
  /\ IF BufLen(buf[w]) = 0
     THEN pc' = [pc EXCEPT ![w] = "done"] /\ UNCHANGED <<buf, resume>>
     ELSE IF writer = "absent"
     THEN /\ buf' = [buf EXCEPT ![w] = Cleared(@)]
          /\ pc' = [pc EXCEPT ![w] = "done"]
          /\ UNCHANGED resume
     ELSE /\ pc' = [pc EXCEPT ![w] = "rotate"]
          /\ resume' = [resume EXCEPT ![w] = "done"]
          /\ UNCHANGED buf
  /\ UNCHANGED <<poolVars, size, records, stream, mem, chan, writerVars, mainVars>>

-----------------------------------------------------------------------------
(* OutputWorker::run.                                                      *)

BatchCells == Flat(batch)

\* Mutant: a slot goes back to the pool when it is received.
AbsorbReleases ==
  /\ writer \in {"recv", "drain"}
  /\ chan # <<>>
  /\ chan' = Tail(chan)
  /\ LET msg == Head(chan)
     IN  IF msg.kind = "flush"
         THEN /\ writer' = "write"
              /\ afterwards' = "ack"
              /\ UNCHANGED <<batch, free>>
         ELSE /\ batch' = Append(batch, msg)
              /\ free' = free \union SlotsIn(<<msg>>)
              /\ afterwards' = "drain"
              /\ writer' = "drain"
  /\ UNCHANGED <<used, workerVars, sent, failed, written, mainVars>>

\* recv or try_recv, and absorb.  A batch that is big enough, and one that a
\* flush request asks for, is written before the next message is taken.
Absorb ==
  /\ writer \in {"recv", "drain"}
  /\ chan # <<>>
  /\ chan' = Tail(chan)
  /\ LET msg == Head(chan)
     IN  IF msg.kind = "flush"
         THEN /\ writer' = "write"
              /\ afterwards' = "ack"
              /\ UNCHANGED batch
         ELSE /\ batch' = Append(batch, msg)
              /\ afterwards' = "drain"
              /\ writer' =
                   IF \/ Len(BatchCells) + BufLen(msg) >= FlushBatch
                      \/ Len(batch) + 1 >= IovMax
                   THEN "write" ELSE "drain"
  /\ UNCHANGED <<poolVars, workerVars, sent, failed, written, mainVars>>

\* The channel is drained: flush_batch, then block in recv.
Drained ==
  /\ writer = "drain"
  /\ chan = <<>>
  /\ writer' = "write"
  /\ afterwards' = "recv"
  /\ UNCHANGED <<poolVars, workerVars, chan, batch, sent, failed, written, mainVars>>

\* One write_vectored takes some of the cells left.
WriteSome ==
  /\ writer \in {"write", "last"}
  /\ \E n \in 1..(Len(BatchCells) - sent) :
       /\ written' = written \o SubSeq(BatchCells, sent + 1, sent + n)
       /\ sent' = sent + n
  /\ UNCHANGED <<poolVars, workerVars, chan, writer, afterwards, batch, failed,
                 mainVars>>

\* Mutant: overflow buffers are dropped without giving their budget back.
WrittenKeepsBudget ==
  /\ writer = "write"
  /\ sent = Len(BatchCells)
  /\ free' = free \union SlotsIn(batch)
  /\ batch' = <<>>
  /\ sent' = 0
  /\ writer' = afterwards
  /\ UNCHANGED <<used, workerVars, chan, afterwards, failed, written, mainVars>>

\* flush_batch is done: its slots and its overflow budget are free again.
Written ==
  /\ writer = "write"
  /\ sent = Len(BatchCells)
  /\ free' = free \union SlotsIn(batch)
  /\ used' = used - Budget(batch)
  /\ batch' = <<>>
  /\ sent' = 0
  /\ writer' = afterwards
  /\ UNCHANGED <<workerVars, chan, afterwards, failed, written, mainVars>>

\* The acknowledgement of a flush request.
Ack ==
  /\ writer = "ack"
  /\ phase = "waiting"
  /\ phase' = "returned"
  /\ searches' = searches + 1
  /\ writer' = "drain"
  /\ UNCHANGED <<poolVars, workerVars, chan, afterwards, batch, sent, failed, written>>

\* A write fails, or takes nothing: the loop ends, and the batch is flushed
\* once more, from its beginning.
Fail ==
  /\ writer = "write"
  /\ sent < Len(BatchCells)
  /\ failed' = TRUE
  /\ sent' = 0
  /\ writer' = "last"
  /\ UNCHANGED <<poolVars, workerVars, chan, afterwards, batch, written, mainVars>>

\* Whatever came of that, the thread ends.  The slots of the batch come back
\* only if it was written; overflow buffers are dropped with the batch, and
\* with the channel, whose receiver is gone.
Die ==
  /\ writer = "last"
  /\ free' = IF sent = Len(BatchCells) THEN free \union SlotsIn(batch) ELSE free
  /\ used' = used - Budget(batch) - Budget(chan)
  /\ batch' = <<>>
  /\ sent' = 0
  /\ chan' = <<>>
  /\ writer' = "dead"
  /\ UNCHANGED <<workerVars, afterwards, failed, written, mainVars>>

-----------------------------------------------------------------------------
(* The thread that waits.                                                  *)

\* wait, once job_done is zero: ask for a flush.  Nobody may be there to get it.
WaitFlush ==
  /\ phase = "searching"
  /\ \A w \in Workers : pc[w] = "done"
  /\ chan' = IF Alive THEN Append(chan, FlushReq) ELSE chan
  /\ phase' = "waiting"
  /\ UNCHANGED <<poolVars, workerVars, writerVars, searches>>

\* Mutant: only a stdout that never was is noticed.
WaitGivesUpIfAbsent ==
  /\ phase = "waiting"
  /\ writer = "absent"
  /\ phase' = "returned"
  /\ searches' = searches + 1
  /\ UNCHANGED <<poolVars, workerVars, chan, writerVars>>

\* The sender of acknowledgements is gone: recv returns an error, wait goes on.
WaitGivesUp ==
  /\ phase = "waiting"
  /\ ~Alive
  /\ phase' = "returned"
  /\ searches' = searches + 1
  /\ UNCHANGED <<poolVars, workerVars, chan, writerVars>>

\* The context is handed another search.
SearchAgain ==
  /\ phase = "returned"
  /\ searches < MaxSearches
  /\ phase' = "searching"
  /\ pc' = [w \in Workers |-> "ready"]
  /\ UNCHANGED <<poolVars, buf, size, resume, records, stream, mem, chan,
                 writerVars, searches>>

Over == phase = "returned" /\ searches >= MaxSearches

Idle == Over /\ UNCHANGED vars

WorkerStep(w) ==
  \/ WriteFits(w) \/ WriteOver(w)
  \/ Claim(w) \/ NoSlot(w) \/ ReserveFresh(w) \/ ReserveBig(w)
  \/ Flush(w) \/ Clear(w) \/ Finish(w)

WriterStep == Absorb \/ Drained \/ WriteSome \/ Written \/ Ack \/ Die

MainStep == WaitFlush \/ WaitGivesUp \/ SearchAgain

Next == Fail \/ Idle \/ WriterStep \/ MainStep \/ \E w \in Workers : WorkerStep(w)

Spec == Init /\ [][Next]_vars

\* The operating system schedules the threads, a parked worker wakes up and
\* retries, and the reader of stdout keeps reading (or the write fails).
\* Nothing promises that a write fails, or that a worker has more to say.
FairSpec ==
  /\ Spec
  /\ \A w \in Workers :
       /\ WF_vars(Claim(w) \/ NoSlot(w) \/ ReserveFresh(w) \/ ReserveBig(w))
       /\ WF_vars(Finish(w))
  /\ WF_vars(WriterStep)
  /\ WF_vars(MainStep)

-----------------------------------------------------------------------------
(* Properties.                                                             *)

Buffers == SlabBuffers \union OwnedBuffers

TypeOK ==
  /\ free \subseteq SlotIds
  /\ used \in Nat
  /\ mem \in [SlotIds -> Seq(Cells)]
  /\ buf \in [Workers -> Buffers]
  /\ pc \in [Workers -> {"ready", "rotate", "overflow", "big", "done"}]
  /\ size \in [Workers -> Nat] /\ \A w \in Workers : size[w] \in Sizes[w] \union {0}
  /\ resume \in [Workers -> {"ready", "place", "done"}]
  /\ records \in [Workers -> Nat]
  /\ stream \in [Workers -> Seq(Cells)]
  /\ chan \in Seq(Buffers \union {FlushReq})
  /\ writer \in {"recv", "drain", "write", "ack", "last", "dead", "absent"}
  /\ afterwards \in {"recv", "drain", "ack"}
  /\ batch \in Seq(Buffers)
  /\ sent \in Nat
  /\ failed \in BOOLEAN
  /\ written \in Seq(Cells)
  /\ phase \in {"searching", "waiting", "returned"}
  /\ searches \in Nat

IsSlab(b) == b.kind = "slab"
Distinct(bufs) ==
  \A i, j \in 1..Len(bufs) :
    i # j /\ IsSlab(bufs[i]) /\ IsSlab(bufs[j]) => bufs[i].slot # bufs[j].slot
HeldSlots == {buf[w].slot : w \in {v \in Workers : IsSlab(buf[v])}}

\* The ownership model at the top of output.rs: a slot is free, or held by its
\* own worker, or in flight to the OutputWorker, and never two of these at
\* once, nor twice in flight.
SlotOwnership ==
  /\ \A w \in Workers : IsSlab(buf[w]) => buf[w].slot[1] = w
  /\ Distinct(chan) /\ Distinct(batch)
  /\ free \intersect HeldSlots = {}
  /\ (SlotsIn(chan) \union SlotsIn(batch)) \intersect (free \union HeldSlots) = {}
  /\ SlotsIn(chan) \intersect SlotsIn(batch) = {}

\* overflow_used is the budget of the overflow buffers that exist, wherever they
\* are and however they were dropped, and stays within overflow_cap; and as
\* long as no write fails, no slot leaks from the pool.
PoolConserved ==
  /\ used = Budget(buf) + Budget(chan) + Budget(batch)
  /\ used <= OverflowCap
  /\ ~failed /\ writer # "absent" =>
       free \union HeldSlots \union SlotsIn(chan) \union SlotsIn(batch) = SlotIds

\* The cells of one worker, in their order.
Of(w, cells) ==
  FlattenSeq([i \in 1..Len(cells) |-> IF cells[i][1] = w THEN <<cells[i]>> ELSE <<>>])
Delivering == ~failed /\ writer # "absent"

\* Until a write fails nothing is lost, repeated or reordered: what a worker
\* has written is, in order, what stdout has of it, what is left of the batch,
\* what is in the channel and what it still buffers, each slot holding the
\* content it had when its message was sent.
InOrder ==
  Delivering => \A w \in Workers :
    stream[w] = Of(w, written \o SubSeq(BatchCells, sent + 1, Len(BatchCells))
                        \o Flat(chan) \o Content(buf[w]))

\* write_record's "NEVER split across two channel messages": no cell of one
\* record ever comes between two cells of another, so lines are not torn when
\* several workers write at once.
RecordsWhole ==
  Delivering => \A i, k \in 1..Len(written) :
    i < k /\ written[i] = written[k] => \A j \in i..k : written[j] = written[i]

\* When wait returns, stdout has every record of the search.
FlushedOnReturn ==
  phase = "returned" /\ Delivering =>
    \A w \in Workers : Of(w, written) = stream[w]

\* A worker that needs a fresh buffer gets one, whether or not stdout works:
\* overflow budget always comes back.
FreshBufferComes ==
  \A w \in Workers : pc[w] \in {"rotate", "overflow", "big"} ~> pc[w] \in {"ready", "done"}

\* wait returns, whether the flush is acknowledged, the output worker died of
\* a failed write before or after the request was sent, or never existed.
WaitReturns == phase = "waiting" ~> phase = "returned"
=============================================================================
