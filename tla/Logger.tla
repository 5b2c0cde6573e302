------------------------------- MODULE Logger -------------------------------
(***************************************************************************)
(* The file logger (MutelemetryLogger, mutelemetry_logger.{h,cc}).         *)
(*                                                                         *)
(* Application threads put serialized messages into log_queue_.  A         *)
(* periodic main_loop moves them into the current DataBuffer of a pool;    *)
(* a full buffer, or one that has held data for a second, is exchanged     *)
(* for a free one and handed to start_io_worker, which copies it out,      *)
(* clears it, returns it to the pool and writes the copy to the file.      *)
(* start_io_worker runs inside main_loop, or, in the build with            *)
(* USE_POST_FUNCTION_ON_IO, as a job of the thread pool (AsyncIO).         *)
(*                                                                         *)
(* A message is its position in the order of enqueueing and its size.      *)
(* main_loop does not overlap itself, and the destructor runs when the     *)
(* scheduler no longer executes it (Quiesced): both are properties of the  *)
(* external scheduler.                                                     *)
(***************************************************************************)
EXTENDS Naturals, Sequences, FiniteSets

CONSTANTS NBuffers,      \* DataBuffers in mem_pool_ (8 in the code)
          MaxDataSize,   \* DataBuffer::max_data_size_ (4096 bytes)
          Sizes,         \* sizes of the messages handed to the logger
          MaxItems,      \* bound: messages handed to the logger
          AsyncIO,       \* USE_POST_FUNCTION_ON_IO is defined
          DiskMayFail    \* file_.write and file_.flush may set badbit

ASSUME LoggerAssumption ==
  /\ NBuffers \in Nat /\ NBuffers >= 2
  /\ MaxDataSize \in Nat \ {0}
  /\ Sizes \subseteq 1 .. MaxDataSize
  /\ MaxItems \in Nat
  /\ AsyncIO \in BOOLEAN
  /\ DiskMayFail \in BOOLEAN

VARIABLES
  life,                 \* where MuTelemetry::init and the destructor are
  produced,             \* messages enqueued so far
  log_queue_,           \* contents of the ConcQueue
  data_queue_,          \* the logger's pointer to it: "queue" or "null"
  mem_pool_,            \* the DataBuffers
  pool_stacked_index_,  \* free buffers, a stack whose top is the last element
  curr_idx_,            \* the buffer being filled, or NoBuffer (nullptr)
  idx_mutex_,           \* held by an I/O job about to push its buffer
  loop_pc,              \* where main_loop is
  jobs,                 \* start_io_worker calls in progress
  file_,                \* the ofstream: "closed", "open", or open and "bad"
  disk,                 \* messages accepted by the ofstream, in file order
  flushed               \* how many of them have left its buffer

poolVars == <<mem_pool_, pool_stacked_index_, curr_idx_, idx_mutex_>>
queueVars == <<produced, log_queue_, data_queue_>>
fileVars == <<file_, disk, flushed>>
vars == <<life, queueVars, poolVars, loop_pc, jobs, fileVars>>

Buffers == 0 .. NBuffers - 1
NoBuffer == NBuffers
Item == [id : Nat, size : Sizes]

(***************************************************************************)
(* DataBuffer.                                                             *)
(***************************************************************************)
EmptyBuffer == [buffer_ |-> <<>>, data_size_ |-> 0, is_full_ |-> FALSE,
                aged |-> FALSE]

has_data(b) == mem_pool_[b].data_size_ > 0

(* Mutant: only full buffers are written out.                              *)
can_start_io_full(b) == has_data(b) /\ mem_pool_[b].is_full_

(* can_start_io(): aged stands for add_started_ being a second ago.        *)
can_start_io(b) == has_data(b) /\ mem_pool_[b].aged

(* Mutant: the limit itself does not make a buffer full.                   *)
BecomesFullLate(db, size) == size + db.data_size_ > MaxDataSize

(* Reaching the limit exactly makes the buffer full.                       *)
BecomesFull(db, size) == size + db.data_size_ >= MaxDataSize

(* add(): the message is appended even when it overshoots the limit; the   *)
(* clock of can_start_io starts with the first message.                    *)
AddTo(db, item) ==
  [buffer_    |-> Append(db.buffer_, item),
   data_size_ |-> db.data_size_ + item.size,
   is_full_   |-> db.is_full_ \/ BecomesFull(db, item.size),
   aged       |-> db.data_size_ > 0 /\ db.aged]

-----------------------------------------------------------------------------
(***************************************************************************)
(* Life cycle: constructor, init, start, destructor.                       *)
(***************************************************************************)
Init ==
  /\ life = "boot"
  /\ produced = 0
  /\ log_queue_ = <<>>
  /\ data_queue_ = "null"
  /\ mem_pool_ = [b \in Buffers |-> EmptyBuffer]
  /\ pool_stacked_index_ = [i \in 1 .. NBuffers - 1 |-> i]
  /\ curr_idx_ = 0
  /\ idx_mutex_ = FALSE
  /\ loop_pc = "idle"
  /\ jobs = {}
  /\ file_ = "closed"
  /\ disk = <<>>
  /\ flushed = 0

running_ == life = "up"

(* init(): opening the file may fail, and then logging is disabled.        *)
InitLogger ==
  /\ life = "boot" /\ data_queue_ = "null"
  /\ \/ /\ file_' = "open"
        /\ data_queue_' = "queue"
        /\ life' = "ready"
     \/ /\ life' = "disabled"
        /\ UNCHANGED <<file_, data_queue_>>
  /\ UNCHANGED <<produced, log_queue_, poolVars, loop_pc, jobs, disk, flushed>>

Start ==
  /\ life = "ready"
  /\ life' = "up"
  /\ UNCHANGED <<queueVars, poolVars, loop_pc, jobs, fileVars>>

(* stop(), the first half of the destructor.                               *)
Stop ==
  /\ life = "up"
  /\ life' = "stopping"
  /\ UNCHANGED <<queueVars, poolVars, loop_pc, jobs, fileVars>>

(* The external scheduler runs neither main_loop nor an I/O job.           *)
Quiesced == loop_pc = "idle" /\ jobs = {}

IOJob(b, do_flush) ==
  [buf |-> b, flush |-> do_flush, at |-> "data", result |-> <<>>]

(* file_.close() writes out what the ofstream still buffers.               *)
FlushOnClose(written) ==
  IF DiskMayFail THEN flushed' \in flushed .. Len(written)
                 ELSE flushed' = Len(written)

(* The end of release(): the file is closed and the queue forgotten.       *)
CloseFile ==
  /\ file_' = "closed"
  /\ data_queue_' = "null"
  /\ disk' = disk
  /\ IF file_ = "closed" THEN flushed' = flushed ELSE FlushOnClose(disk)

(* Mutant: release() only closes the file.                                 *)
ReleaseWithoutWrite ==
  /\ life = "stopping" /\ Quiesced
  /\ life' = "down" /\ CloseFile
  /\ UNCHANGED <<produced, log_queue_, poolVars, jobs, loop_pc>>

(* release(), the second half: the rest of the current buffer is written.  *)
Release ==
  /\ life = "stopping" /\ Quiesced
  /\ IF file_ # "closed" /\ has_data(curr_idx_)
       THEN /\ jobs' = {IOJob(curr_idx_, TRUE)}
            /\ IF AsyncIO
                 THEN life' = "down" /\ curr_idx_' = NoBuffer /\ CloseFile
                 ELSE life' = "releasing" /\ UNCHANGED <<curr_idx_, data_queue_, fileVars>>
       ELSE life' = "down" /\ CloseFile /\ UNCHANGED <<jobs, curr_idx_>>
  /\ UNCHANGED <<produced, log_queue_, mem_pool_, pool_stacked_index_,
                 idx_mutex_, loop_pc>>

(* The inline start_io_worker of release() has returned.                   *)
ReleaseEnd ==
  /\ life = "releasing" /\ jobs = {}
  /\ life' = "down"
  /\ curr_idx_' = NoBuffer
  /\ CloseFile
  /\ UNCHANGED <<produced, log_queue_, mem_pool_, pool_stacked_index_,
                 idx_mutex_, loop_pc, jobs>>

-----------------------------------------------------------------------------
(***************************************************************************)
(* Environment: application threads and time.                              *)
(***************************************************************************)

(* MuTelemetry::to_io.                                                     *)
Enqueue(size) ==
  /\ life \in {"up", "stopping"}
  /\ produced < MaxItems
  /\ produced' = produced + 1
  /\ log_queue_' = Append(log_queue_, [id |-> produced + 1, size |-> size])
  /\ UNCHANGED <<life, data_queue_, poolVars, loop_pc, jobs, fileVars>>

(* A second has passed since the current buffer got its first message.     *)
Age ==
  /\ life # "crashed"
  /\ curr_idx_ \in Buffers
  /\ has_data(curr_idx_)
  /\ ~ mem_pool_[curr_idx_].aged
  /\ mem_pool_' = [mem_pool_ EXCEPT ![curr_idx_].aged = TRUE]
  /\ UNCHANGED <<life, queueVars, pool_stacked_index_, curr_idx_, idx_mutex_,
                 loop_pc, jobs, fileVars>>

-----------------------------------------------------------------------------
(***************************************************************************)
(* start_io_worker.  A job goes through the phases                         *)
(*   "data" -> "clear" -> "lock" -> "push" -> "write" [-> "flush"]         *)
(***************************************************************************)
Advance(j, k) == jobs' = (jobs \ {j}) \cup {k}
Finish(j) == jobs' = jobs \ {j}

(* Mutant: the buffer is cleared before it is copied.                      *)
JobDataAfterClear(j) ==
  /\ j.at = "data"
  /\ Advance(j, [j EXCEPT !.at = "clear", !.result = EmptyBuffer.buffer_])
  /\ UNCHANGED <<life, queueVars, poolVars, loop_pc, fileVars>>

(* result = dbp->data()                                                    *)
JobData(j) ==
  /\ j.at = "data"
  /\ Advance(j, [j EXCEPT !.at = "clear", !.result = mem_pool_[j.buf].buffer_])
  /\ UNCHANGED <<life, queueVars, poolVars, loop_pc, fileVars>>

(* Mutant: clear() forgets is_full_.                                       *)
JobClearKeepsFull(j) ==
  /\ j.at = "clear"
  /\ mem_pool_' = [mem_pool_ EXCEPT
       ![j.buf] = [EmptyBuffer EXCEPT !.is_full_ = mem_pool_[j.buf].is_full_]]
  /\ Advance(j, [j EXCEPT !.at = "lock"])
  /\ UNCHANGED <<life, queueVars, pool_stacked_index_, curr_idx_, idx_mutex_,
                 loop_pc, fileVars>>

(* dbp->clear()                                                            *)
JobClear(j) ==
  /\ j.at = "clear"
  /\ mem_pool_' = [mem_pool_ EXCEPT ![j.buf] = EmptyBuffer]
  /\ Advance(j, [j EXCEPT !.at = "lock"])
  /\ UNCHANGED <<life, queueVars, pool_stacked_index_, curr_idx_, idx_mutex_,
                 loop_pc, fileVars>>

JobLock(j) ==
  /\ j.at = "lock"
  /\ ~ idx_mutex_
  /\ idx_mutex_' = TRUE
  /\ Advance(j, [j EXCEPT !.at = "push"])
  /\ UNCHANGED <<life, queueVars, mem_pool_, pool_stacked_index_, curr_idx_,
                 loop_pc, fileVars>>

(* pool_stacked_index_.push(dbp), and the guard unlocks.                   *)
JobPush(j) ==
  /\ j.at = "push"
  /\ pool_stacked_index_' = Append(pool_stacked_index_, j.buf)
  /\ idx_mutex_' = FALSE
  /\ Advance(j, [j EXCEPT !.at = "write"])
  /\ UNCHANGED <<life, queueVars, mem_pool_, curr_idx_, loop_pc, fileVars>>

(* write(result), serialized by io_mutex_.                                 *)
JobWrite(j) ==
  /\ j.at = "write"
  /\ file_ = "open"
  /\ disk' = disk \o j.result
  /\ IF j.flush THEN Advance(j, [j EXCEPT !.at = "flush"]) ELSE Finish(j)
  /\ UNCHANGED <<life, queueVars, poolVars, loop_pc, file_, flushed>>

(* Mutant: the failure is logged and the file stays open.                  *)
JobWriteErrorIgnored(j) ==
  /\ j.at = "write"
  /\ file_ = "open" => DiskMayFail
  /\ Finish(j)
  /\ UNCHANGED <<life, queueVars, poolVars, loop_pc, fileVars>>

(* write(result) fails, having written a prefix of it, or nothing to a     *)
(* stream that is closed or already bad; release(true) closes the file.    *)
JobWriteError(j) ==
  /\ j.at = "write"
  /\ file_ = "open" => DiskMayFail
  /\ \E n \in 0 .. (IF file_ = "open" THEN Len(j.result) ELSE 0) :
       /\ disk' = disk \o SubSeq(j.result, 1, n)
       /\ IF file_ = "closed" THEN flushed' = flushed ELSE FlushOnClose(disk')
  /\ file_' = "closed"
  /\ data_queue_' = "null"
  /\ Finish(j)
  /\ UNCHANGED <<life, produced, log_queue_, poolVars, loop_pc>>

(* flush(): its failure sets badbit, which only the next write notices.    *)
JobFlush(j) ==
  /\ j.at = "flush"
  /\ \/ /\ flushed' = IF file_ = "open" THEN Len(disk) ELSE flushed
        /\ file_' = file_
     \/ /\ DiskMayFail /\ file_ = "open"
        /\ flushed' \in flushed .. Len(disk)
        /\ file_' = "bad"
  /\ Finish(j)
  /\ UNCHANGED <<life, queueVars, poolVars, loop_pc, disk>>

IOStep ==
  /\ life # "crashed"
  /\ \E j \in jobs :
       \/ JobData(j) \/ JobClear(j) \/ JobLock(j) \/ JobPush(j)
       \/ JobWrite(j) \/ JobWriteError(j) \/ JobFlush(j)

-----------------------------------------------------------------------------
(***************************************************************************)
(* main_loop.  Only main_loop changes curr_idx_ while running, so its      *)
(* local io_idx always equals it.                                          *)
(***************************************************************************)
(* Mutant: the buffer that was taken stays on the stack.                   *)
pop_forgotten == pool_stacked_index_

top == pool_stacked_index_[Len(pool_stacked_index_)]
pop == SubSeq(pool_stacked_index_, 1, Len(pool_stacked_index_) - 1)

Enter ==
  /\ loop_pc = "idle" /\ running_
  /\ loop_pc' = "while"
  /\ UNCHANGED <<life, queueVars, poolVars, jobs, fileVars>>

(* A null data_queue_ is dereferenced: the process crashes.                *)
NullQueue ==
  /\ loop_pc \in {"while", "add"}
  /\ data_queue_ = "null"
  /\ loop_pc' = "idle"
  /\ life' = "crashed"
  /\ UNCHANGED <<queueVars, poolVars, jobs, fileVars>>

WhileTest ==
  /\ loop_pc = "while"
  /\ data_queue_ = "queue"
  /\ loop_pc' = IF log_queue_ = <<>> THEN "tail"
                ELSE IF mem_pool_[curr_idx_].is_full_ THEN "swap" ELSE "add"
  /\ UNCHANGED <<life, queueVars, poolVars, jobs, fileVars>>

(* The exchange of the current buffer for a free one: try_lock, the test   *)
(* of the stack, compare_exchange, pop, unlock, start_io_worker.           *)
Swap(do_flush, next) ==
  /\ ~ idx_mutex_
  /\ pool_stacked_index_ # <<>>
  /\ curr_idx_' = top
  /\ pool_stacked_index_' = pop
  /\ jobs' = jobs \cup {IOJob(curr_idx_, do_flush)}
  /\ loop_pc' = next
  /\ UNCHANGED <<life, queueVars, mem_pool_, idx_mutex_, fileVars>>

(* The stack is empty, or compare_exchange_weak fails spuriously.          *)
SwapFails ==
  /\ loop_pc \in {"swap", "tail_swap"}
  /\ ~ idx_mutex_
  /\ loop_pc' = "idle"
  /\ UNCHANGED <<life, queueVars, poolVars, jobs, fileVars>>

(* try_lock fails: the loop continues, the tail gives up.                  *)
TryLockFails ==
  /\ loop_pc \in {"swap", "tail_swap"}
  /\ idx_mutex_
  /\ loop_pc' = IF loop_pc = "swap" THEN "while" ELSE "idle"
  /\ UNCHANGED <<life, queueVars, poolVars, jobs, fileVars>>

SwapFull ==
  /\ loop_pc = "swap"
  /\ Swap(FALSE, IF AsyncIO THEN "add" ELSE "io")

(* An inline start_io_worker has returned to main_loop.                    *)
ReturnFromIO ==
  /\ loop_pc \in {"io", "tail_io"}
  /\ jobs = {}
  /\ loop_pc' = IF loop_pc = "io" THEN "add" ELSE "idle"
  /\ UNCHANGED <<life, queueVars, poolVars, jobs, fileVars>>

(* dequeue() and add().                                                    *)
Add ==
  /\ loop_pc = "add"
  /\ data_queue_ = "queue"
  /\ log_queue_' = Tail(log_queue_)
  /\ mem_pool_' = [mem_pool_ EXCEPT ![curr_idx_] = AddTo(@, Head(log_queue_))]
  /\ loop_pc' = "while"
  /\ UNCHANGED <<life, produced, data_queue_, pool_stacked_index_, curr_idx_,
                 idx_mutex_, jobs, fileVars>>

TailTest ==
  /\ loop_pc = "tail"
  /\ loop_pc' = IF can_start_io(curr_idx_) THEN "tail_swap" ELSE "idle"
  /\ UNCHANGED <<life, queueVars, poolVars, jobs, fileVars>>

(* Mutant: do_flush takes its default.                                     *)
SwapTailNoFlush ==
  /\ loop_pc = "tail_swap"
  /\ Swap(FALSE, IF AsyncIO THEN "idle" ELSE "tail_io")

SwapTail ==
  /\ loop_pc = "tail_swap"
  /\ Swap(TRUE, IF AsyncIO THEN "idle" ELSE "tail_io")

LoopStep ==
  \/ Enter \/ NullQueue \/ WhileTest \/ SwapFull \/ SwapFails \/ TryLockFails
  \/ ReturnFromIO \/ Add \/ TailTest \/ SwapTail

Next ==
  \/ InitLogger \/ Start \/ Stop \/ Release \/ ReleaseEnd
  \/ \E size \in Sizes : Enqueue(size)
  \/ Age
  \/ LoopStep
  \/ IOStep

Spec == Init /\ [][Next]_vars

(* The scheduler keeps running main_loop and the jobs, time passes, and    *)
(* compare_exchange_weak does not fail spuriously for ever.                *)
Fairness ==
  /\ WF_vars(LoopStep)
  /\ WF_vars(IOStep)
  /\ WF_vars(Age)
  /\ SF_vars(SwapFull)
  /\ SF_vars(SwapTail)

FairSpec == Spec /\ Fairness

-----------------------------------------------------------------------------
(***************************************************************************)
(* Properties.                                                             *)
(***************************************************************************)
DataBuffer == [buffer_ : Seq(Item), data_size_ : 0 .. 2 * MaxDataSize - 1,
               is_full_ : BOOLEAN, aged : BOOLEAN]

Job == [buf : Buffers, flush : BOOLEAN,
        at : {"data", "clear", "lock", "push", "write", "flush"},
        result : Seq(Item)]

(* The type invariant.  Its one claim about the code is the bound of       *)
(* DataBuffer::add: a buffer takes at most one message past its limit, so  *)
(* it never holds twice max_data_size_ bytes (DataBuffer::add, full()).    *)
TypeOK ==
  /\ life \in {"boot", "ready", "disabled", "up", "stopping", "releasing", "down",
              "crashed"}
  /\ produced \in Nat
  /\ log_queue_ \in Seq(Item)
  /\ data_queue_ \in {"queue", "null"}
  /\ mem_pool_ \in [Buffers -> DataBuffer]
  /\ pool_stacked_index_ \in Seq(Buffers)
  /\ curr_idx_ \in Buffers \cup {NoBuffer}
  /\ idx_mutex_ \in BOOLEAN
  /\ loop_pc \in {"idle", "while", "swap", "io", "add", "tail", "tail_swap",
                  "tail_io"}
  /\ jobs \subseteq Job
  /\ file_ \in {"open", "bad", "closed"}
  /\ disk \in Seq(Item)
  /\ flushed \in 0 .. Len(disk)

Stacked(b) == \E i \in 1 .. Len(pool_stacked_index_) : pool_stacked_index_[i] = b
Owns(j, b) == j.buf = b /\ j.at \in {"data", "clear", "lock", "push"}

(* Every DataBuffer is in exactly one place: on the free stack, current,   *)
(* or in the hands of one I/O job.  So no two threads use one buffer and   *)
(* none is lost to the pool, whatever the order of swaps in main_loop and  *)
(* pushes in start_io_worker.  (release() leaves the buffer it writes out  *)
(* current until it is done: then that buffer is its job's.)               *)
PoolPartition ==
  /\ \A i, k \in 1 .. Len(pool_stacked_index_) :
       pool_stacked_index_[i] = pool_stacked_index_[k] => i = k
  /\ \A b \in Buffers :
       /\ Stacked(b) => \A j \in jobs : ~ Owns(j, b)
       /\ curr_idx_ = b /\ life # "releasing" =>
            ~ Stacked(b) /\ \A j \in jobs : ~ Owns(j, b)
       /\ \A j, k \in jobs : Owns(j, b) /\ Owns(k, b) => j = k
       /\ \/ Stacked(b)
          \/ curr_idx_ = b /\ life # "releasing"
          \/ \E j \in jobs : Owns(j, b)

(* The asserts "curr_idx_.load()->size() == 0" of both swaps of main_loop: *)
(* a buffer on the free stack has been cleared by the job that pushed it.  *)
FreeBuffersEmpty ==
  \A b \in Buffers : Stacked(b) => mem_pool_[b] = EmptyBuffer

Fifo == INSTANCE FifoLog WITH
          accepted <- produced,
          file     <- [i \in 1 .. Len(disk) |-> disk[i].id],
          durable  <- flushed

(* The logger with inline I/O, the build's default, implements FifoLog,    *)
(* disk errors included: the file is a gapless prefix of the messages in   *)
(* the order to_io enqueued them, and every step of main_loop,             *)
(* start_io_worker and release() only appends the next messages to the     *)
(* file and never takes durability back.                                   *)
ImplementsFifoLog == Fifo!Spec

(* What a job still has to write.                                          *)
Pending(j) ==
  CASE j.at = "data"  -> mem_pool_[j.buf].buffer_
    [] j.at = "flush" -> <<>>
    [] OTHER          -> j.result

IdsOf(s) == {s[i].id : i \in 1 .. Len(s)}

(* The message lists main_loop and the jobs hold, and the file.            *)
Unwritten ==
  IF curr_idx_ = NoBuffer \/ life = "releasing" THEN <<>>
                                              ELSE mem_pool_[curr_idx_].buffer_

(* As long as the file is open, every message ever enqueued is in exactly  *)
(* one place: the queue, the current buffer, one I/O job or the file.      *)
(* Jobs running in parallel (USE_POST_FUNCTION_ON_IO) may write out of     *)
(* order but neither lose nor repeat a message.                            *)
NoLossNoDup ==
  file_ # "closed" =>
    /\ IdsOf(log_queue_) \cup IdsOf(Unwritten) \cup IdsOf(disk)
         \cup UNION {IdsOf(Pending(j)) : j \in jobs} = 1 .. produced
    /\ \A j \in jobs : IdsOf(Pending(j)) \cap IdsOf(disk) = {}
    /\ \A j, k \in jobs : j # k => IdsOf(Pending(j)) \cap IdsOf(Pending(k)) = {}
    /\ Cardinality(IdsOf(disk)) = Len(disk)

(* With inline I/O, whenever main_loop rests while the file is good,       *)
(* messages that are in the file but not flushed imply that the current    *)
(* buffer holds data, so that a later can_start_io() will flush them: the  *)
(* swap of a full buffer, which does not flush, never is the last.         *)
UnflushedPending ==
  ~ AsyncIO /\ Quiesced /\ file_ = "open" /\ flushed < Len(disk)
    => has_data(curr_idx_)

(* With inline I/O, the destructor leaves in the file, flushed, everything *)
(* main_loop had taken off the queue, unless the disk has failed before    *)
(* release() closes the file.                                              *)
ReleasedComplete ==
  [][ ~ AsyncIO /\ life # "down" /\ life' = "down" /\ file_ = "open" =>
        flushed' = Len(disk') /\ Len(disk') + Len(log_queue_') = produced' ]_vars

(* The assert "dp != nullptr" of main_loop: where the loop takes a message *)
(* off the queue there is a queue and it has one.                          *)
DequeueGetsMessage ==
  loop_pc = "add" => data_queue_ = "queue" /\ log_queue_ # <<>>

(* Every message is eventually flushed to the file unless the logger is    *)
(* stopped or the disk fails first: main_loop's tail writes out a buffer   *)
(* that has held data for a second.                                        *)
EventuallyDurable ==
  \A n \in 1 .. MaxItems :
    produced >= n ~> (flushed >= n \/ life # "up" \/ file_ # "open")

=============================================================================
