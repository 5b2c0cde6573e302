---------------------------- MODULE LoggerProofs ----------------------------
(***************************************************************************)
(* Proofs about the file logger, for every number of buffers, buffer size, *)
(* set of message sizes and number of messages.                            *)
(***************************************************************************)
EXTENDS Logger, SequenceTheorems, TLAPS

(***************************************************************************)
(* The inductive invariant of the buffer pool.  PoolPartition alone is not *)
(* inductive: that a pushed buffer is empty rests on the phases of its job *)
(* (Cleared), the bound of a buffer on main_loop adding only to one that   *)
(* is not full (Room, Control).                                            *)
(***************************************************************************)

(* A buffer that is not full has room for one more message.                *)
Room ==
  \A b \in Buffers : ~ mem_pool_[b].is_full_ => mem_pool_[b].data_size_ < MaxDataSize

(* A job past its clear() holds an empty buffer.                           *)
Cleared ==
  \A j \in jobs : j.at \in {"lock", "push"} => mem_pool_[j.buf] = EmptyBuffer

(* What the program counters imply.                                        *)
Control ==
  /\ curr_idx_ = NoBuffer => life = "down"
  /\ loop_pc # "idle" => life \in {"up", "stopping"}
  /\ loop_pc \in {"swap", "io", "add"} => log_queue_ # <<>>
  /\ loop_pc \in {"io", "add"} => ~ mem_pool_[curr_idx_].is_full_
  /\ life = "releasing" => \A j \in jobs : j.buf = curr_idx_

PoolInv ==
  TypeOK /\ PoolPartition /\ FreeBuffersEmpty /\ Room /\ Cleared /\ Control

-----------------------------------------------------------------------------
(* The empty buffer of the constructor and of clear() is a DataBuffer.     *)
LEMMA EmptyBufferType ==
  /\ EmptyBuffer \in DataBuffer
  /\ EmptyBuffer.data_size_ = 0
  /\ ~ EmptyBuffer.is_full_
<1>1. <<>> \in Seq(Item)
  BY EmptySeq
<1>2. 0 \in 0 .. 2 * MaxDataSize - 1
  BY LoggerAssumption
<1> QED
  BY <1>1, <1>2 DEF EmptyBuffer, DataBuffer

(* Pushing adds a buffer on top of the free stack.                         *)
LEMMA PushStack ==
  ASSUME NEW s \in Seq(Buffers), NEW b \in Buffers
  PROVE  /\ Append(s, b) \in Seq(Buffers)
         /\ Len(Append(s, b)) = Len(s) + 1
         /\ \A i \in 1 .. Len(s) : Append(s, b)[i] = s[i]
         /\ Append(s, b)[Len(s) + 1] = b
  BY AppendProperties

(* Popping removes the top of a free stack that is not empty.              *)
LEMMA PopStack ==
  ASSUME NEW s \in Seq(Buffers), s # <<>>
  PROVE  /\ Len(s) \in Nat \ {0}
         /\ s[Len(s)] \in Buffers
         /\ SubSeq(s, 1, Len(s) - 1) \in Seq(Buffers)
         /\ Len(SubSeq(s, 1, Len(s) - 1)) = Len(s) - 1
         /\ \A i \in 1 .. Len(s) - 1 : SubSeq(s, 1, Len(s) - 1)[i] = s[i]
<1>1. Len(s) \in Nat \ {0}
  BY EmptySeq
<1>2. \A i \in 1 .. Len(s) : s[i] \in Buffers
  BY ElementOfSeq
<1>3. \A i \in 1 .. Len(s) - 1 : s[i] \in Buffers
  BY <1>1, <1>2
<1>4. /\ SubSeq(s, 1, Len(s) - 1) \in Seq(Buffers)
      /\ Len(SubSeq(s, 1, Len(s) - 1))
           = IF 1 <= Len(s) - 1 THEN Len(s) - 1 - 1 + 1 ELSE 0
      /\ \A i \in 1 .. Len(s) - 1 - 1 + 1 : SubSeq(s, 1, Len(s) - 1)[i] = s[1 + i - 1]
  BY <1>1, <1>3, SubSeqProperties
<1>5. Len(s) - 1 - 1 + 1 = Len(s) - 1 /\ Len(s) \in 1 .. Len(s)
  BY <1>1
<1>6. Len(SubSeq(s, 1, Len(s) - 1)) = Len(s) - 1
  <2>1. (IF 1 <= Len(s) - 1 THEN Len(s) - 1 - 1 + 1 ELSE 0) = Len(s) - 1
    BY <1>1
  <2> QED
    BY <1>4, <2>1
<1>7. \A i \in 1 .. Len(s) - 1 : SubSeq(s, 1, Len(s) - 1)[i] = s[i]
  <2> TAKE i \in 1 .. Len(s) - 1
  <2>1. 1 + i - 1 = i
    BY <1>1
  <2> QED
    BY <1>4, <1>5, <2>1
<1>8. s[Len(s)] \in Buffers
  BY <1>2, <1>5
<1> QED
  BY <1>1, <1>4, <1>6, <1>7, <1>8

(* The constructor establishes the invariant.                              *)
LEMMA PoolInvInit == Init => PoolInv
<1> SUFFICES ASSUME Init PROVE PoolInv
  OBVIOUS
<1> USE LoggerAssumption DEF Init
<1>1. pool_stacked_index_ \in Seq(Buffers) /\ Len(pool_stacked_index_) = NBuffers - 1
  BY DEF Buffers
<1>2. TypeOK
  <2>1. mem_pool_ \in [Buffers -> DataBuffer]
    BY EmptyBufferType
  <2>2. <<>> \in Seq(Item) /\ Len(<<>>) = 0
    BY EmptySeq
  <2>3. curr_idx_ \in Buffers
    BY DEF Buffers
  <2>4. flushed \in 0 .. Len(disk) /\ produced \in Nat
    BY <2>2
  <2>5. idx_mutex_ \in BOOLEAN /\ jobs \subseteq Job
    BY Zenon
  <2> QED
    BY <1>1, <2>1, <2>2, <2>3, <2>4, <2>5, Zenon DEF TypeOK
<1>3. PoolPartition
  BY <1>1 DEF PoolPartition, Stacked, Owns, Buffers
<1>4. FreeBuffersEmpty
  BY DEF FreeBuffersEmpty
<1>5. Room /\ Cleared /\ Control
  BY EmptyBufferType DEF Room, Cleared, Control, NoBuffer
<1> QED
  BY <1>2, <1>3, <1>4, <1>5 DEF PoolInv

(* An action that leaves buffers, stack, current index and jobs alone      *)
(* keeps what the invariant says of the pool.                              *)
LEMMA PoolUnchanged ==
  ASSUME PoolInv, UNCHANGED <<poolVars, jobs>>,
         life' = "releasing" => life = "releasing",
         life = "releasing" => life' = "releasing"
  PROVE  (PoolPartition /\ FreeBuffersEmpty /\ Room /\ Cleared)'
<1> USE DEF poolVars
<1>1. \A b : Stacked(b)' = Stacked(b)
  BY DEF Stacked
<1>2. PoolPartition'
  BY <1>1 DEF PoolInv, PoolPartition, Owns, Stacked
<1>3. FreeBuffersEmpty'
  BY <1>1 DEF PoolInv, FreeBuffersEmpty
<1>4. Room' /\ Cleared'
  BY DEF PoolInv, Room, Cleared
<1> QED
  BY <1>2, <1>3, <1>4

(* The steps of main_loop that do not touch the pool, and the life cycle   *)
(* up to the destructor.                                                   *)
LEMMA PoolInvControl ==
  ASSUME PoolInv,
         \/ InitLogger \/ Start \/ Stop
         \/ Enter \/ NullQueue \/ WhileTest \/ SwapFails \/ TryLockFails
         \/ ReturnFromIO \/ TailTest
  PROVE  PoolInv'
<1> USE DEF PoolInv
<1>1. /\ UNCHANGED <<produced, log_queue_, poolVars, jobs, disk, flushed>>
      /\ life # "releasing" /\ life' # "releasing"
  <2>1. CASE InitLogger \/ Start \/ Stop
    BY <2>1 DEF InitLogger, Start, Stop, queueVars, fileVars
  <2>2. CASE Enter \/ NullQueue \/ WhileTest \/ SwapFails \/ TryLockFails
               \/ ReturnFromIO \/ TailTest
    BY <2>2 DEF Control, Enter, running_, NullQueue, WhileTest, SwapFails,
                TryLockFails, ReturnFromIO, TailTest, queueVars, fileVars
  <2> QED
    BY <2>1, <2>2
<1>2. PoolPartition' /\ FreeBuffersEmpty' /\ Room' /\ Cleared'
  BY <1>1, PoolUnchanged
<1>3. TypeOK'
  BY <1>1 DEF TypeOK, poolVars, InitLogger, Start, Stop, Enter, NullQueue,
              WhileTest, SwapFails, TryLockFails, ReturnFromIO, TailTest,
              queueVars, fileVars
<1>4. Control'
  BY <1>1 DEF Control, poolVars, InitLogger, Start, Stop, Enter, running_,
              NullQueue, WhileTest, SwapFails, TryLockFails, ReturnFromIO,
              TailTest, queueVars, fileVars
<1> QED
  BY <1>2, <1>3, <1>4

(* A new message on the queue.                                             *)
LEMMA PoolInvEnqueue ==
  ASSUME PoolInv, NEW size \in Sizes, Enqueue(size)
  PROVE  PoolInv'
<1> USE DEF PoolInv
<1>1. PoolPartition' /\ FreeBuffersEmpty' /\ Room' /\ Cleared'
  BY PoolUnchanged DEF Enqueue
<1>2. /\ log_queue_' \in Seq(Item)
      /\ log_queue_' # <<>>
      /\ produced' \in Nat
  <2>1. [id |-> produced + 1, size |-> size] \in Item
    BY DEF Item, TypeOK
  <2> QED
    BY <2>1, AppendProperties DEF Enqueue, TypeOK
<1>3. TypeOK'
  BY <1>2 DEF TypeOK, Enqueue, poolVars, fileVars
<1>4. Control'
  BY <1>2 DEF Control, Enqueue, poolVars
<1> QED
  BY <1>1, <1>3, <1>4

(* The current buffer ages.  While release() writes it out it may be free  *)
(* or cleared already, and then it has no data.                            *)
LEMMA PoolInvAge ==
  ASSUME PoolInv, Age
  PROVE  PoolInv'
<1> USE DEF PoolInv
<1>1. /\ UNCHANGED <<life, queueVars, pool_stacked_index_, curr_idx_, idx_mutex_,
                     loop_pc, jobs, fileVars>>
      /\ curr_idx_ \in Buffers
      /\ mem_pool_[curr_idx_].data_size_ > 0
      /\ mem_pool_' = [mem_pool_ EXCEPT ![curr_idx_].aged = TRUE]
  BY DEF Age, has_data
<1>2. mem_pool_' \in [Buffers -> DataBuffer]
  BY <1>1 DEF TypeOK, DataBuffer
<1>3. /\ \A b \in Buffers : b # curr_idx_ => mem_pool_'[b] = mem_pool_[b]
      /\ \A b \in Buffers : /\ mem_pool_'[b].is_full_ = mem_pool_[b].is_full_
                           /\ mem_pool_'[b].data_size_ = mem_pool_[b].data_size_
  BY <1>1 DEF TypeOK, DataBuffer
<1>4. mem_pool_[curr_idx_] # EmptyBuffer
  BY <1>1, EmptyBufferType
<1>5. \A b : Stacked(b)' = Stacked(b)
  BY <1>1 DEF Stacked
<1>6. TypeOK'
  BY <1>1, <1>2 DEF TypeOK, queueVars, fileVars
<1>7. PoolPartition'
  BY <1>1, <1>5 DEF PoolPartition, Owns
<1>8. FreeBuffersEmpty'
  BY <1>3, <1>4, <1>5 DEF FreeBuffersEmpty
<1>9. Room'
  BY <1>3 DEF Room
<1>10. Cleared'
  <2> SUFFICES ASSUME NEW j \in jobs, j.at \in {"lock", "push"}
               PROVE  mem_pool_'[j.buf] = EmptyBuffer
    BY <1>1 DEF Cleared
  <2>1. mem_pool_[j.buf] = EmptyBuffer /\ j.buf \in Buffers
    BY DEF Cleared, TypeOK, Job
  <2> QED
    BY <2>1, <1>3, <1>4
<1>11. Control'
  BY <1>1, <1>3 DEF Control, queueVars
<1> QED
  BY <1>6, <1>7, <1>8, <1>9, <1>10, <1>11

(* add() to a buffer with room overshoots the limit by less than another   *)
(* limit, and leaves room or a full buffer.                                *)
LEMMA AddToType ==
  ASSUME NEW db \in DataBuffer, NEW item \in Item,
         db.data_size_ < MaxDataSize
  PROVE  /\ AddTo(db, item) \in DataBuffer
         /\ ~ AddTo(db, item).is_full_ => AddTo(db, item).data_size_ < MaxDataSize
<1>1. /\ item.size \in Sizes
      /\ db.data_size_ \in 0 .. 2 * MaxDataSize - 1
      /\ db.buffer_ \in Seq(Item)
      /\ db.is_full_ \in BOOLEAN /\ db.aged \in BOOLEAN
  BY DEF Item, DataBuffer
<1>2. item.size \in Nat /\ item.size <= MaxDataSize /\ MaxDataSize \in Nat
  <2>1. item.size \in 1 .. MaxDataSize /\ MaxDataSize \in Nat
    BY <1>1, LoggerAssumption, Zenon
  <2> QED
    BY <2>1
<1>3. db.data_size_ \in Nat
  BY <1>1
<1>4. db.data_size_ + item.size \in 0 .. 2 * MaxDataSize - 1
  BY <1>2, <1>3
<1>5. Append(db.buffer_, item) \in Seq(Item)
  BY <1>1, AppendProperties
<1>6. /\ (db.is_full_ \/ BecomesFull(db, item.size)) \in BOOLEAN
      /\ (db.data_size_ > 0 /\ db.aged) \in BOOLEAN
  BY <1>1 DEF BecomesFull
<1>7. AddTo(db, item) \in DataBuffer
  BY <1>4, <1>5, <1>6 DEF AddTo, DataBuffer
<1>8. ASSUME ~ (db.is_full_ \/ BecomesFull(db, item.size))
      PROVE  db.data_size_ + item.size < MaxDataSize
  BY <1>8, <1>2, <1>3 DEF BecomesFull
<1> QED
  BY <1>7, <1>8 DEF AddTo

(* main_loop adds a message to the current buffer, which is not full.      *)
LEMMA PoolInvAdd ==
  ASSUME PoolInv, Add
  PROVE  PoolInv'
<1> USE DEF PoolInv
<1> DEFINE db == mem_pool_[curr_idx_]
           item == Head(log_queue_)
<1>1. /\ UNCHANGED <<life, produced, data_queue_, pool_stacked_index_, curr_idx_,
                     idx_mutex_, jobs, fileVars>>
      /\ loop_pc = "add" /\ loop_pc' = "while"
      /\ log_queue_' = Tail(log_queue_)
      /\ mem_pool_' = [mem_pool_ EXCEPT ![curr_idx_] = AddTo(db, item)]
  BY DEF Add
<1>2. /\ curr_idx_ \in Buffers
      /\ life # "releasing"
      /\ ~ db.is_full_
      /\ log_queue_ # <<>>
  BY <1>1 DEF Control, TypeOK
<1>3. item \in Item /\ log_queue_' \in Seq(Item)
  BY <1>1, <1>2, HeadTailProperties DEF TypeOK
<1>4. db \in DataBuffer /\ db.data_size_ < MaxDataSize
  BY <1>2 DEF TypeOK, Room
<1>5. /\ AddTo(db, item) \in DataBuffer
      /\ ~ AddTo(db, item).is_full_ => AddTo(db, item).data_size_ < MaxDataSize
  BY <1>3, <1>4, AddToType
<1>7. /\ mem_pool_' \in [Buffers -> DataBuffer]
      /\ mem_pool_'[curr_idx_] = AddTo(db, item)
      /\ \A b \in Buffers : b # curr_idx_ => mem_pool_'[b] = mem_pool_[b]
  BY <1>1, <1>2, <1>5 DEF TypeOK
<1>8. \A b : Stacked(b)' = Stacked(b)
  BY <1>1 DEF Stacked
<1>9. TypeOK'
  BY <1>1, <1>3, <1>7 DEF TypeOK, fileVars
<1>10. PoolPartition'
  BY <1>1, <1>8 DEF PoolPartition, Owns
<1>11. FreeBuffersEmpty'
  BY <1>2, <1>7, <1>8 DEF FreeBuffersEmpty, PoolPartition
<1>12. Room'
  BY <1>5, <1>7 DEF Room
<1>13. Cleared'
  <2> SUFFICES ASSUME NEW j \in jobs, j.at \in {"lock", "push"}
               PROVE  mem_pool_'[j.buf] = EmptyBuffer
    BY <1>1 DEF Cleared
  <2>1. mem_pool_[j.buf] = EmptyBuffer /\ j.buf \in Buffers
    BY DEF Cleared, TypeOK, Job
  <2>2. j.buf # curr_idx_
    BY <1>2 DEF PoolPartition, Owns
  <2> QED
    BY <2>1, <2>2, <1>7
<1>14. Control'
  BY <1>1, <1>2 DEF Control
<1> QED
  BY <1>9, <1>10, <1>11, <1>12, <1>13, <1>14

(* main_loop exchanges the current buffer for the top of the free stack.   *)
LEMMA PoolInvSwap ==
  ASSUME PoolInv, SwapFull \/ SwapTail
  PROVE  PoolInv'
<1> USE DEF PoolInv
<1> PICK do_flush \in BOOLEAN, next \in {"add", "io", "idle", "tail_io"} :
      /\ Swap(do_flush, next)
      /\ loop_pc \in {"swap", "tail_swap"}
      /\ next \in {"add", "io"} => loop_pc = "swap"
  BY LoggerAssumption DEF SwapFull, SwapTail
<1> DEFINE s == pool_stacked_index_
           n == Len(pool_stacked_index_)
           new == IOJob(curr_idx_, do_flush)
<1>1. /\ UNCHANGED <<life, queueVars, mem_pool_, idx_mutex_, fileVars>>
      /\ curr_idx_' = s[n]
      /\ s' = SubSeq(s, 1, n - 1)
      /\ jobs' = jobs \cup {new}
      /\ loop_pc' = next
      /\ s # <<>>
  BY DEF Swap, top, pop
<1>2. /\ n \in Nat \ {0}
      /\ s[n] \in Buffers
      /\ s' \in Seq(Buffers)
      /\ Len(s') = n - 1
      /\ \A i \in 1 .. n - 1 : s'[i] = s[i]
  BY <1>1, PopStack DEF TypeOK
<1>3. /\ curr_idx_ \in Buffers
      /\ life # "releasing"
      /\ life \in {"up", "stopping"}
  BY DEF Control, TypeOK
<1>4. new \in Job /\ new.buf = curr_idx_ /\ new.at = "data"
  <2>1. <<>> \in Seq(Item)
    BY EmptySeq
  <2> QED
    BY <1>3, <2>1 DEF IOJob, Job
<1>5. /\ Stacked(s[n])
      /\ s[n] # curr_idx_
      /\ \A b \in Buffers : Stacked(b)' <=> (Stacked(b) /\ b # s[n])
  <2>1. Stacked(s[n])
    BY <1>2 DEF Stacked
  <2>2. s[n] # curr_idx_
    BY <1>2, <1>3, <2>1 DEF PoolPartition
  <2>3. ASSUME NEW b \in Buffers
        PROVE  Stacked(b)' <=> (Stacked(b) /\ b # s[n])
    <3>1. ASSUME Stacked(b)' PROVE Stacked(b) /\ b # s[n]
      <4>1. PICK i \in 1 .. n - 1 : s'[i] = b
        BY <3>1, <1>2 DEF Stacked
      <4>2. i \in 1 .. n /\ n \in 1 .. n /\ i # n /\ s[i] = b
        BY <4>1, <1>2
      <4> QED
        BY <4>2 DEF Stacked, PoolPartition
    <3>2. ASSUME Stacked(b), b # s[n] PROVE Stacked(b)'
      <4>1. PICK i \in 1 .. n : s[i] = b
        BY <3>2 DEF Stacked
      <4>2. i \in 1 .. n - 1
        BY <4>1, <3>2, <1>2
      <4>3. s'[i] = b /\ i \in 1 .. Len(s')
        BY <4>1, <4>2, <1>2
      <4> QED
        BY <4>3 DEF Stacked
    <3> QED
      BY <3>1, <3>2
  <2> QED
    BY <2>1, <2>2, <2>3
<1>6. TypeOK'
  BY <1>1, <1>2, <1>4 DEF TypeOK, queueVars, fileVars
<1>7. PoolPartition'
  <2>1. \A i, k \in 1 .. Len(s') : s'[i] = s'[k] => i = k
    BY <1>2 DEF PoolPartition
  <2>2. ASSUME NEW b \in Buffers
        PROVE  /\ Stacked(b)' => \A j \in jobs' : ~ Owns(j, b)
               /\ curr_idx_' = b =>
                    ~ Stacked(b)' /\ \A j \in jobs' : ~ Owns(j, b)
               /\ \A j, k \in jobs' : Owns(j, b) /\ Owns(k, b) => j = k
               /\ Stacked(b)' \/ (curr_idx_' = b /\ life' # "releasing")
                              \/ \E j \in jobs' : Owns(j, b)
    <3>1. Owns(new, b) <=> b = curr_idx_
      BY <1>4 DEF Owns
    <3>2. b = curr_idx_ => ~ Stacked(b) /\ \A j \in jobs : ~ Owns(j, b)
      BY <1>3 DEF PoolPartition
    <3> QED
      BY <1>1, <1>2, <1>3, <1>5, <3>1, <3>2 DEF PoolPartition
  <2> QED
    BY <2>1, <2>2 DEF PoolPartition, Owns
<1>8. FreeBuffersEmpty'
  BY <1>1, <1>5 DEF FreeBuffersEmpty
<1>9. Room' /\ Cleared'
  BY <1>1, <1>4 DEF Room, Cleared
<1>10. Control'
  <2>1. ~ mem_pool_'[curr_idx_'].is_full_
    BY <1>1, <1>2, <1>5, EmptyBufferType DEF FreeBuffersEmpty
  <2>2. curr_idx_' # NoBuffer
    BY <1>1, <1>2, LoggerAssumption DEF Buffers, NoBuffer
  <2> QED
    BY <1>1, <1>3, <2>1, <2>2 DEF Control, queueVars
<1> QED
  BY <1>6, <1>7, <1>8, <1>9, <1>10

(* The phases of a job that keep its buffer and the stack.                 *)
LEMMA PoolInvJobOwner ==
  ASSUME PoolInv, life # "crashed", NEW j \in jobs,
         JobData(j) \/ JobClear(j) \/ JobLock(j)
  PROVE  PoolInv'
<1> USE DEF PoolInv
<1>1. PICK k \in Job :
        /\ j.at \in {"data", "clear", "lock"}
        /\ k.buf = j.buf /\ k.at \in {"clear", "lock", "push"}
        /\ k.at \in {"lock", "push"} => mem_pool_'[k.buf] = EmptyBuffer
        /\ jobs' = (jobs \ {j}) \cup {k}
        /\ UNCHANGED <<life, queueVars, pool_stacked_index_, curr_idx_, loop_pc, fileVars>>
        /\ \/ mem_pool_' = mem_pool_
           \/ mem_pool_' = [mem_pool_ EXCEPT ![j.buf] = EmptyBuffer]
        /\ idx_mutex_' \in BOOLEAN
  <2>1. j \in Job /\ mem_pool_ \in [Buffers -> DataBuffer] /\ idx_mutex_ \in BOOLEAN
    BY DEF TypeOK
  <2>2. CASE JobData(j)
    <3> DEFINE k == [j EXCEPT !.at = "clear", !.result = mem_pool_[j.buf].buffer_]
    <3>1. k \in Job /\ k.buf = j.buf /\ k.at = "clear"
      BY <2>1 DEF Job, DataBuffer
    <3> QED
      BY <2>1, <2>2, <3>1 DEF JobData, Advance, poolVars
  <2>3. CASE JobClear(j)
    <3> DEFINE k == [j EXCEPT !.at = "lock"]
    <3>1. k \in Job /\ k.buf = j.buf /\ k.at = "lock"
      BY <2>1 DEF Job
    <3>2. mem_pool_'[j.buf] = EmptyBuffer
      BY <2>1, <2>3 DEF JobClear, Job
    <3> QED
      BY <2>1, <2>3, <3>1, <3>2 DEF JobClear, Advance
  <2>4. CASE JobLock(j)
    <3> DEFINE k == [j EXCEPT !.at = "push"]
    <3>1. k \in Job /\ k.buf = j.buf /\ k.at = "push"
      BY <2>1 DEF Job
    <3>2. mem_pool_'[j.buf] = EmptyBuffer
      BY <2>4 DEF JobLock, Cleared
    <3> QED
      BY <2>1, <2>4, <3>1, <3>2 DEF JobLock, Advance
  <2> QED
    BY <2>2, <2>3, <2>4
<1>2. j.buf \in Buffers /\ Owns(j, j.buf) /\ Owns(k, j.buf)
  BY <1>1 DEF TypeOK, Job, Owns
<1>3. /\ mem_pool_' \in [Buffers -> DataBuffer]
      /\ \A b \in Buffers : b # j.buf => mem_pool_'[b] = mem_pool_[b]
      /\ \A b \in Buffers : mem_pool_'[b] = mem_pool_[b] \/ mem_pool_'[b] = EmptyBuffer
  BY <1>1, <1>2, EmptyBufferType DEF TypeOK
<1>4. \A b : Stacked(b)' = Stacked(b)
  BY <1>1 DEF Stacked
<1>5. \A b : Owns(k, b) <=> Owns(j, b)
  BY <1>1 DEF Owns
<1>6. TypeOK'
  BY <1>1, <1>3 DEF TypeOK, queueVars, fileVars
<1>7. PoolPartition'
  <2>1. \A i, n \in 1 .. Len(pool_stacked_index_') :
          pool_stacked_index_'[i] = pool_stacked_index_'[n] => i = n
    BY <1>1 DEF PoolPartition
  <2>2. ASSUME NEW b \in Buffers
        PROVE  /\ Stacked(b)' => \A i \in jobs' : ~ Owns(i, b)
               /\ curr_idx_' = b /\ life' # "releasing" =>
                    ~ Stacked(b)' /\ \A i \in jobs' : ~ Owns(i, b)
               /\ \A i, n \in jobs' : Owns(i, b) /\ Owns(n, b) => i = n
               /\ Stacked(b)' \/ (curr_idx_' = b /\ life' # "releasing")
                              \/ \E i \in jobs' : Owns(i, b)
    BY <1>1, <1>4, <1>5 DEF PoolPartition
  <2> QED
    BY <2>1, <2>2 DEF PoolPartition, Owns
<1>8. FreeBuffersEmpty'
  BY <1>3, <1>4 DEF FreeBuffersEmpty
<1>9. Room'
  BY <1>3, EmptyBufferType, LoggerAssumption DEF Room
<1>10. Cleared'
  <2> SUFFICES ASSUME NEW i \in jobs', i.at \in {"lock", "push"}
               PROVE  mem_pool_'[i.buf] = EmptyBuffer
    BY DEF Cleared
  <2>1. CASE i = k
    BY <2>1, <1>1
  <2>2. CASE i \in jobs
    BY <2>2, <1>3 DEF Cleared, TypeOK, Job
  <2> QED
    BY <2>1, <2>2, <1>1
<1>11. Control'
  <2>1. loop_pc \in {"io", "add"} => ~ mem_pool_'[curr_idx_].is_full_
    <3> SUFFICES ASSUME loop_pc \in {"io", "add"}
                 PROVE  ~ mem_pool_'[curr_idx_].is_full_
      OBVIOUS
    <3>1. curr_idx_ \in Buffers /\ ~ mem_pool_[curr_idx_].is_full_
      BY DEF Control, TypeOK
    <3> QED
      BY <3>1, <1>3, EmptyBufferType
  <2> QED
    BY <1>1, <2>1 DEF Control, queueVars
<1> QED
  BY <1>6, <1>7, <1>8, <1>9, <1>10, <1>11

(* A job returns its empty buffer to the free stack.                       *)
LEMMA PoolInvJobPush ==
  ASSUME PoolInv, NEW j \in jobs, JobPush(j)
  PROVE  PoolInv'
<1> USE DEF PoolInv
<1> DEFINE k == [j EXCEPT !.at = "write"]
           s == pool_stacked_index_
           n == Len(pool_stacked_index_)
<1>1. /\ j.at = "push"
      /\ s' = Append(s, j.buf)
      /\ idx_mutex_' = FALSE
      /\ jobs' = (jobs \ {j}) \cup {k}
      /\ UNCHANGED <<life, queueVars, mem_pool_, curr_idx_, loop_pc, fileVars>>
  BY DEF JobPush, Advance
<1>2. /\ j.buf \in Buffers /\ k \in Job /\ k.at = "write" /\ k.buf = j.buf
      /\ Owns(j, j.buf)
  BY <1>1 DEF TypeOK, Job, Owns
<1>3. n \in Nat /\ s' \in Seq(Buffers) /\ Len(s') = n + 1
      /\ (\A i \in 1 .. n : s'[i] = s[i]) /\ s'[n + 1] = j.buf
  <2>1. s \in Seq(Buffers) /\ n \in Nat
    BY LenProperties DEF TypeOK
  <2> QED
    BY <1>1, <1>2, <2>1, PushStack
<1>4. \A b \in Buffers : Stacked(b)' <=> (Stacked(b) \/ b = j.buf)
  <2> TAKE b \in Buffers
  <2>1. ASSUME Stacked(b)' PROVE Stacked(b) \/ b = j.buf
    <3>1. PICK i \in 1 .. n + 1 : s'[i] = b
      BY <2>1, <1>3 DEF Stacked
    <3>2. i \in 1 .. n \/ i = n + 1
      BY <3>1, <1>3
    <3> QED
      BY <3>1, <3>2, <1>3 DEF Stacked
  <2>2. ASSUME Stacked(b) PROVE Stacked(b)'
    <3>1. PICK i \in 1 .. n : s[i] = b
      BY <2>2 DEF Stacked
    <3>2. i \in 1 .. Len(s') /\ s'[i] = b
      BY <3>1, <1>3
    <3> QED
      BY <3>2 DEF Stacked
  <2>3. Stacked(j.buf)'
    <3>1. n + 1 \in 1 .. Len(s')
      BY <1>3
    <3> QED
      BY <3>1, <1>3 DEF Stacked
  <2> QED
    BY <2>1, <2>2, <2>3
<1>5. \A b : ~ Owns(k, b)
  BY <1>2 DEF Owns
<1>6. ~ Stacked(j.buf) /\ \A i \in jobs : Owns(i, j.buf) => i = j
  BY <1>2 DEF PoolPartition
<1>7. TypeOK'
  BY <1>1, <1>2, <1>3 DEF TypeOK, queueVars, fileVars
<1>8. PoolPartition'
  <2>1. ASSUME NEW i \in 1 .. Len(s'), NEW m \in 1 .. Len(s'), s'[i] = s'[m]
        PROVE  i = m
    <3>1. \A l \in 1 .. n : s'[l] # j.buf
      BY <1>3, <1>6 DEF Stacked
    <3>2. (i \in 1 .. n \/ i = n + 1) /\ (m \in 1 .. n \/ m = n + 1)
      BY <1>3
    <3>3. CASE i \in 1 .. n /\ m \in 1 .. n
      BY <3>3, <2>1, <1>3 DEF PoolPartition
    <3> QED
      BY <2>1, <3>1, <3>2, <3>3, <1>3
  <2>2. ASSUME NEW b \in Buffers
        PROVE  /\ Stacked(b)' => \A i \in jobs' : ~ Owns(i, b)
               /\ curr_idx_' = b /\ life' # "releasing" =>
                    ~ Stacked(b)' /\ \A i \in jobs' : ~ Owns(i, b)
               /\ \A i, m \in jobs' : Owns(i, b) /\ Owns(m, b) => i = m
               /\ Stacked(b)' \/ (curr_idx_' = b /\ life' # "releasing")
                              \/ \E i \in jobs' : Owns(i, b)
    <3>1. b # j.buf => ~ Owns(j, b)
      BY DEF Owns
    <3>2. curr_idx_ = j.buf => life = "releasing"
      BY <1>2 DEF PoolPartition
    <3> QED
      BY <1>1, <1>4, <1>5, <1>6, <3>1, <3>2 DEF PoolPartition
  <2> QED
    BY <2>1, <2>2 DEF PoolPartition, Owns
<1>9. FreeBuffersEmpty'
  BY <1>1, <1>4 DEF FreeBuffersEmpty, Cleared
<1>10. Room' /\ Cleared'
  BY <1>1, <1>2 DEF Room, Cleared
<1>11. Control'
  BY <1>1, <1>2 DEF Control, queueVars
<1> QED
  BY <1>7, <1>8, <1>9, <1>10, <1>11

(* What the file may become keeps its type.                                *)
LEMMA FileTypes ==
  ASSUME TypeOK, NEW written \in Seq(Item), Len(written) >= Len(disk)
  PROVE  /\ flushed \in 0 .. Len(written)
         /\ FlushOnClose(written) => flushed' \in 0 .. Len(written)
<1>1. Len(disk) \in Nat /\ Len(written) \in Nat /\ flushed \in 0 .. Len(disk)
  BY LenProperties DEF TypeOK
<1>2. flushed \in 0 .. Len(written) /\ Len(written) \in 0 .. Len(written)
  BY <1>1
<1>3. \A f \in flushed .. Len(written) : f \in 0 .. Len(written)
  BY <1>1
<1> QED
  BY <1>2, <1>3 DEF FlushOnClose

(* Writing and flushing.                                                   *)
LEMMA PoolInvJobFile ==
  ASSUME PoolInv, NEW j \in jobs,
         JobWrite(j) \/ JobWriteError(j) \/ JobFlush(j)
  PROVE  PoolInv'
<1> USE DEF PoolInv
<1>1. /\ j.at \in {"write", "flush"}
      /\ UNCHANGED <<life, produced, log_queue_, poolVars, loop_pc>>
      /\ data_queue_' \in {data_queue_, "null"}
      /\ file_' \in {file_, "bad", "closed"}
  BY DEF JobWrite, JobWriteError, JobFlush, queueVars
<1>2. PICK new \in SUBSET Job :
        /\ jobs' = (jobs \ {j}) \cup new
        /\ \A k \in new : k.buf = j.buf /\ k.at = "flush"
  <2>1. CASE JobWrite(j) /\ j.flush
    <3> DEFINE k == [j EXCEPT !.at = "flush"]
    <3>1. k \in Job /\ k.buf = j.buf /\ k.at = "flush"
      BY DEF TypeOK, Job
    <3>2. jobs' = (jobs \ {j}) \cup {k} /\ {k} \in SUBSET Job
      BY <2>1, <3>1 DEF JobWrite, Advance
    <3>3. \A i \in {k} : i.buf = j.buf /\ i.at = "flush"
      BY <3>1
    <3> QED
      BY <3>2, <3>3
  <2>2. CASE ~ (JobWrite(j) /\ j.flush)
    <3>1. jobs' = (jobs \ {j}) \cup {}
      BY <2>2 DEF JobWrite, JobWriteError, JobFlush, Finish
    <3>2. {} \in SUBSET Job /\ \A i \in {} : i.buf = j.buf /\ i.at = "flush"
      OBVIOUS
    <3> QED
      BY <3>1, <3>2
  <2> QED
    BY <2>1, <2>2
<1>3. disk' \in Seq(Item) /\ flushed' \in 0 .. Len(disk')
  <2>1. j.result \in Seq(Item) /\ disk \in Seq(Item) /\ flushed \in 0 .. Len(disk)
    BY DEF TypeOK, Job
  <2>2. Len(disk) \in Nat /\ Len(j.result) \in Nat
    BY <2>1, LenProperties
  <2>3. CASE JobWrite(j)
    <3>1. disk' = disk \o j.result /\ flushed' = flushed
      BY <2>3 DEF JobWrite
    <3>2. disk' \in Seq(Item) /\ Len(disk') = Len(disk) + Len(j.result)
      BY <2>1, <3>1, ConcatProperties
    <3>3. Len(disk') >= Len(disk)
      BY <2>2, <3>2
    <3> QED
      BY <3>1, <3>2, <3>3, FileTypes
  <2>4. CASE JobWriteError(j)
    <3>1. PICK m \in 0 .. Len(j.result) :
            /\ disk' = disk \o SubSeq(j.result, 1, m)
            /\ \/ flushed' = flushed
               \/ FlushOnClose(disk')
      <4>1. PICK m \in 0 .. (IF file_ = "open" THEN Len(j.result) ELSE 0) :
            /\ disk' = disk \o SubSeq(j.result, 1, m)
            /\ IF file_ = "closed" THEN flushed' = flushed ELSE FlushOnClose(disk')
        BY <2>4 DEF JobWriteError
      <4>2. m \in 0 .. Len(j.result)
        BY <4>1, <2>2
      <4> QED
        BY <4>1, <4>2
    <3>2. /\ SubSeq(j.result, 1, m) \in Seq(Item)
          /\ Len(SubSeq(j.result, 1, m)) \in Nat
      <4>1. \A i \in 1 .. m : j.result[i] \in Item
        BY <2>1, <2>2, ElementOfSeq
      <4>2. SubSeq(j.result, 1, m) \in Seq(Item)
        BY <4>1, <2>2, SubSeqProperties
      <4> QED
        BY <4>2, LenProperties
    <3>3. disk' \in Seq(Item) /\ Len(disk') = Len(disk) + Len(SubSeq(j.result, 1, m))
      BY <2>1, <3>1, <3>2, ConcatProperties
    <3>4. Len(disk') >= Len(disk)
      BY <2>2, <3>2, <3>3
    <3> QED
      BY <3>1, <3>3, <3>4, FileTypes
  <2>5. CASE JobFlush(j)
    <3>1. disk' = disk
      BY <2>5 DEF JobFlush
    <3>2. flushed' \in flushed .. Len(disk) \/ flushed' = flushed \/ flushed' = Len(disk)
      BY <2>5 DEF JobFlush
    <3> QED
      BY <2>1, <2>2, <3>1, <3>2
  <2> QED
    BY <2>3, <2>4, <2>5
<1>4. TypeOK'
  BY <1>1, <1>2, <1>3 DEF TypeOK, poolVars
<1>5. \A b : Stacked(b)' = Stacked(b)
  BY <1>1 DEF Stacked, poolVars
<1>6. \A b : ~ Owns(j, b) /\ \A k \in new : ~ Owns(k, b)
  BY <1>1, <1>2 DEF Owns
<1>7. PoolPartition'
  <2>1. \A i, m \in 1 .. Len(pool_stacked_index_') :
          pool_stacked_index_'[i] = pool_stacked_index_'[m] => i = m
    BY <1>1 DEF PoolPartition, poolVars
  <2>2. ASSUME NEW b \in Buffers
        PROVE  /\ Stacked(b)' => \A i \in jobs' : ~ Owns(i, b)
               /\ curr_idx_' = b /\ life' # "releasing" =>
                    ~ Stacked(b)' /\ \A i \in jobs' : ~ Owns(i, b)
               /\ \A i, m \in jobs' : Owns(i, b) /\ Owns(m, b) => i = m
               /\ Stacked(b)' \/ (curr_idx_' = b /\ life' # "releasing")
                              \/ \E i \in jobs' : Owns(i, b)
    BY <1>1, <1>2, <1>5, <1>6 DEF PoolPartition, poolVars
  <2> QED
    BY <2>1, <2>2 DEF PoolPartition, Owns
<1>8. FreeBuffersEmpty' /\ Room' /\ Cleared'
  BY <1>1, <1>2, <1>5 DEF FreeBuffersEmpty, Room, Cleared, poolVars
<1>9. Control'
  BY <1>1, <1>2 DEF Control, poolVars
<1> QED
  BY <1>4, <1>7, <1>8, <1>9

(* The destructor: the current buffer becomes a job's, and with inline I/O *)
(* stays current until that is done.                                       *)
LEMMA PoolInvRelease ==
  ASSUME PoolInv, Release
  PROVE  PoolInv'
<1> USE DEF PoolInv
<1>1. /\ life = "stopping" /\ loop_pc = "idle" /\ jobs = {}
      /\ curr_idx_ \in Buffers
      /\ UNCHANGED <<produced, log_queue_, mem_pool_, pool_stacked_index_,
                     idx_mutex_, loop_pc>>
  BY DEF Release, Quiesced, Control, TypeOK
<1>2. /\ \/ CloseFile /\ life' = "down"
         \/ UNCHANGED <<data_queue_, fileVars>> /\ life' = "releasing"
      /\ \/ jobs' = {} /\ curr_idx_' = curr_idx_ /\ life' = "down"
         \/ /\ jobs' = {IOJob(curr_idx_, TRUE)}
            /\ \/ curr_idx_' = NoBuffer /\ life' = "down"
               \/ curr_idx_' = curr_idx_ /\ life' = "releasing"
  BY <1>1 DEF Release
<1>3. /\ data_queue_' \in {"queue", "null"} /\ file_' \in {"open", "bad", "closed"}
      /\ disk' \in Seq(Item) /\ flushed' \in 0 .. Len(disk')
  <2>1. disk \in Seq(Item) /\ Len(disk) >= Len(disk)
    BY LenProperties DEF TypeOK
  <2> QED
    BY <1>2, <2>1, FileTypes DEF TypeOK, CloseFile, fileVars
<1>4. /\ IOJob(curr_idx_, TRUE) \in Job
      /\ IOJob(curr_idx_, TRUE).buf = curr_idx_
      /\ IOJob(curr_idx_, TRUE).at = "data"
  <2>1. <<>> \in Seq(Item)
    BY EmptySeq
  <2> QED
    BY <1>1, <2>1 DEF IOJob, Job
<1>5. \A b : Stacked(b)' = Stacked(b)
  BY <1>1 DEF Stacked
<1>6. \A b : Owns(IOJob(curr_idx_, TRUE), b) <=> b = curr_idx_
  BY <1>4 DEF Owns
<1>7. TypeOK'
  BY <1>1, <1>2, <1>3, <1>4 DEF TypeOK
<1>8. PoolPartition'
  <2>1. \A i, m \in 1 .. Len(pool_stacked_index_') :
          pool_stacked_index_'[i] = pool_stacked_index_'[m] => i = m
    BY <1>1 DEF PoolPartition
  <2>2. ASSUME NEW b \in Buffers
        PROVE  /\ Stacked(b)' => \A i \in jobs' : ~ Owns(i, b)
               /\ curr_idx_' = b /\ life' # "releasing" =>
                    ~ Stacked(b)' /\ \A i \in jobs' : ~ Owns(i, b)
               /\ \A i, m \in jobs' : Owns(i, b) /\ Owns(m, b) => i = m
               /\ Stacked(b)' \/ (curr_idx_' = b /\ life' # "releasing")
                              \/ \E i \in jobs' : Owns(i, b)
    <3>1. b # NoBuffer
      BY LoggerAssumption DEF Buffers, NoBuffer
    <3> QED
      BY <1>1, <1>2, <1>5, <1>6, <3>1 DEF PoolPartition
  <2> QED
    BY <2>1, <2>2 DEF PoolPartition, Owns
<1>9. FreeBuffersEmpty' /\ Room'
  BY <1>1, <1>5 DEF FreeBuffersEmpty, Room
<1>10. Cleared'
  BY <1>2, <1>4 DEF Cleared
<1>11. Control'
  <2>1. curr_idx_ # NoBuffer
    BY <1>1, LoggerAssumption DEF Buffers, NoBuffer
  <2> QED
    BY <1>1, <1>2, <1>4, <2>1 DEF Control
<1> QED
  BY <1>7, <1>8, <1>9, <1>10, <1>11

(* The end of the destructor: the buffer it wrote out is on the stack.     *)
LEMMA PoolInvReleaseEnd ==
  ASSUME PoolInv, ReleaseEnd
  PROVE  PoolInv'
<1> USE DEF PoolInv
<1>1. /\ jobs = {} /\ jobs' = {} /\ life' = "down" /\ curr_idx_' = NoBuffer
      /\ life = "releasing"
      /\ CloseFile
      /\ UNCHANGED <<produced, log_queue_, mem_pool_, pool_stacked_index_,
                     idx_mutex_, loop_pc>>
  BY DEF ReleaseEnd
<1>2. /\ data_queue_' \in {"queue", "null"} /\ file_' \in {"open", "bad", "closed"}
      /\ disk' \in Seq(Item) /\ flushed' \in 0 .. Len(disk')
  <2>1. disk \in Seq(Item) /\ Len(disk) >= Len(disk)
    BY LenProperties DEF TypeOK
  <2> QED
    BY <1>1, <2>1, FileTypes DEF TypeOK, CloseFile
<1>3. \A b : Stacked(b)' = Stacked(b)
  BY <1>1 DEF Stacked
<1>4. TypeOK'
  BY <1>1, <1>2 DEF TypeOK
<1>5. PoolPartition'
  <2>1. \A b \in Buffers : b # NoBuffer
    BY LoggerAssumption DEF Buffers, NoBuffer
  <2> QED
    BY <1>1, <1>3, <2>1 DEF PoolPartition
<1>6. FreeBuffersEmpty' /\ Room' /\ Cleared'
  BY <1>1, <1>3 DEF FreeBuffersEmpty, Room, Cleared
<1>7. Control'
  BY <1>1 DEF Control
<1> QED
  BY <1>4, <1>5, <1>6, <1>7

(* Every step of the logger keeps the invariant.                           *)
LEMMA PoolInvNext == PoolInv /\ [Next]_vars => PoolInv'
<1> SUFFICES ASSUME PoolInv, [Next]_vars PROVE PoolInv'
  OBVIOUS
<1>1. CASE InitLogger \/ Start \/ Stop
  BY <1>1, PoolInvControl
<1>2. CASE Release
  BY <1>2, PoolInvRelease
<1>3. CASE ReleaseEnd
  BY <1>3, PoolInvReleaseEnd
<1>4. CASE \E size \in Sizes : Enqueue(size)
  BY <1>4, PoolInvEnqueue
<1>5. CASE Age
  BY <1>5, PoolInvAge
<1>6. CASE LoopStep
  <2>1. CASE SwapFull \/ SwapTail
    BY <2>1, PoolInvSwap
  <2>2. CASE Add
    BY <2>2, PoolInvAdd
  <2>3. CASE Enter \/ NullQueue \/ WhileTest \/ SwapFails \/ TryLockFails
               \/ ReturnFromIO \/ TailTest
    BY <2>3, PoolInvControl
  <2> QED
    BY <1>6, <2>1, <2>2, <2>3 DEF LoopStep
<1>7. CASE IOStep
  <2>1. life # "crashed"
    BY <1>7 DEF IOStep
  <2>2. PICK j \in jobs :
          \/ JobData(j) \/ JobClear(j) \/ JobLock(j) \/ JobPush(j)
          \/ JobWrite(j) \/ JobWriteError(j) \/ JobFlush(j)
    BY <1>7 DEF IOStep
  <2>3. CASE JobData(j) \/ JobClear(j) \/ JobLock(j)
    BY <2>1, <2>3, PoolInvJobOwner
  <2>4. CASE JobPush(j)
    BY <2>4, PoolInvJobPush
  <2>5. CASE JobWrite(j) \/ JobWriteError(j) \/ JobFlush(j)
    BY <2>5, PoolInvJobFile
  <2> QED
    BY <2>2, <2>3, <2>4, <2>5
<1>8. CASE UNCHANGED vars
  <2>1. PoolPartition' /\ FreeBuffersEmpty' /\ Room' /\ Cleared'
    BY <1>8, PoolUnchanged DEF vars
  <2>2. TypeOK' /\ Control'
    BY <1>8 DEF vars, queueVars, poolVars, fileVars, PoolInv, TypeOK, Control
  <2> QED
    BY <2>1, <2>2 DEF PoolInv
<1> QED
  BY <1>1, <1>2, <1>3, <1>4, <1>5, <1>6, <1>7, <1>8 DEF Next

(* The invariant holds in every reachable state.                           *)
LEMMA PoolInvariant == Spec => []PoolInv
<1>1. Init => PoolInv
  BY PoolInvInit
<1>2. PoolInv /\ [Next]_vars => PoolInv'
  BY PoolInvNext
<1> QED
  BY <1>1, <1>2, PTL DEF Spec

-----------------------------------------------------------------------------
(* Type correctness for every pool: in particular DataBuffer::add never    *)
(* takes a buffer to twice its limit.                                      *)
THEOREM TypeCorrect == Spec => []TypeOK
<1>1. PoolInv => TypeOK
  BY DEF PoolInv
<1> QED
  BY <1>1, PoolInvariant, PTL

(* No DataBuffer is ever in two places or in none, however the swaps of    *)
(* main_loop, the pushes of any number of parallel I/O jobs and the        *)
(* destructor interleave, and whatever the disk does.                      *)
THEOREM PoolPartitioned == Spec => []PoolPartition
<1>1. PoolInv => PoolPartition
  BY DEF PoolInv
<1> QED
  BY <1>1, PoolInvariant, PTL

(* The asserts after both swaps of main_loop hold: what is popped from the *)
(* free stack is empty.                                                    *)
THEOREM FreeAreEmpty == Spec => []FreeBuffersEmpty
<1>1. PoolInv => FreeBuffersEmpty
  BY DEF PoolInv
<1> QED
  BY <1>1, PoolInvariant, PTL

=============================================================================
