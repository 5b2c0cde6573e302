-------------------------- MODULE LoggerFifoProofs --------------------------
(***************************************************************************)
(* Proofs about the order of the messages in the file. With inline I/O,    *)
(* the default of the build, the logger implements FifoLog, what is in the *)
(* file and not flushed always has a flush to come, and the destructor     *)
(* leaves everything in the file; for every number of buffers, buffer      *)
(* size, set of message sizes and number of messages, and for disks that   *)
(* fail.                                                                   *)
(***************************************************************************)
EXTENDS LoggerMessageProofs

(* The messages of a list are consecutive from n + 1 on.                   *)
Numbered(s, n) == \A i \in 1 .. Len(s) : s[i].id = n + i

(* data_size_ tells whether a buffer holds messages, which is how          *)
(* has_data() decides.                                                     *)
SizeInv ==
  \A b \in Buffers : mem_pool_[b].data_size_ = 0 <=> mem_pool_[b].buffer_ = <<>>

(* Behind the file come the messages of s, behind those the queue, and     *)
(* that is all.                                                            *)
Held(s) ==
  /\ Numbered(s, Len(disk))
  /\ Numbered(log_queue_, Len(disk) + Len(s))
  /\ Len(disk) + Len(s) + Len(log_queue_) = produced

(* With inline I/O there is at most one start_io_worker call, main_loop or *)
(* release() is waiting for it, and meanwhile no message is in the current *)
(* buffer.                                                                 *)
InlineInv ==
  /\ \A j, k \in jobs : j = k
  /\ jobs # {} => loop_pc \in {"io", "tail_io"} \/ life = "releasing"
  /\ jobs # {} => Unwritten = <<>>

(* The file is a prefix of the accepted messages. While it is open, the    *)
(* rest follows in the current buffer or the one job, and the queue.       *)
OrderInv ==
  /\ Numbered(disk, 0)
  /\ Len(disk) <= produced
  /\ file_ # "closed" /\ jobs = {} => Held(Unwritten)
  /\ file_ # "closed" => \A j \in jobs : Held(Pending(j))

(* A file that is not flushed has a flush to come: main_loop is about to   *)
(* add a message, a job is running, or the current buffer has data, and    *)
(* the jobs of the tail of main_loop and of release() do flush.            *)
FlushInv ==
  /\ file_ # "closed" => data_queue_ = "queue" /\ curr_idx_ # NoBuffer
  /\ \A j \in jobs : loop_pc = "tail_io" \/ life = "releasing" => j.flush
  /\ file_ = "open" /\ flushed < Len(disk) =>
       \/ loop_pc \in {"io", "add"}
       \/ jobs # {}
       \/ has_data(curr_idx_) /\ life # "releasing"

(* The invariant.                                                          *)
FileInv == SizeInv /\ InlineInv /\ OrderInv /\ FlushInv

-----------------------------------------------------------------------------
(***************************************************************************)
(* Every step keeps the invariant.                                         *)
(***************************************************************************)

(* Every step keeps SizeInv: messages are not empty, and clear() resets    *)
(* both.                                                                   *)
LEMMA SizeNext ==
  ASSUME PoolInv, SizeInv, [Next]_vars
  PROVE  SizeInv'
<1> USE DEF PoolInv, poolVars
<1>1. CASE Add
  <2>1. /\ mem_pool_' = [mem_pool_ EXCEPT
             ![curr_idx_] = AddTo(mem_pool_[curr_idx_], Head(log_queue_))]
        /\ log_queue_ # <<>> /\ curr_idx_ \in Buffers
    BY <1>1, CurrentBuffer DEF Add, Control
  <2>2. Head(log_queue_) \in Item
    BY <2>1, TailIds DEF TypeOK
  <2>3. Head(log_queue_).size \in Nat \ {0}
    <3>1. Head(log_queue_).size \in 1 .. MaxDataSize
      BY <2>2, LoggerAssumption, Zenon DEF Item
    <3> QED
      BY <3>1, LoggerAssumption
  <2> DEFINE db == mem_pool_[curr_idx_]
             new == AddTo(db, Head(log_queue_))
  <2>4. db.data_size_ \in Nat /\ db.buffer_ \in Seq(Item)
    BY <2>1 DEF TypeOK, DataBuffer
  <2>5. /\ new.data_size_ = db.data_size_ + Head(log_queue_).size
        /\ new.buffer_ = Append(db.buffer_, Head(log_queue_))
    BY DEF AddTo
  <2>6. new.data_size_ # 0 /\ new.buffer_ # <<>>
    <3>1. new.data_size_ # 0
      BY <2>3, <2>4, <2>5
    <3>2. new.buffer_ # <<>>
      BY <2>2, <2>4, <2>5, AppendProperties
    <3> QED
      BY <3>1, <3>2
  <2> HIDE DEF new, db
  <2>7. \A b \in Buffers : mem_pool_'[b] = IF b = curr_idx_ THEN new ELSE mem_pool_[b]
    BY <2>1 DEF TypeOK, new, db
  <2> QED
    BY <2>6, <2>7 DEF SizeInv
<1>2. CASE Age
  <2>1. \A b \in Buffers : /\ mem_pool_'[b].buffer_ = mem_pool_[b].buffer_
                           /\ mem_pool_'[b].data_size_ = mem_pool_[b].data_size_
    BY <1>2 DEF Age, TypeOK, DataBuffer
  <2> QED
    BY <2>1 DEF SizeInv
<1>3. ASSUME NEW j \in jobs, JobClear(j)
      PROVE  SizeInv'
  <2>1. \A b \in Buffers : mem_pool_'[b] = mem_pool_[b] \/ mem_pool_'[b] = EmptyBuffer
    BY <1>3 DEF JobClear, TypeOK
  <2> QED
    BY <2>1 DEF SizeInv, EmptyBuffer
<1>4. CASE UNCHANGED mem_pool_
  BY <1>4 DEF SizeInv
<1>5. CASE LoopStep
  BY <1>1, <1>4, <1>5 DEF LoopStep, Enter, NullQueue, WhileTest, SwapFull,
                          SwapFails,
     TryLockFails, ReturnFromIO, TailTest, SwapTail, Swap
<1>6. CASE IOStep
  <2>1. PICK j \in jobs :
          \/ JobData(j) \/ JobClear(j) \/ JobLock(j) \/ JobPush(j)
          \/ JobWrite(j) \/ JobWriteError(j) \/ JobFlush(j)
    BY <1>6 DEF IOStep
  <2> QED
    BY <1>3, <1>4, <2>1 DEF JobData, JobLock, JobPush, JobWrite, JobWriteError,
                            JobFlush
<1> QED
  BY <1>2, <1>4, <1>5, <1>6 DEF Next, vars, InitLogger, Start, Stop, Release,
                                ReleaseEnd, Enqueue

(* Every step keeps InlineInv: nobody starts a job while one is running.   *)
LEMMA InlineNext ==
  ASSUME ~ AsyncIO, PoolInv, InlineInv, [Next]_vars
  PROVE  InlineInv'
<1> DEFINE Single == \A j, k \in jobs : j = k
           Inside == jobs # {} => loop_pc \in {"io", "tail_io"} \/ life = "releasing"
<1>0. Single /\ Inside /\ (loop_pc # "idle" => life \in {"up", "stopping"})
  BY DEF InlineInv, PoolInv, Control
<1>1. Single' /\ Inside'
  <2>1. CASE LoopStep
    BY <1>0, <2>1 DEF LoopStep, Enter, NullQueue, WhileTest, SwapFull, SwapFails,
                      TryLockFails,
       ReturnFromIO, Add, TailTest, SwapTail, Swap, running_
  <2>2. ASSUME NEW j \in jobs,
               \/ JobData(j) \/ JobClear(j) \/ JobLock(j) \/ JobPush(j)
               \/ JobWrite(j) \/ JobWriteError(j) \/ JobFlush(j)
        PROVE  Single' /\ Inside'
    <3>1. (\E k : jobs' = (jobs \ {j}) \cup {k}) \/ jobs' = jobs \ {j}
      BY <2>2 DEF JobData, JobClear, JobLock, JobPush, JobWrite, JobWriteError,
                  JobFlush,
                  Advance, Finish
    <3>2. UNCHANGED <<loop_pc, life>>
      BY <2>2 DEF JobData, JobClear, JobLock, JobPush, JobWrite, JobWriteError,
                  JobFlush
    <3> QED
      BY <1>0, <3>1, <3>2
  <2>3. CASE IOStep
    BY <2>2, <2>3 DEF IOStep
  <2>4. CASE InitLogger \/ Start \/ Stop \/ Age \/ UNCHANGED vars
    BY <1>0, <2>4 DEF InitLogger, Start, Stop, Age, vars
  <2>5. CASE Release \/ ReleaseEnd
    BY <1>0, <2>5 DEF Release, ReleaseEnd, Quiesced
  <2>6. CASE \E size \in Sizes : Enqueue(size)
    BY <1>0, <2>6 DEF Enqueue
  <2> QED
    BY <2>1, <2>3, <2>4, <2>5, <2>6 DEF Next
<1>2. jobs' # {} => Unwritten' = <<>>
  <2>1. jobs # {} => Unwritten = <<>>
    BY DEF InlineInv
  <2>2. CASE Quiet \/ Stored \/ \E k : Begun(k)
    BY <2>1, <2>2 DEF Quiet, Stored, Begun
  <2>3. CASE Taken
    BY <1>0, <2>3 DEF Taken
  <2>4. CASE \E j \in jobs : (\E k : Advanced(j, k)) \/ Written(j)
    BY <2>1, <2>4 DEF Advanced, Written
  <2>5. CASE Closed
    BY <1>0, <2>5 DEF Closed
  <2> QED
    BY <2>2, <2>3, <2>4, <2>5, StepEffect
<1> QED
  BY <1>1, <1>2 DEF InlineInv

(* A new message goes to the end of the queue.                             *)
LEMMA HeldStored ==
  ASSUME PoolInv, NEW s \in Seq(Item), Held(s), Stored
  PROVE  Held(s)'
<1>1. PICK size \in Sizes :
        log_queue_' = Append(log_queue_, [id |-> produced + 1, size |-> size])
  BY DEF Stored
<1>2. [id |-> produced + 1, size |-> size] \in Item
  BY MessageTypes DEF Item
<1>3. /\ Len(log_queue_') = Len(log_queue_) + 1
      /\ \A i \in 1 .. Len(log_queue_) : log_queue_'[i] = log_queue_[i]
      /\ log_queue_'[Len(log_queue_) + 1].id = produced + 1
  BY <1>1, <1>2, AppendProperties, MessageTypes
<1>4. Len(log_queue_) \in Nat /\ Len(s) \in Nat /\ Len(disk) \in Nat /\ produced \in Nat
  BY MessageTypes, LenProperties
<1>5. produced' = produced + 1 /\ disk' = disk
  BY DEF Stored
<1>6. Numbered(log_queue_', Len(disk) + Len(s))
  <2>1. \A i \in 1 .. Len(log_queue_) : log_queue_[i].id = Len(disk) + Len(s) + i
    BY DEF Held, Numbered
  <2>2. Len(disk) + Len(s) + Len(log_queue_) = produced
    BY DEF Held
  <2>3. ASSUME NEW i \in 1 .. Len(log_queue_')
        PROVE  log_queue_'[i].id = Len(disk) + Len(s) + i
    <3>1. i \in 1 .. Len(log_queue_) \/ i = Len(log_queue_) + 1
      BY <1>3, <1>4
    <3>2. CASE i \in 1 .. Len(log_queue_)
      BY <1>3, <2>1, <3>2
    <3>3. CASE i = Len(log_queue_) + 1
      BY <1>3, <1>4, <2>2, <3>3
    <3> QED
      BY <3>1, <3>2, <3>3
  <2> QED
    BY <2>3 DEF Numbered
<1> QED
  BY <1>3, <1>4, <1>5, <1>6 DEF Held

(* The first message of the queue goes to the end of the current buffer.   *)
LEMMA HeldTaken ==
  ASSUME PoolInv, Held(Unwritten), Taken
  PROVE  Held(Unwritten)'
<1> DEFINE q == log_queue_
           u == Unwritten
<1>1. /\ Len(q) \in Nat \ {0} /\ Head(q) = q[1] /\ Head(q) \in Item
      /\ Len(q') = Len(q) - 1
      /\ \A i \in 1 .. Len(q') : q'[i] = q[i + 1]
  BY HeadTailProperties, EmptySeq, MessageTypes DEF Taken
<1>2. /\ Len(u) \in Nat /\ Len(u') = Len(u) + 1
      /\ \A i \in 1 .. Len(u) : u'[i] = u[i]
      /\ u'[Len(u) + 1] = q[1]
  BY <1>1, AppendProperties, LenProperties, MessageTypes DEF Taken
<1>3. Len(disk) \in Nat /\ produced \in Nat /\ disk' = disk /\ produced' = produced
  BY MessageTypes, LenProperties DEF Taken
<1>4. /\ \A i \in 1 .. Len(u) : u[i].id = Len(disk) + i
      /\ \A i \in 1 .. Len(q) : q[i].id = Len(disk) + Len(u) + i
      /\ Len(disk) + Len(u) + Len(q) = produced
  BY DEF Held, Numbered
<1> HIDE DEF u, q
<1>5. \A i \in 1 .. Len(u') : u'[i].id = Len(disk) + i
  <2>1. q[1].id = Len(disk) + Len(u) + 1
    BY <1>1, <1>4
  <2> TAKE i \in 1 .. Len(u')
  <2>2. i \in 1 .. Len(u) \/ i = Len(u) + 1
    BY <1>2
  <2>3. CASE i \in 1 .. Len(u)
    BY <1>2, <1>4, <2>3
  <2>4. CASE i = Len(u) + 1
    BY <1>2, <1>3, <2>1, <2>4
  <2> QED
    BY <2>2, <2>3, <2>4
<1>6. \A i \in 1 .. Len(q') : q'[i].id = Len(disk) + Len(u') + i
  <2> TAKE i \in 1 .. Len(q')
  <2>1. i + 1 \in 1 .. Len(q) /\ q'[i] = q[i + 1]
    BY <1>1
  <2>2. q[i + 1].id = Len(disk) + Len(u) + (i + 1)
    BY <1>4, <2>1
  <2> QED
    BY <1>2, <1>3, <2>1, <2>2
<1>7. Len(disk) + Len(u') + Len(q') = produced
  <2>1. Len(u') = Len(u) + 1 /\ Len(q') = Len(q) - 1 /\ Len(q) \in Nat /\ Len(u) \in Nat
    BY <1>1, <1>2
  <2>2. Len(disk) + Len(u) + Len(q) = produced /\ Len(disk) \in Nat
    BY <1>3, <1>4
  <2> QED
    BY <2>1, <2>2
<1> QED
  BY <1>3, <1>5, <1>6, <1>7 DEF Held, Numbered, u, q

(* Two consecutive lists make one.                                         *)
LEMMA NumberedConcat ==
  ASSUME NEW s \in Seq(Item), NEW r \in Seq(Item), Numbered(s, 0), Numbered(r, Len(s))
  PROVE  /\ Numbered(s \o r, 0) /\ Len(s \o r) = Len(s) + Len(r)
         /\ Len(s) \in Nat /\ Len(r) \in Nat
<1>1. /\ Len(s) \in Nat /\ Len(r) \in Nat /\ Len(s \o r) = Len(s) + Len(r)
      /\ \A i \in 1 .. Len(s) + Len(r) :
           (s \o r)[i] = IF i <= Len(s) THEN s[i] ELSE r[i - Len(s)]
  BY ConcatProperties, LenProperties
<1>2. \A i \in 1 .. Len(s) + Len(r) : (s \o r)[i].id = i
  <2> TAKE i \in 1 .. Len(s) + Len(r)
  <2>1. CASE i <= Len(s)
    <3>1. i \in 1 .. Len(s) /\ (s \o r)[i] = s[i]
      BY <1>1, <2>1
    <3> QED
      BY <3>1, <1>1 DEF Numbered
  <2>2. CASE ~ (i <= Len(s))
    <3>1. i - Len(s) \in 1 .. Len(r) /\ (s \o r)[i] = r[i - Len(s)]
      BY <1>1, <2>2
    <3>2. r[i - Len(s)].id = Len(s) + (i - Len(s))
      BY <3>1 DEF Numbered
    <3> QED
      BY <1>1, <3>1, <3>2
  <2> QED
    BY <2>1, <2>2
<1>3. Numbered(s \o r, 0)
  BY <1>1, <1>2 DEF Numbered
<1> QED
  BY <1>1, <1>3

(* When a job has written everything the queue follows the file.           *)
LEMMA EmptyHeld ==
  ASSUME PoolInv, NEW j \in jobs, Numbered(disk, 0), Held(Pending(j)),
         disk' = disk \o Pending(j), UNCHANGED <<produced, log_queue_>>
  PROVE  /\ Held(<<>>)'
         /\ Numbered(disk', 0) /\ Len(disk') <= produced'
<1>1. Pending(j) \in Seq(Item) /\ disk \in Seq(Item) /\ Len(log_queue_) \in Nat
      /\ produced \in Nat
  BY MessageTypes, LenProperties
<1>2. /\ Numbered(disk', 0) /\ Len(disk') = Len(disk) + Len(Pending(j))
      /\ Len(disk) \in Nat /\ Len(Pending(j)) \in Nat
  BY <1>1, NumberedConcat DEF Held
<1>3. Len(<<>>) = 0 /\ Numbered(<<>>, Len(disk'))
  BY EmptySeq DEF Numbered
<1>4. /\ Numbered(log_queue_, Len(disk) + Len(Pending(j)))
      /\ Len(disk) + Len(Pending(j)) + Len(log_queue_) = produced
  BY DEF Held
<1>5. Len(disk') + 0 = Len(disk) + Len(Pending(j))
  BY <1>2
<1>6. /\ Numbered(log_queue_', Len(disk') + 0)
      /\ Len(disk') + 0 + Len(log_queue_') = produced'
  BY <1>4, <1>5
<1>7. Len(disk') <= produced'
  BY <1>1, <1>2, <1>4
<1> QED
  BY <1>2, <1>3, <1>6, <1>7 DEF Held

(* Every step keeps OrderInv. A failed write leaves a prefix of its job,   *)
(* which still is the next part of the file.                               *)
LEMMA OrderNext ==
  ASSUME ~ AsyncIO, PoolInv, FreshInv, InlineInv, OrderInv, [Next]_vars
  PROVE  OrderInv'
<1>0. /\ Numbered(disk, 0) /\ Len(disk) <= produced
      /\ disk \in Seq(Item) /\ Len(disk) \in Nat /\ produced \in Nat
  BY MessageTypes, LenProperties DEF OrderInv
<1>1. CASE Closed
  <2>1. CASE disk' = disk
    BY <1>0, <1>1, <2>1 DEF Closed, OrderInv
  <2>2. CASE file_ # "closed" /\ \E j \in jobs : \E n \in 0 .. Len(Pending(j)) :
                                   disk' = disk \o SubSeq(Pending(j), 1, n)
    <3>0. PICK j \in jobs : \E n \in 0 .. Len(Pending(j)) :
                              disk' = disk \o SubSeq(Pending(j), 1, n)
      BY <2>2
    <3>1. PICK n \in 0 .. Len(Pending(j)) : disk' = disk \o SubSeq(Pending(j), 1, n)
      BY <3>0
    <3> DEFINE p == Pending(j)
               r == SubSeq(p, 1, n)
    <3>2. p \in Seq(Item) /\ Len(p) \in Nat /\ n \in Nat /\ n <= Len(p)
      BY MessageTypes, LenProperties
    <3>3. /\ Numbered(p, Len(disk)) /\ Len(disk) + Len(p) + Len(log_queue_) = produced
          /\ Len(log_queue_) \in Nat
      BY <2>2, MessageTypes, LenProperties DEF OrderInv, Held
    <3> HIDE DEF p
    <3>4. r \in Seq(Item) /\ Len(r) = n /\ \A i \in 1 .. n : r[i] = p[i]
      <4>1. \A i \in 1 .. n : p[i] \in Item
        BY <3>2, ElementOfSeq
      <4>2. /\ r \in Seq(Item)
            /\ Len(r) = IF 1 <= n THEN n - 1 + 1 ELSE 0
            /\ \A i \in 1 .. n - 1 + 1 : r[i] = p[1 + i - 1]
        BY <3>2, <4>1, SubSeqProperties
      <4>3. n - 1 + 1 = n /\ (IF 1 <= n THEN n - 1 + 1 ELSE 0) = n
        BY <3>2
      <4>4. ASSUME NEW i \in 1 .. n PROVE r[i] = p[i]
        <5>1. 1 + i - 1 = i
          BY <3>2
        <5> QED
          BY <4>2, <4>3, <5>1
      <4> QED
        BY <4>2, <4>3, <4>4
    <3>5. Numbered(r, Len(disk))
      <4>1. \A i \in 1 .. Len(p) : p[i].id = Len(disk) + i
        BY <3>3 DEF Numbered
      <4>2. \A i \in 1 .. n : i \in 1 .. Len(p)
        BY <3>2
      <4> QED
        BY <3>4, <4>1, <4>2 DEF Numbered
    <3>6. disk' = disk \o r
      BY <3>1 DEF p
    <3> HIDE DEF r
    <3>7. Numbered(disk', 0) /\ Len(disk') = Len(disk) + n
      BY <1>0, <3>4, <3>5, <3>6, NumberedConcat
    <3>8. Len(disk') <= produced
      BY <1>0, <3>2, <3>3, <3>7
    <3> QED
      BY <1>1, <3>7, <3>8 DEF OrderInv, Closed
  <2> QED
    BY <1>1, <2>1, <2>2 DEF Closed
<1>2. ASSUME NEW j \in jobs, Written(j)
      PROVE  OrderInv'
  <2>1. PICK done : /\ jobs' = (jobs \ {j}) \cup done
                    /\ \A k \in done : Pending(k)' = <<>>
    BY <1>2 DEF Written
  <2>2. jobs' = done
    BY <2>1 DEF InlineInv
  <2>3. /\ disk' = disk \o Pending(j) /\ UNCHANGED <<produced, log_queue_>>
        /\ Unwritten' = <<>>
        /\ file_ # "closed" \/ Pending(j) = <<>>
    BY <1>2 DEF Written, InlineInv
  <2>4. CASE file_ # "closed"
    <3>1. Held(Pending(j))
      BY <2>4 DEF OrderInv
    <3>2. /\ Held(<<>>)'
          /\ Numbered(disk', 0) /\ Len(disk') <= produced'
      BY <1>0, <2>3, <3>1, EmptyHeld
    <3>3. Held(Unwritten)' /\ \A k \in jobs' : Held(Pending(k))'
      BY <2>1, <2>2, <2>3, <3>2 DEF Held
    <3> QED
      BY <3>2, <3>3 DEF OrderInv
  <2>5. CASE file_ = "closed"
    <3>1. disk' = disk
      BY <1>0, <2>3, <2>5, ConcatEmptySeq
    <3>2. file_' = "closed"
      BY <2>5, OpensOnce DEF FreshInv
    <3> QED
      BY <1>0, <2>3, <3>1, <3>2 DEF OrderInv
  <2> QED
    BY <2>4, <2>5
<1>3. ASSUME ~ Closed, ~ \E j \in jobs : Written(j)
      PROVE  OrderInv'
  <2>1. \/ Quiet \/ Stored \/ Taken \/ (\E k : Begun(k))
        \/ \E j \in jobs : \E k : Advanced(j, k)
    BY <1>3, StepEffect
  <2>2. disk' = disk /\ produced' \in {produced, produced + 1}
    BY <2>1 DEF Quiet, Stored, Taken, Begun, Advanced
  <2>3. Numbered(disk', 0) /\ Len(disk') <= produced'
    BY <1>0, <2>2
  <2>4. CASE file_' = "closed"
    BY <2>3, <2>4 DEF OrderInv
  <2>5. CASE file_ = "closed" /\ file_' # "closed"
    <3>1. InitLogger /\ life = "boot"
      BY <2>5, OpensOnce
    <3>2. UNCHANGED <<produced, log_queue_, disk, jobs, Unwritten>>
      BY <3>1 DEF InitLogger, poolVars, Unwritten
    <3>3. /\ produced = 0 /\ log_queue_ = <<>> /\ disk = <<>>
          /\ jobs = {} /\ Unwritten = <<>>
      BY <3>1 DEF FreshInv
    <3>4. Len(<<>>) = 0
      BY EmptySeq
    <3> QED
      BY <2>3, <3>2, <3>3, <3>4 DEF OrderInv, Held, Numbered
  <2>6. CASE file_ # "closed" /\ file_' # "closed"
    <3>1. (jobs = {} => Held(Unwritten)) /\ \A j \in jobs : Held(Pending(j))
      BY <2>6 DEF OrderInv
    <3>2. CASE Quiet
      BY <2>3, <3>1, <3>2 DEF Quiet, OrderInv, Held
    <3>3. CASE Stored
      <4>1. jobs = {} => Held(Unwritten)'
        <5>1. PICK s : s = Unwritten /\ s = Unwritten'
          BY <3>3 DEF Stored
        <5> QED
          BY <3>1, <3>3, <5>1, HeldStored, MessageTypes
      <4>2. ASSUME NEW j \in jobs PROVE Held(Pending(j))'
        <5>1. PICK s : s = Pending(j) /\ s = Pending(j)'
          BY <3>3 DEF Stored
        <5> QED
          BY <3>1, <3>3, <5>1, HeldStored, MessageTypes
      <4> QED
        BY <2>3, <3>3, <4>1, <4>2 DEF Stored, OrderInv
    <3>4. CASE Taken
      <4>1. jobs = {} /\ jobs' = {}
        BY <3>4 DEF Taken, InlineInv, PoolInv, Control
      <4>2. Held(Unwritten)'
        BY <3>1, <3>4, <4>1, HeldTaken
      <4> QED
        BY <2>3, <4>1, <4>2 DEF OrderInv
    <3>5. ASSUME NEW k, Begun(k) PROVE OrderInv'
      <4>1. jobs = {} /\ jobs' = {k}
        BY <3>5 DEF Begun, InlineInv, PoolInv, Control
      <4>2. Pending(k)' = Unwritten /\ UNCHANGED <<disk, produced, log_queue_>>
        BY <3>5 DEF Begun
      <4>3. Held(Pending(k))'
        BY <3>1, <4>1, <4>2 DEF Held
      <4> QED
        BY <2>3, <4>1, <4>3 DEF OrderInv
    <3>6. ASSUME NEW j \in jobs, NEW k, Advanced(j, k) PROVE OrderInv'
      <4>1. jobs' = {k}
        BY <3>6 DEF Advanced, InlineInv
      <4>2. Pending(k)' = Pending(j) /\ UNCHANGED <<disk, produced, log_queue_>>
        BY <3>6 DEF Advanced
      <4>3. Held(Pending(k))'
        BY <3>1, <4>1, <4>2 DEF Held
      <4> QED
        BY <2>3, <4>1, <4>3 DEF OrderInv
    <3> QED
      BY <2>1, <3>2, <3>3, <3>4, <3>5, <3>6
  <2> QED
    BY <2>4, <2>5, <2>6
<1> QED
  BY <1>1, <1>2, <1>3

(* Every step keeps FlushInv. The swap of a full buffer does not flush,    *)
(* but main_loop adds its next message to the new buffer afterwards.       *)
LEMMA FlushNext ==
  ASSUME ~ AsyncIO, PoolInv, FreshInv, SizeInv, InlineInv, FlushInv, [Next]_vars
  PROVE  FlushInv'
<1> DEFINE Opened == file_ # "closed" => data_queue_ = "queue" /\ curr_idx_ # NoBuffer
           Flushing == \A j \in jobs : loop_pc = "tail_io" \/ life = "releasing" => j.flush
           Behind == file_ = "open" /\ flushed < Len(disk)
           Due == \/ loop_pc \in {"io", "add"}
                  \/ jobs # {}
                  \/ has_data(curr_idx_) /\ life # "releasing"
<1>0. /\ Opened /\ Flushing /\ (Behind => Due)
      /\ \A j, k \in jobs : j = k
      /\ jobs # {} => loop_pc \in {"io", "tail_io"} \/ life = "releasing"
      /\ loop_pc # "idle" => life \in {"up", "stopping"}
      /\ Len(disk) \in Nat /\ flushed \in 0 .. Len(disk)
  BY LenProperties DEF FlushInv, InlineInv, PoolInv, Control, TypeOK
<1> SUFFICES Opened' /\ Flushing' /\ (Behind' => Due')
  BY DEF FlushInv
<1> USE DEF queueVars, fileVars, poolVars
<1>1. CASE Add
  <2>1. /\ loop_pc = "add" /\ loop_pc' = "while"
        /\ log_queue_ # <<>> /\ curr_idx_ \in Buffers
        /\ UNCHANGED <<life, data_queue_, curr_idx_, jobs, file_, flushed, disk>>
        /\ mem_pool_' = [mem_pool_ EXCEPT
             ![curr_idx_] = AddTo(mem_pool_[curr_idx_], Head(log_queue_))]
    BY <1>1, CurrentBuffer DEF Add, PoolInv, Control
  <2>2. SizeInv' /\ PoolInv'
    BY SizeNext, PoolInvNext
  <2>3. mem_pool_'[curr_idx_].buffer_ =
          Append(mem_pool_[curr_idx_].buffer_, Head(log_queue_))
    BY <2>1 DEF PoolInv, TypeOK, AddTo
  <2>4. mem_pool_'[curr_idx_].buffer_ # <<>>
    <3>1. Head(log_queue_) \in Item /\ mem_pool_[curr_idx_].buffer_ \in Seq(Item)
      BY <2>1, TailIds DEF PoolInv, TypeOK, DataBuffer
    <3> QED
      BY <2>3, <3>1, AppendProperties
  <2>5. mem_pool_'[curr_idx_].data_size_ # 0 /\ mem_pool_'[curr_idx_].data_size_ \in Nat
    <3>1. mem_pool_'[curr_idx_] \in DataBuffer
      BY <2>1, <2>2 DEF PoolInv, TypeOK
    <3> QED
      BY <2>1, <2>2, <2>4, <3>1 DEF SizeInv, DataBuffer
  <2>6. has_data(curr_idx_)'
    BY <2>1, <2>5 DEF has_data
  <2> QED
    BY <1>0, <2>1, <2>6
<1>2. CASE SwapFull \/ SwapTail
  <2>1. top \in Buffers
    BY <1>2, PopStack DEF SwapFull, SwapTail, Swap, top, PoolInv, TypeOK
  <2>2. curr_idx_' # NoBuffer
    BY <1>2, <2>1, CurrentBuffer DEF SwapFull, SwapTail, Swap
  <2>3. jobs = {}
    BY <1>0, <1>2 DEF SwapFull, SwapTail
  <2>4. PICK do_flush \in BOOLEAN :
          /\ jobs' = jobs \cup {IOJob(curr_idx_, do_flush)}
          /\ loop_pc' \in {"io", "tail_io"} /\ (loop_pc' = "tail_io" => do_flush)
          /\ UNCHANGED <<life, data_queue_, file_>> /\ life # "releasing"
    BY <1>0, <1>2 DEF SwapFull, SwapTail, Swap
  <2>5. PICK new : new = IOJob(curr_idx_, do_flush)
    OBVIOUS
  <2>6. new.flush = do_flush /\ jobs' = {new}
    BY <2>3, <2>4, <2>5 DEF IOJob
  <2> QED
    BY <1>0, <2>2, <2>4, <2>6
<1>3. CASE \/ Enter \/ NullQueue \/ WhileTest \/ SwapFails \/ TryLockFails
           \/ ReturnFromIO \/ TailTest
  BY <1>0, <1>3 DEF Enter, NullQueue, WhileTest, SwapFails, TryLockFails,
                    ReturnFromIO, TailTest,
                    running_, has_data
<1>4. ASSUME NEW j \in jobs, JobData(j) \/ JobClear(j) \/ JobLock(j) \/ JobPush(j)
      PROVE  Opened' /\ Flushing' /\ (Behind' => Due')
  <2>1. /\ UNCHANGED <<life, data_queue_, curr_idx_, file_, loop_pc>>
        /\ \E k : jobs' = (jobs \ {j}) \cup {k} /\ k.flush = j.flush
    <3>1. j \in Job
      BY DEF PoolInv, TypeOK
    <3>2. /\ [j EXCEPT !.at = "clear", !.result = mem_pool_[j.buf].buffer_].flush = j.flush
          /\ \A p : [j EXCEPT !.at = p].flush = j.flush
      BY <3>1 DEF Job
    <3> QED
      BY <1>4, <3>2 DEF JobData, JobClear, JobLock, JobPush, Advance
  <2> QED
    BY <1>0, <2>1
<1>5. ASSUME NEW j \in jobs, JobWrite(j) \/ JobWriteError(j) \/ JobFlush(j)
      PROVE  Opened' /\ Flushing' /\ (Behind' => Due')
  <2>1. CASE JobWriteError(j)
    BY <1>0, <2>1 DEF JobWriteError, Finish
  <2>2. CASE JobFlush(j)
    BY <1>0, <2>2 DEF JobFlush, Finish
  <2>3. CASE JobWrite(j)
    <3>1. /\ UNCHANGED <<life, data_queue_, curr_idx_, file_, loop_pc>>
          /\ \/ j.flush /\ jobs' = (jobs \ {j}) \cup {[j EXCEPT !.at = "flush"]}
             \/ ~ j.flush /\ jobs' = jobs \ {j}
      BY <2>3 DEF JobWrite, Advance, Finish
    <3>2. [j EXCEPT !.at = "flush"].flush = j.flush
      BY DEF PoolInv, TypeOK, Job
    <3> QED
      BY <1>0, <3>1, <3>2
  <2> QED
    BY <1>5, <2>1, <2>2, <2>3
<1>6. CASE Release
  <2>1. CASE CloseFile
    <3>1. file_' = "closed" /\ (life' = "down" \/ jobs' = {IOJob(curr_idx_, TRUE)})
      BY <1>6, <2>1 DEF Release, CloseFile
    <3>2. loop_pc' = "idle"
      BY <1>6 DEF Release, Quiesced
    <3>3. IOJob(curr_idx_, TRUE).flush
      BY DEF IOJob
    <3> QED
      BY <3>1, <3>2, <3>3
  <2>2. CASE ~ CloseFile
    <3>1. /\ jobs' = {IOJob(curr_idx_, TRUE)}
          /\ UNCHANGED <<curr_idx_, data_queue_, file_>>
      BY <1>6, <2>2 DEF Release
    <3>2. IOJob(curr_idx_, TRUE).flush
      BY DEF IOJob
    <3> QED
      BY <1>0, <3>1, <3>2
  <2> QED
    BY <2>1, <2>2
<1>7. CASE ReleaseEnd
  BY <1>0, <1>7 DEF ReleaseEnd, CloseFile
<1>8. CASE Start \/ Stop \/ UNCHANGED vars
  BY <1>0, <1>8 DEF Start, Stop, vars, has_data
<1>9. CASE InitLogger
  <2>1. /\ life = "boot" /\ jobs = {} /\ disk = <<>>
        /\ UNCHANGED <<jobs, disk, flushed, curr_idx_>>
    BY <1>9 DEF InitLogger, FreshInv
  <2>2. flushed = 0 /\ Len(disk) = 0
    BY <1>0, <2>1, EmptySeq
  <2>3. curr_idx_ # NoBuffer
    BY <2>1 DEF PoolInv, Control
  <2> QED
    BY <1>0, <1>9, <2>1, <2>2, <2>3 DEF InitLogger
<1>10. CASE Age
  <2>1. /\ UNCHANGED <<life, data_queue_, curr_idx_, file_, loop_pc, jobs>>
        /\ UNCHANGED <<flushed, disk>>
        /\ mem_pool_'[curr_idx_].data_size_ = mem_pool_[curr_idx_].data_size_
    BY <1>10 DEF Age, PoolInv, TypeOK, DataBuffer
  <2> QED
    BY <1>0, <2>1 DEF has_data
<1>11. CASE \E size \in Sizes : Enqueue(size)
  BY <1>0, <1>11 DEF Enqueue, has_data
<1> QED
  BY <1>1, <1>2, <1>3, <1>4, <1>5, <1>6, <1>7, <1>8, <1>9, <1>10, <1>11
     DEF Next, LoopStep, IOStep

(* The constructor establishes the invariant.                              *)
LEMMA FileInit == Init => FileInv
<1> SUFFICES ASSUME Init PROVE FileInv
  OBVIOUS
<1>1. /\ life = "boot" /\ produced = 0 /\ disk = <<>> /\ jobs = {} /\ file_ = "closed"
      /\ mem_pool_ = [b \in Buffers |-> EmptyBuffer]
  BY DEF Init
<1>2. SizeInv
  BY <1>1 DEF SizeInv, EmptyBuffer
<1>3. Len(disk) = 0
  BY <1>1, EmptySeq
<1> QED
  BY <1>1, <1>2, <1>3 DEF FileInv, InlineInv, OrderInv, FlushInv, Numbered

(* Every step keeps the invariant.                                         *)
LEMMA FileNext ==
  ASSUME ~ AsyncIO
  PROVE  PoolInv /\ MessageInv /\ FileInv /\ [Next]_vars => FileInv'
  BY SizeNext, InlineNext, OrderNext, FlushNext DEF FileInv, MessageInv

(* With inline I/O the invariant holds in every reachable state.           *)
LEMMA FileInvariant ==
  ASSUME ~ AsyncIO
  PROVE  Spec => []FileInv
  BY PoolInvariant, MessageInvariant, FileInit, FileNext, PTL DEF Spec

(* When main_loop rests and the file is good, messages that are in the     *)
(* file but not flushed imply data in the current buffer, which            *)
(* can_start_io() of a later main_loop will flush: the swap of a full      *)
(* buffer, which does not flush, never is the last.                        *)
THEOREM UnflushedIsPending == Spec => []UnflushedPending
<1>1. CASE AsyncIO
  <2>1. UnflushedPending
    BY <1>1 DEF UnflushedPending
  <2> QED
    BY <2>1, PTL
<1>2. CASE ~ AsyncIO
  <2>1. FileInv => UnflushedPending
    BY DEF FileInv, FlushInv, UnflushedPending, Quiesced
  <2> QED
    BY <1>2, <2>1, FileInvariant, PTL
<1> QED
  BY <1>1, <1>2
-----------------------------------------------------------------------------
(***************************************************************************)
(* The end of the logger.                                                  *)
(***************************************************************************)

(* The step of release() that closes a good file.                          *)
LEMMA ReleaseStep ==
  ASSUME ~ AsyncIO, PoolInv, FileInv, [Next]_vars,
         life # "down", life' = "down", file_ = "open"
  PROVE  flushed' = Len(disk') /\ Len(disk') + Len(log_queue_') = produced'
<1> USE DEF poolVars, queueVars, fileVars
<1>1. Release \/ ReleaseEnd
  <2>1. CASE LoopStep
    BY <2>1 DEF LoopStep, Enter, NullQueue, WhileTest, SwapFull, SwapFails,
                TryLockFails,
       ReturnFromIO, Add, TailTest, SwapTail, Swap
  <2>2. CASE IOStep
    <3>1. PICK j \in jobs :
            \/ JobData(j) \/ JobClear(j) \/ JobLock(j) \/ JobPush(j)
            \/ JobWrite(j) \/ JobWriteError(j) \/ JobFlush(j)
      BY <2>2 DEF IOStep
    <3> QED
      BY <3>1 DEF JobData, JobClear, JobLock, JobPush, JobWrite, JobWriteError,
                  JobFlush
  <2> QED
    BY <2>1, <2>2 DEF Next, vars, InitLogger, Start, Stop, Enqueue, Age
<1>2. /\ jobs = {} /\ CloseFile /\ UNCHANGED <<produced, log_queue_>>
      /\ loop_pc \notin {"io", "add"}
      /\ life = "releasing" \/ (life = "stopping" /\ ~ has_data(curr_idx_))
  BY <1>1 DEF Release, ReleaseEnd, Quiesced, PoolInv, Control
<1>3. flushed = Len(disk) /\ Len(disk) \in Nat
  <2>1. Len(disk) \in Nat /\ flushed \in 0 .. Len(disk)
    BY LenProperties DEF PoolInv, TypeOK
  <2>2. ~ (flushed < Len(disk))
    BY <1>2 DEF FileInv, FlushInv
  <2> QED
    BY <2>1, <2>2
<1>4. disk' = disk /\ flushed' = Len(disk')
  <2>1. disk' = disk /\ FlushOnClose(disk)
    BY <1>2 DEF CloseFile
  <2> QED
    BY <1>3, <2>1 DEF FlushOnClose
<1>5. Unwritten = <<>>
  <2>1. CASE life = "releasing"
    BY <2>1 DEF Unwritten
  <2>2. CASE life # "releasing"
    <3>1. curr_idx_ \in Buffers /\ Unwritten = mem_pool_[curr_idx_].buffer_
      BY <2>2, CurrentBuffer DEF FileInv, FlushInv
    <3>2. mem_pool_[curr_idx_].data_size_ \in Nat
      BY <3>1 DEF PoolInv, TypeOK, DataBuffer
    <3>3. mem_pool_[curr_idx_].data_size_ = 0
      BY <1>2, <2>2, <3>2 DEF has_data
    <3> QED
      BY <3>1, <3>3 DEF FileInv, SizeInv
  <2> QED
    BY <2>1, <2>2
<1>6. Len(disk) + Len(log_queue_) = produced
  <2>1. Held(<<>>)
    BY <1>2, <1>5 DEF FileInv, OrderInv
  <2>2. Len(<<>>) = 0 /\ Len(log_queue_) \in Nat
    BY EmptySeq, MessageTypes, LenProperties
  <2> QED
    BY <1>3, <2>1, <2>2 DEF Held
<1> QED
  BY <1>2, <1>4, <1>6

(* With inline I/O, release() leaves in the file, flushed, everything      *)
(* main_loop has taken off the queue, unless the disk has failed before.   *)
THEOREM ReleaseWritesAll == Spec => ReleasedComplete
<1>1. CASE AsyncIO
  BY <1>1, PTL DEF ReleasedComplete
<1>2. CASE ~ AsyncIO
  <2>1. ASSUME PoolInv, FileInv, [Next]_vars
        PROVE  [~ AsyncIO /\ life # "down" /\ life' = "down" /\ file_ = "open" =>
                flushed' = Len(disk') /\ Len(disk') + Len(log_queue_') = produced']_vars
    BY <1>2, <2>1, ReleaseStep
  <2> QED
    BY <1>2, <2>1, PoolInvariant, FileInvariant, PTL DEF Spec, ReleasedComplete
<1> QED
  BY <1>1, <1>2
-----------------------------------------------------------------------------
(***************************************************************************)
(* The refinement of FifoLog.                                              *)
(***************************************************************************)

(* The file and its flushed part only grow, and to_io changes neither.     *)
LEMMA FileGrows ==
  ASSUME PoolInv, [Next]_vars
  PROVE  /\ Len(disk) \in Nat /\ Len(disk') \in Nat /\ Len(disk) <= Len(disk')
         /\ flushed \in Nat /\ flushed' \in flushed .. Len(disk')
         /\ \/ produced' = produced
            \/ produced' = produced + 1 /\ UNCHANGED <<disk, flushed>>
<1>1. PoolInv'
  BY PoolInvNext
<1>2. /\ Len(disk) \in Nat /\ Len(disk') \in Nat
      /\ flushed \in 0 .. Len(disk) /\ flushed' \in 0 .. Len(disk')
  BY <1>1, LenProperties DEF PoolInv, TypeOK
<1>3. Len(disk) <= Len(disk')
  <2>1. ASSUME NEW r \in Seq(Item), disk' = disk \o r PROVE Len(disk) <= Len(disk')
    <3>1. Len(disk') = Len(disk) + Len(r) /\ Len(r) \in Nat
      BY <2>1, ConcatProperties, LenProperties DEF PoolInv, TypeOK
    <3> QED
      BY <1>2, <3>1
  <2>2. CASE disk' = disk
    BY <1>2, <2>2
  <2>3. CASE \E j \in jobs : Written(j)
    BY <2>1, <2>3, MessageTypes DEF Written
  <2>4. ASSUME NEW j \in jobs, NEW n \in 0 .. Len(Pending(j)),
               disk' = disk \o SubSeq(Pending(j), 1, n)
        PROVE  Len(disk) <= Len(disk')
    <3>1. SubSeq(Pending(j), 1, n) \in Seq(Item)
      <4>1. /\ Pending(j) \in Seq(Item) /\ n \in Nat
            /\ \A i \in 1 .. n : i \in 1 .. Len(Pending(j))
        BY MessageTypes, LenProperties
      <4>2. \A i \in 1 .. n : Pending(j)[i] \in Item
        BY <4>1, ElementOfSeq
      <4> QED
        BY <4>1, <4>2, SubSeqProperties
    <3> QED
      BY <2>1, <2>4, <3>1
  <2> QED
    BY <2>2, <2>3, <2>4, StepEffect DEF Quiet, Stored, Taken, Begun, Advanced,
       Closed
<1>4. flushed <= flushed'
  <2> USE DEF poolVars, queueVars, fileVars
  <2>1. CASE flushed' = flushed
    BY <1>2, <2>1
  <2>2. CASE FlushOnClose(disk')
    BY <1>2, <1>3, <2>2 DEF FlushOnClose
  <2>3. CASE CloseFile
    BY <2>1, <2>2, <2>3 DEF CloseFile
  <2>4. ASSUME NEW j \in jobs, JobFlush(j) PROVE flushed <= flushed'
    BY <1>2, <2>4 DEF JobFlush
  <2>5. CASE LoopStep
    BY <2>1, <2>5 DEF LoopStep, Enter, NullQueue, WhileTest, SwapFull, SwapFails,
                      TryLockFails,
       ReturnFromIO, Add, TailTest, SwapTail, Swap
  <2>6. CASE IOStep
    <3>1. PICK j \in jobs :
            \/ JobData(j) \/ JobClear(j) \/ JobLock(j) \/ JobPush(j)
            \/ JobWrite(j) \/ JobWriteError(j) \/ JobFlush(j)
      BY <2>6 DEF IOStep
    <3>2. flushed' = flushed \/ FlushOnClose(disk') \/ JobFlush(j)
      BY <3>1 DEF JobData, JobClear, JobLock, JobPush, JobWrite, JobWriteError
    <3> QED
      BY <2>1, <2>2, <2>4, <3>2
  <2> QED
    BY <2>1, <2>3, <2>5, <2>6
       DEF Next, vars, InitLogger, Start, Stop, Release, ReleaseEnd, Enqueue, Age
<1>5. \/ produced' = produced
      \/ produced' = produced + 1 /\ UNCHANGED <<disk, flushed>>
  <2> USE DEF poolVars, queueVars, fileVars
  <2>1. CASE LoopStep
    BY <2>1 DEF LoopStep, Enter, NullQueue, WhileTest, SwapFull, SwapFails,
                TryLockFails,
       ReturnFromIO, Add, TailTest, SwapTail, Swap
  <2>2. CASE IOStep
    <3>1. PICK j \in jobs :
            \/ JobData(j) \/ JobClear(j) \/ JobLock(j) \/ JobPush(j)
            \/ JobWrite(j) \/ JobWriteError(j) \/ JobFlush(j)
      BY <2>2 DEF IOStep
    <3> QED
      BY <3>1 DEF JobData, JobClear, JobLock, JobPush, JobWrite, JobWriteError,
                  JobFlush
  <2> QED
    BY <2>1, <2>2 DEF Next, vars, InitLogger, Start, Stop, Release, ReleaseEnd,
                      Enqueue, Age
<1> QED
  BY <1>2, <1>3, <1>4, <1>5

(* The numbers in the file, as FifoLog sees it.                            *)
FileIds == [i \in 1 .. Len(disk) |-> disk[i].id]

(* A file that is a prefix of the messages is the sequence 1, 2, 3 and so  *)
(* on.                                                                     *)
LEMMA FileIdsCount ==
  ASSUME PoolInv, Numbered(disk, 0)
  PROVE  /\ FileIds = [i \in 1 .. Len(disk) |-> i]
         /\ FileIds \in Seq(Nat) /\ Len(FileIds) = Len(disk)
<1>1. Len(disk) \in Nat
  BY MessageTypes, LenProperties
<1>2. FileIds = [i \in 1 .. Len(disk) |-> i]
  <2>1. \A i \in 1 .. Len(disk) : disk[i].id = i
    BY <1>1 DEF Numbered
  <2> QED
    BY <2>1 DEF FileIds
<1>3. \A i \in 1 .. Len(disk) : i \in Nat
  BY <1>1
<1> QED
  BY <1>1, <1>2, <1>3, IsASeq

(* Counting to m, and on to m + n.                                         *)
LEMMA CountingConcat ==
  ASSUME NEW m \in Nat, NEW n \in Nat
  PROVE  [i \in 1 .. m + n |-> i] = [i \in 1 .. m |-> i] \o [i \in 1 .. n |-> m + i]
<1> DEFINE all == [i \in 1 .. m + n |-> i]
           low == [i \in 1 .. m |-> i]
           high == [i \in 1 .. n |-> m + i]
<1>1. /\ all \in Seq(Nat) /\ Len(all) = m + n
      /\ low \in Seq(Nat) /\ Len(low) = m
      /\ high \in Seq(Nat) /\ Len(high) = n
  <2>1. all \in Seq(Nat) /\ Len(all) = m + n
    BY IsASeq
  <2>2. low \in Seq(Nat) /\ Len(low) = m
    BY IsASeq
  <2>3. high \in Seq(Nat) /\ Len(high) = n
    BY IsASeq
  <2> QED
    BY <2>1, <2>2, <2>3
<1>2. \A i \in 1 .. m : low[i] = i
  OBVIOUS
<1>3. \A i \in 1 .. n : high[i] = m + i
  OBVIOUS
<1>4. \A i \in 1 .. m + n : all[i] = i
  OBVIOUS
<1> HIDE DEF all, low, high
<1>5. /\ low \o high \in Seq(Nat) /\ Len(low \o high) = m + n
      /\ \A i \in 1 .. m + n : (low \o high)[i] = IF i <= m THEN low[i] ELSE high[i - m]
  BY <1>1, ConcatProperties
<1>6. ASSUME NEW i \in 1 .. m + n PROVE all[i] = (low \o high)[i]
  <2>1. CASE i <= m
    BY <1>2, <1>4, <1>5, <2>1
  <2>2. CASE ~ (i <= m)
    <3>1. i - m \in 1 .. n /\ m + (i - m) = i
      BY <2>2
    <3> QED
      BY <1>3, <1>4, <1>5, <2>2, <3>1
  <2> QED
    BY <2>1, <2>2
<1>7. all = low \o high
  BY <1>1, <1>5, <1>6, SeqEqual
<1> QED
  BY <1>7 DEF all, low, high
(* Every step of the logger is one of FifoLog or leaves its variables      *)
(* alone.                                                                  *)
LEMMA FifoStep ==
  ASSUME ~ AsyncIO, PoolInv, MessageInv, FileInv, [Next]_vars
  PROVE  [Fifo!Next]_(Fifo!vars)
<1>1. PoolInv' /\ FileInv'
  BY PoolInvNext, FileNext
<1>2. /\ Numbered(disk, 0) /\ Numbered(disk, 0)'
      /\ Len(disk) <= produced /\ Len(disk') <= produced'
      /\ produced \in Nat
  BY <1>1, MessageTypes DEF FileInv, OrderInv
<1>3. /\ FileIds = [i \in 1 .. Len(disk) |-> i] /\ Len(FileIds) = Len(disk)
      /\ FileIds' = [i \in 1 .. Len(disk') |-> i] /\ Len(FileIds') = Len(disk')
  <2>1. FileIds = [i \in 1 .. Len(disk) |-> i] /\ Len(FileIds) = Len(disk)
    BY <1>2, FileIdsCount
  <2>2. (FileIds = [i \in 1 .. Len(disk) |-> i] /\ Len(FileIds) = Len(disk))'
    BY <1>1, <1>2, FileIdsCount, PTL
  <2> QED
    BY <2>1, <2>2
<1>4. CASE produced' = produced + 1 /\ UNCHANGED <<disk, flushed>>
  <2>1. FileIds' = FileIds
    BY <1>4 DEF FileIds
  <2>2. Fifo!Accept
    BY <1>4, <2>1 DEF Fifo!Accept, FileIds
  <2> QED
    BY <2>2 DEF Fifo!Next
<1>5. CASE produced' = produced
  <2>1. PICK m : m = Len(disk)
    OBVIOUS
  <2>2. PICK n : n = Len(disk') - Len(disk)
    OBVIOUS
  <2>3. /\ m \in Nat /\ n \in Nat /\ n \in 0 .. produced - Len(disk)
        /\ Len(disk') = m + n
    BY <1>2, <1>5, <2>1, <2>2, FileGrows
  <2>4. FileIds' = [i \in 1 .. m |-> i] \o [i \in 1 .. n |-> m + i]
    BY <1>3, <2>3, CountingConcat
  <2>5. FileIds' = FileIds \o [i \in 1 .. n |-> Len(FileIds) + i]
    BY <1>3, <2>1, <2>4
  <2>6. flushed' \in flushed .. Len(FileIds')
    BY <1>3, FileGrows
  <2>7. n \in 0 .. produced - Len(FileIds)
    BY <1>3, <2>3
  <2>8. Fifo!Store
    BY <1>5, <2>5, <2>6, <2>7 DEF Fifo!Store, FileIds
  <2> QED
    BY <2>8 DEF Fifo!Next
<1> QED
  BY <1>4, <1>5, FileGrows

(* With inline I/O the logger implements FifoLog, disk errors included:    *)
(* the file is always a gapless prefix of the messages in the order to_io  *)
(* enqueued them, every step of main_loop, start_io_worker and release()   *)
(* only appends the next messages, and durability is never taken back.     *)
THEOREM ImplementsFifo ==
  ASSUME ~ AsyncIO
  PROVE  Spec => ImplementsFifoLog
<1>1. Init => Fifo!Init
  <2> SUFFICES ASSUME Init PROVE Fifo!Init
    OBVIOUS
  <2>1. produced = 0 /\ disk = <<>> /\ flushed = 0
    BY DEF Init
  <2>2. Len(disk) = 0
    BY <2>1, EmptySeq
  <2>3. 1 .. 0 = {}
    OBVIOUS
  <2>4. [i \in 1 .. Len(disk) |-> disk[i].id] = <<>>
    BY <2>2, <2>3
  <2> QED
    BY <2>1, <2>4 DEF Fifo!Init
<1>2. PoolInv /\ MessageInv /\ FileInv /\ [Next]_vars => [Fifo!Next]_(Fifo!vars)
  BY FifoStep
<1> QED
  BY <1>1, <1>2, PoolInvariant, MessageInvariant, FileInvariant, PTL
     DEF Spec, ImplementsFifoLog, Fifo!Spec

=============================================================================
