------------------------ MODULE LoggerMessageProofs -------------------------
(***************************************************************************)
(* Proofs about the messages in the file logger, for every number of       *)
(* buffers, buffer size, set of message sizes and number of messages, for  *)
(* inline and posted I/O and for disks that fail: while the file is open   *)
(* no message is lost or written twice.                                    *)
(***************************************************************************)
EXTENDS LoggerProofs, FiniteSetTheorems

(* No message occurs twice in a list.                                      *)
Distinct(s) == \A i, k \in 1 .. Len(s) : s[i].id = s[k].id => i = k

(* Until init() has run nothing has been accepted.                         *)
FreshInv ==
  life = "boot" =>
    /\ produced = 0 /\ log_queue_ = <<>> /\ disk = <<>>
    /\ jobs = {} /\ Unwritten = <<>>

(* No list of messages that the logger keeps holds a message twice.        *)
DistinctInv ==
  /\ Distinct(log_queue_) /\ Distinct(Unwritten) /\ Distinct(disk)
  /\ \A j \in jobs : Distinct(Pending(j))

(* No two of the lists hold the same message.                              *)
DisjointInv ==
  /\ IdsOf(log_queue_) \cap IdsOf(Unwritten) = {}
  /\ IdsOf(log_queue_) \cap IdsOf(disk) = {}
  /\ IdsOf(Unwritten) \cap IdsOf(disk) = {}
  /\ \A j \in jobs :
       IdsOf(Pending(j)) \cap (IdsOf(log_queue_) \cup IdsOf(Unwritten) \cup IdsOf(disk)) = {}
  /\ \A j, k \in jobs : j # k => IdsOf(Pending(j)) \cap IdsOf(Pending(k)) = {}

(* The lists together hold every message to_io has enqueued.               *)
CompleteInv ==
  IdsOf(log_queue_) \cup IdsOf(Unwritten) \cup IdsOf(disk)
         \cup UNION {IdsOf(Pending(j)) : j \in jobs} = 1 .. produced

(* The invariant. A closed file ends the promise: release(true) of a       *)
(* failed write drops what its job had not written.                        *)
MessageInv ==
  /\ FreshInv
  /\ file_ # "closed" => DistinctInv /\ DisjointInv /\ CompleteInv

-----------------------------------------------------------------------------
(***************************************************************************)
(* What a step does to the messages. Every action of Logger is one of      *)
(* these, which keeps the proofs below free of buffers and program         *)
(* counters.                                                               *)
(***************************************************************************)

(* No message moves.                                                       *)
Quiet ==
  /\ UNCHANGED <<produced, log_queue_, disk, jobs, Unwritten>>
  /\ \A j \in jobs : Pending(j)' = Pending(j)

(* to_io enqueues the next message.                                        *)
Stored ==
  /\ \E size \in Sizes :
       log_queue_' = Append(log_queue_, [id |-> produced + 1, size |-> size])
  /\ produced' = produced + 1
  /\ UNCHANGED <<disk, jobs, Unwritten>>
  /\ \A j \in jobs : Pending(j)' = Pending(j)

(* main_loop takes a message off the queue and adds it to the current      *)
(* buffer.                                                                 *)
Taken ==
  /\ loop_pc = "add"
  /\ log_queue_ # <<>>
  /\ log_queue_' = Tail(log_queue_)
  /\ Unwritten' = Append(Unwritten, Head(log_queue_))
  /\ UNCHANGED <<produced, disk, jobs>>
  /\ \A j \in jobs : Pending(j)' = Pending(j)

(* start_io_worker is called with the current buffer: its messages are now *)
(* those of job k.                                                         *)
Begun(k) ==
  /\ loop_pc \in {"swap", "tail_swap"} \/ jobs = {}
  /\ jobs' = jobs \cup {k}
  /\ Pending(k)' = Unwritten
  /\ Unwritten' = <<>>
  /\ UNCHANGED <<produced, log_queue_, disk>>
  /\ \A j \in jobs : Pending(j)' = Pending(j)

(* Job j becomes k without changing what it has to write: the copy,        *)
(* clear() and push of start_io_worker.                                    *)
Advanced(j, k) ==
  /\ jobs' = (jobs \ {j}) \cup {k}
  /\ Pending(k)' = Pending(j)
  /\ UNCHANGED <<produced, log_queue_, disk, Unwritten>>
  /\ \A i \in jobs \ {j} : Pending(i)' = Pending(i)

(* Job j has written what it had to write.                                 *)
Written(j) ==
  /\ file_ # "closed" \/ Pending(j) = <<>>
  /\ disk' = disk \o Pending(j)
  /\ \E done : /\ jobs' = (jobs \ {j}) \cup done
               /\ \A k \in done : Pending(k)' = <<>>
  /\ UNCHANGED <<produced, log_queue_, Unwritten>>
  /\ \A i \in jobs \ {j} : Pending(i)' = Pending(i)

(* The file has been closed: by release(), or after a failed write that    *)
(* left a prefix of its job in the file.                                   *)
Closed ==
  /\ file_' = "closed"
  /\ AsyncIO \/ jobs' = {} \/ \E j \in jobs : jobs' = jobs \ {j}
  /\ UNCHANGED <<produced, log_queue_>>
  /\ \/ disk' = disk
     \/ /\ file_ # "closed"
        /\ \E j \in jobs : \E n \in 0 .. Len(Pending(j)) :
             disk' = disk \o SubSeq(Pending(j), 1, n)

-----------------------------------------------------------------------------
(***************************************************************************)
(* The actions and their effects.                                          *)
(***************************************************************************)

(* Unwritten is the current buffer, if there is one that is not being      *)
(* released.                                                               *)
LEMMA CurrentBuffer ==
  ASSUME PoolInv
  PROVE  /\ \A b \in Buffers : b # NoBuffer
         /\ curr_idx_ # NoBuffer => curr_idx_ \in Buffers
         /\ curr_idx_ # NoBuffer /\ life # "releasing" =>
              Unwritten = mem_pool_[curr_idx_].buffer_
         /\ curr_idx_ = NoBuffer \/ life = "releasing" => Unwritten = <<>>
  BY LoggerAssumption DEF PoolInv, TypeOK, Buffers, NoBuffer, Unwritten

(* What a step of main_loop does to the messages.                          *)
LEMMA LoopEffect ==
  ASSUME PoolInv, LoopStep
  PROVE  Quiet \/ Taken \/ \E k : Begun(k)
<1> USE DEF PoolInv, poolVars, queueVars, fileVars
<1>0. life \in {"up", "stopping"} /\ curr_idx_ \in Buffers
  BY CurrentBuffer DEF LoopStep, Enter, NullQueue, WhileTest, SwapFull, SwapFails,
                       TryLockFails,
     ReturnFromIO, Add, TailTest, SwapTail, Control, running_
<1>1. CASE \/ Enter \/ NullQueue \/ WhileTest \/ SwapFails \/ TryLockFails
           \/ ReturnFromIO \/ TailTest
  <2>1. /\ UNCHANGED <<produced, log_queue_, disk, jobs, mem_pool_, curr_idx_>>
        /\ life' # "releasing"
    BY <1>0, <1>1 DEF Enter, NullQueue, WhileTest, SwapFails, TryLockFails,
                      ReturnFromIO, TailTest
  <2> QED
    BY <1>0, <2>1 DEF Quiet, Unwritten, Pending
<1>2. CASE Add
  <2>1. /\ UNCHANGED <<life, produced, disk, jobs, curr_idx_>>
        /\ log_queue_' = Tail(log_queue_)
        /\ mem_pool_' = [mem_pool_ EXCEPT
             ![curr_idx_] = AddTo(mem_pool_[curr_idx_], Head(log_queue_))]
        /\ log_queue_ # <<>>
    BY <1>2 DEF Add, Control
  <2>2. /\ mem_pool_'[curr_idx_].buffer_ =
             Append(mem_pool_[curr_idx_].buffer_, Head(log_queue_))
        /\ \A b \in Buffers : b # curr_idx_ => mem_pool_'[b] = mem_pool_[b]
    BY <1>0, <2>1 DEF TypeOK, AddTo
  <2>3. ASSUME NEW j \in jobs PROVE Pending(j)' = Pending(j)
    <3>1. j.at = "data" => j.buf \in Buffers /\ j.buf # curr_idx_
      BY <1>0 DEF PoolPartition, Owns, TypeOK, Job
    <3> QED
      BY <2>2, <3>1 DEF Pending
  <2>4. Unwritten' = Append(Unwritten, Head(log_queue_))
    BY <1>0, <2>1, <2>2, CurrentBuffer DEF Unwritten
  <2> QED
    BY <1>2, <2>1, <2>3, <2>4 DEF Taken, Add
<1>3. ASSUME NEW do_flush, NEW next, Swap(do_flush, next),
             loop_pc \in {"swap", "tail_swap"}
      PROVE  \E k : Begun(k)
  <2>0. PICK k : k = IOJob(curr_idx_, do_flush)
    OBVIOUS
  <2>1. /\ UNCHANGED <<life, produced, log_queue_, disk, mem_pool_>>
        /\ jobs' = jobs \cup {k}
        /\ pool_stacked_index_ # <<>> /\ curr_idx_' = top
    BY <1>3, <2>0 DEF Swap
  <2>2. Stacked(top) /\ top \in Buffers
    BY <2>1, PopStack DEF TypeOK, Stacked, top
  <2>3. mem_pool_[top].buffer_ = <<>>
    BY <2>2 DEF FreeBuffersEmpty, EmptyBuffer
  <2>4. Unwritten' = <<>>
    BY <2>1, <2>3 DEF Unwritten
  <2>5. Pending(k)' = Unwritten
    <3>1. k.at = "data" /\ k.buf = curr_idx_
      BY <2>0 DEF IOJob
    <3>2. Pending(k)' = mem_pool_'[k.buf].buffer_
      BY <3>1 DEF Pending
    <3> QED
      BY <1>0, <2>1, <3>1, <3>2, CurrentBuffer
  <2>6. \A j \in jobs : Pending(j)' = Pending(j)
    BY <2>1 DEF Pending
  <2>7. Begun(k)
    BY <1>3, <2>1, <2>4, <2>5, <2>6 DEF Begun
  <2> QED
    BY <2>7
<1> QED
  BY <1>1, <1>2, <1>3 DEF LoopStep, SwapFull, SwapTail

(* What a step of start_io_worker does to the messages. That clear()       *)
(* touches nobody else's messages rests on every buffer having one owner.  *)
LEMMA JobEffect ==
  ASSUME PoolInv, NEW j \in jobs,
         JobData(j) \/ JobClear(j) \/ JobLock(j) \/ JobPush(j)
         \/ JobWrite(j) \/ JobWriteError(j) \/ JobFlush(j)
  PROVE  (\E k : Advanced(j, k)) \/ Written(j) \/ Closed
<1> USE DEF PoolInv, poolVars, queueVars, fileVars
<1>0. j \in Job /\ j.buf \in Buffers
  BY DEF TypeOK, Job
<1>1. CASE JobData(j)
  <2> DEFINE k == [j EXCEPT !.at = "clear", !.result = mem_pool_[j.buf].buffer_]
  <2>1. /\ j.at = "data" /\ jobs' = (jobs \ {j}) \cup {k}
        /\ UNCHANGED <<life, produced, log_queue_, disk, mem_pool_, curr_idx_>>
    BY <1>1 DEF JobData, Advance
  <2>2. k.at = "clear" /\ k.result = mem_pool_[j.buf].buffer_
    BY <1>0 DEF Job
  <2>3. Pending(k)' = Pending(j)
    BY <2>1, <2>2 DEF Pending
  <2> QED
    BY <2>1, <2>3 DEF Advanced, Pending, Unwritten
<1>2. CASE JobClear(j)
  <2> DEFINE k == [j EXCEPT !.at = "lock"]
  <2>1. /\ j.at = "clear" /\ jobs' = (jobs \ {j}) \cup {k}
        /\ UNCHANGED <<life, produced, log_queue_, disk, curr_idx_>>
        /\ mem_pool_' = [mem_pool_ EXCEPT ![j.buf] = EmptyBuffer]
    BY <1>2 DEF JobClear, Advance
  <2>2. k.at = "lock" /\ k.result = j.result
    BY <1>0 DEF Job
  <2>3. Pending(k)' = Pending(j)
    BY <2>1, <2>2 DEF Pending
  <2>4. \A b \in Buffers : b # j.buf => mem_pool_'[b] = mem_pool_[b]
    BY <2>1 DEF TypeOK
  <2>5. ASSUME NEW i \in jobs \ {j} PROVE Pending(i)' = Pending(i)
    <3>1. i.at = "data" => i.buf \in Buffers /\ i.buf # j.buf
      BY <1>0, <2>1 DEF PoolPartition, Owns, TypeOK, Job
    <3> QED
      BY <2>4, <3>1 DEF Pending
  <2>6. Unwritten' = Unwritten
    <3>1. life # "releasing" => curr_idx_ # j.buf
      BY <1>0, <2>1 DEF PoolPartition, Owns
    <3> QED
      BY <2>1, <2>4, <3>1, CurrentBuffer DEF Unwritten
  <2> QED
    BY <2>1, <2>3, <2>5, <2>6 DEF Advanced
<1>3. CASE JobLock(j) \/ JobPush(j)
  <2>1. PICK p \in {"push", "write"} :
          /\ j.at \in {"lock", "push"}
          /\ jobs' = (jobs \ {j}) \cup {[j EXCEPT !.at = p]}
          /\ UNCHANGED <<life, produced, log_queue_, disk, mem_pool_, curr_idx_>>
    BY <1>3 DEF JobLock, JobPush, Advance
  <2> DEFINE k == [j EXCEPT !.at = p]
  <2>2. k.at = p /\ k.result = j.result
    BY <1>0 DEF Job
  <2>3. Pending(k)' = Pending(j)
    BY <2>1, <2>2 DEF Pending
  <2> QED
    BY <2>1, <2>3 DEF Advanced, Pending, Unwritten
<1>4. CASE JobWrite(j)
  <2>1. /\ j.at = "write" /\ disk' = disk \o j.result
        /\ UNCHANGED <<life, produced, log_queue_, mem_pool_, curr_idx_>>
    BY <1>4 DEF JobWrite
  <2> DEFINE done == IF j.flush THEN {[j EXCEPT !.at = "flush"]} ELSE {}
  <2>2. jobs' = (jobs \ {j}) \cup done
    BY <1>4 DEF JobWrite, Advance, Finish
  <2>3. \A k \in done : Pending(k)' = <<>>
    BY <1>0 DEF Pending, Job
  <2>4. Pending(j) = j.result
    BY <2>1 DEF Pending
  <2>5. UNCHANGED Unwritten /\ \A i \in jobs \ {j} : Pending(i)' = Pending(i)
    BY <2>1 DEF Pending, Unwritten
  <2> HIDE DEF done
  <2>6. \E d : /\ jobs' = (jobs \ {j}) \cup d
               /\ \A k \in d : Pending(k)' = <<>>
    BY <2>2, <2>3
  <2> QED
    BY <1>4, <2>1, <2>4, <2>5, <2>6 DEF Written, JobWrite
<1>5. CASE JobFlush(j)
  <2>1. /\ j.at = "flush" /\ jobs' = (jobs \ {j}) \cup {}
        /\ UNCHANGED <<life, produced, log_queue_, disk, mem_pool_, curr_idx_>>
    BY <1>5 DEF JobFlush, Finish
  <2>2. Pending(j) = <<>>
    BY <2>1 DEF Pending
  <2>3. disk \o <<>> = disk
    BY ConcatEmptySeq DEF TypeOK
  <2>4. UNCHANGED Unwritten /\ \A i \in jobs \ {j} : Pending(i)' = Pending(i)
    BY <2>1 DEF Pending, Unwritten
  <2>5. \E d : /\ jobs' = (jobs \ {j}) \cup d
               /\ \A k \in d : Pending(k)' = <<>>
    <3>1. PICK d : d = {}
      OBVIOUS
    <3>2. /\ jobs' = (jobs \ {j}) \cup d
          /\ \A k \in d : Pending(k)' = <<>>
      BY <2>1, <3>1
    <3> QED
      BY <3>2
  <2> QED
    BY <2>1, <2>2, <2>3, <2>4, <2>5 DEF Written
<1>6. CASE JobWriteError(j)
  <2>1. /\ j.at = "write" /\ file_' = "closed" /\ UNCHANGED <<produced, log_queue_>>
        /\ jobs' = jobs \ {j}
        /\ \E n \in 0 .. (IF file_ = "open" THEN Len(j.result) ELSE 0) :
             disk' = disk \o SubSeq(j.result, 1, n)
    BY <1>6 DEF JobWriteError, Finish
  <2>2. Pending(j) = j.result /\ j.result \in Seq(Item) /\ Len(j.result) \in Nat
    BY <1>0, <2>1, LenProperties DEF Pending, Job
  <2>3. CASE file_ = "open"
    BY <2>1, <2>2, <2>3 DEF Closed
  <2>4. CASE file_ # "open"
    <3>1. disk' = disk \o SubSeq(j.result, 1, 0)
      BY <2>1, <2>4
    <3>2. SubSeq(j.result, 1, 0) = <<>>
      BY <2>2, SubSeqProperties, EmptySeq
    <3>3. disk' = disk
      BY <3>1, <3>2, ConcatEmptySeq DEF TypeOK
    <3> QED
      BY <2>1, <3>3 DEF Closed
  <2> QED
    BY <2>3, <2>4
<1> QED
  BY <1>1, <1>2, <1>3, <1>4, <1>5, <1>6

(* The passing of time moves no message.                                   *)
LEMMA AgeEffect ==
  ASSUME PoolInv, Age PROVE Quiet
<1>1. /\ UNCHANGED <<life, produced, log_queue_, disk, jobs, curr_idx_>>
      /\ curr_idx_ \in Buffers
      /\ mem_pool_' = [mem_pool_ EXCEPT ![curr_idx_].aged = TRUE]
  BY DEF Age, queueVars, fileVars
<1>2. \A b \in Buffers : mem_pool_'[b].buffer_ = mem_pool_[b].buffer_
  BY <1>1 DEF PoolInv, TypeOK, DataBuffer
<1>3. \A j \in jobs : Pending(j)' = Pending(j)
  BY <1>2 DEF Pending, PoolInv, TypeOK, Job
<1>4. Unwritten' = Unwritten
  BY <1>1, <1>2 DEF Unwritten
<1> QED
  BY <1>1, <1>3, <1>4 DEF Quiet

(* What any step does to the messages.                                     *)
LEMMA StepEffect ==
  ASSUME PoolInv, [Next]_vars
  PROVE  \/ Quiet \/ Stored \/ Taken
         \/ \E k : Begun(k)
         \/ \E j \in jobs : (\E k : Advanced(j, k)) \/ Written(j)
         \/ Closed
<1> USE DEF PoolInv, poolVars, queueVars, fileVars
<1>1. CASE LoopStep
  BY <1>1, LoopEffect
<1>2. CASE IOStep
  BY <1>2, JobEffect DEF IOStep
<1>3. CASE \E size \in Sizes : Enqueue(size)
  BY <1>3 DEF Enqueue, Stored, Unwritten, Pending
<1>4. CASE InitLogger \/ Start \/ Stop \/ UNCHANGED vars
  BY <1>4 DEF InitLogger, Start, Stop, vars, Quiet, Unwritten, Pending
<1>5. CASE Age
  BY <1>5, AgeEffect
<1>6. CASE Release
  <2>1. CASE Closed
    BY <2>1
  <2>2. CASE ~ Closed
    <3>1. /\ life = "stopping" /\ life' = "releasing" /\ jobs = {}
          /\ jobs' = {IOJob(curr_idx_, TRUE)}
          /\ UNCHANGED <<produced, log_queue_, disk, mem_pool_, curr_idx_>>
      BY <1>6, <2>2 DEF Release, Quiesced, CloseFile, Closed
    <3>2. Unwritten' = <<>> /\ Pending(IOJob(curr_idx_, TRUE))' = Unwritten
      BY <3>1, CurrentBuffer DEF Unwritten, Pending, IOJob, Control
    <3> QED
      BY <3>1, <3>2 DEF Begun
  <2> QED
    BY <2>1, <2>2
<1>7. CASE ReleaseEnd
  BY <1>7 DEF ReleaseEnd, CloseFile, Closed
<1> QED
  BY <1>1, <1>2, <1>3, <1>4, <1>5, <1>6, <1>7 DEF Next

(* The lists are lists of messages.                                        *)
LEMMA MessageTypes ==
  ASSUME PoolInv
  PROVE  /\ produced \in Nat
         /\ log_queue_ \in Seq(Item) /\ Unwritten \in Seq(Item) /\ disk \in Seq(Item)
         /\ \A j \in jobs : Pending(j) \in Seq(Item)
<1>1. produced \in Nat /\ log_queue_ \in Seq(Item) /\ disk \in Seq(Item)
  BY DEF PoolInv, TypeOK
<1>2. \A b \in Buffers : mem_pool_[b].buffer_ \in Seq(Item)
  BY DEF PoolInv, TypeOK, DataBuffer
<1>3. <<>> \in Seq(Item)
  BY EmptySeq
<1>4. Unwritten \in Seq(Item)
  BY <1>2, <1>3, CurrentBuffer
<1>5. \A j \in jobs : Pending(j) \in Seq(Item)
  <2> TAKE j \in jobs
  <2>1. j.buf \in Buffers /\ j.result \in Seq(Item)
    BY DEF PoolInv, TypeOK, Job
  <2> QED
    BY <1>2, <1>3, <2>1 DEF Pending
<1> QED
  BY <1>1, <1>4, <1>5

-----------------------------------------------------------------------------
(***************************************************************************)
(* Numbers of messages in lists.                                           *)
(***************************************************************************)

(* The numbers in an empty list.                                           *)
LEMMA EmptyIds == IdsOf(<<>>) = {} /\ Distinct(<<>>)
<1>1. Len(<<>>) = 0
  BY EmptySeq
<1> QED
  BY <1>1 DEF IdsOf, Distinct

(* The numbers in a list with one more message.                            *)
LEMMA AppendIds ==
  ASSUME NEW s \in Seq(Item), NEW x \in Item
  PROVE  /\ IdsOf(Append(s, x)) = IdsOf(s) \cup {x.id}
         /\ Distinct(s) /\ x.id \notin IdsOf(s) => Distinct(Append(s, x))
<1> DEFINE t == Append(s, x)
<1>1. /\ Len(s) \in Nat /\ Len(t) = Len(s) + 1
      /\ \A i \in 1 .. Len(s) : t[i] = s[i]
      /\ t[Len(s) + 1] = x
  BY AppendProperties, LenProperties
<1> HIDE DEF t
<1>2. \A i \in 1 .. Len(t) : i \in 1 .. Len(s) \/ i = Len(s) + 1
  BY <1>1
<1>3. 1 .. Len(s) \subseteq 1 .. Len(t) /\ Len(s) + 1 \in 1 .. Len(t)
  BY <1>1
<1>4. IdsOf(t) = IdsOf(s) \cup {x.id}
  BY <1>1, <1>2, <1>3 DEF IdsOf
<1>5. ASSUME Distinct(s), x.id \notin IdsOf(s) PROVE Distinct(t)
  <2> SUFFICES ASSUME NEW i \in 1 .. Len(t), NEW k \in 1 .. Len(t), t[i].id = t[k].id
               PROVE  i = k
    BY DEF Distinct
  <2>1. \A n \in 1 .. Len(s) : s[n].id # x.id
    BY <1>5 DEF IdsOf
  <2>2. CASE i \in 1 .. Len(s) /\ k \in 1 .. Len(s)
    BY <1>1, <1>5, <2>2 DEF Distinct
  <2> QED
    BY <1>1, <1>2, <2>1, <2>2
<1> QED
  BY <1>4, <1>5 DEF t

(* The numbers in a list behind another.                                   *)
LEMMA ConcatIds ==
  ASSUME NEW s \in Seq(Item), NEW r \in Seq(Item)
  PROVE  /\ IdsOf(s \o r) = IdsOf(s) \cup IdsOf(r)
         /\ Distinct(s) /\ Distinct(r) /\ IdsOf(s) \cap IdsOf(r) = {} =>
              Distinct(s \o r)
<1> DEFINE t == s \o r
<1>1. /\ Len(s) \in Nat /\ Len(r) \in Nat /\ Len(t) = Len(s) + Len(r)
      /\ \A i \in 1 .. Len(s) + Len(r) :
           t[i] = IF i <= Len(s) THEN s[i] ELSE r[i - Len(s)]
  BY ConcatProperties, LenProperties
<1> HIDE DEF t
<1>2. \A i \in 1 .. Len(s) : i \in 1 .. Len(t) /\ t[i] = s[i]
  BY <1>1
<1>3. \A i \in 1 .. Len(r) : Len(s) + i \in 1 .. Len(t) /\ t[Len(s) + i] = r[i]
  <2> TAKE i \in 1 .. Len(r)
  <2>1. /\ Len(s) + i \in 1 .. Len(t) /\ ~ (Len(s) + i <= Len(s))
        /\ (Len(s) + i) - Len(s) = i
    BY <1>1
  <2> QED
    BY <1>1, <2>1
<1>4. \A i \in 1 .. Len(t) :
        \/ i \in 1 .. Len(s) /\ t[i] = s[i]
        \/ i - Len(s) \in 1 .. Len(r) /\ t[i] = r[i - Len(s)]
  BY <1>1
<1>5. IdsOf(t) = IdsOf(s) \cup IdsOf(r)
  <2>1. IdsOf(t) \subseteq IdsOf(s) \cup IdsOf(r)
    BY <1>4 DEF IdsOf
  <2>2. IdsOf(s) \subseteq IdsOf(t)
    BY <1>2 DEF IdsOf
  <2>3. IdsOf(r) \subseteq IdsOf(t)
    BY <1>3 DEF IdsOf
  <2> QED
    BY <2>1, <2>2, <2>3
<1>6. ASSUME Distinct(s), Distinct(r), IdsOf(s) \cap IdsOf(r) = {} PROVE Distinct(t)
  <2> SUFFICES ASSUME NEW i \in 1 .. Len(t), NEW k \in 1 .. Len(t), t[i].id = t[k].id
               PROVE  i = k
    BY DEF Distinct
  <2>1. \A n \in 1 .. Len(s), m \in 1 .. Len(r) : s[n].id # r[m].id
    BY <1>6 DEF IdsOf
  <2>2. CASE i \in 1 .. Len(s) /\ k \in 1 .. Len(s)
    BY <1>2, <1>6, <2>2 DEF Distinct
  <2>3. CASE i - Len(s) \in 1 .. Len(r) /\ k - Len(s) \in 1 .. Len(r)
    <3>1. t[i] = r[i - Len(s)] /\ t[k] = r[k - Len(s)]
      BY <1>1, <1>4, <2>3
    <3>2. i - Len(s) = k - Len(s)
      BY <1>6, <2>3, <3>1 DEF Distinct
    <3> QED
      BY <1>1, <3>2
  <2> QED
    BY <1>4, <2>1, <2>2, <2>3
<1> QED
  BY <1>5, <1>6 DEF t

(* The numbers in a list without its first message.                        *)
LEMMA TailIds ==
  ASSUME NEW s \in Seq(Item), s # <<>>
  PROVE  /\ Head(s) \in Item
         /\ IdsOf(s) = {Head(s).id} \cup IdsOf(Tail(s))
         /\ Distinct(s) => Distinct(Tail(s)) /\ Head(s).id \notin IdsOf(Tail(s))
<1> DEFINE t == Tail(s)
<1>1. /\ Len(s) \in Nat \ {0} /\ Head(s) = s[1] /\ Head(s) \in Item
      /\ Len(t) = Len(s) - 1
      /\ \A i \in 1 .. Len(t) : t[i] = s[i + 1]
  BY HeadTailProperties, EmptySeq
<1> HIDE DEF t
<1>2. \A i \in 1 .. Len(t) : i + 1 \in 1 .. Len(s) /\ i + 1 # 1
  BY <1>1
<1>3. \A i \in 1 .. Len(s) : i = 1 \/ (i - 1 \in 1 .. Len(t) /\ t[i - 1] = s[i])
  <2> TAKE i \in 1 .. Len(s)
  <2> SUFFICES ASSUME i # 1 PROVE i - 1 \in 1 .. Len(t) /\ t[i - 1] = s[i]
    OBVIOUS
  <2>1. i - 1 \in 1 .. Len(t) /\ (i - 1) + 1 = i
    BY <1>1
  <2> QED
    BY <1>1, <2>1
<1>4. 1 \in 1 .. Len(s)
  BY <1>1
<1>5. IdsOf(s) = {s[1].id} \cup IdsOf(t)
  <2>1. IdsOf(s) \subseteq {s[1].id} \cup IdsOf(t)
    BY <1>3 DEF IdsOf
  <2>2. IdsOf(t) \subseteq IdsOf(s)
    BY <1>1, <1>2 DEF IdsOf
  <2>3. s[1].id \in IdsOf(s)
    BY <1>4 DEF IdsOf
  <2> QED
    BY <2>1, <2>2, <2>3
<1>6. ASSUME Distinct(s) PROVE Distinct(t) /\ s[1].id \notin IdsOf(t)
  <2>1. \A i, k \in 1 .. Len(t) : t[i].id = t[k].id => i = k
    <3> TAKE i \in 1 .. Len(t), k \in 1 .. Len(t)
    <3>1. t[i].id = t[k].id => i + 1 = k + 1
      BY <1>1, <1>2, <1>6 DEF Distinct
    <3> QED
      BY <3>1
  <2>2. \A i \in 1 .. Len(t) : t[i].id # s[1].id
    BY <1>1, <1>2, <1>4, <1>6 DEF Distinct
  <2> QED
    BY <2>1, <2>2 DEF Distinct, IdsOf
<1> QED
  BY <1>1, <1>5, <1>6 DEF t

(* The part of the invariant that holds while the file is open.            *)
Parts == DistinctInv /\ DisjointInv /\ CompleteInv

-----------------------------------------------------------------------------
(***************************************************************************)
(* The invariant.                                                          *)
(***************************************************************************)

(* Nothing moves.                                                          *)
LEMMA PartsQuiet ==
  ASSUME Parts, Quiet PROVE Parts'
  BY DEF Parts, Quiet, DistinctInv, DisjointInv, CompleteInv

(* The number of a new message is new.                                     *)
LEMMA PartsStored ==
  ASSUME PoolInv, Parts, Stored PROVE Parts'
<1>1. PICK size \in Sizes :
        log_queue_' = Append(log_queue_, [id |-> produced + 1, size |-> size])
  BY DEF Stored
<1> DEFINE x == [id |-> produced + 1, size |-> size]
<1>2. x \in Item /\ x.id = produced + 1
  BY MessageTypes DEF Item
<1>3. /\ IdsOf(log_queue_) \cup IdsOf(Unwritten) \cup IdsOf(disk) \subseteq 1 .. produced
      /\ \A j \in jobs : IdsOf(Pending(j)) \subseteq 1 .. produced
  BY DEF Parts, CompleteInv
<1>4. /\ produced + 1 \notin 1 .. produced
      /\ 1 .. produced + 1 = 1 .. produced \cup {produced + 1}
  BY MessageTypes
<1>5. /\ IdsOf(log_queue_') = IdsOf(log_queue_) \cup {produced + 1}
      /\ Distinct(log_queue_')
  BY <1>1, <1>2, <1>3, <1>4, AppendIds, MessageTypes DEF Parts, DistinctInv
<1> QED
  BY <1>3, <1>4, <1>5 DEF Parts, Stored, DistinctInv, DisjointInv, CompleteInv

(* A message moves from the queue to the current buffer.                   *)
LEMMA PartsTaken ==
  ASSUME PoolInv, Parts, Taken PROVE Parts'
<1> DEFINE x == Head(log_queue_)
<1>1. /\ x \in Item
      /\ IdsOf(log_queue_) = {x.id} \cup IdsOf(log_queue_')
      /\ Distinct(log_queue_') /\ x.id \notin IdsOf(log_queue_')
  BY TailIds, MessageTypes DEF Taken, Parts, DistinctInv
<1>2. x.id \notin IdsOf(Unwritten)
  BY <1>1 DEF Parts, DisjointInv
<1>3. /\ IdsOf(Unwritten') = IdsOf(Unwritten) \cup {x.id}
      /\ Distinct(Unwritten')
  BY <1>1, <1>2, AppendIds, MessageTypes DEF Taken, Parts, DistinctInv
<1> HIDE DEF x
<1>4. DistinctInv'
  BY <1>1, <1>3 DEF Parts, Taken, DistinctInv
<1>5. DisjointInv'
  BY <1>1, <1>3 DEF Parts, Taken, DisjointInv
<1>6. CompleteInv'
  BY <1>1, <1>3 DEF Parts, Taken, CompleteInv
<1> QED
  BY <1>4, <1>5, <1>6 DEF Parts

(* The messages of the current buffer become those of a new job.           *)
LEMMA PartsBegun ==
  ASSUME Parts, NEW k, Begun(k) PROVE Parts'
<1>1. IdsOf(Unwritten') = {} /\ Distinct(Unwritten')
  BY EmptyIds DEF Begun
<1>2. DistinctInv'
  BY <1>1 DEF Parts, Begun, DistinctInv
<1>3. DisjointInv'
  BY <1>1 DEF Parts, Begun, DisjointInv
<1>4. CompleteInv'
  BY <1>1 DEF Parts, Begun, CompleteInv
<1> QED
  BY <1>2, <1>3, <1>4 DEF Parts

(* A job keeps its messages.                                               *)
LEMMA PartsAdvanced ==
  ASSUME Parts, NEW j \in jobs, NEW k, Advanced(j, k) PROVE Parts'
<1>1. DistinctInv'
  BY DEF Parts, Advanced, DistinctInv
<1>2. DisjointInv'
  BY DEF Parts, Advanced, DisjointInv
<1>3. CompleteInv'
  BY DEF Parts, Advanced, CompleteInv
<1> QED
  BY <1>1, <1>2, <1>3 DEF Parts

(* The messages of a job move to the file.                                 *)
LEMMA PartsWritten ==
  ASSUME PoolInv, Parts, NEW j \in jobs, Written(j) PROVE Parts'
<1>1. PICK done : /\ jobs' = (jobs \ {j}) \cup done
                  /\ \A k \in done : Pending(k)' = <<>>
  BY DEF Written
<1>2. \A k \in done : IdsOf(Pending(k)') = {} /\ Distinct(Pending(k)')
  BY <1>1, EmptyIds
<1>3. /\ IdsOf(disk') = IdsOf(disk) \cup IdsOf(Pending(j))
      /\ Distinct(disk')
  BY ConcatIds, MessageTypes DEF Written, Parts, DistinctInv, DisjointInv
<1>4. DistinctInv'
  BY <1>1, <1>2, <1>3 DEF Parts, Written, DistinctInv
<1>5. DisjointInv'
  BY <1>1, <1>2, <1>3 DEF Parts, Written, DisjointInv
<1>6. CompleteInv'
  BY <1>1, <1>2, <1>3 DEF Parts, Written, CompleteInv
<1> QED
  BY <1>4, <1>5, <1>6 DEF Parts

(* Only init() opens the file, and nothing comes before init().            *)
LEMMA OpensOnce ==
  ASSUME PoolInv, FreshInv, [Next]_vars
  PROVE  /\ life' = "boot" => life = "boot" /\ (Age \/ UNCHANGED vars)
         /\ file_' # "closed" => file_ # "closed" \/ (InitLogger /\ life = "boot")
<1> USE DEF PoolInv, Control, vars, queueVars, poolVars, fileVars
<1>1. CASE LoopStep
  BY <1>1 DEF LoopStep, Enter, NullQueue, WhileTest, SwapFull, SwapFails,
              TryLockFails,
     ReturnFromIO, Add, TailTest, SwapTail, Swap, running_
<1>2. CASE IOStep
  <2>1. PICK j \in jobs :
          \/ JobData(j) \/ JobClear(j) \/ JobLock(j) \/ JobPush(j)
          \/ JobWrite(j) \/ JobWriteError(j) \/ JobFlush(j)
    BY <1>2 DEF IOStep
  <2> QED
    BY <2>1 DEF JobData, JobClear, JobLock, JobPush, JobWrite, JobWriteError,
                JobFlush, FreshInv
<1> QED
  BY <1>1, <1>2 DEF Next, InitLogger, Start, Stop, Release, ReleaseEnd, CloseFile,
                    Enqueue, Age

(* The constructor establishes the invariant.                              *)
LEMMA MessageInit == Init => MessageInv
<1>1. Init => /\ life = "boot" /\ produced = 0 /\ log_queue_ = <<>>
              /\ disk = <<>> /\ jobs = {} /\ file_ = "closed"
  BY DEF Init
<1>2. Init => Unwritten = <<>>
  <2> SUFFICES ASSUME Init PROVE Unwritten = <<>>
    OBVIOUS
  <2>1. curr_idx_ = 0 /\ 0 \in Buffers /\ mem_pool_ = [b \in Buffers |-> EmptyBuffer]
    BY LoggerAssumption DEF Init, Buffers
  <2>2. mem_pool_[curr_idx_].buffer_ = <<>>
    BY <2>1 DEF EmptyBuffer
  <2> QED
    BY <2>2 DEF Unwritten
<1> QED
  BY <1>1, <1>2 DEF MessageInv, FreshInv

(* Every step keeps the invariant.                                         *)
LEMMA MessageNext == PoolInv /\ MessageInv /\ [Next]_vars => MessageInv'
<1> SUFFICES ASSUME PoolInv, MessageInv, [Next]_vars PROVE MessageInv'
  OBVIOUS
<1>1. FreshInv'
  <2> SUFFICES ASSUME life' = "boot" PROVE FreshInv'
    BY DEF FreshInv
  <2>1. life = "boot" /\ (Age \/ UNCHANGED vars)
    BY OpensOnce DEF MessageInv
  <2>2. CASE Age
    BY <2>1, <2>2, AgeEffect DEF MessageInv, FreshInv, Quiet
  <2>3. CASE UNCHANGED vars
    BY <2>1, <2>3 DEF MessageInv, FreshInv, vars, queueVars, poolVars, fileVars,
                      Unwritten
  <2> QED
    BY <2>1, <2>2, <2>3
<1>2. CASE file_ # "closed" /\ file_' # "closed"
  <2>1. Parts
    BY <1>2 DEF MessageInv, Parts
  <2>2. Parts'
    BY <1>2, <2>1, StepEffect, PartsQuiet, PartsStored, PartsTaken, PartsBegun,
       PartsAdvanced,
       PartsWritten DEF Closed
  <2> QED
    BY <1>1, <2>2 DEF MessageInv, Parts
<1>3. CASE file_ = "closed" /\ file_' # "closed"
  <2>1. InitLogger /\ life = "boot"
    BY <1>3, OpensOnce DEF MessageInv
  <2>2. UNCHANGED <<produced, log_queue_, disk, jobs, Unwritten>>
    BY <2>1 DEF InitLogger, poolVars, Unwritten
  <2>3. /\ produced = 0 /\ log_queue_ = <<>> /\ disk = <<>>
        /\ jobs = {} /\ Unwritten = <<>>
    BY <2>1 DEF MessageInv, FreshInv
  <2>4. 1 .. 0 = {}
    OBVIOUS
  <2>5. DistinctInv' /\ DisjointInv' /\ CompleteInv'
    BY <2>2, <2>3, <2>4, EmptyIds DEF DistinctInv, DisjointInv, CompleteInv
  <2> QED
    BY <1>1, <2>5 DEF MessageInv
<1>4. CASE file_' = "closed"
  BY <1>1, <1>4 DEF MessageInv
<1> QED
  BY <1>2, <1>3, <1>4

(* The invariant holds in every reachable state.                           *)
LEMMA MessageInvariant == Spec => []MessageInv
  BY PoolInvariant, MessageInit, MessageNext, PTL DEF Spec

(* A list without repetition has as many numbers as messages.              *)
LEMMA DistinctCount ==
  ASSUME NEW s \in Seq(Item), Distinct(s)
  PROVE  Cardinality(IdsOf(s)) = Len(s)
<1> DEFINE f == [i \in 1 .. Len(s) |-> s[i].id]
<1>1. Len(s) \in Nat
  BY LenProperties
<1>2. f \in Bijection(1 .. Len(s), IdsOf(s))
  BY DEF Distinct, IdsOf, Bijection, Injection, Surjection, IsInjective
<1>3. ExistsBijection(1 .. Len(s), IdsOf(s))
  BY <1>2 DEF ExistsBijection
<1> QED
  BY <1>1, <1>3, FS_CountingElements

(* While the file is open, every message ever given to to_io is in exactly *)
(* one of the queue, the current buffer, one call of start_io_worker and   *)
(* the file, however the calls are interleaved.                            *)
THEOREM NothingLost == Spec => []NoLossNoDup
<1>1. PoolInv /\ MessageInv => NoLossNoDup
  <2> SUFFICES ASSUME PoolInv, MessageInv, file_ # "closed" PROVE NoLossNoDup
    BY DEF NoLossNoDup
  <2>1. Cardinality(IdsOf(disk)) = Len(disk)
    BY DistinctCount, MessageTypes DEF MessageInv, DistinctInv
  <2> QED
    BY <2>1 DEF NoLossNoDup, MessageInv, DisjointInv, CompleteInv
<1> QED
  BY <1>1, PoolInvariant, MessageInvariant, PTL

=============================================================================
