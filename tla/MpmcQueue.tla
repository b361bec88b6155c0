----------------------------- MODULE MpmcQueue -----------------------------
(***************************************************************************)
(* The lock-free bounded queue of src/mpmc_bounded_queue.h: a ring of      *)
(* cells, each with a sequence number that tells which position may use it *)
(* next.  A thread claims a position by a compare-and-swap on enqueue_pos_ *)
(* or dequeue_pos_, works on the cell alone, then hands the cell over by   *)
(* storing its next sequence number.                                       *)
(*                                                                         *)
(* Every access to a shared variable is a step of its own.  Steps          *)
(* interleave in one total order: the data is published by the             *)
(* release/acquire pair on sequence_, and every counter is read and        *)
(* written by single atomic operations.  Positions are natural numbers:    *)
(* 2^64 enqueues do not happen in the life of a process.                   *)
(***************************************************************************)
EXTENDS Integers, Sequences, FiniteSets

CONSTANTS Producers,   \* threads that call enqueue
          Consumers,   \* threads that call dequeue
          Values,      \* the data T
          NoValue,     \* content of a cell or an argument never assigned
          Size,        \* buffer_size
          MaxEnqueues  \* bound: positions a run may claim

ASSUME SizeAssumption == Size \in Nat /\ Size >= 2
ASSUME ThreadsAssumption == Producers \cap Consumers = {}
ASSUME ValuesAssumption == NoValue \notin Values
ASSUME BoundAssumption == MaxEnqueues \in Nat

VARIABLES enqueue_pos, dequeue_pos, item_count,
          sequence,  \* buffer_[i].sequence_
          cellData,  \* buffer_[i].data_
          pc,        \* where each thread is
          pos,       \* the local pos of the call in progress
          data,      \* the argument of enqueue, the result of dequeue
          log        \* history: the value claimed for each position

vars == <<enqueue_pos, dequeue_pos, item_count, sequence, cellData,
          pc, pos, data, log>>

Threads == Producers \cup Consumers
Slots == 0 .. Size - 1

\* pos & buffer_mask_: the constructor asserts that Size is a power of two.
Slot(i) == i % Size

Init == /\ enqueue_pos = 0
        /\ dequeue_pos = 0
        /\ item_count = 0
        /\ sequence = [i \in Slots |-> i]
        /\ cellData = [i \in Slots |-> NoValue]
        /\ pc = [t \in Threads |-> "idle"]
        /\ pos = [t \in Threads |-> 0]
        /\ data = [t \in Threads |-> NoValue]
        /\ log = <<>>

Goto(t, from, to) == pc[t] = from /\ pc' = [pc EXCEPT ![t] = to]

-----------------------------------------------------------------------------
(* bool enqueue(T const& data)                                             *)

EnqueueCall(p, v) ==
    /\ Goto(p, "idle", "eLoad")
    /\ data' = [data EXCEPT ![p] = v]
    /\ UNCHANGED <<enqueue_pos, dequeue_pos, item_count, sequence, cellData,
                   pos, log>>

EnqueueLoad(p) ==
    /\ Goto(p, "eLoad", "eLook")
    /\ pos' = [pos EXCEPT ![p] = enqueue_pos]
    /\ UNCHANGED <<enqueue_pos, dequeue_pos, item_count, sequence, cellData,
                   data, log>>

\* Mutant: a position claimed by somebody else is taken for a full queue.
EnqueueLookOnce(p) ==
    LET dif == sequence[Slot(pos[p])] - pos[p]
    IN  /\ \/ dif = 0 /\ Goto(p, "eLook", "eCas")
           \/ dif # 0 /\ Goto(p, "eLook", "idle")
        /\ UNCHANGED <<enqueue_pos, dequeue_pos, item_count, sequence,
                       cellData, pos, data, log>>

\* Load the cell's sequence number and branch on dif: the cell is free for
\* pos, still holds an older position (the queue is full, return false), or
\* has already been claimed by somebody else (load enqueue_pos_ again).
EnqueueLook(p) ==
    LET dif == sequence[Slot(pos[p])] - pos[p]
    IN  /\ \/ dif = 0 /\ Goto(p, "eLook", "eCas")
           \/ dif < 0 /\ Goto(p, "eLook", "idle")
           \/ dif > 0 /\ Goto(p, "eLook", "eLoad")
        /\ UNCHANGED <<enqueue_pos, dequeue_pos, item_count, sequence,
                       cellData, pos, data, log>>

\* Mutant: the position is stored without comparing it first.
EnqueueClaimBlind(p) ==
    /\ enqueue_pos < MaxEnqueues
    /\ Goto(p, "eCas", "eWrite")
    /\ enqueue_pos' = pos[p] + 1
    /\ log' = Append(log, data[p])
    /\ UNCHANGED <<dequeue_pos, item_count, sequence, cellData, pos, data>>

EnqueueClaim(p) ==
    /\ enqueue_pos = pos[p]
    /\ enqueue_pos < MaxEnqueues
    /\ Goto(p, "eCas", "eWrite")
    /\ enqueue_pos' = pos[p] + 1
    /\ log' = Append(log, data[p])
    /\ UNCHANGED <<dequeue_pos, item_count, sequence, cellData, pos, data>>

\* compare_exchange_weak fails, because the position moved or spuriously; it
\* leaves the current value in pos.
EnqueueRetry(p) ==
    /\ Goto(p, "eCas", "eLook")
    /\ pos' = [pos EXCEPT ![p] = enqueue_pos]
    /\ UNCHANGED <<enqueue_pos, dequeue_pos, item_count, sequence, cellData,
                   data, log>>

\* Mutant: the position is published with its data, before it is counted.
EnqueueWriteShown(p) ==
    /\ Goto(p, "eWrite", "eCount")
    /\ cellData' = [cellData EXCEPT ![Slot(pos[p])] = data[p]]
    /\ sequence' = [sequence EXCEPT ![Slot(pos[p])] = pos[p] + 1]
    /\ UNCHANGED <<enqueue_pos, dequeue_pos, item_count, pos, data, log>>

EnqueueWrite(p) ==
    /\ Goto(p, "eWrite", "eCount")
    /\ cellData' = [cellData EXCEPT ![Slot(pos[p])] = data[p]]
    /\ UNCHANGED <<enqueue_pos, dequeue_pos, item_count, sequence, pos, data,
                   log>>

EnqueueCount(p) ==
    /\ Goto(p, "eCount", "ePublish")
    /\ item_count' = item_count + 1
    /\ UNCHANGED <<enqueue_pos, dequeue_pos, sequence, cellData, pos, data,
                   log>>

EnqueuePublish(p) ==
    /\ Goto(p, "ePublish", "idle")
    /\ sequence' = [sequence EXCEPT ![Slot(pos[p])] = pos[p] + 1]
    /\ UNCHANGED <<enqueue_pos, dequeue_pos, item_count, cellData, pos, data,
                   log>>

-----------------------------------------------------------------------------
(* bool dequeue(T& data)                                                   *)

DequeueCall(c) ==
    /\ Goto(c, "idle", "dLoad")
    /\ UNCHANGED <<enqueue_pos, dequeue_pos, item_count, sequence, cellData,
                   pos, data, log>>

DequeueLoad(c) ==
    /\ Goto(c, "dLoad", "dLook")
    /\ pos' = [pos EXCEPT ![c] = dequeue_pos]
    /\ UNCHANGED <<enqueue_pos, dequeue_pos, item_count, sequence, cellData,
                   data, log>>

\* As EnqueueLook, against pos + 1: the position is published, not yet
\* published (nothing to take, return false), or already taken.
DequeueLook(c) ==
    LET dif == sequence[Slot(pos[c])] - (pos[c] + 1)
    IN  /\ \/ dif = 0 /\ Goto(c, "dLook", "dCas")
           \/ dif < 0 /\ Goto(c, "dLook", "idle")
           \/ dif > 0 /\ Goto(c, "dLook", "dLoad")
        /\ UNCHANGED <<enqueue_pos, dequeue_pos, item_count, sequence,
                       cellData, pos, data, log>>

DequeueClaim(c) ==
    /\ dequeue_pos = pos[c]
    /\ Goto(c, "dCas", "dRead")
    /\ dequeue_pos' = pos[c] + 1
    /\ UNCHANGED <<enqueue_pos, item_count, sequence, cellData, pos, data,
                   log>>

DequeueRetry(c) ==
    /\ Goto(c, "dCas", "dLook")
    /\ pos' = [pos EXCEPT ![c] = dequeue_pos]
    /\ UNCHANGED <<enqueue_pos, dequeue_pos, item_count, sequence, cellData,
                   data, log>>

\* Mutant: the cell is found again from the shared position.
DequeueReadShared(c) ==
    /\ Goto(c, "dRead", "dCount")
    /\ data' = [data EXCEPT ![c] = cellData[Slot(dequeue_pos - 1)]]
    /\ UNCHANGED <<enqueue_pos, dequeue_pos, item_count, sequence, cellData,
                   pos, log>>

DequeueRead(c) ==
    /\ Goto(c, "dRead", "dCount")
    /\ data' = [data EXCEPT ![c] = cellData[Slot(pos[c])]]
    /\ UNCHANGED <<enqueue_pos, dequeue_pos, item_count, sequence, cellData,
                   pos, log>>

DequeueCount(c) ==
    /\ Goto(c, "dCount", "dRelease")
    /\ item_count' = item_count - 1
    /\ UNCHANGED <<enqueue_pos, dequeue_pos, sequence, cellData, pos, data,
                   log>>

\* Mutants: the cell is released for a position that is one too high, or
\* the lap is subtracted.
DequeueReleaseNext(c) ==
    /\ Goto(c, "dRelease", "idle")
    /\ sequence' = [sequence EXCEPT ![Slot(pos[c])] = pos[c] + Size + 1]
    /\ UNCHANGED <<enqueue_pos, dequeue_pos, item_count, cellData, pos, data,
                   log>>

DequeueReleaseBack(c) ==
    /\ Goto(c, "dRelease", "idle")
    /\ sequence' = [sequence EXCEPT ![Slot(pos[c])] = pos[c] - Size]
    /\ UNCHANGED <<enqueue_pos, dequeue_pos, item_count, cellData, pos, data,
                   log>>

DequeueRelease(c) ==
    /\ Goto(c, "dRelease", "idle")
    /\ sequence' = [sequence EXCEPT ![Slot(pos[c])] = pos[c] + Size]
    /\ UNCHANGED <<enqueue_pos, dequeue_pos, item_count, cellData, pos, data,
                   log>>

-----------------------------------------------------------------------------
Enqueue(p) == \/ \E v \in Values : EnqueueCall(p, v)
              \/ EnqueueLoad(p) \/ EnqueueLook(p)
              \/ EnqueueClaim(p) \/ EnqueueRetry(p)
              \/ EnqueueWrite(p) \/ EnqueueCount(p) \/ EnqueuePublish(p)

Dequeue(c) == \/ DequeueCall(c) \/ DequeueLoad(c) \/ DequeueLook(c)
              \/ DequeueClaim(c) \/ DequeueRetry(c)
              \/ DequeueRead(c) \/ DequeueCount(c) \/ DequeueRelease(c)

Next == \/ \E p \in Producers : Enqueue(p)
        \/ \E c \in Consumers : Dequeue(c)

Spec == Init /\ [][Next]_vars

-----------------------------------------------------------------------------
(* Properties                                                              *)

\* The position a thread has claimed and not yet handed over.
Writing(p) == pc[p] \in {"eWrite", "eCount", "ePublish"}
Taking(c) == pc[c] \in {"dRead", "dCount", "dRelease"}

TypeOK == /\ enqueue_pos \in Nat
          /\ dequeue_pos \in Nat
          /\ item_count \in Int
          /\ sequence \in [Slots -> Nat]
          /\ cellData \in [Slots -> Values \cup {NoValue}]
          /\ pc \in [Threads -> {"idle",
                       "eLoad", "eLook", "eCas", "eWrite", "eCount", "ePublish",
                       "dLoad", "dLook", "dCas", "dRead", "dCount", "dRelease"}]
          /\ \A p \in Producers : /\ pc[p] \notin {"dLoad", "dLook", "dCas",
                                           "dRead", "dCount", "dRelease"}
                                  /\ pc[p] # "idle" => data[p] \in Values
          /\ \A c \in Consumers : pc[c] \notin {"eLoad", "eLook", "eCas",
                                           "eWrite", "eCount", "ePublish"}
          /\ pos \in [Threads -> Nat]
          /\ data \in [Threads -> Values \cup {NoValue}]
          /\ log \in Seq(Values)

\* The cell's data is a plain (non-atomic) T: no thread may be between its
\* claim and its hand-over of a cell while another one is too.
NoDataRace ==
    \A s, t \in Threads :
        /\ s # t
        /\ Writing(s) \/ Taking(s)
        /\ Writing(t) \/ Taking(t)
        => Slot(pos[s]) # Slot(pos[t])

\* item_count_ is unsigned: counting an item after publishing it, or
\* discounting it after releasing its cell, would let queue_size() wrap below
\* zero or exceed the buffer.
CountInRange == item_count \in 0 .. Size

\* enqueue() drops an event (returns false) only while the cell it would reuse
\* is still occupied by the position one lap earlier; dequeue() finds nothing
\* only while the oldest position has not been published.
DeclinesJustified ==
    [][/\ \A p \in Producers :
            (pc[p] = "eLook" /\ pc'[p] = "idle")
            => /\ enqueue_pos >= Size
               /\ sequence[Slot(enqueue_pos)] # enqueue_pos
       /\ \A c \in Consumers :
            (pc[c] = "dLook" /\ pc'[c] = "idle")
            => sequence[Slot(dequeue_pos)] # dequeue_pos + 1]_vars

\* The queue implements one bounded FIFO.  A consumer has received its value
\* as soon as it has claimed the position, although it reads the cell later.
Received ==
    [c \in Consumers |-> IF pc[c] = "dRead" THEN cellData[Slot(pos[c])]
                         ELSE data[c]]

Fifo == INSTANCE BoundedFifo WITH taken <- dequeue_pos, received <- Received

\* Values come out exactly once, in the order of the claims, and never more
\* than Size of them wait: every step is a step of the FIFO or a stutter.
ImplementsFifo == Fifo!FifoSpec
-----------------------------------------------------------------------------
(* The inductive invariant behind NoDataRace and ImplementsFifo            *)

\* At most Size positions are claimed and not handed out.
WindowInv == /\ dequeue_pos <= enqueue_pos
             /\ enqueue_pos <= dequeue_pos + Size
             /\ Len(log) = enqueue_pos

\* The cell of each position in the window: claimed but not yet published (i),
\* published (i + 1), or, past the window's end, free (i) or still being taken
\* by the consumer of the previous lap (i + 1 - Size).
CellInv ==
    \A i \in dequeue_pos .. dequeue_pos + Size - 1 :
        IF i < enqueue_pos
        THEN \/ sequence[Slot(i)] = i
             \/ /\ sequence[Slot(i)] = i + 1
                /\ cellData[Slot(i)] = log[i + 1]
        ELSE sequence[Slot(i)] \in {i, i + 1 - Size}

\* A producer between its claim and its publication owns its position.
WriterInv ==
    \A p \in Producers :
        Writing(p) =>
            /\ dequeue_pos <= pos[p] /\ pos[p] < enqueue_pos
            /\ sequence[Slot(pos[p])] = pos[p]
            /\ log[pos[p] + 1] = data[p]
            /\ pc[p] # "eWrite" => cellData[Slot(pos[p])] = data[p]
            /\ \A q \in Producers : Writing(q) /\ pos[q] = pos[p] => q = p

\* A consumer between its claim and its release owns its position.
TakerInv ==
    \A c \in Consumers :
        Taking(c) =>
            /\ pos[c] < dequeue_pos /\ enqueue_pos <= pos[c] + Size
            /\ sequence[Slot(pos[c])] = pos[c] + 1
            /\ pc[c] = "dRead" => cellData[Slot(pos[c])] = log[pos[c] + 1]
            /\ \A d \in Consumers : Taking(d) /\ pos[d] = pos[c] => d = c

\* No thread looks past the counters, and what it saw at its last look still
\* holds if its CAS can succeed.
LookInv ==
    /\ \A p \in Producers :
          /\ pc[p] \in {"eLook", "eCas"} => pos[p] <= enqueue_pos
          /\ pc[p] = "eCas" /\ pos[p] = enqueue_pos
             => sequence[Slot(pos[p])] = pos[p]
    /\ \A c \in Consumers :
          /\ pc[c] \in {"dLook", "dCas"} => pos[c] <= dequeue_pos
          /\ pc[c] = "dCas" /\ pos[c] = dequeue_pos
             => sequence[Slot(pos[c])] = pos[c] + 1

\* The ownership discipline of the whole ring: every cell is free, owned by
\* one producer, published, or owned by one consumer, and the published cells
\* hold what was accepted for their positions.
Ownership == WindowInv /\ CellInv /\ WriterInv /\ TakerInv /\ LookInv

\* The positions item_count_ counts: those of the window that are past their
\* fetch_add, and those that are taken and before their fetch_sub.
Counted ==
    {i \in dequeue_pos .. enqueue_pos - 1 :
        \A p \in Producers : pc[p] \in {"eWrite", "eCount"} => pos[p] # i}
    \cup {pos[c] : c \in {d \in Consumers : pc[d] \in {"dRead", "dCount"}}}

CountExact == item_count = Cardinality(Counted)
=============================================================================
