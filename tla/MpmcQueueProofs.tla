-------------------------- MODULE MpmcQueueProofs --------------------------
(* Proofs that the queue is typed, owns its cells and never races on them. *)
EXTENDS MpmcQueue, FiniteSetTheorems, TLAPS

-----------------------------------------------------------------------------
(* Arithmetic of positions and cells                                       *)

\* The cell of a position exists.
LEMMA SlotType == \A i \in Nat : Slot(i) \in Slots
BY SizeAssumption DEF Slot, Slots

\* The only multiple of n strictly between -n and n is 0.
LEMMA SmallMultiple ==
    ASSUME NEW n \in Nat, NEW k \in Int, -n < n * k, n * k < n
    PROVE  k = 0
<1>1. \A m \in Nat, l \in Int : l >= 1 => m * l >= m
  OBVIOUS
<1>2. \A m \in Nat, l \in Int : l <= -1 => m * l <= -m
  OBVIOUS
<1> QED BY <1>1, <1>2

\* A position is a number of whole laps plus its cell.
LEMMA SlotDivision ==
    \A i \in Nat : /\ i \div Size \in Nat
                   /\ i = Size * (i \div Size) + Slot(i)
BY SizeAssumption DEF Slot

\* Positions of the same cell that are less than a lap apart are equal.
LEMMA SlotInjective ==
    ASSUME NEW i \in Nat, NEW j \in Nat, Slot(i) = Slot(j),
           i < j + Size, j < i + Size
    PROVE  i = j
<1> DEFINE a == i \div Size
           b == j \div Size
<1>1. a \in Nat /\ i = Size * a + Slot(i)
  BY SlotDivision
<1>2. b \in Nat /\ j = Size * b + Slot(i)
  BY SlotDivision
<1> HIDE DEF a, b
<1>3. Slot(i) \in Nat
  BY SlotType, SizeAssumption DEF Slots
<1>4. Size * (b - a) = Size * b - Size * a
  BY <1>1, <1>2, SizeAssumption
<1>5. Size * (b - a) = j - i
  BY <1>1, <1>2, <1>3, <1>4, SizeAssumption
<1>6. b - a = 0
  BY <1>1, <1>2, <1>5, SmallMultiple, SizeAssumption
<1> QED BY <1>1, <1>2, <1>5, <1>6, SizeAssumption

\* A lap later a position has the same cell.
LEMMA SlotLap ==
    ASSUME NEW i \in Nat
    PROVE  Slot(i + Size) = Slot(i)
<1> DEFINE a == i \div Size
           b == (i + Size) \div Size
<1>1. a \in Nat /\ i = Size * a + Slot(i)
  BY SlotDivision
<1>2. b \in Nat /\ i + Size = Size * b + Slot(i + Size)
  BY SlotDivision, SizeAssumption
<1> HIDE DEF a, b
<1>3. Slot(i) \in Slots /\ Slot(i + Size) \in Slots
  BY SlotType, SizeAssumption
<1> DEFINE c == b - a - 1
<1>4. c \in Int /\ Size * c = Size * b - Size * a - Size
  BY <1>1, <1>2, SizeAssumption
<1> HIDE DEF c
<1>5. Size * c = Slot(i) - Slot(i + Size)
  <2> DEFINE x == Size * a
             y == Size * b
             k == Size * c
  <2>1. x \in Int /\ y \in Int /\ k \in Int
    BY <1>1, <1>2, <1>4, SizeAssumption
  <2>2. i = x + Slot(i) /\ i + Size = y + Slot(i + Size) /\ k = y - x - Size
    BY <1>1, <1>2, <1>4
  <2>3. Slot(i) \in Int /\ Slot(i + Size) \in Int /\ Size \in Int
    BY <1>3, SizeAssumption DEF Slots
  <2> HIDE DEF x, y, k
  <2>4. k = Slot(i) - Slot(i + Size)
    BY <2>1, <2>2, <2>3
  <2> QED BY <2>4 DEF k
<1>6. c = 0
  BY <1>3, <1>4, <1>5, SmallMultiple, SizeAssumption DEF Slots
<1> QED BY <1>3, <1>4, <1>5, <1>6, SizeAssumption DEF Slots

-----------------------------------------------------------------------------
(* Type correctness                                                        *)

\* A new queue has the types of its members.
LEMMA TypeInit == Init => TypeOK
BY SizeAssumption, ThreadsAssumption DEF Init, TypeOK, Threads, Slots

\* Every access of enqueue and dequeue keeps the types.
LEMMA TypeStep == TypeOK /\ [Next]_vars => TypeOK'
<1> SUFFICES ASSUME TypeOK, [Next]_vars PROVE TypeOK'
  OBVIOUS
<1> USE ThreadsAssumption, SlotType, SizeAssumption DEF TypeOK, Goto, Threads
<1>1. ASSUME NEW p \in Producers, Enqueue(p) PROVE TypeOK'
  <2>1. ASSUME NEW v \in Values, EnqueueCall(p, v) PROVE TypeOK'
    BY <2>1 DEF EnqueueCall
  <2>2. CASE EnqueueLoad(p)
    BY <2>2 DEF EnqueueLoad
  <2>3. CASE EnqueueLook(p)
    BY <2>3 DEF EnqueueLook
  <2>4. CASE EnqueueClaim(p)
    <3>1. enqueue_pos' \in Nat /\ log' \in Seq(Values)
      BY <2>4 DEF EnqueueClaim
    <3> QED BY <2>4, <3>1 DEF EnqueueClaim
  <2>5. CASE EnqueueRetry(p)
    BY <2>5 DEF EnqueueRetry
  <2>6. CASE EnqueueWrite(p)
    BY <2>6 DEF EnqueueWrite
  <2>7. CASE EnqueueCount(p)
    BY <2>7 DEF EnqueueCount
  <2>8. CASE EnqueuePublish(p)
    <3>1. sequence' \in [Slots -> Nat]
      <4>1. pos[p] + 1 \in Nat
        OBVIOUS
      <4>2. sequence' = [sequence EXCEPT ![Slot(pos[p])] = pos[p] + 1]
        BY <2>8 DEF EnqueuePublish
      <4>3. sequence \in [Slots -> Nat]
        OBVIOUS
      <4> HIDE SizeAssumption DEF TypeOK, Goto, Threads
      <4> QED BY <4>1, <4>2, <4>3
    <3> QED BY <2>8, <3>1 DEF EnqueuePublish
  <2> QED BY <1>1, <2>1, <2>2, <2>3, <2>4, <2>5, <2>6, <2>7, <2>8 DEF Enqueue
<1>2. ASSUME NEW c \in Consumers, Dequeue(c) PROVE TypeOK'
  <2>1. CASE DequeueCall(c)
    BY <2>1 DEF DequeueCall
  <2>2. CASE DequeueLoad(c)
    BY <2>2 DEF DequeueLoad
  <2>3. CASE DequeueLook(c)
    BY <2>3 DEF DequeueLook
  <2>4. CASE DequeueClaim(c)
    <3>1. dequeue_pos' \in Nat
      BY <2>4 DEF DequeueClaim
    <3> QED BY <2>4, <3>1 DEF DequeueClaim
  <2>5. CASE DequeueRetry(c)
    BY <2>5 DEF DequeueRetry
  <2>6. CASE DequeueRead(c)
    BY <2>6 DEF DequeueRead
  <2>7. CASE DequeueCount(c)
    BY <2>7 DEF DequeueCount
  <2>8. CASE DequeueRelease(c)
    <3>1. sequence' \in [Slots -> Nat]
      <4>1. pos[c] + Size \in Nat
        OBVIOUS
      <4>2. sequence' = [sequence EXCEPT ![Slot(pos[c])] = pos[c] + Size]
        BY <2>8 DEF DequeueRelease
      <4>3. sequence \in [Slots -> Nat]
        OBVIOUS
      <4> HIDE SizeAssumption DEF TypeOK, Goto, Threads
      <4> QED BY <4>1, <4>2, <4>3
    <3> QED BY <2>8, <3>1 DEF DequeueRelease
  <2> QED BY <1>2, <2>1, <2>2, <2>3, <2>4, <2>5, <2>6, <2>7, <2>8 DEF Dequeue
<1>3. CASE UNCHANGED vars
  BY <1>3 DEF vars
<1> QED BY <1>1, <1>2, <1>3 DEF Next

\* Every variable keeps its type: positions and sequence numbers stay natural
\* numbers, and a thread is only ever inside its own operation.
THEOREM TypeCorrect == Spec => []TypeOK
<1> QED BY TypeInit, TypeStep, PTL DEF Spec

-----------------------------------------------------------------------------
(* The ownership invariant                                                 *)

\* In a new queue every cell is free for the first lap.
LEMMA OwnershipInit == Init => Ownership
<1> SUFFICES ASSUME Init PROVE Ownership
  OBVIOUS
<1>1. \A i \in 0 .. Size - 1 : Slot(i) = i
  BY SizeAssumption DEF Slot
<1>2. WindowInv
  BY SizeAssumption DEF Init, WindowInv
<1>3. CellInv
  BY <1>1, SizeAssumption DEF Init, CellInv, Slots
<1>4. WriterInv /\ TakerInv /\ LookInv
  BY DEF Init, WriterInv, TakerInv, LookInv, Writing, Taking, Threads
<1> QED BY <1>2, <1>3, <1>4 DEF Ownership

\* A step that moves one thread that holds no cell, before or after, and
\* touches neither counter nor cell keeps everything but what the thread has
\* just seen.
LEMMA QuietStep ==
    ASSUME TypeOK, TypeOK', Ownership, NEW t \in Threads,
           UNCHANGED <<enqueue_pos, dequeue_pos, sequence, cellData, log>>,
           \A u \in Threads \ {t} :
              pc'[u] = pc[u] /\ pos'[u] = pos[u] /\ data'[u] = data[u],
           ~ Writing(t), ~ Taking(t), ~ Writing(t)', ~ Taking(t)',
           pc'[t] \in {"eLook", "eCas"} => pos'[t] <= enqueue_pos,
           pc'[t] \in {"dLook", "dCas"} => pos'[t] <= dequeue_pos,
           pc'[t] = "eCas" => sequence[Slot(pos'[t])] = pos'[t],
           pc'[t] = "dCas" => sequence[Slot(pos'[t])] = pos'[t] + 1
    PROVE  Ownership'
<1> USE DEF Threads
<1>1. WindowInv' /\ CellInv'
  BY DEF Ownership, WindowInv, CellInv
<1>2. WriterInv'
  BY DEF Ownership, WriterInv, Writing
<1>3. TakerInv'
  BY DEF Ownership, TakerInv, Taking
<1>4. LookInv'
  BY DEF Ownership, LookInv
<1> QED BY <1>1, <1>2, <1>3, <1>4 DEF Ownership

\* The position an enqueue is about to claim is inside the window's lap, and
\* nobody holds its cell.
LEMMA ClaimableEnqueue ==
    ASSUME TypeOK, Ownership, sequence[Slot(enqueue_pos)] = enqueue_pos
    PROVE  /\ enqueue_pos < dequeue_pos + Size
           /\ \A p \in Producers :
                Writing(p) => Slot(pos[p]) # Slot(enqueue_pos)
           /\ \A c \in Consumers :
                Taking(c) => Slot(pos[c]) # Slot(enqueue_pos)
<1> USE SizeAssumption DEF Threads
<1>1. enqueue_pos < dequeue_pos + Size
  <2> SUFFICES ASSUME enqueue_pos = dequeue_pos + Size PROVE FALSE
    BY DEF TypeOK, Ownership, WindowInv
  <2>1. Slot(enqueue_pos) = Slot(dequeue_pos)
    BY SlotLap DEF TypeOK
  <2>2. sequence[Slot(dequeue_pos)] \in {dequeue_pos, dequeue_pos + 1}
    BY DEF TypeOK, Ownership, CellInv
  <2> QED BY <2>1, <2>2 DEF TypeOK
<1>2. ASSUME NEW p \in Producers, Writing(p), Slot(pos[p]) = Slot(enqueue_pos)
      PROVE  FALSE
  BY <1>2 DEF TypeOK, Ownership, WriterInv
<1>3. ASSUME NEW c \in Consumers, Taking(c), Slot(pos[c]) = Slot(enqueue_pos)
      PROVE  FALSE
  <2>1. /\ pos[c] \in Nat /\ enqueue_pos \in Nat
        /\ pos[c] + 1 = enqueue_pos
    BY <1>3 DEF TypeOK, Ownership, TakerInv
  <2> QED BY <1>3, <2>1, SlotInjective
<1> QED BY <1>1, <1>2, <1>3

\* The position a dequeue is about to claim has been published, and nobody
\* holds its cell.
LEMMA ClaimableDequeue ==
    ASSUME TypeOK, Ownership, sequence[Slot(dequeue_pos)] = dequeue_pos + 1
    PROVE  /\ dequeue_pos < enqueue_pos
           /\ cellData[Slot(dequeue_pos)] = log[dequeue_pos + 1]
           /\ \A p \in Producers :
                Writing(p) => Slot(pos[p]) # Slot(dequeue_pos)
           /\ \A c \in Consumers :
                Taking(c) => Slot(pos[c]) # Slot(dequeue_pos)
<1> USE SizeAssumption DEF Threads
<1>1. dequeue_pos < enqueue_pos
  BY DEF TypeOK, Ownership, WindowInv, CellInv
<1>2. cellData[Slot(dequeue_pos)] = log[dequeue_pos + 1]
  BY <1>1 DEF TypeOK, Ownership, CellInv
<1>3. ASSUME NEW p \in Producers, Writing(p), Slot(pos[p]) = Slot(dequeue_pos)
      PROVE  FALSE
  <2>1. /\ pos[p] \in Nat /\ dequeue_pos \in Nat
        /\ pos[p] = dequeue_pos + 1
    BY <1>3 DEF TypeOK, Ownership, WriterInv
  <2> QED BY <1>3, <2>1, SlotInjective
<1>4. ASSUME NEW c \in Consumers, Taking(c), Slot(pos[c]) = Slot(dequeue_pos)
      PROVE  FALSE
  BY <1>4 DEF TypeOK, Ownership, TakerInv
<1> QED BY <1>1, <1>2, <1>3, <1>4

\* Two threads that hold a cell hold different cells.
LEMMA HoldersApart == TypeOK /\ Ownership => NoDataRace
<1> SUFFICES ASSUME TypeOK, Ownership,
                    NEW s \in Threads, NEW t \in Threads, s # t,
                    Writing(s) \/ Taking(s), Writing(t) \/ Taking(t),
                    Slot(pos[s]) = Slot(pos[t])
             PROVE  FALSE
  BY DEF NoDataRace
<1> USE SizeAssumption, ThreadsAssumption DEF Threads
<1>1. ASSUME NEW p \in Producers, NEW q \in Producers, p # q,
             Writing(p), Writing(q)
      PROVE  Slot(pos[p]) # Slot(pos[q])
  BY <1>1, SlotInjective DEF TypeOK, Ownership, WindowInv, WriterInv
<1>2. ASSUME NEW p \in Producers, NEW c \in Consumers, Writing(p), Taking(c)
      PROVE  Slot(pos[p]) # Slot(pos[c])
  <2>1. CASE pos[p] # pos[c] + 1
    BY <1>2, <2>1 DEF TypeOK, Ownership, WriterInv, TakerInv
  <2>2. CASE pos[p] = pos[c] + 1
    BY <1>2, <2>2, SlotInjective DEF TypeOK
  <2> QED BY <2>1, <2>2
<1>3. ASSUME NEW c \in Consumers, NEW d \in Consumers, c # d,
             Taking(c), Taking(d)
      PROVE  Slot(pos[c]) # Slot(pos[d])
  BY <1>3, SlotInjective DEF TypeOK, Ownership, WindowInv, TakerInv
<1>4. \A u \in Threads : /\ Writing(u) => u \in Producers
                         /\ Taking(u) => u \in Consumers
  BY DEF TypeOK, Writing, Taking
<1> QED BY <1>1, <1>2, <1>3, <1>4

\* The compare-and-swap of enqueue: a free cell gets its one producer.
LEMMA ClaimEnqueueStep ==
    ASSUME TypeOK, TypeOK', Ownership, NEW p \in Producers, EnqueueClaim(p)
    PROVE  Ownership'
<1> USE SizeAssumption, ThreadsAssumption DEF Threads
<1> DEFINE e == enqueue_pos
<1>1. /\ pos[p] = e /\ pos' = pos /\ data' = data /\ sequence' = sequence
      /\ enqueue_pos' = e + 1 /\ dequeue_pos' = dequeue_pos
      /\ cellData' = cellData /\ pc' = [pc EXCEPT ![p] = "eWrite"]
      /\ pc[p] = "eCas"
  BY DEF EnqueueClaim, Goto
<1>2. sequence[Slot(e)] = e
  BY <1>1 DEF Ownership, LookInv
<1>3. /\ e < dequeue_pos + Size
      /\ \A q \in Producers : Writing(q) => Slot(pos[q]) # Slot(e)
      /\ \A c \in Consumers : Taking(c) => Slot(pos[c]) # Slot(e)
  BY <1>2, ClaimableEnqueue
<1>4. /\ Len(log') = e + 1
      /\ log'[e + 1] = data[p]
      /\ \A i \in 1 .. e : log'[i] = log[i]
  <2>1. log \in Seq(Values) /\ data[p] \in Values /\ Len(log) = e
    BY <1>1 DEF TypeOK, Ownership, WindowInv
  <2> QED BY <2>1 DEF EnqueueClaim
<1>5. WindowInv'
  BY <1>1, <1>3, <1>4 DEF TypeOK, Ownership, WindowInv
<1>6. CellInv'
  BY <1>1, <1>2, <1>4 DEF TypeOK, Ownership, WindowInv, CellInv
<1>7. WriterInv'
  <2> SUFFICES ASSUME NEW q \in Producers, Writing(q)'
               PROVE  /\ dequeue_pos <= pos[q] /\ pos[q] < e + 1
                      /\ sequence[Slot(pos[q])] = pos[q]
                      /\ log'[pos[q] + 1] = data[q]
                      /\ pc'[q] # "eWrite" => cellData[Slot(pos[q])] = data[q]
                      /\ \A r \in Producers :
                            Writing(r)' /\ pos[r] = pos[q] => r = q
    BY <1>1 DEF WriterInv
  <2>1. CASE q = p
    BY <1>1, <1>2, <1>3, <1>4, <2>1
       DEF TypeOK, Ownership, WindowInv, WriterInv, Writing
  <2>2. CASE q # p
    <3>1. Writing(q) /\ pc'[q] = pc[q] /\ pos[q] # e
      BY <1>1, <1>3, <2>2 DEF TypeOK, Writing
    <3> QED BY <1>1, <1>3, <1>4, <3>1
            DEF TypeOK, Ownership, WriterInv, Writing
  <2> QED BY <2>1, <2>2
<1>8. TakerInv'
  <2> SUFFICES ASSUME NEW c \in Consumers, Taking(c)'
               PROVE  /\ pos[c] < dequeue_pos /\ e + 1 <= pos[c] + Size
                      /\ sequence[Slot(pos[c])] = pos[c] + 1
                      /\ pc'[c] = "dRead"
                         => cellData[Slot(pos[c])] = log'[pos[c] + 1]
                      /\ \A d \in Consumers :
                            Taking(d)' /\ pos[d] = pos[c] => d = c
    BY <1>1 DEF TakerInv
  <2>1. \A d \in Consumers : (Taking(d)' <=> Taking(d)) /\ pc'[d] = pc[d]
    BY <1>1 DEF TypeOK, Taking
  <2>2. e # pos[c] + Size
    BY <1>3, <2>1, SlotLap DEF TypeOK
  <2>3. Taking(c) /\ pos[c] \in Nat /\ pos[c] < dequeue_pos /\ e <= pos[c] + Size
    BY <2>1 DEF TypeOK, Ownership, TakerInv
  <2>4. log'[pos[c] + 1] = log[pos[c] + 1]
    BY <1>4, <2>3 DEF TypeOK, Ownership, WindowInv
  <2>5. e + 1 <= pos[c] + Size
    <3>1. e \in Nat /\ pos[c] \in Nat /\ Size \in Nat /\ e <= pos[c] + Size
      BY <2>3 DEF TypeOK
    <3> HIDE DEF e
    <3> QED BY <3>1, <2>2
  <2> QED BY <2>1, <2>3, <2>4, <2>5 DEF Ownership, TakerInv
<1>9. LookInv'
  BY <1>1 DEF TypeOK, Ownership, LookInv
<1> QED BY <1>5, <1>6, <1>7, <1>8, <1>9 DEF Ownership

\* The compare-and-swap of dequeue: a published cell gets its one consumer.
LEMMA ClaimDequeueStep ==
    ASSUME TypeOK, TypeOK', Ownership, NEW c \in Consumers, DequeueClaim(c)
    PROVE  Ownership'
<1> USE SizeAssumption, ThreadsAssumption DEF Threads
<1> DEFINE h == dequeue_pos
<1>1. /\ pos[c] = h /\ pos' = pos /\ data' = data /\ sequence' = sequence
      /\ dequeue_pos' = h + 1 /\ enqueue_pos' = enqueue_pos
      /\ cellData' = cellData /\ log' = log
      /\ pc' = [pc EXCEPT ![c] = "dRead"] /\ pc[c] = "dCas"
  BY DEF DequeueClaim, Goto
<1>2. sequence[Slot(h)] = h + 1
  BY <1>1 DEF Ownership, LookInv
<1>3. /\ h < enqueue_pos
      /\ cellData[Slot(h)] = log[h + 1]
      /\ \A p \in Producers : Writing(p) => Slot(pos[p]) # Slot(h)
      /\ \A d \in Consumers : Taking(d) => Slot(pos[d]) # Slot(h)
  BY <1>2, ClaimableDequeue
<1>4. WindowInv'
  BY <1>1, <1>3 DEF TypeOK, Ownership, WindowInv
<1>5. CellInv'
  <2>1. Slot(h + Size) = Slot(h)
    BY SlotLap DEF TypeOK
  <2> SUFFICES ASSUME NEW i \in h + 1 .. h + Size
               PROVE  IF i < enqueue_pos
                      THEN \/ sequence[Slot(i)] = i
                           \/ /\ sequence[Slot(i)] = i + 1
                              /\ cellData[Slot(i)] = log[i + 1]
                      ELSE sequence[Slot(i)] \in {i, i + 1 - Size}
    BY <1>1 DEF TypeOK, CellInv
  <2>2. CASE i = h + Size
    BY <1>2, <2>1, <2>2 DEF TypeOK, Ownership, WindowInv
  <2>3. CASE i # h + Size
    BY <2>3 DEF TypeOK, Ownership, CellInv
  <2> QED BY <2>2, <2>3
<1>6. WriterInv'
  <2> SUFFICES ASSUME NEW q \in Producers, Writing(q)'
               PROVE  /\ h + 1 <= pos[q] /\ pos[q] < enqueue_pos
                      /\ sequence[Slot(pos[q])] = pos[q]
                      /\ log[pos[q] + 1] = data[q]
                      /\ pc'[q] # "eWrite" => cellData[Slot(pos[q])] = data[q]
                      /\ \A r \in Producers :
                            Writing(r)' /\ pos[r] = pos[q] => r = q
    BY <1>1 DEF WriterInv
  <2>1. \A r \in Producers : (Writing(r)' <=> Writing(r)) /\ pc'[r] = pc[r]
    BY <1>1 DEF TypeOK, Writing
  <2>2. pos[q] # h
    BY <1>3, <2>1
  <2>3. /\ pos[q] \in Nat /\ h \in Nat /\ h <= pos[q]
    BY <2>1 DEF TypeOK, Ownership, WriterInv
  <2>4. h + 1 <= pos[q]
    <3> HIDE DEF h
    <3> QED BY <2>2, <2>3
  <2> QED BY <2>1, <2>4 DEF Ownership, WriterInv
<1>7. TakerInv'
  <2> SUFFICES ASSUME NEW d \in Consumers, Taking(d)'
               PROVE  /\ pos[d] < h + 1 /\ enqueue_pos <= pos[d] + Size
                      /\ sequence[Slot(pos[d])] = pos[d] + 1
                      /\ pc'[d] = "dRead"
                         => cellData[Slot(pos[d])] = log[pos[d] + 1]
                      /\ \A r \in Consumers :
                            Taking(r)' /\ pos[r] = pos[d] => r = d
    BY <1>1 DEF TakerInv
  <2>1. CASE d = c
    BY <1>1, <1>2, <1>3, <2>1
       DEF TypeOK, Ownership, WindowInv, TakerInv, Taking
  <2>2. CASE d # c
    <3>1. Taking(d) /\ pc'[d] = pc[d] /\ pos[d] # h
      BY <1>1, <1>3, <2>2 DEF TypeOK, Taking
    <3> QED BY <1>1, <1>3, <3>1 DEF TypeOK, Ownership, TakerInv, Taking
  <2> QED BY <2>1, <2>2
<1>8. LookInv'
  BY <1>1 DEF TypeOK, Ownership, LookInv
<1> QED BY <1>4, <1>5, <1>6, <1>7, <1>8 DEF Ownership

\* A producer writes only into the cell it owns.
LEMMA WriteStep ==
    ASSUME TypeOK, TypeOK', Ownership, NEW p \in Producers, EnqueueWrite(p)
    PROVE  Ownership'
<1> USE SizeAssumption, ThreadsAssumption DEF Threads
<1>1. /\ pos' = pos /\ data' = data /\ sequence' = sequence /\ log' = log
      /\ enqueue_pos' = enqueue_pos /\ dequeue_pos' = dequeue_pos
      /\ cellData' = [cellData EXCEPT ![Slot(pos[p])] = data[p]]
      /\ pc' = [pc EXCEPT ![p] = "eCount"] /\ pc[p] = "eWrite"
  BY DEF EnqueueWrite, Goto
<1>2. Writing(p) /\ pos[p] \in Nat /\ Slot(pos[p]) \in Slots
  BY <1>1, SlotType DEF TypeOK, Writing
<1>3. \A t \in Threads \ {p} :
        Writing(t) \/ Taking(t) => Slot(pos[t]) # Slot(pos[p])
  BY <1>2, HoldersApart DEF NoDataRace
<1>4. /\ \A q \in Producers : Writing(q)' <=> Writing(q)
      /\ \A c \in Consumers : Taking(c)' <=> Taking(c)
  BY <1>1 DEF TypeOK, Writing, Taking
<1>5. WindowInv' /\ LookInv'
  BY <1>1 DEF TypeOK, Ownership, WindowInv, LookInv
<1>6. CellInv'
  <2> SUFFICES ASSUME NEW i \in dequeue_pos .. dequeue_pos + Size - 1,
                      i < enqueue_pos, sequence[Slot(i)] = i + 1
               PROVE  cellData'[Slot(i)] = log[i + 1]
    BY <1>1 DEF TypeOK, Ownership, CellInv
  <2>1. Slot(i) # Slot(pos[p])
    <3> SUFFICES ASSUME Slot(i) = Slot(pos[p]) PROVE FALSE
      OBVIOUS
    <3>1. /\ pos[p] = i + 1 /\ i \in Nat
      BY <1>2 DEF TypeOK, Ownership, WriterInv
    <3> QED BY <1>2, <3>1, SlotInjective
  <2>2. cellData[Slot(i)] = log[i + 1]
    BY DEF TypeOK, Ownership, CellInv
  <2> QED BY <1>1, <2>1, <2>2, SlotType DEF TypeOK
<1>7. WriterInv'
  BY <1>1, <1>2, <1>3, <1>4 DEF TypeOK, Ownership, WriterInv
<1>8. TakerInv'
  BY <1>1, <1>2, <1>3, <1>4 DEF TypeOK, Ownership, TakerInv
<1> QED BY <1>5, <1>6, <1>7, <1>8 DEF Ownership

\* The store of the next sequence number publishes the producer's cell.
LEMMA PublishStep ==
    ASSUME TypeOK, TypeOK', Ownership, NEW p \in Producers, EnqueuePublish(p)
    PROVE  Ownership'
<1> USE SizeAssumption, ThreadsAssumption DEF Threads
<1>1. /\ pos' = pos /\ data' = data /\ cellData' = cellData /\ log' = log
      /\ enqueue_pos' = enqueue_pos /\ dequeue_pos' = dequeue_pos
      /\ sequence' = [sequence EXCEPT ![Slot(pos[p])] = pos[p] + 1]
      /\ pc' = [pc EXCEPT ![p] = "idle"] /\ pc[p] = "ePublish"
  BY DEF EnqueuePublish, Goto
<1>2. Writing(p) /\ pos[p] \in Nat /\ Slot(pos[p]) \in Slots
  BY <1>1, SlotType DEF TypeOK, Writing
<1>3. \A t \in Threads \ {p} :
        Writing(t) \/ Taking(t) => Slot(pos[t]) # Slot(pos[p])
  BY <1>2, HoldersApart DEF NoDataRace
<1>4. /\ \A q \in Producers : Writing(q)' <=> (Writing(q) /\ q # p)
      /\ \A c \in Consumers : Taking(c)' <=> Taking(c)
  BY <1>1 DEF TypeOK, Writing, Taking
<1>5. WindowInv'
  BY <1>1 DEF TypeOK, Ownership, WindowInv
<1>6. /\ dequeue_pos <= pos[p] /\ pos[p] < enqueue_pos
      /\ cellData[Slot(pos[p])] = log[pos[p] + 1]
      /\ sequence[Slot(pos[p])] = pos[p]
  BY <1>1, <1>2 DEF Ownership, WriterInv
<1>7. CellInv'
  <2> SUFFICES ASSUME NEW i \in dequeue_pos .. dequeue_pos + Size - 1
               PROVE  IF i < enqueue_pos
                      THEN \/ sequence'[Slot(i)] = i
                           \/ /\ sequence'[Slot(i)] = i + 1
                              /\ cellData[Slot(i)] = log[i + 1]
                      ELSE sequence'[Slot(i)] \in {i, i + 1 - Size}
    BY <1>1 DEF TypeOK, CellInv
  <2>1. CASE i = pos[p]
    BY <1>1, <1>2, <1>6, <2>1 DEF TypeOK
  <2>2. CASE i # pos[p]
    <3>1. /\ i \in Nat /\ pos[p] \in Nat
          /\ i < pos[p] + Size /\ pos[p] < i + Size
      BY <1>2, <1>6 DEF TypeOK, Ownership, WindowInv
    <3>2. Slot(i) # Slot(pos[p])
      BY <2>2, <3>1, SlotInjective
    <3>3. sequence'[Slot(i)] = sequence[Slot(i)]
      BY <1>1, <3>1, <3>2, SlotType DEF TypeOK
    <3> QED BY <3>3 DEF Ownership, CellInv
  <2> QED BY <2>1, <2>2
<1>8. WriterInv'
  BY <1>1, <1>2, <1>3, <1>4, SlotType DEF TypeOK, Ownership, WriterInv
<1>9. TakerInv'
  BY <1>1, <1>2, <1>3, <1>4, SlotType DEF TypeOK, Ownership, TakerInv
<1>10. LookInv'
  <2>1. ASSUME NEW q \in Producers, pc[q] = "eCas", pos[q] = enqueue_pos
        PROVE  sequence'[Slot(pos[q])] = pos[q]
    <3>1. sequence[Slot(pos[q])] = pos[q]
      BY <2>1 DEF Ownership, LookInv
    <3>2. Slot(pos[q]) # Slot(pos[p])
      BY <1>6, <2>1, <3>1 DEF TypeOK
    <3> QED BY <1>1, <3>1, <3>2, SlotType DEF TypeOK
  <2>2. ASSUME NEW c \in Consumers, pc[c] = "dCas", pos[c] = dequeue_pos
        PROVE  sequence'[Slot(pos[c])] = pos[c] + 1
    <3>1. sequence[Slot(dequeue_pos)] = dequeue_pos + 1
      BY <2>2 DEF Ownership, LookInv
    <3>2. Slot(pos[c]) # Slot(pos[p])
      BY <1>2, <2>2, <3>1, ClaimableDequeue
    <3> QED BY <1>1, <2>2, <3>1, <3>2, SlotType DEF TypeOK
  <2> QED BY <1>1, <2>1, <2>2 DEF TypeOK, Ownership, LookInv
<1> QED BY <1>5, <1>7, <1>8, <1>9, <1>10 DEF Ownership

\* Reading the cell and counting the item leave the ring as it is.
LEMMA ReadStep ==
    ASSUME TypeOK, TypeOK', Ownership, NEW t \in Threads,
           UNCHANGED <<enqueue_pos, dequeue_pos, sequence, cellData, pos, log>>,
           \A u \in Threads \ {t} : pc'[u] = pc[u],
           \A p \in Producers : data'[p] = data[p],
           \/ Writing(t) /\ pc[t] # "eWrite" /\ pc'[t] = "ePublish"
           \/ Taking(t) /\ pc'[t] \in {"dCount", "dRelease"}
    PROVE  Ownership'
<1> USE ThreadsAssumption DEF Threads
<1>1. /\ \A p \in Producers : Writing(p)' <=> Writing(p)
      /\ \A c \in Consumers : Taking(c)' <=> Taking(c)
  BY DEF TypeOK, Writing, Taking
<1>2. /\ \A p \in Producers : pc[p] = "eWrite" <=> pc'[p] = "eWrite"
      /\ \A c \in Consumers : pc'[c] = "dRead" => pc[c] = "dRead"
  BY DEF TypeOK, Writing, Taking
<1>3. \A u \in Threads : pc'[u] \in {"eLook", "eCas", "dLook", "dCas"}
                         => pc'[u] = pc[u]
  OBVIOUS
<1>4. WindowInv' /\ CellInv'
  BY DEF Ownership, WindowInv, CellInv
<1>5. WriterInv' /\ TakerInv'
  BY <1>1, <1>2 DEF TypeOK, Ownership, WriterInv, TakerInv
<1>6. LookInv'
  BY <1>3 DEF Ownership, LookInv
<1> QED BY <1>4, <1>5, <1>6 DEF Ownership

\* The consumer's store frees its cell for the next lap.
LEMMA ReleaseStep ==
    ASSUME TypeOK, TypeOK', Ownership, NEW c \in Consumers, DequeueRelease(c)
    PROVE  Ownership'
<1> USE SizeAssumption, ThreadsAssumption DEF Threads
<1>1. /\ pos' = pos /\ data' = data /\ cellData' = cellData /\ log' = log
      /\ enqueue_pos' = enqueue_pos /\ dequeue_pos' = dequeue_pos
      /\ sequence' = [sequence EXCEPT ![Slot(pos[c])] = pos[c] + Size]
      /\ pc' = [pc EXCEPT ![c] = "idle"] /\ pc[c] = "dRelease"
  BY DEF DequeueRelease, Goto
<1>2. Taking(c) /\ pos[c] \in Nat /\ Slot(pos[c]) \in Slots
  BY <1>1, SlotType DEF TypeOK, Taking
<1>3. \A t \in Threads \ {c} :
        Writing(t) \/ Taking(t) => Slot(pos[t]) # Slot(pos[c])
  BY <1>2, HoldersApart DEF NoDataRace
<1>4. /\ \A p \in Producers : Writing(p)' <=> Writing(p)
      /\ \A d \in Consumers : Taking(d)' <=> (Taking(d) /\ d # c)
  BY <1>1 DEF TypeOK, Writing, Taking
<1>5. WindowInv'
  BY <1>1 DEF TypeOK, Ownership, WindowInv
<1>6. /\ pos[c] < dequeue_pos /\ enqueue_pos <= pos[c] + Size
      /\ sequence[Slot(pos[c])] = pos[c] + 1
      /\ Slot(pos[c] + Size) = Slot(pos[c])
  BY <1>2, SlotLap DEF Ownership, TakerInv
<1>7. CellInv'
  <2> SUFFICES ASSUME NEW i \in dequeue_pos .. dequeue_pos + Size - 1
               PROVE  IF i < enqueue_pos
                      THEN \/ sequence'[Slot(i)] = i
                           \/ /\ sequence'[Slot(i)] = i + 1
                              /\ cellData[Slot(i)] = log[i + 1]
                      ELSE sequence'[Slot(i)] \in {i, i + 1 - Size}
    BY <1>1 DEF TypeOK, CellInv
  <2>1. CASE i = pos[c] + Size
    BY <1>1, <1>2, <1>6, <2>1 DEF TypeOK
  <2>2. CASE i # pos[c] + Size
    <3> DEFINE j == pos[c] + Size
    <3>1. i \in Nat /\ j \in Nat /\ i < j + Size /\ j < i + Size
      BY <1>2, <1>6 DEF TypeOK, Ownership, WindowInv
    <3>2. Slot(j) = Slot(pos[c])
      BY <1>6
    <3>3. Slot(i) # Slot(j)
      <4>1. i # j
        BY <2>2
      <4> HIDE DEF j
      <4> QED BY <3>1, <4>1, SlotInjective
    <3>4. sequence'[Slot(i)] = sequence[Slot(i)]
      BY <1>1, <3>1, <3>2, <3>3, SlotType DEF TypeOK
    <3> QED BY <3>4 DEF Ownership, CellInv
  <2> QED BY <2>1, <2>2
<1>8. WriterInv'
  <2>1. \A p \in Producers :
          Writing(p) => sequence'[Slot(pos[p])] = sequence[Slot(pos[p])]
    BY <1>1, <1>2, <1>3, SlotType DEF TypeOK
  <2>2. \A p \in Producers : pc'[p] = pc[p]
    BY <1>1 DEF TypeOK
  <2> QED BY <1>1, <1>4, <2>1, <2>2 DEF Ownership, WriterInv
<1>9. TakerInv'
  BY <1>1, <1>2, <1>3, <1>4, SlotType DEF TypeOK, Ownership, TakerInv
<1>10. LookInv'
  <2>1. ASSUME NEW p \in Producers, pc[p] = "eCas", pos[p] = enqueue_pos
        PROVE  sequence'[Slot(pos[p])] = pos[p]
    <3>1. sequence[Slot(enqueue_pos)] = enqueue_pos
      BY <2>1 DEF Ownership, LookInv
    <3>2. Slot(pos[p]) # Slot(pos[c])
      BY <1>2, <2>1, <3>1, ClaimableEnqueue
    <3> QED BY <1>1, <2>1, <3>1, <3>2, SlotType DEF TypeOK
  <2>2. ASSUME NEW d \in Consumers, pc[d] = "dCas", pos[d] = dequeue_pos
        PROVE  sequence'[Slot(pos[d])] = pos[d] + 1
    <3>1. sequence[Slot(dequeue_pos)] = dequeue_pos + 1
      BY <2>2 DEF Ownership, LookInv
    <3>2. Slot(pos[d]) # Slot(pos[c])
      BY <1>2, <2>2, <3>1, ClaimableDequeue
    <3> QED BY <1>1, <2>2, <3>1, <3>2, SlotType DEF TypeOK
  <2> QED BY <1>1, <2>1, <2>2 DEF TypeOK, Ownership, LookInv
<1> QED BY <1>5, <1>7, <1>8, <1>9, <1>10 DEF Ownership

\* The ownership discipline is inductive: one step for each action of Next.
LEMMA OwnershipStep == TypeOK /\ Ownership /\ [Next]_vars => Ownership'
<1> SUFFICES ASSUME TypeOK, Ownership, [Next]_vars PROVE Ownership'
  OBVIOUS
<1>1. TypeOK'
  BY TypeStep
<1> USE <1>1, ThreadsAssumption DEF Threads, Goto
<1>2. ASSUME NEW p \in Producers, Enqueue(p) PROVE Ownership'
  <2>1. ASSUME NEW v \in Values, EnqueueCall(p, v) PROVE Ownership'
    BY <2>1, QuietStep DEF EnqueueCall, TypeOK, Writing, Taking
  <2>2. CASE EnqueueLoad(p)
    <3>1. /\ pc[p] = "eLoad" /\ pc'[p] = "eLook" /\ pos'[p] = enqueue_pos
          /\ \A u \in Threads \ {p} :
             pc'[u] = pc[u] /\ pos'[u] = pos[u] /\ data'[u] = data[u]
          /\ UNCHANGED <<enqueue_pos, dequeue_pos, sequence, cellData, log>>
      BY <2>2 DEF EnqueueLoad, TypeOK
    <3>2. /\ ~ Writing(p) /\ ~ Taking(p) /\ ~ Writing(p)' /\ ~ Taking(p)'
          /\ enqueue_pos \in Nat
      BY <3>1 DEF TypeOK, Writing, Taking
    <3> QED BY <3>1, <3>2, QuietStep
  <2>3. CASE EnqueueLook(p)
    <3>1. sequence[Slot(pos[p])] \in Nat /\ pos[p] \in Nat
      BY SlotType DEF TypeOK
    <3>2. /\ pc[p] = "eLook" /\ pc'[p] \in {"eCas", "idle", "eLoad"}
          /\ pos'[p] = pos[p]
          /\ pc'[p] = "eCas" => sequence[Slot(pos[p])] = pos[p]
          /\ \A u \in Threads \ {p} :
             pc'[u] = pc[u] /\ pos'[u] = pos[u] /\ data'[u] = data[u]
          /\ UNCHANGED <<enqueue_pos, dequeue_pos, sequence, cellData, log>>
      BY <2>3, <3>1 DEF EnqueueLook, TypeOK
    <3>3. /\ ~ Writing(p) /\ ~ Taking(p) /\ ~ Writing(p)' /\ ~ Taking(p)'
          /\ pos[p] <= enqueue_pos
      BY <3>2 DEF TypeOK, Writing, Taking, Ownership, LookInv
    <3> QED BY <3>2, <3>3, QuietStep
  <2>4. CASE EnqueueClaim(p)
    BY <2>4, ClaimEnqueueStep
  <2>5. CASE EnqueueRetry(p)
    <3>1. /\ pc[p] = "eCas" /\ pc'[p] = "eLook" /\ pos'[p] = enqueue_pos
          /\ \A u \in Threads \ {p} :
             pc'[u] = pc[u] /\ pos'[u] = pos[u] /\ data'[u] = data[u]
          /\ UNCHANGED <<enqueue_pos, dequeue_pos, sequence, cellData, log>>
      BY <2>5 DEF EnqueueRetry, TypeOK
    <3>2. /\ ~ Writing(p) /\ ~ Taking(p) /\ ~ Writing(p)' /\ ~ Taking(p)'
          /\ enqueue_pos \in Nat
      BY <3>1 DEF TypeOK, Writing, Taking
    <3> QED BY <3>1, <3>2, QuietStep
  <2>6. CASE EnqueueWrite(p)
    BY <2>6, WriteStep
  <2>7. CASE EnqueueCount(p)
    BY <2>7, ReadStep DEF EnqueueCount, TypeOK, Writing
  <2>8. CASE EnqueuePublish(p)
    BY <2>8, PublishStep
  <2> QED BY <1>2, <2>1, <2>2, <2>3, <2>4, <2>5, <2>6, <2>7, <2>8 DEF Enqueue
<1>3. ASSUME NEW c \in Consumers, Dequeue(c) PROVE Ownership'
  <2>1. CASE DequeueCall(c)
    BY <2>1, QuietStep DEF DequeueCall, TypeOK, Writing, Taking
  <2>2. CASE DequeueLoad(c)
    <3>1. /\ pc[c] = "dLoad" /\ pc'[c] = "dLook" /\ pos'[c] = dequeue_pos
          /\ \A u \in Threads \ {c} :
             pc'[u] = pc[u] /\ pos'[u] = pos[u] /\ data'[u] = data[u]
          /\ UNCHANGED <<enqueue_pos, dequeue_pos, sequence, cellData, log>>
      BY <2>2 DEF DequeueLoad, TypeOK
    <3>2. /\ ~ Writing(c) /\ ~ Taking(c) /\ ~ Writing(c)' /\ ~ Taking(c)'
          /\ dequeue_pos \in Nat
      BY <3>1 DEF TypeOK, Writing, Taking
    <3> QED BY <3>1, <3>2, QuietStep
  <2>3. CASE DequeueLook(c)
    <3>1. sequence[Slot(pos[c])] \in Nat /\ pos[c] \in Nat
      BY SlotType DEF TypeOK
    <3>2. /\ pc[c] = "dLook" /\ pc'[c] \in {"dCas", "idle", "dLoad"}
          /\ pos'[c] = pos[c]
          /\ pc'[c] = "dCas" => sequence[Slot(pos[c])] = pos[c] + 1
          /\ \A u \in Threads \ {c} :
             pc'[u] = pc[u] /\ pos'[u] = pos[u] /\ data'[u] = data[u]
          /\ UNCHANGED <<enqueue_pos, dequeue_pos, sequence, cellData, log>>
      BY <2>3, <3>1 DEF DequeueLook, TypeOK
    <3>3. /\ ~ Writing(c) /\ ~ Taking(c) /\ ~ Writing(c)' /\ ~ Taking(c)'
          /\ pos[c] <= dequeue_pos
      BY <3>2 DEF TypeOK, Writing, Taking, Ownership, LookInv
    <3> QED BY <3>2, <3>3, QuietStep
  <2>4. CASE DequeueClaim(c)
    BY <2>4, ClaimDequeueStep
  <2>5. CASE DequeueRetry(c)
    <3>1. /\ pc[c] = "dCas" /\ pc'[c] = "dLook" /\ pos'[c] = dequeue_pos
          /\ \A u \in Threads \ {c} :
             pc'[u] = pc[u] /\ pos'[u] = pos[u] /\ data'[u] = data[u]
          /\ UNCHANGED <<enqueue_pos, dequeue_pos, sequence, cellData, log>>
      BY <2>5 DEF DequeueRetry, TypeOK
    <3>2. /\ ~ Writing(c) /\ ~ Taking(c) /\ ~ Writing(c)' /\ ~ Taking(c)'
          /\ dequeue_pos \in Nat
      BY <3>1 DEF TypeOK, Writing, Taking
    <3> QED BY <3>1, <3>2, QuietStep
  <2>6. CASE DequeueRead(c)
    BY <2>6, ReadStep DEF DequeueRead, TypeOK, Taking
  <2>7. CASE DequeueCount(c)
    BY <2>7, ReadStep DEF DequeueCount, TypeOK, Taking
  <2>8. CASE DequeueRelease(c)
    BY <2>8, ReleaseStep
  <2> QED BY <1>3, <2>1, <2>2, <2>3, <2>4, <2>5, <2>6, <2>7, <2>8 DEF Dequeue
<1>4. CASE UNCHANGED vars
  BY <1>4 DEF vars, Ownership, WindowInv, CellInv, WriterInv, TakerInv,
              LookInv, Writing, Taking
<1> QED BY <1>2, <1>3, <1>4 DEF Next

\* Every cell of the ring is at all times free, owned by one producer,
\* published, or owned by one consumer.
THEOREM OwnershipInvariant == Spec => []Ownership
<1> QED BY OwnershipInit, OwnershipStep, TypeCorrect, PTL DEF Spec

\* No two threads ever access the plain data of the same cell at once.
THEOREM RaceFreedom == Spec => []NoDataRace
<1> QED BY OwnershipInvariant, TypeCorrect, HoldersApart, PTL

-----------------------------------------------------------------------------
(* The number of items                                                     *)

\* What is counted is among the last Size positions claimed.
LEMMA CountedWindow ==
    ASSUME TypeOK, Ownership
    PROVE  /\ Counted \in SUBSET (enqueue_pos - Size .. enqueue_pos - 1)
           /\ IsFiniteSet(Counted) /\ Cardinality(Counted) \in 0 .. Size
<1>1. Counted \in SUBSET (enqueue_pos - Size .. enqueue_pos - 1)
  <2> SUFFICES ASSUME NEW i \in Counted
               PROVE  i \in enqueue_pos - Size .. enqueue_pos - 1
    OBVIOUS
  <2>1. /\ enqueue_pos \in Nat /\ dequeue_pos \in Nat
        /\ dequeue_pos <= enqueue_pos /\ enqueue_pos <= dequeue_pos + Size
    BY DEF TypeOK, Ownership, WindowInv
  <2>2. ASSUME NEW c \in Consumers, pc[c] \in {"dRead", "dCount"}, i = pos[c]
        PROVE  i \in enqueue_pos - Size .. enqueue_pos - 1
    <3>1. pos[c] \in Nat /\ pos[c] < dequeue_pos /\ enqueue_pos <= pos[c] + Size
      BY <2>2 DEF TypeOK, Threads, Ownership, TakerInv, Taking
    <3> QED BY <2>1, <2>2, <3>1, SizeAssumption
  <2>3. CASE i \in dequeue_pos .. enqueue_pos - 1
    BY <2>1, <2>3, SizeAssumption
  <2> QED BY <2>2, <2>3 DEF Counted
<1>2. /\ IsFiniteSet(enqueue_pos - Size .. enqueue_pos - 1)
      /\ Cardinality(enqueue_pos - Size .. enqueue_pos - 1) = Size
  <2>1. /\ enqueue_pos - Size \in Int /\ enqueue_pos - 1 \in Int
        /\ ~ enqueue_pos - Size > enqueue_pos - 1
        /\ (enqueue_pos - 1) - (enqueue_pos - Size) + 1 = Size
    BY SizeAssumption DEF TypeOK
  <2> QED BY <2>1, FS_Interval
<1>3. IsFiniteSet(Counted) /\ Cardinality(Counted) <= Size
  BY <1>1, <1>2, FS_Subset
<1> QED BY <1>1, <1>3, FS_CardinalityType, SizeAssumption

\* A step between other places than the two counting ones.
LEMMA CountKept ==
    ASSUME CountExact, item_count' = item_count, Counted' = Counted
    PROVE  CountExact'
BY DEF CountExact

\* A claimed position is counted later.
LEMMA CountClaimEnqueue ==
    ASSUME TypeOK, Ownership, NEW p \in Producers, EnqueueClaim(p)
    PROVE  Counted' = Counted
<1>1. /\ pc[p] = "eCas" /\ pc' = [pc EXCEPT ![p] = "eWrite"]
      /\ enqueue_pos = pos[p] /\ enqueue_pos' = enqueue_pos + 1
      /\ UNCHANGED <<dequeue_pos, pos>>
  BY DEF EnqueueClaim, Goto
<1>2. /\ enqueue_pos \in Nat /\ dequeue_pos \in Nat /\ p \in Threads
      /\ \A t \in Threads : t # p => pc'[t] = pc[t]
      /\ pc'[p] = "eWrite"
  BY <1>1 DEF TypeOK, Threads
<1>3. {c \in Consumers : pc'[c] \in {"dRead", "dCount"}}
        = {c \in Consumers : pc[c] \in {"dRead", "dCount"}}
  BY <1>1, <1>2, ThreadsAssumption DEF Threads
<1>4. ASSUME NEW i
      PROVE  (/\ i \in dequeue_pos .. enqueue_pos' - 1
              /\ \A q \in Producers : pc'[q] \in {"eWrite", "eCount"} => pos[q] # i)
             <=> (/\ i \in dequeue_pos .. enqueue_pos - 1
                  /\ \A q \in Producers : pc[q] \in {"eWrite", "eCount"} => pos[q] # i)
  <2>1. CASE i = enqueue_pos
    BY <1>1, <1>2, <2>1
  <2>2. CASE i # enqueue_pos
    <3>1. i \in dequeue_pos .. enqueue_pos' - 1 <=> i \in dequeue_pos .. enqueue_pos - 1
      BY <1>1, <1>2, <2>2
    <3>2. \A q \in Producers : (pc'[q] \in {"eWrite", "eCount"} => pos[q] # i)
                               <=> (pc[q] \in {"eWrite", "eCount"} => pos[q] # i)
      BY <1>1, <1>2, <2>2 DEF Threads
    <3> QED BY <3>1, <3>2
  <2> QED BY <2>1, <2>2
<1> QED BY <1>1, <1>3, <1>4 DEF Counted

\* A position that is taken stays counted.
LEMMA CountClaimDequeue ==
    ASSUME TypeOK, Ownership, NEW c \in Consumers, DequeueClaim(c)
    PROVE  Counted' = Counted
<1>1. /\ pc[c] = "dCas" /\ pc' = [pc EXCEPT ![c] = "dRead"]
      /\ dequeue_pos = pos[c] /\ dequeue_pos' = dequeue_pos + 1
      /\ UNCHANGED <<enqueue_pos, pos>>
  BY DEF DequeueClaim, Goto
<1>2. /\ enqueue_pos \in Nat /\ dequeue_pos \in Nat /\ c \in Threads
      /\ \A t \in Threads : t # c => pc'[t] = pc[t]
      /\ pc'[c] = "dRead"
  BY <1>1 DEF TypeOK, Threads
<1>3. dequeue_pos < enqueue_pos
  BY <1>1, ClaimableDequeue DEF Ownership, LookInv
<1>4. \A p \in Producers : pc[p] \in {"eWrite", "eCount"} => pos[p] # dequeue_pos
  BY <1>1, ClaimableDequeue DEF Ownership, LookInv, Writing
<1>5. \A p \in Producers : pc'[p] = pc[p]
  BY <1>2, ThreadsAssumption DEF Threads
<1>6. {d \in Consumers : pc'[d] \in {"dRead", "dCount"}}
        = {d \in Consumers : pc[d] \in {"dRead", "dCount"}} \cup {c}
  BY <1>1, <1>2 DEF Threads
<1>7. {pos[d] : d \in {e \in Consumers : pc'[e] \in {"dRead", "dCount"}}}
        = {pos[d] : d \in {e \in Consumers : pc[e] \in {"dRead", "dCount"}}}
          \cup {dequeue_pos}
  BY <1>1, <1>6
<1>8. dequeue_pos .. enqueue_pos - 1
        = (dequeue_pos' .. enqueue_pos - 1) \cup {dequeue_pos}
  BY <1>1, <1>2, <1>3
<1> QED BY <1>1, <1>4, <1>5, <1>7, <1>8 DEF Counted

\* fetch_add counts the position of the producer, which nobody else has.
LEMMA CountAdd ==
    ASSUME TypeOK, Ownership, NEW p \in Producers, EnqueueCount(p)
    PROVE  Counted' = Counted \cup {pos[p]} /\ pos[p] \notin Counted
<1>1. /\ pc[p] = "eCount" /\ pc' = [pc EXCEPT ![p] = "ePublish"]
      /\ UNCHANGED <<enqueue_pos, dequeue_pos, pos>>
  BY DEF EnqueueCount, Goto
<1>2. /\ enqueue_pos \in Nat /\ dequeue_pos \in Nat /\ pos[p] \in Nat
      /\ \A t \in Threads : t # p => pc'[t] = pc[t]
      /\ pc'[p] = "ePublish"
  BY <1>1 DEF TypeOK, Threads
<1>3. /\ dequeue_pos <= pos[p] /\ pos[p] < enqueue_pos
      /\ \A q \in Producers : Writing(q) /\ pos[q] = pos[p] => q = p
  BY <1>1 DEF Ownership, WriterInv, Writing
<1>4. {c \in Consumers : pc'[c] \in {"dRead", "dCount"}}
        = {c \in Consumers : pc[c] \in {"dRead", "dCount"}}
  BY <1>1, <1>2, ThreadsAssumption DEF Threads
<1>5. \A c \in Consumers : pc[c] \in {"dRead", "dCount"} => pos[c] # pos[p]
  <2> SUFFICES ASSUME NEW c \in Consumers, pc[c] \in {"dRead", "dCount"}
               PROVE  pos[c] # pos[p]
    OBVIOUS
  <2>1. pos[c] \in Nat /\ pos[c] < dequeue_pos
    BY DEF TypeOK, Threads, Ownership, TakerInv, Taking
  <2> QED BY <1>2, <1>3, <2>1
<1>6. pos[p] \in dequeue_pos .. enqueue_pos - 1
  BY <1>2, <1>3
<1>7. \A i : (\A q \in Producers : pc'[q] \in {"eWrite", "eCount"} => pos[q] # i)
             <=> \/ i = pos[p]
                 \/ \A q \in Producers : pc[q] \in {"eWrite", "eCount"} => pos[q] # i
  BY <1>1, <1>2, <1>3 DEF Threads, Writing
<1> QED BY <1>1, <1>4, <1>5, <1>6, <1>7 DEF Counted

\* fetch_sub discounts the position of the consumer, which nobody else has.
LEMMA CountSubtract ==
    ASSUME TypeOK, Ownership, NEW c \in Consumers, DequeueCount(c)
    PROVE  Counted' = Counted \ {pos[c]} /\ pos[c] \in Counted
<1>1. /\ pc[c] = "dCount" /\ pc' = [pc EXCEPT ![c] = "dRelease"]
      /\ UNCHANGED <<enqueue_pos, dequeue_pos, pos>>
  BY DEF DequeueCount, Goto
<1>2. /\ enqueue_pos \in Nat /\ dequeue_pos \in Nat /\ pos[c] \in Nat
      /\ \A t \in Threads : t # c => pc'[t] = pc[t]
      /\ pc'[c] = "dRelease"
  BY <1>1 DEF TypeOK, Threads
<1>3. /\ pos[c] < dequeue_pos
      /\ \A d \in Consumers : Taking(d) /\ pos[d] = pos[c] => d = c
  BY <1>1 DEF Ownership, TakerInv, Taking
<1>4. \A p \in Producers : pc'[p] = pc[p]
  BY <1>2, ThreadsAssumption DEF Threads
<1>5. {pos[d] : d \in {e \in Consumers : pc'[e] \in {"dRead", "dCount"}}}
        = {pos[d] : d \in {e \in Consumers : pc[e] \in {"dRead", "dCount"}}}
          \ {pos[c]}
  <2>1. {d \in Consumers : pc'[d] \in {"dRead", "dCount"}}
          = {d \in Consumers : pc[d] \in {"dRead", "dCount"}} \ {c}
    BY <1>1, <1>2 DEF Threads
  <2>2. \A d \in Consumers : pc[d] \in {"dRead", "dCount"} /\ pos[d] = pos[c]
                             => d = c
    BY <1>3 DEF Taking
  <2> QED BY <2>1, <2>2
<1>6. pos[c] \notin dequeue_pos .. enqueue_pos - 1
  BY <1>2, <1>3
<1> QED BY <1>1, <1>4, <1>5, <1>6 DEF Counted

\* Steps that neither claim nor count leave the counted positions alone.
LEMMA CountQuiet ==
    ASSUME TypeOK, UNCHANGED <<enqueue_pos, dequeue_pos>>, NEW t \in Threads,
           pc[t] \in {"eWrite", "eCount"} <=> pc'[t] \in {"eWrite", "eCount"},
           pc[t] \in {"dRead", "dCount"} <=> pc'[t] \in {"dRead", "dCount"},
           pc[t] \in {"eWrite", "eCount", "dRead", "dCount"} => pos'[t] = pos[t],
           \A u \in Threads : u # t => pc'[u] = pc[u] /\ pos'[u] = pos[u]
    PROVE  Counted' = Counted
<1>1. /\ \A u \in Threads : /\ pc[u] \in {"eWrite", "eCount"}
                               <=> pc'[u] \in {"eWrite", "eCount"}
                            /\ pc[u] \in {"dRead", "dCount"}
                               <=> pc'[u] \in {"dRead", "dCount"}
                            /\ pc[u] \in {"eWrite", "eCount", "dRead", "dCount"}
                               => pos'[u] = pos[u]
  OBVIOUS
<1>2. {pos'[d] : d \in {e \in Consumers : pc'[e] \in {"dRead", "dCount"}}}
        = {pos[d] : d \in {e \in Consumers : pc[e] \in {"dRead", "dCount"}}}
  BY <1>1 DEF Threads
<1>3. \A i : (\A q \in Producers : pc'[q] \in {"eWrite", "eCount"} => pos'[q] # i)
             <=> \A q \in Producers : pc[q] \in {"eWrite", "eCount"} => pos[q] # i
  BY <1>1 DEF Threads
<1> QED BY <1>2, <1>3 DEF Counted

\* The count is exact: one step for each action.
LEMMA CountStep == TypeOK /\ Ownership /\ CountExact /\ [Next]_vars => CountExact'
<1> SUFFICES ASSUME TypeOK, Ownership, CountExact, [Next]_vars PROVE CountExact'
  OBVIOUS
<1>0. IsFiniteSet(Counted) /\ Cardinality(Counted) \in Nat
  BY CountedWindow
<1>1. ASSUME NEW p \in Producers, Enqueue(p) PROVE CountExact'
  <2>1. CASE EnqueueClaim(p)
    BY <2>1, CountClaimEnqueue, CountKept DEF EnqueueClaim
  <2>2. CASE EnqueueCount(p)
    <3>1. item_count' = item_count + 1
      BY <2>2 DEF EnqueueCount
    <3>2. Cardinality(Counted') = Cardinality(Counted) + 1
      BY <2>2, <1>0, CountAdd, FS_AddElement
    <3> QED BY <3>1, <3>2 DEF CountExact
  <2>3. CASE EnqueuePublish(p) \/ EnqueueWrite(p)
    <3>1. item_count' = item_count /\ Counted' = Counted
      BY <2>3, CountQuiet DEF EnqueuePublish, EnqueueWrite, Goto, TypeOK, Threads
    <3> QED BY <3>1, CountKept
  <2>4. CASE EnqueueLoad(p) \/ EnqueueLook(p) \/ EnqueueRetry(p)
             \/ \E v \in Values : EnqueueCall(p, v)
    <3>1. item_count' = item_count /\ Counted' = Counted
      BY <2>4, CountQuiet DEF EnqueueLoad, EnqueueLook, EnqueueRetry,
            EnqueueCall, Goto, TypeOK, Threads
    <3> QED BY <3>1, CountKept
  <2> QED BY <1>1, <2>1, <2>2, <2>3, <2>4 DEF Enqueue
<1>2. ASSUME NEW c \in Consumers, Dequeue(c) PROVE CountExact'
  <2>1. CASE DequeueClaim(c)
    BY <2>1, CountClaimDequeue, CountKept DEF DequeueClaim
  <2>2. CASE DequeueCount(c)
    <3>1. item_count' = item_count - 1
      BY <2>2 DEF DequeueCount
    <3>2. Cardinality(Counted') = Cardinality(Counted) - 1
      BY <2>2, <1>0, CountSubtract, FS_RemoveElement
    <3> QED BY <3>1, <3>2 DEF CountExact
  <2>3. CASE DequeueRead(c) \/ DequeueRelease(c)
    <3>1. item_count' = item_count /\ Counted' = Counted
      BY <2>3, CountQuiet DEF DequeueRead, DequeueRelease, Goto, TypeOK, Threads
    <3> QED BY <3>1, CountKept
  <2>4. CASE DequeueCall(c) \/ DequeueLoad(c) \/ DequeueLook(c) \/ DequeueRetry(c)
    <3>1. item_count' = item_count /\ Counted' = Counted
      BY <2>4, CountQuiet DEF DequeueCall, DequeueLoad, DequeueLook, DequeueRetry,
            Goto, TypeOK, Threads
    <3> QED BY <3>1, CountKept
  <2> QED BY <1>2, <2>1, <2>2, <2>3, <2>4 DEF Dequeue
<1>3. CASE UNCHANGED vars
  BY <1>3, CountKept DEF vars, Counted
<1> QED BY <1>1, <1>2, <1>3 DEF Next

\* queue_size() never wraps below zero and never exceeds the buffer.
THEOREM CountInvariant == Spec => []CountInRange
<1>1. Init => CountExact
  <2> SUFFICES ASSUME Init PROVE CountExact
    OBVIOUS
  <2>1. Counted = {}
    BY DEF Init, Counted, Threads
  <2> QED BY <2>1, FS_EmptySet DEF Init, CountExact
<1>2. TypeOK /\ Ownership /\ CountExact => CountInRange
  BY CountedWindow DEF CountExact, CountInRange
<1> QED BY <1>1, <1>2, CountStep, TypeCorrect, OwnershipInvariant, PTL DEF Spec

-----------------------------------------------------------------------------
(* Refinement of the bounded FIFO                                          *)

\* A new queue is an empty FIFO.
LEMMA FifoInitially == Init => Fifo!FifoInit
BY DEF Init, Fifo!FifoInit, Received, Threads

\* A step that leaves the log, dequeue_pos and every consumer's view alone.
LEMMA FifoStutter ==
    ASSUME UNCHANGED <<dequeue_pos, log>>,
           \A c \in Consumers : Received'[c] = Received[c]
    PROVE  UNCHANGED Fifo!fifoVars
<1>1. Received' = Received
  BY DEF Received
<1> QED BY <1>1 DEF Fifo!fifoVars

\* The claims are the FIFO's Put and Get; every other access is a stutter.
LEMMA FifoStep ==
    ASSUME TypeOK, Ownership, [Next]_vars
    PROVE  [Fifo!FifoNext]_Fifo!fifoVars
<1> USE SizeAssumption, ThreadsAssumption DEF Threads
<1>1. ASSUME NEW p \in Producers, Enqueue(p)
      PROVE  [Fifo!FifoNext]_Fifo!fifoVars
  <2>1. \A c \in Consumers : c # p
    OBVIOUS
  <2>2. CASE EnqueueClaim(p)
    <3>1. /\ pos[p] = enqueue_pos /\ pc[p] = "eCas" /\ data[p] \in Values
          /\ UNCHANGED <<dequeue_pos, cellData, pos, data>>
          /\ log' = Append(log, data[p])
          /\ \A c \in Consumers : pc'[c] = pc[c]
      BY <2>1, <2>2 DEF EnqueueClaim, Goto, TypeOK
    <3>2. enqueue_pos < dequeue_pos + Size
      BY <3>1, ClaimableEnqueue DEF Ownership, LookInv
    <3>3. Received' = Received
      BY <3>1 DEF Received
    <3>4. Len(log) - dequeue_pos < Size
      BY <3>2 DEF TypeOK, Ownership, WindowInv
    <3> QED BY <3>1, <3>3, <3>4 DEF Fifo!FifoNext, Fifo!Put
  <2>3. CASE EnqueueWrite(p)
    <3>1. /\ pc[p] = "eWrite"
          /\ cellData' = [cellData EXCEPT ![Slot(pos[p])] = data[p]]
          /\ UNCHANGED <<dequeue_pos, log, pos, data>>
          /\ \A c \in Consumers : pc'[c] = pc[c]
      BY <2>1, <2>3 DEF EnqueueWrite, Goto, TypeOK
    <3>2. ASSUME NEW c \in Consumers, pc[c] = "dRead"
          PROVE  cellData'[Slot(pos[c])] = cellData[Slot(pos[c])]
      <4>1. Slot(pos[c]) # Slot(pos[p])
        BY <2>1, <3>1, <3>2, HoldersApart DEF NoDataRace, Writing, Taking
      <4> QED BY <3>1, <4>1, SlotType DEF TypeOK
    <3>3. \A c \in Consumers : Received'[c] = Received[c]
      BY <3>1, <3>2 DEF Received
    <3> QED BY <3>1, <3>3, FifoStutter
  <2>4. CASE ~ EnqueueClaim(p) /\ ~ EnqueueWrite(p)
    <3>1. /\ UNCHANGED <<dequeue_pos, log, cellData>>
          /\ \A c \in Consumers :
                pc'[c] = pc[c] /\ pos'[c] = pos[c] /\ data'[c] = data[c]
      BY <1>1, <2>1, <2>4
         DEF Enqueue, EnqueueCall, EnqueueLoad, EnqueueLook, EnqueueRetry,
             EnqueueCount, EnqueuePublish, Goto, TypeOK
    <3>2. \A c \in Consumers : Received'[c] = Received[c]
      BY <3>1 DEF Received
    <3> QED BY <3>1, <3>2, FifoStutter
  <2> QED BY <2>2, <2>3, <2>4
<1>2. ASSUME NEW c \in Consumers, Dequeue(c)
      PROVE  [Fifo!FifoNext]_Fifo!fifoVars
  <2>1. CASE DequeueClaim(c)
    <3>1. /\ pos[c] = dequeue_pos /\ pc[c] = "dCas" /\ pc'[c] = "dRead"
          /\ UNCHANGED <<log, cellData, pos, data>>
          /\ dequeue_pos' = dequeue_pos + 1
          /\ \A d \in Consumers \ {c} : pc'[d] = pc[d]
      BY <2>1 DEF DequeueClaim, Goto, TypeOK
    <3>2. /\ dequeue_pos < enqueue_pos
          /\ cellData[Slot(dequeue_pos)] = log[dequeue_pos + 1]
      BY <3>1, ClaimableDequeue DEF Ownership, LookInv
    <3>3. Received' = [Received EXCEPT ![c] = log[dequeue_pos + 1]]
      BY <3>1, <3>2 DEF Received
    <3>4. dequeue_pos < Len(log)
      BY <3>2 DEF Ownership, WindowInv
    <3> QED BY <3>1, <3>3, <3>4 DEF Fifo!FifoNext, Fifo!Get
  <2>2. CASE DequeueRead(c)
    <3>1. /\ pc[c] = "dRead" /\ pc'[c] = "dCount"
          /\ data' = [data EXCEPT ![c] = cellData[Slot(pos[c])]]
          /\ UNCHANGED <<dequeue_pos, log, cellData, pos>>
          /\ \A d \in Consumers \ {c} : pc'[d] = pc[d]
      BY <2>2 DEF DequeueRead, Goto, TypeOK
    <3>2. \A d \in Consumers : Received'[d] = Received[d]
      BY <3>1 DEF Received, TypeOK
    <3> QED BY <3>1, <3>2, FifoStutter
  <2>3. CASE ~ DequeueClaim(c) /\ ~ DequeueRead(c)
    <3>1. /\ UNCHANGED <<dequeue_pos, log, cellData, data>>
          /\ pc[c] # "dRead" /\ pc'[c] # "dRead"
          /\ \A d \in Consumers \ {c} : pc'[d] = pc[d] /\ pos'[d] = pos[d]
      BY <1>2, <2>3
         DEF Dequeue, DequeueCall, DequeueLoad, DequeueLook, DequeueRetry,
             DequeueCount, DequeueRelease, Goto, TypeOK
    <3>2. \A d \in Consumers : Received'[d] = Received[d]
      BY <3>1 DEF Received
    <3> QED BY <3>1, <3>2, FifoStutter
  <2> QED BY <2>1, <2>2, <2>3
<1>3. CASE UNCHANGED vars
  BY <1>3 DEF vars, Fifo!fifoVars, Received
<1> QED BY <1>1, <1>2, <1>3 DEF Next

\* The lock-free queue implements the bounded FIFO: values are handed out once
\* each, in the order of the claims, and at most Size of them wait.
THEOREM FifoRefinement == Spec => ImplementsFifo
<1>1. Spec => Fifo!FifoInit /\ [][Fifo!FifoNext]_Fifo!fifoVars
  BY FifoInitially, FifoStep, TypeCorrect, OwnershipInvariant, PTL DEF Spec
<1> QED BY <1>1 DEF ImplementsFifo, Fifo!FifoSpec
-----------------------------------------------------------------------------
(* What enqueue and dequeue decline                                        *)

\* A cell's sequence number starts at the cell's index and never falls below.
SequenceBelow == \A s \in Slots : sequence[s] >= s

\* Whole laps and a cell's index make a position of that cell.
LEMMA SlotOf ==
    ASSUME NEW q \in Nat, NEW r \in Slots
    PROVE  Slot(Size * q + r) = r
<1> DEFINE i == Size * q + r
           k == i \div Size
<1>1. i \in Nat /\ Size * q \in Nat /\ r \in 0 .. Size - 1
  BY SizeAssumption DEF Slots
<1>2. k \in Nat /\ i = Size * k + Slot(i)
  BY <1>1, SlotDivision
<1>3. Slot(i) \in 0 .. Size - 1
  BY <1>1, SlotType DEF Slots
<1>4. i = Size * q + r
  OBVIOUS
<1> HIDE DEF i, k
<1>5. Size * (q - k) = Size * q - Size * k /\ Size * k \in Nat
  BY <1>2, SizeAssumption
<1>6. Size * (q - k) = Slot(i) - r
  BY <1>1, <1>2, <1>3, <1>4, <1>5, SizeAssumption
<1>7. q - k = 0
  BY <1>1, <1>2, <1>3, <1>6, SmallMultiple, SizeAssumption
<1>8. Slot(i) = r
  BY <1>1, <1>3, <1>6, <1>7, SizeAssumption
<1> QED BY <1>8 DEF i

\* Each cell has a position in every window of Size positions.
LEMMA SlotInWindow ==
    ASSUME NEW d \in Nat, NEW s \in Slots
    PROVE  \E j \in d .. d + Size - 1 : Slot(j) = s
<1> DEFINE q == d \div Size
<1>1. q \in Nat /\ d = Size * q + Slot(d)
  BY SlotDivision
<1>2. Slot(d) \in 0 .. Size - 1 /\ s \in 0 .. Size - 1
  BY SlotType DEF Slots
<1> HIDE DEF q
<1>3. /\ Size * q \in Nat /\ Size * (q + 1) = Size * q + Size
      /\ Slot(Size * q + s) = s /\ Slot(Size * (q + 1) + s) = s
  <2>1. Size * q \in Nat /\ Size * (q + 1) = Size * q + Size
    BY <1>1, SizeAssumption
  <2>2. Slot(Size * q + s) = s
    BY <1>1, SlotOf
  <2>3. q + 1 \in Nat
    BY <1>1
  <2>4. Slot(Size * (q + 1) + s) = s
    BY <2>3, SlotOf
  <2> QED BY <2>1, <2>2, <2>4
<1>4. CASE s >= Slot(d)
  <2>1. Size * q + s \in d .. d + Size - 1
    BY <1>1, <1>2, <1>3, <1>4, SizeAssumption
  <2> QED BY <1>3, <2>1
<1>5. CASE s < Slot(d)
  <2>1. Size * (q + 1) + s \in d .. d + Size - 1
    BY <1>1, <1>2, <1>3, <1>5, SizeAssumption
  <2> QED BY <1>3, <2>1
<1> QED BY <1>2, <1>4, <1>5

\* The cell of a position that has been handed out shows a later one.
LEMMA TakenShows ==
    ASSUME TypeOK, Ownership, NEW i \in Nat, i < dequeue_pos
    PROVE  sequence[Slot(i)] > i
<1>1. enqueue_pos \in Nat /\ dequeue_pos \in Nat /\ Slot(i) \in Slots
  BY SlotType DEF TypeOK
<1>2. PICK j \in dequeue_pos .. dequeue_pos + Size - 1 : Slot(j) = Slot(i)
  BY <1>1, SlotInWindow
<1>3. j \in Nat /\ j >= i + Size
  BY <1>1, <1>2, SlotInjective, SizeAssumption
<1>4. sequence[Slot(j)] \in {j, j + 1, j + 1 - Size}
  BY <1>2 DEF Ownership, CellInv
<1> QED BY <1>2, <1>3, <1>4, SizeAssumption

\* The cell of a position that has been claimed shows it or a later one.
LEMMA ClaimedShows ==
    ASSUME TypeOK, Ownership, NEW i \in Nat, i < enqueue_pos
    PROVE  sequence[Slot(i)] >= i
<1>1. enqueue_pos \in Nat /\ dequeue_pos \in Nat /\ Slot(i) \in Slots
      /\ sequence[Slot(i)] \in Nat
  BY SlotType DEF TypeOK
<1>2. CASE i < dequeue_pos
  BY <1>1, <1>2, TakenShows
<1>3. CASE i >= dequeue_pos
  <2>1. i \in dequeue_pos .. dequeue_pos + Size - 1
    BY <1>1, <1>3, SizeAssumption DEF Ownership, WindowInv
  <2>2. sequence[Slot(i)] = i \/ sequence[Slot(i)] = i + 1
    BY <2>1 DEF Ownership, CellInv
  <2> QED BY <2>2
<1> QED BY <1>1, <1>2, <1>3

\* A step leaves a cell's sequence number alone, or publishes or releases it.
LEMMA SequenceStep ==
    ASSUME TypeOK, [Next]_vars, SequenceBelow
    PROVE  SequenceBelow'
<1> USE SizeAssumption, ThreadsAssumption DEF Threads
<1>1. ASSUME NEW t \in Threads, NEW k \in Nat,
             sequence' = [sequence EXCEPT ![Slot(pos[t])] = pos[t] + k]
      PROVE  SequenceBelow'
  <2>1. pos[t] \in Nat /\ Slot(pos[t]) \in Slots /\ sequence \in [Slots -> Nat]
    BY SlotType DEF TypeOK
  <2>2. pos[t] >= Slot(pos[t])
    <3> DEFINE laps == pos[t] \div Size
               whole == Size * laps
    <3>1. laps \in Nat /\ pos[t] = whole + Slot(pos[t])
      BY <2>1, SlotDivision
    <3> HIDE DEF laps
    <3>2. whole \in Nat
      BY <3>1
    <3> HIDE DEF whole
    <3> QED BY <2>1, <3>1, <3>2 DEF Slots
  <2>3. pos[t] + k >= Slot(pos[t])
    BY <2>1, <2>2 DEF Slots
  <2> QED BY <1>1, <2>1, <2>3 DEF SequenceBelow
<1>2. CASE sequence' = sequence
  BY <1>2 DEF SequenceBelow
<1>3. \/ sequence' = sequence
      \/ \E p \in Producers : EnqueuePublish(p)
      \/ \E c \in Consumers : DequeueRelease(c)
  BY DEF vars, Next, Enqueue, Dequeue, EnqueueCall, EnqueueLoad, EnqueueLook,
         EnqueueClaim, EnqueueRetry, EnqueueWrite, EnqueueCount, DequeueCall,
         DequeueLoad, DequeueLook, DequeueClaim, DequeueRetry, DequeueRead,
         DequeueCount
<1> QED BY <1>1, <1>2, <1>3 DEF EnqueuePublish, DequeueRelease

\* enqueue gives up only on a full queue.
LEMMA EnqueueDeclines ==
    ASSUME TypeOK, Ownership, SequenceBelow, NEW p \in Producers,
           EnqueueLook(p), pc'[p] = "idle"
    PROVE  enqueue_pos >= Size /\ sequence[Slot(enqueue_pos)] # enqueue_pos
<1> USE SizeAssumption, ThreadsAssumption DEF Threads
<1>1. /\ pc[p] = "eLook" /\ pos[p] \in Nat /\ pos[p] <= enqueue_pos
      /\ enqueue_pos \in Nat /\ dequeue_pos \in Nat
      /\ sequence[Slot(pos[p])] \in Nat /\ sequence[Slot(pos[p])] < pos[p]
      /\ sequence[Slot(enqueue_pos)] >= Slot(enqueue_pos)
  <2>1. /\ pc[p] = "eLook" /\ pos[p] \in Nat /\ pos[p] <= enqueue_pos
        /\ enqueue_pos \in Nat /\ dequeue_pos \in Nat
    BY DEF EnqueueLook, Goto, TypeOK, Ownership, LookInv
  <2>2. /\ Slot(pos[p]) \in Slots /\ Slot(enqueue_pos) \in Slots
        /\ sequence[Slot(pos[p])] \in Nat
    BY <2>1, SlotType DEF TypeOK
  <2>3. sequence[Slot(pos[p])] - pos[p] < 0
    BY <2>1 DEF EnqueueLook, Goto, TypeOK
  <2> QED BY <2>1, <2>2, <2>3 DEF SequenceBelow
<1>2. pos[p] = enqueue_pos
  BY <1>1, ClaimedShows
<1>3. enqueue_pos >= Size
  <2>1. CASE enqueue_pos = dequeue_pos + Size
    BY <1>1, <2>1
  <2>2. CASE enqueue_pos # dequeue_pos + Size
    <3>1. enqueue_pos \in dequeue_pos .. dequeue_pos + Size - 1
      BY <1>1, <2>2 DEF Ownership, WindowInv
    <3>2. sequence[Slot(enqueue_pos)] = enqueue_pos + 1 - Size
      BY <1>1, <1>2, <3>1 DEF Ownership, CellInv
    <3>3. CASE enqueue_pos < Size
      <4>1. Slot(enqueue_pos) = enqueue_pos
        BY <1>1, <3>3 DEF Slot
      <4> QED BY <1>1, <3>2, <4>1
    <3> QED BY <1>1, <3>3
  <2> QED BY <2>1, <2>2
<1> QED BY <1>1, <1>2, <1>3

\* dequeue gives up only while the oldest position is not published.
LEMMA DequeueDeclines ==
    ASSUME TypeOK, Ownership, NEW c \in Consumers, DequeueLook(c),
           pc'[c] = "idle"
    PROVE  sequence[Slot(dequeue_pos)] # dequeue_pos + 1
<1> USE SizeAssumption, ThreadsAssumption DEF Threads
<1>1. /\ pc[c] = "dLook" /\ pos[c] \in Nat /\ pos[c] <= dequeue_pos
      /\ dequeue_pos \in Nat
  BY DEF DequeueLook, Goto, TypeOK, Ownership, LookInv
<1>2. Slot(pos[c]) \in Slots /\ sequence[Slot(pos[c])] \in Nat
  BY <1>1, SlotType DEF TypeOK
<1>3. sequence[Slot(pos[c])] < pos[c] + 1
  <2>1. sequence[Slot(pos[c])] - (pos[c] + 1) < 0
    BY <1>1 DEF DequeueLook, Goto, TypeOK
  <2> QED BY <1>1, <1>2, <2>1
<1>4. pos[c] = dequeue_pos
  BY <1>1, <1>2, <1>3, TakenShows
<1> QED BY <1>1, <1>2, <1>3, <1>4

\* Nothing is declined without need: enqueue only when the cell is still
\* occupied, dequeue only when the oldest position is unpublished, although
\* both decide on a position that may have been claimed by others meanwhile.
THEOREM DeclinesAreJustified == Spec => DeclinesJustified
<1> DEFINE Decline ==
      /\ \A p \in Producers :
            (pc[p] = "eLook" /\ pc'[p] = "idle")
            => /\ enqueue_pos >= Size
               /\ sequence[Slot(enqueue_pos)] # enqueue_pos
      /\ \A c \in Consumers :
            (pc[c] = "dLook" /\ pc'[c] = "idle")
            => sequence[Slot(dequeue_pos)] # dequeue_pos + 1
<1>1. Init => SequenceBelow
  BY SizeAssumption DEF Init, SequenceBelow, Slots
<1>2. TypeOK /\ Ownership /\ SequenceBelow /\ [Next]_vars => [Decline]_vars
  <2> SUFFICES ASSUME TypeOK, Ownership, SequenceBelow, Next PROVE Decline
    OBVIOUS
  <2> USE ThreadsAssumption DEF Threads
  <2>1. ASSUME NEW p \in Producers, pc[p] = "eLook", pc'[p] = "idle"
        PROVE  EnqueueLook(p)
    BY <2>1 DEF Next, Enqueue, Dequeue, EnqueueCall, EnqueueLoad,
         EnqueueClaim, EnqueueRetry, EnqueueWrite, EnqueueCount, EnqueuePublish,
         DequeueCall, DequeueLoad, DequeueLook, DequeueClaim, DequeueRetry,
         DequeueRead, DequeueCount, DequeueRelease, EnqueueLook, Goto, TypeOK
  <2>2. ASSUME NEW c \in Consumers, pc[c] = "dLook", pc'[c] = "idle"
        PROVE  DequeueLook(c)
    BY <2>2 DEF Next, Enqueue, Dequeue, EnqueueCall, EnqueueLoad,
         EnqueueClaim, EnqueueRetry, EnqueueWrite, EnqueueCount, EnqueuePublish,
         DequeueCall, DequeueLoad, DequeueLook, DequeueClaim, DequeueRetry,
         DequeueRead, DequeueCount, DequeueRelease, EnqueueLook, Goto, TypeOK
  <2> QED BY <2>1, <2>2, EnqueueDeclines, DequeueDeclines
<1>3. Spec => [][Decline]_vars
  BY <1>1, <1>2, SequenceStep, TypeCorrect, OwnershipInvariant, PTL DEF Spec
<1> QED BY <1>3 DEF DeclinesJustified
=============================================================================
