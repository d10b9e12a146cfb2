------------------------- MODULE MemoryBufferProofs -------------------------
(***************************************************************************)
(* Proofs about MemoryBuffer for a buffer, a counter and frames of any     *)
(* size: up to the first clean() every frame is read whole and in order.   *)
(***************************************************************************)
EXTENDS MemoryBuffer, TLAPS

Typed ==
    /\ buf \in [Index -> [frame: Nat, at: Nat]]
    /\ begin \in Nat /\ end \in Nat /\ end <= BUF_SIZE
    /\ written \in Seq(Header .. MaxAmount) /\ reads \in Seq(Nat)
    /\ Len(reads) <= Len(written)

\* The frames that have not been read.
Waiting == Len(reads) + 1 .. Len(written)

\* The frames lie one behind the other from begin to end, the k-th at start[k],
\* and the next one will start at end.
Layout(start) ==
    /\ start[Len(reads) + 1] = begin
    /\ start[Len(written) + 1] = end
    /\ \A k \in Waiting : /\ start[k] \in Nat /\ start[k + 1] = start[k] + written[k]
                          /\ start[k] + written[k] <= end
                          /\ buf[start[k]] = [frame |-> k, at |-> 0]

OrderInv ==
    ~cleaned =>
    /\ ~aborted
    /\ Typed
    /\ \A n \in 1 .. Len(reads) : reads[n] = n
    /\ \E start : Layout(start)

LEMMA InitOrder == Init => OrderInv
<1> SUFFICES ASSUME Init PROVE OrderInv
  OBVIOUS
<1>1. Typed
  BY MemoryBufferAssumption DEF Init, Typed, NoByte
<1>2. Layout([k \in Nat |-> 0])
  BY DEF Init, Layout, Waiting
<1>3. \E start : Layout(start)
  BY <1>2
<1> QED
  BY <1>1, <1>3 DEF Init, OrderInv

\* A number below w is its own remainder.
LEMMA NoWrap == \A x, w \in Nat : x < w => x % w = x
  OBVIOUS

\* What a sequence of frame sizes is made of.
LEMMA Sizes ==
    ASSUME NEW q \in Seq(Header .. MaxAmount)
    PROVE  /\ Len(q) \in Nat
           /\ \A k \in 1 .. Len(q) : q[k] \in Nat /\ q[k] >= Header /\ q[k] >= 1
<1>1. \A k \in 1 .. Len(q) : q[k] \in Header .. MaxAmount
  BY MemoryBufferAssumption
<1> QED
  BY <1>1, MemoryBufferAssumption

\* A write that finds room puts its frame behind the others.
LEMMA WriteKeepsOrder ==
    ASSUME OrderInv, NEW amount \in Header .. MaxAmount, Write(amount)
    PROVE  OrderInv'
<1> SUFFICES ASSUME ~cleaned'
             PROVE  /\ ~aborted' /\ Typed'
                    /\ \A n \in 1 .. Len(reads') : reads'[n] = n
                    /\ \E start : Layout(start)'
  BY DEF OrderInv
<1> DEFINE new == Len(written) + 1
<1>1. ~cleaned /\ ~(end + amount > BUF_SIZE)
  BY DEF Write
<1>2. PICK start : Layout(start)
  BY <1>1 DEF OrderInv
<1>3. Typed /\ \A n \in 1 .. Len(reads) : reads[n] = n
  BY <1>1 DEF OrderInv
<1>4. /\ amount \in Nat /\ amount >= 1 /\ end + amount <= BUF_SIZE /\ end \in Nat /\ begin \in Nat
      /\ BUF_SIZE \in Nat /\ end + amount < Width /\ Width \in Nat
  BY <1>1, <1>3, MemoryBufferAssumption DEF Typed
<1>5. (end + amount) % Width = end + amount
  <2>1. end + amount \in Nat
    BY <1>4
  <2> QED
    BY <1>4, <2>1, NoWrap
<1>6. /\ ~aborted' /\ begin' = begin /\ end' = end + amount
      /\ buf' = [i \in Index |-> IF i \in end .. end + amount - 1
                                 THEN [frame |-> new, at |-> i - end] ELSE buf[i]]
      /\ written' = Append(written, amount) /\ reads' = reads
  BY <1>1, <1>4, <1>5 DEF Write, Current
<1>7. /\ Len(written) \in Nat /\ Len(reads) \in Nat /\ Len(reads) <= Len(written)
      /\ Len(written') = new /\ written'[new] = amount
      /\ \A k \in 1 .. Len(written) : written'[k] = written[k]
      /\ \A k \in 1 .. Len(written) : written[k] \in Nat /\ written[k] >= 1
  <2>1. written \in Seq(Header .. MaxAmount) /\ reads \in Seq(Nat) /\ Len(reads) <= Len(written)
    BY <1>3 DEF Typed
  <2> QED
    BY <1>6, <2>1, Sizes, MemoryBufferAssumption
<1>8. Typed'
  <2>1. ASSUME NEW i \in Index PROVE buf'[i] \in [frame: Nat, at: Nat]
    <3>1. CASE i \in end .. end + amount - 1
      <4>1. i - end \in Nat /\ new \in Nat
        BY <1>4, <1>7, <3>1
      <4>2. buf'[i] = [frame |-> new, at |-> i - end]
        BY <1>6, <3>1
      <4> QED
        BY <4>1, <4>2
    <3>2. CASE i \notin end .. end + amount - 1
      BY <1>3, <1>6, <3>2 DEF Typed
    <3> QED
      BY <3>1, <3>2
  <2>2. buf' \in [Index -> [frame: Nat, at: Nat]]
    BY <1>6, <2>1
  <2>3. written' \in Seq(Header .. MaxAmount)
    BY <1>3, <1>6 DEF Typed
  <2>4. end' \in Nat /\ end' <= BUF_SIZE /\ begin' \in Nat /\ Len(reads') <= Len(written')
    BY <1>4, <1>6, <1>7
  <2> QED
    BY <1>3, <1>6, <2>2, <2>3, <2>4 DEF Typed
<1>9. \E next : Layout(next)'
  <2> DEFINE next == [k \in Nat |-> IF k = new + 1 THEN end + amount ELSE start[k]]
  <2>1. next[new + 1] = end + amount /\ \A k \in 1 .. new : next[k] = start[k]
    BY <1>4, <1>7
  <2>2. start[new] = end
    BY <1>2 DEF Layout
  <2> HIDE DEF next
  <2>3. ASSUME NEW k \in Waiting
        PROVE  /\ next[k] \in Nat /\ next[k + 1] = next[k] + written'[k]
               /\ next[k] + written'[k] <= end'
               /\ buf'[next[k]] = [frame |-> k, at |-> 0]
    <3>1. /\ k \in 1 .. Len(written) /\ k \in 1 .. new /\ k + 1 \in 1 .. new
      BY <1>7 DEF Waiting
    <3>2. /\ start[k] \in Nat /\ start[k + 1] = start[k] + written[k] /\ start[k] + written[k] <= end
          /\ buf[start[k]] = [frame |-> k, at |-> 0]
      BY <1>2 DEF Layout
    <3>3. start[k] \in Nat /\ start[k] < end
      BY <1>4, <1>7, <3>1, <3>2
    <3>4. start[k] \in Index /\ start[k] \notin end .. end + amount - 1
      BY <1>4, <3>3 DEF Index
    <3>5. buf'[start[k]] = buf[start[k]]
      BY <1>6, <3>4
    <3>6. start[k] + written[k] <= end'
      BY <1>4, <1>6, <1>7, <3>1, <3>2, <3>3
    <3> QED
      BY <1>7, <2>1, <3>1, <3>2, <3>5, <3>6
  <2>4. /\ next[new] \in Nat /\ next[new + 1] = next[new] + written'[new]
        /\ next[new] + written'[new] <= end'
        /\ buf'[next[new]] = [frame |-> new, at |-> 0]
    <3>1. next[new] = end
      BY <1>7, <2>1, <2>2
    <3>2. end \in Index /\ end \in end .. end + amount - 1 /\ end - end = 0
      BY <1>4 DEF Index
    <3>3. buf'[end] = [frame |-> new, at |-> 0]
      BY <1>6, <3>2
    <3> QED
      BY <1>4, <1>6, <1>7, <2>1, <3>1, <3>3
  <2>5. \A k \in Waiting' : k \in Waiting \/ k = new
    BY <1>6, <1>7 DEF Waiting
  <2>6. next[Len(reads') + 1] = begin'
    BY <1>2, <1>6, <1>7, <2>1 DEF Layout
  <2>7. next[Len(written') + 1] = end'
    BY <1>6, <1>7, <2>1
  <2>8. \A k \in Waiting' : /\ next[k] \in Nat /\ next[k + 1] = next[k] + written'[k]
                            /\ next[k] + written'[k] <= end'
                            /\ buf'[next[k]] = [frame |-> k, at |-> 0]
    BY <2>3, <2>4, <2>5
  <2>9. \A f : f = next => Layout(f)'
    BY <2>6, <2>7, <2>8 DEF Layout
  <2> QED
    BY <2>1, <2>9
<1> QED
  BY <1>3, <1>6, <1>8, <1>9

\* A read takes the first frame, whole; the last one empties the buffer.
LEMMA ReadKeepsOrder ==
    ASSUME OrderInv, Read
    PROVE  OrderInv'
<1> SUFFICES ASSUME ~cleaned'
             PROVE  /\ ~aborted' /\ Typed'
                    /\ \A n \in 1 .. Len(reads') : reads'[n] = n
                    /\ \E start : Layout(start)'
  BY DEF OrderInv
<1> DEFINE first == Len(reads) + 1
<1>1. ~cleaned
  BY DEF Read
<1>2. PICK start : Layout(start)
  BY <1>1 DEF OrderInv
<1>3. Typed /\ (\A n \in 1 .. Len(reads) : reads[n] = n) /\ ~aborted
  BY <1>1 DEF OrderInv
<1>4. /\ Len(written) \in Nat /\ Len(reads) \in Nat /\ Len(reads) <= Len(written)
      /\ begin \in Nat /\ end \in Nat /\ end <= BUF_SIZE /\ BUF_SIZE \in Nat /\ Width \in Nat /\ BUF_SIZE < Width
      /\ Header \in Nat /\ Header >= 1
      /\ \A k \in 1 .. Len(written) : written[k] \in Nat /\ written[k] >= Header
  <2>1. written \in Seq(Header .. MaxAmount) /\ reads \in Seq(Nat)
    BY <1>3 DEF Typed
  <2> QED
    BY <1>3, <2>1, Sizes, MemoryBufferAssumption DEF Typed
<1>5. first \in Waiting
  <2>1. Len(reads) # Len(written)
    <3>1. Unread # <<>>
      BY DEF Read
    <3> QED
      BY <1>3, <1>4, <3>1 DEF Unread, Typed
  <2> QED
    BY <1>4, <2>1 DEF Waiting
<1>6. /\ start[first] = begin /\ start[first + 1] = begin + written[first]
      /\ begin + written[first] <= end
      /\ buf[begin] = [frame |-> first, at |-> 0]
  BY <1>2, <1>5 DEF Layout
<1>7. first \in 1 .. Len(written) /\ first # 0 /\ written[first] >= Header /\ written[first] \in Nat
  BY <1>4, <1>5 DEF Waiting
<1>8. begin + Header <= end /\ (begin + written[first]) % Width = begin + written[first]
  <2>1. begin + written[first] < Width /\ begin + written[first] \in Nat
    BY <1>4, <1>6, <1>7
  <2>2. (begin + written[first]) % Width = begin + written[first]
    BY <1>4, <2>1, NoWrap
  <2>3. begin + Header <= end
    BY <1>4, <1>6, <1>7
  <2> QED
    BY <2>2, <2>3
<1>9. Amounts(buf[begin]) = {written[first]} /\ buf[begin].at = 0 /\ buf[begin].frame = first
  BY <1>6, <1>7 DEF Amounts
<1> DEFINE next == begin + written[first]
<1>10. /\ reads' = Append(reads, first)
       /\ begin' = IF next = end THEN 0 ELSE next
       /\ end' = IF next = end THEN 0 ELSE end
       /\ UNCHANGED <<aborted, buf, written>>
  BY <1>8, <1>9 DEF Read
<1>11. /\ Len(reads') = first /\ \A n \in 1 .. Len(reads') : reads'[n] = n
  BY <1>3, <1>4, <1>10 DEF Typed
<1>12. Typed'
  <2>1. reads' \in Seq(Nat) /\ Len(reads') <= Len(written')
    BY <1>3, <1>4, <1>7, <1>10, <1>11 DEF Typed
  <2>2. begin' \in Nat /\ end' \in Nat /\ end' <= BUF_SIZE
    BY <1>4, <1>7, <1>10
  <2> QED
    BY <1>3, <1>10, <2>1, <2>2 DEF Typed
<1>13. \E f : Layout(f)'
  <2>1. \A k \in Waiting' : k \in Waiting /\ k >= first + 1
    BY <1>4, <1>10, <1>11 DEF Waiting
  <2>2. CASE next = end
    \* Another frame would lie beyond end.
    <3>1. Len(written) = first
      <4> SUFFICES ASSUME Len(written) # first PROVE FALSE
        OBVIOUS
      <4>1. first + 1 \in Waiting /\ first + 1 \in 1 .. Len(written)
        BY <1>4, <1>7 DEF Waiting
      <4>2. start[first + 1] + written[first + 1] <= end
        BY <1>2, <4>1 DEF Layout
      <4>3. written[first + 1] >= 1 /\ written[first + 1] \in Nat
        BY <1>4, <4>1
      <4> QED
        BY <1>4, <1>6, <1>7, <2>2, <4>2, <4>3
    <3>2. \A f : f = [k \in Nat |-> 0] => Layout(f)'
      <4>1. \A k \in Waiting' : FALSE
        BY <1>4, <1>10, <1>11, <3>1 DEF Waiting
      <4> QED
        BY <1>4, <1>10, <1>11, <2>2, <4>1 DEF Layout
    <3> QED
      BY <3>2
  <2>3. CASE next # end
    <3>1. begin' = next /\ end' = end
      BY <1>10, <2>3
    <3>2. Layout(start)'
      BY <1>2, <1>6, <1>10, <1>11, <2>1, <3>1 DEF Layout
    <3> QED
      BY <3>2
  <2> QED
    BY <2>2, <2>3
<1> QED
  BY <1>3, <1>10, <1>11, <1>12, <1>13

\* Until clean() is called the frames are read whole and in the order they were
\* written, and no assertion fails.
THEOREM FramesInOrder == Spec => []FramesInOrderUntilClean
<1>1. OrderInv /\ [Next]_vars => OrderInv'
  <2> SUFFICES ASSUME OrderInv, [Next]_vars PROVE OrderInv'
    OBVIOUS
  <2>1. CASE UNCHANGED vars
    BY <2>1 DEF vars, OrderInv, Typed, Layout, Waiting
  <2> QED
    BY <2>1, WriteKeepsOrder, ReadKeepsOrder DEF Next
<1>2. OrderInv => FramesInOrderUntilClean
  BY DEF OrderInv, FramesInOrderUntilClean
<1> QED
  BY <1>1, <1>2, InitOrder, PTL DEF Spec
=============================================================================
