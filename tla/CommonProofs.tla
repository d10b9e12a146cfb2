---------------------------- MODULE CommonProofs ----------------------------
(***************************************************************************)
(* Proofs about what the programs have in common: the layouts of packets,  *)
(* for names and a receive buffer of any length; get_binded_socks(), for   *)
(* any adapters; and the two in the server's init().                       *)
(***************************************************************************)
EXTENDS ServerSocket, Integers, WellFoundedInduction, TLAPS

-----------------------------------------------------------------------------
(* Induction, as a fact about sets of naturals.                            *)

LEMMA LeastNatural ==
    ASSUME NEW S \in SUBSET Nat, S # {}
    PROVE  \E n \in S : \A m \in S : n <= m
<1> DEFINE R == {p \in Nat \X Nat : p[1] < p[2]}
<1>1. IsWellFoundedOn(R, Nat)
  BY NatLessThanWellFounded, Zenon DEF OpToRel
<1>2. \A x, y \in Nat : <<y, x>> \in R <=> y < x
  OBVIOUS
<1> HIDE DEF R
<1>3. PICK x \in S : \A y \in S : ~ (<<y, x>> \in R)
  BY <1>1, WFMin, Zenon
<1>4. ASSUME NEW y \in S PROVE x <= y
  <2>1. x \in Nat /\ y \in Nat /\ ~(<<y, x>> \in R)
    BY <1>3
  <2>2. ~(y < x)
    BY <1>2, <2>1, Zenon
  <2> QED
    BY <2>1, <2>2
<1> QED
  BY <1>4

LEMMA SetInduction ==
    ASSUME NEW S, 0 \in S, \A n \in Nat : n \in S => n + 1 \in S
    PROVE  Nat \subseteq S
<1> DEFINE U == Nat \ S
<1> SUFFICES ASSUME U # {} PROVE FALSE
  OBVIOUS
<1>1. U \in SUBSET Nat
  OBVIOUS
<1>2. PICK n \in U : \A m \in U : n <= m
  <2> HIDE DEF U
  <2> QED
    BY <1>1, LeastNatural
<1>3. n # 0 /\ n - 1 \in Nat /\ n - 1 \in S /\ (n - 1) + 1 = n
  BY <1>2
<1> QED
  BY <1>2, <1>3

-----------------------------------------------------------------------------
(* The offsets of the members.                                             *)

\* What start[i] is in terms of start[i - 1].
NextOffset(members, packed, start, i) ==
    IF i = 1 THEN 0
    ELSE LET behind == start[i - 1] + members[i - 1].size
         IN  IF packed THEN behind ELSE behind + Gap(behind, members[i].size)

Solves(members, packed, w) == w = [i \in 1 .. Len(members) |-> NextOffset(members, packed, w, i)]

\* Whatever satisfies the equation of Offsets is its value.
LEMMA OffsetsAre ==
    ASSUME NEW members, NEW packed, NEW w, Len(members) \in Nat, Solves(members, packed, w)
    PROVE  Offsets(members, packed) = w
<1> DEFINE start == CHOOSE g : Solves(members, packed, g)
           Same   == {n \in Nat : n + 1 \in 1 .. Len(members) => start[n + 1] = w[n + 1]}
<1>1. Solves(members, packed, start)
  OBVIOUS
<1>2. Offsets(members, packed) = [i \in 1 .. Len(members) |-> start[i]]
  BY DEF Offsets, NextOffset, Solves
<1> HIDE DEF start
<1>3. \A i \in 1 .. Len(members) : /\ start[i] = NextOffset(members, packed, start, i)
                                   /\ w[i] = NextOffset(members, packed, w, i)
  BY <1>1 DEF Solves
<1>4. 0 \in Same
  BY <1>3 DEF NextOffset
<1>5. ASSUME NEW n \in Nat, n \in Same PROVE n + 1 \in Same
  BY <1>3, <1>5 DEF NextOffset
<1>6. Nat \subseteq Same
  <2> HIDE DEF Same
  <2> QED
    BY <1>4, <1>5, SetInduction
<1>7. ASSUME NEW i \in 1 .. Len(members) PROVE start[i] = w[i]
  <2>1. i - 1 \in Same /\ (i - 1) + 1 = i
    BY <1>6
  <2> QED
    BY <2>1
<1>8. w = [i \in 1 .. Len(members) |-> w[i]]
  BY DEF Solves
<1> QED
  BY <1>2, <1>7, <1>8

LEMMA Gaps ==
    /\ Gap(2, 1) = 0 /\ Gap(2, 2) = 0 /\ Gap(2, 4) = 2 /\ Gap(3, 4) = 1 /\ Gap(4, 4) = 0
    /\ Gap(6, 1) = 0 /\ Gap(8, 1) = 0 /\ Gap(8, 4) = 0 /\ Gap(9, 4) = 3 /\ Gap(12, 8) = 4
    /\ Gap(16, 8) = 0 /\ Gap(24, 8) = 0 /\ Gap(32, 8) = 0 /\ Gap(40, 8) = 0 /\ Gap(48, 8) = 0
  BY DEF Gap

-----------------------------------------------------------------------------
(* The bytes of the members.                                               *)

Field ==
    {"type", "res", "client_id", "seq_num", "time_client_send", "time_server_recv", "time_server_send",
     "time_client_recv", "delay", "name_len", "name", "padding"}

AnyByte == [field: Field, at: Nat, fresh: BOOLEAN]

\* The members lie one behind the other in length bytes.
Fits(members, start, length) ==
    /\ Len(members) \in Nat /\ length \in Nat
    /\ \A i \in 1 .. Len(members) :
        /\ members[i].field \in Field /\ members[i].size \in Nat /\ start[i] \in Nat
        /\ start[i] + members[i].size <= length
        /\ \A j \in 1 .. Len(members) : i < j => start[i] + members[i].size <= start[j]

\* The field f stands at an offset.
Holds(bytes, offset, f, n) == \A k \in 1 .. n : bytes[offset + k] = Byte(f, k)

LEMMA LayHolds ==
    ASSUME NEW members, NEW start, NEW length, Fits(members, start, length)
    PROVE  /\ Lay(members, start, length) \in Seq(AnyByte)
           /\ Len(Lay(members, start, length)) = length
           /\ \A i \in 1 .. Len(members) : Holds(Lay(members, start, length), start[i], members[i].field, members[i].size)
<1> DEFINE bytes == Lay(members, start, length)
           Covers(i, k) == k \in start[i] + 1 .. start[i] + members[i].size
           At(k) == CHOOSE j \in 1 .. Len(members) : Covers(j, k)
<1>1. length \in Nat /\ Len(members) \in Nat
  BY DEF Fits
<1>2. \A k \in 1 .. length :
        bytes[k] = IF \E i \in 1 .. Len(members) : Covers(i, k)
                   THEN Byte(members[At(k)].field, k - start[At(k)]) ELSE Padding
  BY DEF Lay
<1>3. ASSUME NEW k \in 1 .. length, NEW i \in 1 .. Len(members), Covers(i, k)
      PROVE  At(k) = i
  <2>1. ASSUME NEW j \in 1 .. Len(members), NEW l \in 1 .. Len(members), Covers(j, k), Covers(l, k)
        PROVE  ~(j < l)
    <3>1. /\ start[j] \in Nat /\ members[j].size \in Nat /\ start[l] \in Nat /\ members[l].size \in Nat
          /\ j < l => start[j] + members[j].size <= start[l]
      BY DEF Fits
    <3> QED
      BY <2>1, <3>1
  <2>2. \A j \in 1 .. Len(members) : Covers(j, k) => j = i
    BY <1>1, <1>3, <2>1
  <2> HIDE DEF Covers
  <2> QED
    BY <1>3, <2>2
<1> HIDE DEF At
<1>4. ASSUME NEW k \in 1 .. length PROVE bytes[k] \in AnyByte
  <2>1. CASE \E i \in 1 .. Len(members) : Covers(i, k)
    <3>1. PICK i \in 1 .. Len(members) : Covers(i, k)
      BY <2>1
    <3>2. bytes[k] = Byte(members[i].field, k - start[i])
      BY <1>2, <1>3, <3>1
    <3>3. members[i].field \in Field /\ k - start[i] \in Nat
      BY <3>1 DEF Fits
    <3> QED
      BY <3>2, <3>3 DEF Byte, AnyByte
  <2>2. CASE ~ \E i \in 1 .. Len(members) : Covers(i, k)
    <3>1. bytes[k] = Padding
      BY <1>2, <2>2
    <3>2. 0 \in Nat /\ TRUE \in BOOLEAN /\ "padding" \in Field
      BY DEF Field
    <3>3. Padding \in AnyByte
      BY <3>2 DEF Padding, Byte, AnyByte
    <3> QED
      BY <3>1, <3>3
  <2> QED
    BY <2>1, <2>2
<1>5. bytes = [k \in 1 .. length |-> bytes[k]]
  BY DEF Lay
<1>6. bytes \in Seq(AnyByte) /\ Len(bytes) = length
  <2> HIDE DEF bytes
  <2> QED
    BY <1>1, <1>4, <1>5
<1>7. ASSUME NEW i \in 1 .. Len(members), NEW k \in 1 .. members[i].size
      PROVE  bytes[start[i] + k] = Byte(members[i].field, k)
  <2> SUFFICES ASSUME NEW m, m = start[i] + k PROVE bytes[m] = Byte(members[i].field, k)
    OBVIOUS
  <2>1. Covers(i, m) /\ m \in 1 .. length /\ m - start[i] = k
    BY <1>7 DEF Fits
  <2> HIDE DEF Covers
  <2>2. At(m) = i
    BY <1>3, <2>1
  <2>3. bytes[m] = Byte(members[At(m)].field, m - start[At(m)])
    BY <1>2, <2>1
  <2> QED
    BY <2>1, <2>2, <2>3
<1> QED
  BY <1>6, <1>7 DEF Holds

LEMMA LargestIs ==
    ASSUME NEW members, NEW i \in 1 .. Len(members),
           \A j \in 1 .. Len(members) : members[j].size \in Nat /\ members[j].size <= members[i].size
    PROVE  Largest(members) = members[i].size
<1> DEFINE Sizes == {members[j].size : j \in 1 .. Len(members)}
           IsLargest(a) == \A j \in 1 .. Len(members) : members[j].size <= a
<1>1. members[i].size \in Sizes /\ IsLargest(members[i].size)
  OBVIOUS
<1>2. \A a \in Sizes : IsLargest(a) => a = members[i].size
  OBVIOUS
<1>3. Largest(members) = CHOOSE a \in Sizes : IsLargest(a)
  BY DEF Largest
<1> HIDE DEF Sizes, IsLargest
<1> QED
  BY <1>1, <1>2, <1>3

\* Members of which each lies behind the one before it fit.
InPlace(members, w) ==
    /\ Len(members) \in Nat /\ Behind(members, w) \in Nat
    /\ \A i \in 1 .. Len(members) : members[i].field \in Field
    /\ \A i \in 1 .. Len(members) : members[i].size \in Nat /\ w[i] \in Nat
    /\ \A i \in 1 .. Len(members) : i < Len(members) => w[i] + members[i].size <= w[i + 1]

LEMMA InOrder ==
    ASSUME NEW members, NEW w, NEW length \in Nat, InPlace(members, w), Behind(members, w) <= length
    PROVE  Fits(members, w, length)
<1>0. /\ Len(members) \in Nat /\ Behind(members, w) \in Nat
      /\ \A i \in 1 .. Len(members) : members[i].field \in Field
      /\ \A i \in 1 .. Len(members) : members[i].size \in Nat /\ w[i] \in Nat
      /\ \A i \in 1 .. Len(members) : i < Len(members) => w[i] + members[i].size <= w[i + 1]
  BY DEF InPlace
<1> DEFINE Before(i) == {d \in Nat : i + d < Len(members) => w[i] + members[i].size <= w[i + d + 1]}
<1>1. ASSUME NEW i \in 1 .. Len(members), NEW j \in 1 .. Len(members), i < j
      PROVE  w[i] + members[i].size <= w[j]
  <2>1. 0 \in Before(i)
    BY <1>0
  <2>2. ASSUME NEW d \in Nat, d \in Before(i) PROVE d + 1 \in Before(i)
    <3> SUFFICES ASSUME i + (d + 1) < Len(members) PROVE w[i] + members[i].size <= w[i + (d + 1) + 1]
      OBVIOUS
    <3> SUFFICES ASSUME NEW m, m = i + d + 1 PROVE w[i] + members[i].size <= w[i + (d + 1) + 1]
      OBVIOUS
    <3>1. /\ m \in 1 .. Len(members) /\ m + 1 \in 1 .. Len(members)
          /\ m < Len(members) /\ m + 1 = i + (d + 1) + 1
      BY <1>0
    <3>2. w[i] + members[i].size <= w[m]
      BY <2>2, <3>1
    <3>3. w[m] + members[m].size <= w[m + 1]
      BY <1>0, <3>1
    <3>4. /\ w[i] \in Nat /\ members[i].size \in Nat
          /\ w[m] \in Nat /\ members[m].size \in Nat /\ w[m + 1] \in Nat
      BY <1>0, <3>1
    <3>5. w[i] + members[i].size \in Nat
      BY <3>4
    <3>6. w[i] + members[i].size <= w[m + 1]
      <4> SUFFICES ASSUME NEW a \in Nat, a = w[i] + members[i].size,
                          NEW b \in Nat, b = w[m], NEW c \in Nat, c = w[m + 1]
                   PROVE  a <= c
        BY <3>4, <3>5
      <4>1. a <= b
        BY <3>2
      <4>2. b <= c
        BY <3>3, <3>4
      <4> QED
        BY <4>1, <4>2
    <3> QED
      BY <3>1, <3>6
  <2>3. Nat \subseteq Before(i)
    <3> HIDE DEF Before
    <3> QED
      BY <2>1, <2>2, SetInduction
  <2> SUFFICES ASSUME NEW d, d = j - i - 1 PROVE w[i] + members[i].size <= w[j]
    OBVIOUS
  <2>4. d \in Nat /\ i + d + 1 = j /\ i + d < Len(members)
    BY <1>0, <1>1
  <2>5. d \in Before(i)
    <3> HIDE DEF Before
    <3> QED
      BY <2>3, <2>4
  <2> QED
    BY <2>4, <2>5
<1>2. ASSUME NEW i \in 1 .. Len(members) PROVE w[i] + members[i].size <= length
  <2>1. /\ Len(members) \in 1 .. Len(members)
        /\ w[Len(members)] + members[Len(members)].size <= length
    BY <1>0 DEF Behind
  <2>2. CASE i < Len(members)
    <3>1. w[i] + members[i].size <= w[Len(members)]
      BY <1>1, <2>1, <2>2
    <3>2. /\ w[i] \in Nat /\ members[i].size \in Nat
          /\ w[Len(members)] \in Nat /\ members[Len(members)].size \in Nat
      BY <1>0, <2>1
    <3> QED
      BY <2>1, <3>1, <3>2
  <2>3. CASE i = Len(members)
    BY <2>1, <2>3
  <2> QED
    BY <1>0, <2>2, <2>3
<1> QED
  BY <1>0, <1>1, <1>2 DEF Fits

Starts(members) == Offsets(members, FALSE)

LEMMA StartsAre ==
    ASSUME NEW members, NEW w, Solves(members, FALSE, w), InPlace(members, w)
    PROVE  Starts(members) = w
<1>1. Len(members) \in Nat
  BY DEF InPlace
<1> QED
  BY <1>1, OffsetsAre DEF Starts

\* A structure is made of its members at their offsets.
LEMMA StructHolds ==
    ASSUME NEW members, NEW w, NEW length \in Nat, NEW big \in 1 .. Len(members),
           Solves(members, FALSE, w), InPlace(members, w),
           \A j \in 1 .. Len(members) : members[j].size <= members[big].size,
           length = Behind(members, w) + Gap(Behind(members, w), members[big].size),
           Gap(Behind(members, w), members[big].size) \in Nat
    PROVE  /\ Struct(members) \in Seq(AnyByte) /\ Len(Struct(members)) = length
           /\ \A i \in 1 .. Len(members) : Holds(Struct(members), w[i], members[i].field, members[i].size)
<1>1. Len(members) \in Nat /\ \A j \in 1 .. Len(members) : members[j].size \in Nat
  BY DEF InPlace
<1>2. Starts(members) = w
  BY <1>1, OffsetsAre DEF Starts
<1>3. Largest(members) = members[big].size
  BY <1>1, LargestIs
<1>4. Struct(members) = Lay(members, w, length)
  BY <1>2, <1>3 DEF Struct, Starts
<1>5. Behind(members, w) <= length
  BY DEF InPlace
<1>6. Fits(members, w, length)
  BY <1>5, InOrder
<1> QED
  BY <1>4, <1>6, LayHolds

LEMMA AppendedHolds ==
    ASSUME NEW members, NEW w, Solves(members, TRUE, w), InPlace(members, w)
    PROVE  /\ Appended(members) \in Seq(AnyByte) /\ Len(Appended(members)) = Behind(members, w)
           /\ \A i \in 1 .. Len(members) : Holds(Appended(members), w[i], members[i].field, members[i].size)
<1>1. Len(members) \in Nat /\ Behind(members, w) \in Nat /\ Behind(members, w) <= Behind(members, w)
  BY DEF InPlace
<1>2. Offsets(members, TRUE) = w
  BY <1>1, OffsetsAre
<1>3. Appended(members) = Lay(members, w, Behind(members, w))
  BY <1>2 DEF Appended
<1>4. Fits(members, w, Behind(members, w))
  BY <1>1, InOrder
<1> QED
  BY <1>3, <1>4, LayHolds

-----------------------------------------------------------------------------
(* The packets, member by member.                                          *)

LEMMA Struct_2 ==
    LET bytes == Struct(packet_2) IN
    /\ bytes \in Seq(AnyByte) /\ Len(bytes) = 8
    /\ Holds(bytes, 2, "res", 1) /\ Holds(bytes, 4, "client_id", 4)
    /\ Starts(packet_2)[2] = 2 /\ Starts(packet_2)[3] = 4
<1> DEFINE w == <<0, 2, 4>>
<1>1. /\ Len(packet_2) = 3
      /\ packet_2[1] = Member("type", 2) /\ packet_2[2] = Member("res", 1)
      /\ packet_2[3] = Member("client_id", 4)
  BY DEF packet_2
<1>2. Solves(packet_2, FALSE, w)
  BY Gaps DEF Solves, NextOffset, packet_2, Member
<1>3. w[1] = 0 /\ w[2] = 2 /\ w[3] = 4
  OBVIOUS
<1> HIDE DEF w
<1>4. \A i \in 1 .. Len(packet_2) : packet_2[i].field \in Field
  BY <1>1 DEF Member, Field
<1>5. Behind(packet_2, w) = 8
  BY <1>1, <1>3 DEF Behind, Member
<1>6. ASSUME NEW i \in 1 .. Len(packet_2)
      PROVE  /\ packet_2[i].size \in Nat /\ w[i] \in Nat
             /\ i < Len(packet_2) => w[i] + packet_2[i].size <= w[i + 1]
  BY <1>1, <1>3 DEF Member
<1>7. InPlace(packet_2, w)
  BY <1>1, <1>4, <1>5, <1>6 DEF InPlace
<1>8. 3 \in 1 .. Len(packet_2) /\ \A j \in 1 .. Len(packet_2) : packet_2[j].size <= packet_2[3].size
  BY <1>1 DEF Member
<1>9. /\ 8 = Behind(packet_2, w) + Gap(Behind(packet_2, w), packet_2[3].size)
      /\ Gap(Behind(packet_2, w), packet_2[3].size) \in Nat /\ 8 \in Nat
  BY <1>1, <1>5, Gaps DEF Member
<1>10. /\ Struct(packet_2) \in Seq(AnyByte) /\ Len(Struct(packet_2)) = 8
       /\ \A i \in 1 .. Len(packet_2) : Holds(Struct(packet_2), w[i], packet_2[i].field, packet_2[i].size)
  BY <1>2, <1>7, <1>8, <1>9, StructHolds
<1>11. /\ Holds(Struct(packet_2), 2, "res", 1)
       /\ Holds(Struct(packet_2), 4, "client_id", 4)
  BY <1>1, <1>3, <1>10 DEF Member
<1>12. Starts(packet_2) = w
  BY <1>2, <1>7, StartsAre
<1>13. Starts(packet_2)[2] = 2 /\ Starts(packet_2)[3] = 4
  BY <1>3, <1>12
<1> QED
  BY <1>10, <1>11, <1>13

LEMMA StructOfMac_2 ==
    LET bytes == Struct(Packet_2) IN
    /\ bytes \in Seq(AnyByte) /\ Len(bytes) = 12
    /\ Holds(bytes, 4, "client_id", 4)
    /\ Starts(Packet_2)[2] = 4
<1> DEFINE w == <<0, 4, 8>>
<1>1. /\ Len(Packet_2) = 3
      /\ Packet_2[1] = Member("type", 2) /\ Packet_2[2] = Member("client_id", 4)
      /\ Packet_2[3] = Member("res", 1)
  BY DEF Packet_2
<1>2. Solves(Packet_2, FALSE, w)
  BY Gaps DEF Solves, NextOffset, Packet_2, Member
<1>3. w[1] = 0 /\ w[2] = 4 /\ w[3] = 8
  OBVIOUS
<1> HIDE DEF w
<1>4. \A i \in 1 .. Len(Packet_2) : Packet_2[i].field \in Field
  BY <1>1 DEF Member, Field
<1>5. Behind(Packet_2, w) = 9
  BY <1>1, <1>3 DEF Behind, Member
<1>6. ASSUME NEW i \in 1 .. Len(Packet_2)
      PROVE  /\ Packet_2[i].size \in Nat /\ w[i] \in Nat
             /\ i < Len(Packet_2) => w[i] + Packet_2[i].size <= w[i + 1]
  BY <1>1, <1>3 DEF Member
<1>7. InPlace(Packet_2, w)
  BY <1>1, <1>4, <1>5, <1>6 DEF InPlace
<1>8. 2 \in 1 .. Len(Packet_2) /\ \A j \in 1 .. Len(Packet_2) : Packet_2[j].size <= Packet_2[2].size
  BY <1>1 DEF Member
<1>9. /\ 12 = Behind(Packet_2, w) + Gap(Behind(Packet_2, w), Packet_2[2].size)
      /\ Gap(Behind(Packet_2, w), Packet_2[2].size) \in Nat /\ 12 \in Nat
  BY <1>1, <1>5, Gaps DEF Member
<1>10. /\ Struct(Packet_2) \in Seq(AnyByte) /\ Len(Struct(Packet_2)) = 12
       /\ \A i \in 1 .. Len(Packet_2) : Holds(Struct(Packet_2), w[i], Packet_2[i].field, Packet_2[i].size)
  BY <1>2, <1>7, <1>8, <1>9, StructHolds
<1>11. /\ Holds(Struct(Packet_2), 4, "client_id", 4)
  BY <1>1, <1>3, <1>10 DEF Member
<1>12. Starts(Packet_2) = w
  BY <1>2, <1>7, StartsAre
<1>13. Starts(Packet_2)[2] = 4
  BY <1>3, <1>12
<1> QED
  BY <1>10, <1>11, <1>13

LEMMA Struct_3 ==
    LET bytes == Struct(packet_3) IN
    /\ bytes \in Seq(AnyByte) /\ Len(bytes) = 48
    /\ Holds(bytes, 4, "client_id", 4) /\ Holds(bytes, 8, "seq_num", 4)
    /\ Holds(bytes, 16, "time_client_send", 8) /\ Holds(bytes, 24, "time_server_recv", 8)
    /\ Holds(bytes, 32, "time_server_send", 8)
    /\ Starts(packet_3)[2] = 4 /\ Starts(packet_3)[3] = 8 /\ Starts(packet_3)[4] = 16
    /\ Starts(packet_3)[5] = 24 /\ Starts(packet_3)[6] = 32
<1> DEFINE w == <<0, 4, 8, 16, 24, 32, 40>>
<1>1. /\ Len(packet_3) = 7
      /\ packet_3[1] = Member("type", 2) /\ packet_3[2] = Member("client_id", 4)
      /\ packet_3[3] = Member("seq_num", 4) /\ packet_3[4] = Member("time_client_send", 8)
      /\ packet_3[5] = Member("time_server_recv", 8) /\ packet_3[6] = Member("time_server_send", 8)
      /\ packet_3[7] = Member("time_client_recv", 8)
  BY DEF packet_3
<1>2. Solves(packet_3, FALSE, w)
  BY Gaps DEF Solves, NextOffset, packet_3, Member
<1>3. w[1] = 0 /\ w[2] = 4 /\ w[3] = 8 /\ w[4] = 16 /\ w[5] = 24 /\ w[6] = 32 /\ w[7] = 40
  OBVIOUS
<1> HIDE DEF w
<1>4. \A i \in 1 .. Len(packet_3) : packet_3[i].field \in Field
  BY <1>1 DEF Member, Field
<1>5. Behind(packet_3, w) = 48
  BY <1>1, <1>3 DEF Behind, Member
<1>6. ASSUME NEW i \in 1 .. Len(packet_3)
      PROVE  /\ packet_3[i].size \in Nat /\ w[i] \in Nat
             /\ i < Len(packet_3) => w[i] + packet_3[i].size <= w[i + 1]
  BY <1>1, <1>3 DEF Member
<1>7. InPlace(packet_3, w)
  BY <1>1, <1>4, <1>5, <1>6 DEF InPlace
<1>8. 7 \in 1 .. Len(packet_3) /\ \A j \in 1 .. Len(packet_3) : packet_3[j].size <= packet_3[7].size
  BY <1>1 DEF Member
<1>9. /\ 48 = Behind(packet_3, w) + Gap(Behind(packet_3, w), packet_3[7].size)
      /\ Gap(Behind(packet_3, w), packet_3[7].size) \in Nat /\ 48 \in Nat
  BY <1>1, <1>5, Gaps DEF Member
<1>10. /\ Struct(packet_3) \in Seq(AnyByte) /\ Len(Struct(packet_3)) = 48
       /\ \A i \in 1 .. Len(packet_3) : Holds(Struct(packet_3), w[i], packet_3[i].field, packet_3[i].size)
  BY <1>2, <1>7, <1>8, <1>9, StructHolds
<1>11. /\ Holds(Struct(packet_3), 4, "client_id", 4)
       /\ Holds(Struct(packet_3), 8, "seq_num", 4)
       /\ Holds(Struct(packet_3), 16, "time_client_send", 8)
       /\ Holds(Struct(packet_3), 24, "time_server_recv", 8)
       /\ Holds(Struct(packet_3), 32, "time_server_send", 8)
  BY <1>1, <1>3, <1>10 DEF Member
<1>12. Starts(packet_3) = w
  BY <1>2, <1>7, StartsAre
<1>13. Starts(packet_3)[2] = 4 /\ Starts(packet_3)[3] = 8 /\ Starts(packet_3)[4] = 16 /\ Starts(packet_3)[5] = 24 /\ Starts(packet_3)[6] = 32
  BY <1>3, <1>12
<1> QED
  BY <1>10, <1>11, <1>13

LEMMA Struct_6 ==
    LET bytes == Struct(packet_6) IN
    /\ bytes \in Seq(AnyByte) /\ Len(bytes) = 24
    /\ Holds(bytes, 4, "client_id", 4) /\ Holds(bytes, 8, "seq_num", 4)
    /\ Holds(bytes, 16, "delay", 8)
    /\ Starts(packet_6)[2] = 4 /\ Starts(packet_6)[3] = 8 /\ Starts(packet_6)[4] = 16
<1> DEFINE w == <<0, 4, 8, 16>>
<1>1. /\ Len(packet_6) = 4
      /\ packet_6[1] = Member("type", 2) /\ packet_6[2] = Member("client_id", 4)
      /\ packet_6[3] = Member("seq_num", 4) /\ packet_6[4] = Member("delay", 8)
  BY DEF packet_6
<1>2. Solves(packet_6, FALSE, w)
  BY Gaps DEF Solves, NextOffset, packet_6, Member
<1>3. w[1] = 0 /\ w[2] = 4 /\ w[3] = 8 /\ w[4] = 16
  OBVIOUS
<1> HIDE DEF w
<1>4. \A i \in 1 .. Len(packet_6) : packet_6[i].field \in Field
  BY <1>1 DEF Member, Field
<1>5. Behind(packet_6, w) = 24
  BY <1>1, <1>3 DEF Behind, Member
<1>6. ASSUME NEW i \in 1 .. Len(packet_6)
      PROVE  /\ packet_6[i].size \in Nat /\ w[i] \in Nat
             /\ i < Len(packet_6) => w[i] + packet_6[i].size <= w[i + 1]
  BY <1>1, <1>3 DEF Member
<1>7. InPlace(packet_6, w)
  BY <1>1, <1>4, <1>5, <1>6 DEF InPlace
<1>8. 4 \in 1 .. Len(packet_6) /\ \A j \in 1 .. Len(packet_6) : packet_6[j].size <= packet_6[4].size
  BY <1>1 DEF Member
<1>9. /\ 24 = Behind(packet_6, w) + Gap(Behind(packet_6, w), packet_6[4].size)
      /\ Gap(Behind(packet_6, w), packet_6[4].size) \in Nat /\ 24 \in Nat
  BY <1>1, <1>5, Gaps DEF Member
<1>10. /\ Struct(packet_6) \in Seq(AnyByte) /\ Len(Struct(packet_6)) = 24
       /\ \A i \in 1 .. Len(packet_6) : Holds(Struct(packet_6), w[i], packet_6[i].field, packet_6[i].size)
  BY <1>2, <1>7, <1>8, <1>9, StructHolds
<1>11. /\ Holds(Struct(packet_6), 4, "client_id", 4)
       /\ Holds(Struct(packet_6), 8, "seq_num", 4)
       /\ Holds(Struct(packet_6), 16, "delay", 8)
  BY <1>1, <1>3, <1>10 DEF Member
<1>12. Starts(packet_6) = w
  BY <1>2, <1>7, StartsAre
<1>13. Starts(packet_6)[2] = 4 /\ Starts(packet_6)[3] = 8 /\ Starts(packet_6)[4] = 16
  BY <1>3, <1>12
<1> QED
  BY <1>10, <1>11, <1>13

LEMMA Ios_2 ==
    LET bytes == Appended(IosTypeFirst(Packet_2)) IN
    /\ bytes \in Seq(AnyByte) /\ Len(bytes) = 9
    /\ Holds(bytes, 4, "client_id", 4)
<1> DEFINE members == IosTypeFirst(Packet_2)
           w == <<0, 2, 4, 8>>
<1>1. /\ Len(members) = 4
      /\ members[1] = Member("type", 2) /\ members[2] = Member("padding", 2)
      /\ members[3] = Member("client_id", 4) /\ members[4] = Member("res", 1)
  BY DEF IosTypeFirst, IosPadding, Packet_2
<1> HIDE DEF members
<1>2. Solves(members, TRUE, w)
  BY <1>1 DEF Solves, NextOffset, Member
<1>3. w[1] = 0 /\ w[2] = 2 /\ w[3] = 4 /\ w[4] = 8
  OBVIOUS
<1> HIDE DEF w
<1>4. \A i \in 1 .. Len(members) : members[i].field \in Field
  BY <1>1 DEF Member, Field
<1>5. Behind(members, w) = 9
  BY <1>1, <1>3 DEF Behind, Member
<1>6. ASSUME NEW i \in 1 .. Len(members)
      PROVE  /\ members[i].size \in Nat /\ w[i] \in Nat
             /\ i < Len(members) => w[i] + members[i].size <= w[i + 1]
  BY <1>1, <1>3 DEF Member
<1>7. InPlace(members, w)
  BY <1>1, <1>4, <1>5, <1>6 DEF InPlace
<1>8. /\ Appended(members) \in Seq(AnyByte) /\ Len(Appended(members)) = Behind(members, w)
      /\ \A i \in 1 .. Len(members) : Holds(Appended(members), w[i], members[i].field, members[i].size)
  BY <1>2, <1>7, AppendedHolds
<1>9. /\ Appended(members) \in Seq(AnyByte) /\ Len(Appended(members)) = 9
      /\ Holds(Appended(members), 4, "client_id", 4)
  BY <1>1, <1>3, <1>5, <1>8 DEF Member
<1> QED
  BY <1>9 DEF members

LEMMA Ios_3 ==
    LET bytes == Appended(IosTypeFirst(packet_3)) IN
    /\ bytes \in Seq(AnyByte) /\ Len(bytes) = 44
    /\ Holds(bytes, 4, "client_id", 4) /\ Holds(bytes, 8, "seq_num", 4)
<1> DEFINE members == IosTypeFirst(packet_3)
           w == <<0, 2, 4, 8, 12, 20, 28, 36>>
<1>1. /\ Len(members) = 8
      /\ members[1] = Member("type", 2) /\ members[2] = Member("padding", 2)
      /\ members[3] = Member("client_id", 4) /\ members[4] = Member("seq_num", 4)
      /\ members[5] = Member("time_client_send", 8) /\ members[6] = Member("time_server_recv", 8)
      /\ members[7] = Member("time_server_send", 8) /\ members[8] = Member("time_client_recv", 8)
  BY DEF IosTypeFirst, IosPadding, packet_3
<1> HIDE DEF members
<1>2. Solves(members, TRUE, w)
  BY <1>1 DEF Solves, NextOffset, Member
<1>3. w[1] = 0 /\ w[2] = 2 /\ w[3] = 4 /\ w[4] = 8 /\ w[5] = 12 /\ w[6] = 20 /\ w[7] = 28 /\ w[8] = 36
  OBVIOUS
<1> HIDE DEF w
<1>4. \A i \in 1 .. Len(members) : members[i].field \in Field
  BY <1>1 DEF Member, Field
<1>5. Behind(members, w) = 44
  BY <1>1, <1>3 DEF Behind, Member
<1>6. ASSUME NEW i \in 1 .. Len(members)
      PROVE  /\ members[i].size \in Nat /\ w[i] \in Nat
             /\ i < Len(members) => w[i] + members[i].size <= w[i + 1]
  BY <1>1, <1>3 DEF Member
<1>7. InPlace(members, w)
  BY <1>1, <1>4, <1>5, <1>6 DEF InPlace
<1>8. /\ Appended(members) \in Seq(AnyByte) /\ Len(Appended(members)) = Behind(members, w)
      /\ \A i \in 1 .. Len(members) : Holds(Appended(members), w[i], members[i].field, members[i].size)
  BY <1>2, <1>7, AppendedHolds
<1>9. /\ Appended(members) \in Seq(AnyByte) /\ Len(Appended(members)) = 44
      /\ Holds(Appended(members), 4, "client_id", 4)
      /\ Holds(Appended(members), 8, "seq_num", 4)
  BY <1>1, <1>3, <1>5, <1>8 DEF Member
<1> QED
  BY <1>9 DEF members

LEMMA Ios_6 ==
    LET bytes == Appended(IosTypeFirst(packet_6)) IN
    /\ bytes \in Seq(AnyByte) /\ Len(bytes) = 20
    /\ Holds(bytes, 4, "client_id", 4) /\ Holds(bytes, 8, "seq_num", 4)
<1> DEFINE members == IosTypeFirst(packet_6)
           w == <<0, 2, 4, 8, 12>>
<1>1. /\ Len(members) = 5
      /\ members[1] = Member("type", 2) /\ members[2] = Member("padding", 2)
      /\ members[3] = Member("client_id", 4) /\ members[4] = Member("seq_num", 4)
      /\ members[5] = Member("delay", 8)
  BY DEF IosTypeFirst, IosPadding, packet_6
<1> HIDE DEF members
<1>2. Solves(members, TRUE, w)
  BY <1>1 DEF Solves, NextOffset, Member
<1>3. w[1] = 0 /\ w[2] = 2 /\ w[3] = 4 /\ w[4] = 8 /\ w[5] = 12
  OBVIOUS
<1> HIDE DEF w
<1>4. \A i \in 1 .. Len(members) : members[i].field \in Field
  BY <1>1 DEF Member, Field
<1>5. Behind(members, w) = 20
  BY <1>1, <1>3 DEF Behind, Member
<1>6. ASSUME NEW i \in 1 .. Len(members)
      PROVE  /\ members[i].size \in Nat /\ w[i] \in Nat
             /\ i < Len(members) => w[i] + members[i].size <= w[i + 1]
  BY <1>1, <1>3 DEF Member
<1>7. InPlace(members, w)
  BY <1>1, <1>4, <1>5, <1>6 DEF InPlace
<1>8. /\ Appended(members) \in Seq(AnyByte) /\ Len(Appended(members)) = Behind(members, w)
      /\ \A i \in 1 .. Len(members) : Holds(Appended(members), w[i], members[i].field, members[i].size)
  BY <1>2, <1>7, AppendedHolds
<1>9. /\ Appended(members) \in Seq(AnyByte) /\ Len(Appended(members)) = 20
      /\ Holds(Appended(members), 4, "client_id", 4)
      /\ Holds(Appended(members), 8, "seq_num", 4)
  BY <1>1, <1>3, <1>5, <1>8 DEF Member
<1> QED
  BY <1>9 DEF members

\* A packet 0: the name stands behind its length.
LEMMA Names ==
    ASSUME NEW n \in Nat
    PROVE  LET bytes == Appended(<<Member("type", 2), Member("name_len", 2), Member("name", n)>>) IN
           bytes \in Seq(AnyByte) /\ Len(bytes) = 4 + n /\ Holds(bytes, 2, "name_len", 2) /\ Holds(bytes, 4, "name", n)
<1> DEFINE members == <<Member("type", 2), Member("name_len", 2), Member("name", n)>>
           w == <<0, 2, 4>>
<1>1. /\ Len(members) = 3
      /\ members[1] = Member("type", 2) /\ members[2] = Member("name_len", 2) /\ members[3] = Member("name", n)
  OBVIOUS
<1> HIDE DEF members
<1>2. Solves(members, TRUE, w)
  BY <1>1 DEF Solves, NextOffset, Member
<1>3. w[1] = 0 /\ w[2] = 2 /\ w[3] = 4
  OBVIOUS
<1> HIDE DEF w
<1>4. \A i \in 1 .. Len(members) : members[i].field \in Field
  BY <1>1 DEF Member, Field
<1>5. Behind(members, w) = 4 + n
  BY <1>1, <1>3 DEF Behind, Member
<1>6. ASSUME NEW i \in 1 .. Len(members)
      PROVE  /\ members[i].size \in Nat /\ w[i] \in Nat
             /\ i < Len(members) => w[i] + members[i].size <= w[i + 1]
  BY <1>1, <1>3 DEF Member
<1>7. InPlace(members, w)
  BY <1>1, <1>4, <1>5, <1>6 DEF InPlace
<1>8. /\ Appended(members) \in Seq(AnyByte) /\ Len(Appended(members)) = Behind(members, w)
      /\ \A i \in 1 .. Len(members) : Holds(Appended(members), w[i], members[i].field, members[i].size)
  BY <1>2, <1>7, AppendedHolds
<1>9. /\ Appended(members) \in Seq(AnyByte) /\ Len(Appended(members)) = 4 + n
      /\ Holds(Appended(members), 2, "name_len", 2) /\ Holds(Appended(members), 4, "name", n)
  BY <1>1, <1>3, <1>5, <1>8 DEF Member
<1> QED
  BY <1>9 DEF members

-----------------------------------------------------------------------------
(* What is sent, and what is read of it.                                   *)

Carries(bytes, offset, f, n) == offset + n <= Len(bytes) /\ Holds(bytes, offset, f, n)

\* What the packets of the programs have in common.
Sent(p, k, n, bytes) ==
    /\ bytes \in Seq(AnyByte) /\ Len(bytes) <= BufferSize
    /\ k = 0 => /\ Len(bytes) = IF p = "ios" /\ n < 10 THEN 14 ELSE 4 + n
                /\ Carries(bytes, 2, "name_len", 2) /\ Carries(bytes, 4, "name", n)
    /\ k \in {2, 3} => Carries(bytes, 4, "client_id", 4)
    /\ k \in {3, 6} => Carries(bytes, 8, "seq_num", 4)
    /\ k = 3 /\ p # "ios" => Carries(bytes, 16, "time_client_send", 8)
    /\ k = 6 /\ p # "ios" => Carries(bytes, 16, "delay", 8)

LEMMA NameIsShort ==
    ASSUME NEW p \in Program, NEW n \in NameLengths(p)
    PROVE  n \in Nat /\ 4 + n <= BufferSize
<1>1. CASE p = "windows"
  BY <1>1, WireAssumption DEF NameLengths
<1>2. CASE p = "mac"
  BY <1>2, WireAssumption DEF NameLengths
<1>3. CASE p = "ios"
  BY <1>3, WireAssumption DEF NameLengths
<1> QED
  BY <1>1, <1>2, <1>3 DEF Program

LEMMA HelloSent ==
    ASSUME NEW p \in Program, NEW n \in NameLengths(p)
    PROVE  Sent(p, 0, n, Hello(p, n))
<1> DEFINE plain == Appended(<<Member("type", 2), Member("name_len", 2), Member("name", n)>>)
           filler == Pad(IF n < 10 THEN 10 - n ELSE 0)
<1>1. n \in Nat /\ 4 + n <= BufferSize
  BY NameIsShort
<1>2. /\ plain \in Seq(AnyByte) /\ Len(plain) = 4 + n
      /\ Holds(plain, 2, "name_len", 2) /\ Holds(plain, 4, "name", n)
  BY <1>1, Names
<1>3. CASE p # "ios"
  <2>1. Hello(p, n) = plain
    BY <1>3 DEF Hello
  <2> HIDE DEF plain
  <2> QED
    BY <1>1, <1>2, <1>3, <2>1 DEF Sent, Carries
<1>4. CASE p = "ios"
  <2>1. Hello(p, n) = plain \o filler
    BY <1>4 DEF Hello, IosHello
  <2>2. Padding \in AnyByte
    <3>1. 0 \in Nat /\ TRUE \in BOOLEAN /\ "padding" \in Field
      BY DEF Field
    <3> QED
      BY <3>1 DEF Padding, Byte, AnyByte
  <2>3. filler \in Seq(AnyByte) /\ Len(filler) = IF n < 10 THEN 10 - n ELSE 0
    <3>1. (IF n < 10 THEN 10 - n ELSE 0) \in Nat
      BY <1>1
    <3> QED
      BY <2>2, <3>1 DEF Pad
  <2> HIDE DEF plain, filler
  <2>4. /\ plain \o filler \in Seq(AnyByte)
        /\ Len(plain \o filler) = IF n < 10 THEN 14 ELSE 4 + n
    BY <1>1, <1>2, <2>3
  <2>5. Holds(plain \o filler, 2, "name_len", 2) /\ Holds(plain \o filler, 4, "name", n)
    BY <1>1, <1>2, <2>3 DEF Holds
  <2>6. /\ Len(plain \o filler) <= BufferSize
        /\ 4 + n <= Len(plain \o filler) /\ 2 + 2 <= Len(plain \o filler)
    BY <1>1, <2>4, WireAssumption
  <2>7. Carries(plain \o filler, 2, "name_len", 2) /\ Carries(plain \o filler, 4, "name", n)
    BY <2>5, <2>6 DEF Carries
  <2>8. Hello(p, n) \in Seq(AnyByte) /\ Len(Hello(p, n)) <= BufferSize
    BY <2>1, <2>4, <2>6
  <2>9. Len(Hello(p, n)) = IF p = "ios" /\ n < 10 THEN 14 ELSE 4 + n
    BY <1>4, <2>1, <2>4
  <2>10. Carries(Hello(p, n), 2, "name_len", 2) /\ Carries(Hello(p, n), 4, "name", n)
    BY <2>1, <2>7
  <2> QED
    BY <2>8, <2>9, <2>10 DEF Sent
<1> QED
  BY <1>3, <1>4

LEMMA DataSent ==
    ASSUME NEW p \in Program, NEW k \in {2, 3, 6}, NEW n
    PROVE  Sent(p, k, n, Data[p][k])
<1>1. CASE k = 2
  <2>1. CASE p = "ios"
    <3>1. Data[p][k] = Appended(IosTypeFirst(Packet_2))
      BY <1>1, <2>1 DEF Data, Program
    <3> QED
      BY <1>1, <2>1, <3>1, Ios_2, WireAssumption DEF Sent, Carries
  <2>2. CASE p = "windows"
    <3>1. Data[p][k] = Struct(packet_2)
      BY <1>1, <2>2 DEF Data, Program
    <3> QED
      BY <1>1, <2>2, <3>1, Struct_2, WireAssumption DEF Sent, Carries
  <2>3. CASE p = "mac"
    <3>1. Data[p][k] = Struct(Packet_2)
      BY <1>1, <2>3 DEF Data, Program
    <3> QED
      BY <1>1, <2>3, <3>1, StructOfMac_2, WireAssumption DEF Sent, Carries
  <2> QED
    BY <2>1, <2>2, <2>3 DEF Program
<1>2. CASE k = 3
  <2>1. CASE p = "ios"
    <3>1. Data[p][k] = Appended(IosTypeFirst(packet_3))
      BY <1>2, <2>1 DEF Data, Program
    <3> QED
      BY <1>2, <2>1, <3>1, Ios_3, WireAssumption DEF Sent, Carries
  <2>2. CASE p # "ios"
    <3>1. Data[p][k] = Struct(packet_3)
      BY <1>2, <2>2 DEF Data, Program
    <3> QED
      BY <1>2, <2>2, <3>1, Struct_3, WireAssumption DEF Sent, Carries
  <2> QED
    BY <2>1, <2>2 DEF Program
<1>3. CASE k = 6
  <2>1. CASE p = "ios"
    <3>1. Data[p][k] = Appended(IosTypeFirst(packet_6))
      BY <1>3, <2>1 DEF Data, Program
    <3> QED
      BY <1>3, <2>1, <3>1, Ios_6, WireAssumption DEF Sent, Carries
  <2>2. CASE p # "ios"
    <3>1. Data[p][k] = Struct(packet_6)
      BY <1>3, <2>2 DEF Data, Program
    <3> QED
      BY <1>3, <2>2, <3>1, Struct_6, WireAssumption DEF Sent, Carries
  <2> QED
    BY <2>1, <2>2 DEF Program
<1> QED
  BY <1>1, <1>2, <1>3

LEMMA EncodeSent ==
    ASSUME NEW p \in Program, NEW k \in Kind, NEW n \in NameLengths(p)
    PROVE  Sent(p, k, n, Encode(p, k, n))
  BY HelloSent, DataSent DEF Encode, Kind

\* Reading n bytes at an offset gives what stands there.
LEMMA HeldIsRead ==
    ASSUME NEW bytes \in Seq(AnyByte), NEW offset \in Nat, NEW f, NEW n \in Nat, Carries(bytes, offset, f, n)
    PROVE  Reads(bytes, offset, f, n)
<1> DEFINE part == SubSeq(bytes, offset + 1, offset + n)
<1>1. offset + n <= Len(bytes) /\ \A k \in 1 .. n : bytes[offset + k] = Byte(f, k)
  BY DEF Carries, Holds
<1>2. Len(part) = n /\ part = [k \in 1 .. n |-> bytes[offset + k]]
  BY <1>1
<1>3. part = Bytes(Member(f, n))
  BY <1>1, <1>2 DEF Bytes, Member
<1> QED
  BY <1>1, <1>3 DEF Reads

\* Where the reader's structures have the fields it uses.
LEMMA Places ==
    /\ OffsetIn(packet_2, "res") = 2 /\ SizeIn(packet_2, "res") = 1
    /\ OffsetIn(packet_2, "client_id") = 4 /\ SizeIn(packet_2, "client_id") = 4
    /\ OffsetIn(packet_3, "client_id") = 4 /\ SizeIn(packet_3, "client_id") = 4
    /\ OffsetIn(packet_3, "seq_num") = 8 /\ SizeIn(packet_3, "seq_num") = 4
    /\ OffsetIn(packet_3, "time_client_send") = 16 /\ SizeIn(packet_3, "time_client_send") = 8
    /\ OffsetIn(packet_3, "time_server_recv") = 24 /\ SizeIn(packet_3, "time_server_recv") = 8
    /\ OffsetIn(packet_3, "time_server_send") = 32 /\ SizeIn(packet_3, "time_server_send") = 8
    /\ OffsetIn(packet_6, "seq_num") = 8 /\ SizeIn(packet_6, "seq_num") = 4
    /\ OffsetIn(packet_6, "delay") = 16 /\ SizeIn(packet_6, "delay") = 8
<1>1. /\ Len(packet_2) = 3 /\ packet_2[1].field = "type" /\ packet_2[2].field = "res"
      /\ packet_2[3].field = "client_id" /\ packet_2[2].size = 1 /\ packet_2[3].size = 4
  BY DEF packet_2, Member
<1>2. Place(packet_2, "res") = 2 /\ Place(packet_2, "client_id") = 3
  BY <1>1 DEF Place
<1>3. /\ Len(packet_6) = 4 /\ packet_6[1].field = "type" /\ packet_6[2].field = "client_id"
      /\ packet_6[3].field = "seq_num" /\ packet_6[4].field = "delay"
      /\ packet_6[3].size = 4 /\ packet_6[4].size = 8
  BY DEF packet_6, Member
<1>4. Place(packet_6, "seq_num") = 3 /\ Place(packet_6, "delay") = 4
  BY <1>3 DEF Place
<1>5. /\ Len(packet_3) = 7 /\ packet_3[1].field = "type" /\ packet_3[2].field = "client_id"
      /\ packet_3[3].field = "seq_num" /\ packet_3[4].field = "time_client_send"
      /\ packet_3[5].field = "time_server_recv" /\ packet_3[6].field = "time_server_send"
      /\ packet_3[7].field = "time_client_recv"
      /\ packet_3[2].size = 4 /\ packet_3[3].size = 4 /\ packet_3[4].size = 8
      /\ packet_3[5].size = 8 /\ packet_3[6].size = 8
  BY DEF packet_3, Member
<1>6. Place(packet_3, "client_id") = 2 /\ Place(packet_3, "seq_num") = 3
  BY <1>5 DEF Place
<1>7. /\ Place(packet_3, "time_client_send") = 4 /\ Place(packet_3, "time_server_recv") = 5
      /\ Place(packet_3, "time_server_send") = 6
  BY <1>5 DEF Place
<1>8. \A f : /\ OffsetIn(packet_2, f) = Starts(packet_2)[Place(packet_2, f)]
             /\ OffsetIn(packet_3, f) = Starts(packet_3)[Place(packet_3, f)]
             /\ OffsetIn(packet_6, f) = Starts(packet_6)[Place(packet_6, f)]
  BY Zenon DEF OffsetIn, Starts
<1>9. /\ SizeIn(packet_2, "res") = 1 /\ SizeIn(packet_2, "client_id") = 4
      /\ SizeIn(packet_3, "client_id") = 4 /\ SizeIn(packet_3, "seq_num") = 4
      /\ SizeIn(packet_3, "time_client_send") = 8 /\ SizeIn(packet_3, "time_server_recv") = 8
      /\ SizeIn(packet_3, "time_server_send") = 8
      /\ SizeIn(packet_6, "seq_num") = 4 /\ SizeIn(packet_6, "delay") = 8
  BY <1>1, <1>2, <1>3, <1>4, <1>5, <1>6, <1>7 DEF SizeIn
<1>10. OffsetIn(packet_2, "res") = 2 /\ OffsetIn(packet_2, "client_id") = 4
  BY <1>2, <1>8, Struct_2
<1>11. OffsetIn(packet_6, "seq_num") = 8 /\ OffsetIn(packet_6, "delay") = 16
  BY <1>4, <1>8, Struct_6
<1>12. /\ OffsetIn(packet_3, "client_id") = 4 /\ OffsetIn(packet_3, "seq_num") = 8
       /\ OffsetIn(packet_3, "time_client_send") = 16 /\ OffsetIn(packet_3, "time_server_recv") = 24
       /\ OffsetIn(packet_3, "time_server_send") = 32
  BY <1>6, <1>7, <1>8, Struct_3
<1> QED
  BY <1>9, <1>10, <1>11, <1>12

-----------------------------------------------------------------------------
(* The receive buffer.                                                     *)

\* The front of the buffer is the last datagram, as it was sent.
Received ==
    /\ buf \in Seq(AnyByte) /\ Len(buf) = BufferSize
    /\ recv_len \in 0 .. BufferSize /\ sender \in Program \union {"nobody"} /\ packet \in Kind
    /\ sender \in Program =>
        /\ name_len \in NameLengths(sender)
        /\ recv_len = Len(Encode(sender, packet, name_len))
        /\ \A i \in 1 .. recv_len : buf[i] = Encode(sender, packet, name_len)[i]

LEMMA StaleBytes ==
    ASSUME NEW bytes \in Seq(AnyByte)
    PROVE  Stale(bytes) \in Seq(AnyByte) /\ Len(Stale(bytes)) = Len(bytes)
<1>1. ASSUME NEW i \in 1 .. Len(bytes) PROVE [bytes[i] EXCEPT !.fresh = FALSE] \in AnyByte
  <2>1. bytes[i] \in AnyByte /\ FALSE \in BOOLEAN
    OBVIOUS
  <2> QED
    BY <2>1 DEF AnyByte
<1> HIDE DEF AnyByte
<1> QED
  BY <1>1 DEF Stale

LEMMA Overlaid ==
    ASSUME NEW bytes \in Seq(AnyByte), Len(bytes) <= BufferSize, buf \in Seq(AnyByte), Len(buf) = BufferSize
    PROVE  /\ Overlay(bytes) \in Seq(AnyByte) /\ Len(Overlay(bytes)) = BufferSize
           /\ \A i \in 1 .. Len(bytes) : Overlay(bytes)[i] = bytes[i]
<1> DEFINE rest == SubSeq(buf, Len(bytes) + 1, BufferSize)
<1>1. BufferSize \in Nat /\ Len(bytes) \in Nat
  BY WireAssumption
<1>2. rest \in Seq(AnyByte) /\ Len(rest) = BufferSize - Len(bytes)
  BY <1>1
<1> HIDE DEF rest
<1>3. Stale(rest) \in Seq(AnyByte) /\ Len(Stale(rest)) = BufferSize - Len(bytes)
  BY <1>2, StaleBytes
<1>4. Overlay(bytes) = bytes \o Stale(rest)
  BY DEF Overlay, rest
<1>5. ASSUME NEW tail \in Seq(AnyByte), Len(tail) = BufferSize - Len(bytes)
      PROVE  /\ bytes \o tail \in Seq(AnyByte) /\ Len(bytes \o tail) = BufferSize
             /\ \A i \in 1 .. Len(bytes) : (bytes \o tail)[i] = bytes[i]
  BY <1>1, <1>5
<1> QED
  BY <1>3, <1>4, <1>5

LEMMA ReceivedInitially == Init => Received
<1> SUFFICES ASSUME Init PROVE Received
  OBVIOUS
<1>1. BufferSize \in Nat
  BY WireAssumption
<1>2. Padding \in AnyByte
  <2>1. 0 \in Nat /\ TRUE \in BOOLEAN /\ "padding" \in Field
    BY DEF Field
  <2> QED
    BY <2>1 DEF Padding, Byte, AnyByte
<1>3. Pad(BufferSize) \in Seq(AnyByte) /\ Len(Pad(BufferSize)) = BufferSize
  <2> HIDE DEF AnyByte
  <2> QED
    BY <1>1, <1>2 DEF Pad
<1>4. buf \in Seq(AnyByte) /\ Len(buf) = BufferSize
  BY <1>3, StaleBytes DEF Init
<1> QED
  BY <1>1, <1>4 DEF Init, Received, Program, Kind

LEMMA ReceivedKept == Received /\ [Next]_vars => Received'
<1> SUFFICES ASSUME Received, [Next]_vars PROVE Received'
  OBVIOUS
<1>1. CASE Next
  <2>1. PICK p \in Program, k \in Kind : \E n \in NameLengths(p) : Receive(p, k, n)
    BY <1>1 DEF Next
  <2>2. PICK n \in NameLengths(p) : Receive(p, k, n)
    BY <2>1
  <2> DEFINE bytes == Encode(p, k, n)
  <2>3. bytes \in Seq(AnyByte) /\ Len(bytes) <= BufferSize /\ Len(bytes) \in Nat
    <3>1. Sent(p, k, n, bytes)
      BY EncodeSent
    <3> QED
      BY <3>1 DEF Sent
  <2>4. /\ buf' = Overlay(bytes) /\ recv_len' = Len(bytes)
        /\ sender' = p /\ packet' = k /\ name_len' = n
    BY <2>2 DEF Receive
  <2>5. Encode(sender', packet', name_len') = bytes
    BY <2>4
  <2> HIDE DEF bytes
  <2>6. /\ buf' \in Seq(AnyByte) /\ Len(buf') = BufferSize
        /\ \A i \in 1 .. Len(bytes) : buf'[i] = bytes[i]
    BY <2>3, <2>4, Overlaid DEF Received
  <2>7. recv_len' \in 0 .. BufferSize
    BY <2>3, <2>4, WireAssumption
  <2> QED
    BY <2>4, <2>5, <2>6, <2>7 DEF Received
<1>2. CASE UNCHANGED vars
  BY <1>2 DEF vars, Received
<1> QED
  BY <1>1, <1>2

LEMMA AlwaysReceived == Spec => []Received
<1> QED
  BY ReceivedInitially, ReceivedKept, PTL DEF Spec

\* What the datagram carries is read out of the buffer.
LEMMA CarriedIsRead ==
    ASSUME Received, sender \in Program,
           NEW offset \in Nat, NEW f, NEW n \in Nat,
           Carries(Encode(sender, packet, name_len), offset, f, n)
    PROVE  Reads(buf, offset, f, n) /\ Carries(buf, offset, f, n)
<1> DEFINE bytes == Encode(sender, packet, name_len)
<1>1. /\ buf \in Seq(AnyByte) /\ Len(buf) = BufferSize /\ Len(bytes) \in 0 .. BufferSize
      /\ \A i \in 1 .. Len(bytes) : buf[i] = bytes[i]
  BY DEF Received
<1> HIDE DEF bytes
<1>2. offset + n <= Len(bytes) /\ \A k \in 1 .. n : bytes[offset + k] = Byte(f, k)
  BY DEF Carries, Holds, bytes
<1>3. ASSUME NEW k \in 1 .. n PROVE buf[offset + k] = Byte(f, k)
  <2> SUFFICES ASSUME NEW m, m = offset + k PROVE buf[m] = Byte(f, k)
    OBVIOUS
  <2>1. m \in 1 .. Len(bytes) /\ bytes[m] = Byte(f, k)
    BY <1>1, <1>2
  <2> QED
    BY <1>1, <2>1
<1>4. offset + n <= BufferSize
  BY <1>1, <1>2, WireAssumption
<1>5. Carries(buf, offset, f, n)
  BY <1>1, <1>3, <1>4 DEF Carries, Holds
<1> QED
  BY <1>1, <1>5, HeldIsRead

LEMMA HelloRead == Received => HelloIsRead
<1> SUFFICES ASSUME Received, sender \in Program, packet = 0, NEW len \in NameLenRead
             PROVE  /\ sender # "ios" => Accepts(len)
                    /\ Accepts(len) => Reads(buf, 4, "name", len)
  BY DEF HelloIsRead
<1> DEFINE bytes == Encode(sender, packet, name_len)
<1>1. name_len \in NameLengths(sender) /\ recv_len = Len(bytes) /\ packet \in Kind
  BY DEF Received
<1>2. name_len \in Nat
  BY <1>1, NameIsShort
<1>3. Sent(sender, 0, name_len, bytes)
  BY <1>1, EncodeSent
<1>4. /\ recv_len = IF sender = "ios" /\ name_len < 10 THEN 14 ELSE 4 + name_len
      /\ Carries(bytes, 2, "name_len", 2) /\ Carries(bytes, 4, "name", name_len)
  BY <1>1, <1>3 DEF Sent
<1> HIDE DEF bytes
<1>5. Reads(buf, 2, "name_len", 2) /\ Reads(buf, 4, "name", name_len)
  BY <1>2, <1>4, CarriedIsRead DEF bytes
<1>6. len = name_len
  BY <1>5 DEF NameLenRead
<1> QED
  BY <1>2, <1>4, <1>5, <1>6 DEF Accepts

LEMMA FieldsRead ==
    ASSUME Received, sender \in Program, packet # 0, NEW f \in UsedMembers(packet),
           sender # "ios" \/ f \in {"client_id", "seq_num"}
    PROVE  ReadsMember(buf, ServerStruct(packet), f)
<1> DEFINE bytes == Encode(sender, packet, name_len)
<1>1. packet \in Kind /\ name_len \in NameLengths(sender)
  BY DEF Received
<1>2. Sent(sender, packet, name_len, bytes)
  BY <1>1, EncodeSent
<1>3. ASSUME NEW offset \in Nat, NEW n \in Nat, Carries(bytes, offset, f, n),
             OffsetIn(ServerStruct(packet), f) = offset, SizeIn(ServerStruct(packet), f) = n
      PROVE  ReadsMember(buf, ServerStruct(packet), f)
  BY <1>3, CarriedIsRead DEF ReadsMember
<1> HIDE DEF bytes
<1>4. CASE packet = 2
  <2>1. f = "client_id" /\ ServerStruct(packet) = packet_2
    BY <1>4 DEF UsedMembers, ServerStruct
  <2>2. Carries(bytes, 4, f, 4)
    BY <1>2, <1>4, <2>1 DEF Sent
  <2> QED
    BY <1>3, <2>1, <2>2, Places
<1>5. CASE packet = 3
  <2>1. /\ f \in {"client_id", "seq_num", "time_client_send"} /\ ServerStruct(packet) = packet_3
        /\ sender = "ios" => f # "time_client_send"
    BY <1>5 DEF UsedMembers, ServerStruct
  <2>2. /\ Carries(bytes, 4, "client_id", 4) /\ Carries(bytes, 8, "seq_num", 4)
        /\ sender # "ios" => Carries(bytes, 16, "time_client_send", 8)
    BY <1>2, <1>5 DEF Sent
  <2>3. CASE f = "client_id"
    BY <1>3, <2>1, <2>2, <2>3, Places
  <2>4. CASE f = "seq_num"
    BY <1>3, <2>1, <2>2, <2>4, Places
  <2>5. CASE f = "time_client_send"
    BY <1>3, <2>1, <2>2, <2>5, Places
  <2> QED
    BY <2>1, <2>3, <2>4, <2>5
<1>6. CASE packet = 6
  <2>1. /\ f \in {"seq_num", "delay"} /\ ServerStruct(packet) = packet_6
        /\ sender = "ios" => f # "delay"
    BY <1>6 DEF UsedMembers, ServerStruct
  <2>2. /\ Carries(bytes, 8, "seq_num", 4)
        /\ sender # "ios" => Carries(bytes, 16, "delay", 8)
    BY <1>2, <1>6 DEF Sent
  <2>3. CASE f = "seq_num"
    BY <1>3, <2>1, <2>2, <2>3, Places
  <2>4. CASE f = "delay"
    BY <1>3, <2>1, <2>2, <2>4, Places
  <2> QED
    BY <2>1, <2>3, <2>4
<1> QED
  BY <1>1, <1>4, <1>5, <1>6 DEF Kind

\* For every size of the receive buffer, every index of a Windows session and
\* every name of an iOS client: whatever the slot held before, the server reads
\* what the last datagram carried, and accepts the hellos of the Windows and macOS
\* clients.
THEOREM BufferReadsWhatWasSent == Spec => []ServerReadsWhatWasSent
<1>1. Received => ServerReadsWhatWasSent
  BY HelloRead, FieldsRead DEF ServerReadsWhatWasSent, TypeOK, Received
<1> QED
  BY AlwaysReceived, <1>1, PTL

-----------------------------------------------------------------------------
(* The answers.                                                            *)

LEMMA AnswerRead ==
    ASSUME NEW p \in Program, NEW f \in {"res", "client_id"}
    PROVE  ClientReads(p, Struct(packet_1), packet_1, f)
<1>1. packet_1 = packet_2
  BY DEF packet_1, packet_2
<1>2. Reads(Struct(packet_2), 2, "res", 1)
  <2>1. Carries(Struct(packet_2), 2, "res", 1)
    BY Struct_2 DEF Carries
  <2> QED
    BY <2>1, Struct_2, HeldIsRead
<1>3. Reads(Struct(packet_2), 4, "client_id", 4)
  <2>1. Carries(Struct(packet_2), 4, "client_id", 4)
    BY Struct_2 DEF Carries
  <2> QED
    BY <2>1, Struct_2, HeldIsRead
<1>4. CASE f = "res"
  <2>1. IosOffset(f) = 2 /\ OffsetIn(packet_2, f) = 2 /\ SizeIn(packet_2, f) = 1
    BY <1>4, Places DEF IosOffset
  <2> QED
    BY <1>1, <1>2, <1>4, <2>1 DEF ClientReads, ReadsMember
<1>5. CASE f = "client_id"
  <2>1. IosOffset(f) = 4 /\ OffsetIn(packet_2, f) = 4 /\ SizeIn(packet_2, f) = 4
    BY <1>5, Places DEF IosOffset
  <2> QED
    BY <1>1, <1>3, <1>5, <2>1 DEF ClientReads, ReadsMember
<1> QED
  BY <1>4, <1>5

\* The fields of an echo that the server assigns.
LEMMA EchoCarries ==
    ASSUME Received
    PROVE  /\ Echo \in Seq(AnyByte) /\ Len(Echo) = 48
           /\ Holds(Echo, 8, "seq_num", 4) /\ Holds(Echo, 24, "time_server_recv", 8)
           /\ Holds(Echo, 32, "time_server_send", 8)
           /\ \A k \in 1 .. 8 : Echo[16 + k] = buf[16 + k]
<1>1. /\ NewPacket_3 \in Seq(AnyByte) /\ Len(NewPacket_3) = 48
      /\ Holds(NewPacket_3, 8, "seq_num", 4) /\ Holds(NewPacket_3, 24, "time_server_recv", 8)
      /\ Holds(NewPacket_3, 32, "time_server_send", 8)
  BY Struct_3 DEF NewPacket_3
<1> DEFINE new == NewPacket_3
           Assigned(i) == IF i \in 17 .. 24 THEN buf[i]
                          ELSE IF new[i].field = "client_id" THEN Padding ELSE new[i]
<1>2. Echo = [i \in 1 .. 48 |-> Assigned(i)]
  <2>1. /\ OffsetIn(packet_3, "time_client_send") = 16
        /\ 16 + 1 = 17 /\ 16 + 8 = 24 /\ Len(NewPacket_3) = 48
    BY <1>1, Places
  <2> QED
    BY <2>1, Zenon DEF Echo
<1>3. buf \in Seq(AnyByte) /\ Len(buf) >= 48 /\ Len(buf) \in Nat
  BY WireAssumption DEF Received
<1>4. Padding \in AnyByte
  <2>1. 0 \in Nat /\ TRUE \in BOOLEAN /\ "padding" \in Field
    BY DEF Field
  <2> QED
    BY <2>1 DEF Padding, Byte, AnyByte
<1>5. ASSUME NEW i \in 1 .. 48 PROVE Assigned(i) \in AnyByte
  <2>1. NewPacket_3[i] \in AnyByte
    <3>1. NewPacket_3 \in Seq(AnyByte) /\ Len(NewPacket_3) >= 48 /\ Len(NewPacket_3) \in Nat
      BY <1>1
    <3> QED
      BY <3>1
  <2>2. buf[i] \in AnyByte
    BY <1>3
  <2> QED
    BY <1>4, <2>1, <2>2
<1>6. Echo \in Seq(AnyByte) /\ Len(Echo) = 48
  <2> HIDE DEF Assigned
  <2> QED
    BY <1>2, <1>5
<1>7. ASSUME NEW offset \in {8, 24, 32}, NEW f \in {"seq_num", "time_server_recv", "time_server_send"},
             NEW n \in 1 .. 8, offset = 8 => n = 4, Holds(NewPacket_3, offset, f, n)
      PROVE  Holds(Echo, offset, f, n)
  <2> SUFFICES ASSUME NEW k \in 1 .. n, NEW m, m = offset + k PROVE Echo[m] = Byte(f, k)
    BY DEF Holds
  <2>1. m \in 1 .. 48 /\ ~(m \in 17 .. 24)
    BY <1>7
  <2>2. NewPacket_3[m] = Byte(f, k)
    BY <1>7 DEF Holds
  <2>3. NewPacket_3[m].field # "client_id"
    BY <2>2 DEF Byte
  <2>4. Echo[m] = NewPacket_3[m]
    BY <1>2, <2>1, <2>3
  <2> QED
    BY <2>2, <2>4
<1>8. /\ Holds(Echo, 8, "seq_num", 4) /\ Holds(Echo, 24, "time_server_recv", 8)
      /\ Holds(Echo, 32, "time_server_send", 8)
  BY <1>1, <1>7
<1>9. \A k \in 1 .. 8 : Echo[16 + k] = buf[16 + k]
  <2> SUFFICES ASSUME NEW k \in 1 .. 8, NEW m, m = 16 + k PROVE Echo[m] = buf[m]
    OBVIOUS
  <2>1. m \in 1 .. 48 /\ m \in 17 .. 24
    OBVIOUS
  <2> QED
    BY <1>2, <2>1
<1> QED
  BY <1>6, <1>8, <1>9

LEMMA EchoRead ==
    ASSUME Received, NEW p \in Program, sender = p, packet = 3,
           NEW f \in {"seq_num", "time_server_recv", "time_server_send"}
                      \union (IF p = "ios" THEN {} ELSE {"time_client_send"})
    PROVE  ClientReads(p, Echo, packet_3, f)
<1>0. /\ Echo \in Seq(AnyByte) /\ Len(Echo) = 48
      /\ Holds(Echo, 8, "seq_num", 4) /\ Holds(Echo, 24, "time_server_recv", 8)
      /\ Holds(Echo, 32, "time_server_send", 8)
      /\ \A k \in 1 .. 8 : Echo[16 + k] = buf[16 + k]
  BY EchoCarries, Zenon
<1>1. name_len \in NameLengths(p) /\ Sent(p, 3, name_len, Encode(p, 3, name_len))
  BY EncodeSent DEF Received, Kind
<1>2. Reads(Echo, 8, "seq_num", 4)
  <2>1. Carries(Echo, 8, "seq_num", 4)
    BY <1>0 DEF Carries
  <2> QED
    BY <1>0, <2>1, HeldIsRead
<1>3. Reads(Echo, 24, "time_server_recv", 8)
  <2>1. Carries(Echo, 24, "time_server_recv", 8)
    BY <1>0 DEF Carries
  <2> QED
    BY <1>0, <2>1, HeldIsRead
<1>4. Reads(Echo, 32, "time_server_send", 8)
  <2>1. Carries(Echo, 32, "time_server_send", 8)
    BY <1>0 DEF Carries
  <2> QED
    BY <1>0, <2>1, HeldIsRead
<1>5. p # "ios" => Reads(Echo, 16, "time_client_send", 8)
  <2> SUFFICES ASSUME p # "ios" PROVE Reads(Echo, 16, "time_client_send", 8)
    OBVIOUS
  <2>1. Carries(Encode(p, 3, name_len), 16, "time_client_send", 8)
    BY <1>1 DEF Sent
  <2>2. Holds(buf, 16, "time_client_send", 8)
    BY <2>1, CarriedIsRead DEF Carries
  <2>3. Holds(Echo, 16, "time_client_send", 8)
    BY <1>0, <2>2 DEF Holds
  <2>4. Carries(Echo, 16, "time_client_send", 8)
    BY <1>0, <2>3 DEF Carries
  <2> QED
    BY <1>0, <2>4, HeldIsRead
<1>6. CASE f = "seq_num"
  <2>1. IosOffset(f) = 8 /\ OffsetIn(packet_3, f) = 8 /\ SizeIn(packet_3, f) = 4
    BY <1>6, Places DEF IosOffset
  <2> QED
    BY <1>2, <1>6, <2>1 DEF ClientReads, ReadsMember
<1>7. CASE f = "time_server_recv"
  <2>1. IosOffset(f) = 24 /\ OffsetIn(packet_3, f) = 24 /\ SizeIn(packet_3, f) = 8
    BY <1>7, Places DEF IosOffset
  <2> QED
    BY <1>3, <1>7, <2>1 DEF ClientReads, ReadsMember
<1>8. CASE f = "time_server_send"
  <2>1. IosOffset(f) = 32 /\ OffsetIn(packet_3, f) = 32 /\ SizeIn(packet_3, f) = 8
    BY <1>8, Places DEF IosOffset
  <2> QED
    BY <1>4, <1>8, <2>1 DEF ClientReads, ReadsMember
<1>9. CASE f = "time_client_send" /\ p # "ios"
  <2>1. OffsetIn(packet_3, f) = 16 /\ SizeIn(packet_3, f) = 8
    BY <1>9, Places
  <2> QED
    BY <1>5, <1>9, <2>1 DEF ClientReads, ReadsMember
<1> QED
  BY <1>6, <1>7, <1>8, <1>9

\* For every size of the receive buffer and every name: each client reads out
\* of the answers of the server what the server put in, and the clients that
\* send structures their own sending time.
THEOREM AnswersAreRead == Spec => []ClientsReadAnswers
<1>1. Received => ClientsReadAnswers
  BY AnswerRead, EchoRead DEF ClientsReadAnswers
<1> QED
  BY AlwaysReceived, <1>1, PTL

-----------------------------------------------------------------------------
(* get_binded_socks(), for every machine and every max_count.              *)

Entry == [sock: Nat, place: Nat \X Nat]

LEMMA Machine ==
    ASSUME NEW m \in Machines
    PROVE  m \in Seq(Adapter) /\ \A i \in 1 .. Len(m) : m[i].unicast \in Seq(Address)
<1>1. m \in Seq(Adapter)
  BY BindAssumption
<1>2. ASSUME NEW i \in 1 .. Len(m) PROVE m[i].unicast \in Seq(Address)
  <2>1. m[i] \in Adapter
    BY <1>1
  <2> QED
    BY <2>1 DEF Adapter
<1> QED
  BY <1>1, <1>2

LEMMA AppendedEntry ==
    ASSUME NEW s \in Seq(Entry), NEW e \in Entry
    PROVE  /\ Append(s, e) \in Seq(Entry)
           /\ Len(Append(s, e)) = Len(s) + 1 /\ Len(s) \in Nat
           /\ \A n \in 1 .. Len(s) : Append(s, e)[n] = s[n]
           /\ Append(s, e)[Len(s) + 1] = e
OBVIOUS

LEMMA EntryType ==
    ASSUME NEW s \in Seq(Entry)
    PROVE  \A n \in 1 .. Len(s) : s[n] \in Entry /\ s[n].sock \in Nat /\ s[n].place \in Nat \X Nat
<1>1. \A n \in 1 .. Len(s) : s[n] \in Entry
  OBVIOUS
<1> QED
  BY <1>1 DEF Entry

LEMMA TypedAtFirst == BindInit => BindTypeOK
  BY BindAssumption DEF BindInit, BindTypeOK

LEMMA TypedKept == BindTypeOK /\ [BindNext]_bind_vars => BindTypeOK'
<1> USE DEF Entry
<1>1. SUFFICES ASSUME BindTypeOK, [BindNext]_bind_vars PROVE BindTypeOK'
  OBVIOUS
<1>2. adapters \in Seq(Adapter) /\ Len(adapters) \in Nat
  BY <1>1, Machine DEF BindTypeOK
<1>3. CASE Query \/ QueryFails \/ Return
  BY <1>1, <1>2, <1>3 DEF BindTypeOK, Query, QueryFails, Return
<1>4. CASE SkipAdapter
  BY <1>1, <1>2, <1>4 DEF BindTypeOK, SkipAdapter
<1>5. CASE EnterAdapter
  BY <1>1, <1>2, <1>5 DEF BindTypeOK, EnterAdapter
<1>6. CASE LeaveAdapter
  BY <1>1, <1>2, <1>6 DEF BindTypeOK, LeaveAdapter
<1>7. CASE SkipAddress
  BY <1>1, <1>7 DEF BindTypeOK, SkipAddress
<1>8. CASE SocketFails
  BY <1>1, <1>8 DEF BindTypeOK, SocketFails
<1>9. CASE MakeSocket
  BY <1>1, <1>9 DEF BindTypeOK, MakeSocket
<1>10. CASE BindFails
  BY <1>1, <1>10 DEF BindTypeOK, BindFails
<1>11. CASE Bind
  <2>1. [sock |-> made, place |-> <<adapter, unicast>>] \in Entry /\ socks \in Seq(Entry)
    BY <1>1 DEF BindTypeOK
  <2>2. socks' \in Seq(Entry)
    BY <1>11, <2>1, AppendedEntry DEF Bind
  <2> QED
    BY <1>1, <1>11, <2>2 DEF BindTypeOK, Bind
<1>12. CASE UNCHANGED bind_vars
  BY <1>1, <1>12 DEF BindTypeOK, bind_vars
<1> QED
  BY <1>1, <1>3, <1>4, <1>5, <1>6, <1>7, <1>8, <1>9, <1>10, <1>11, <1>12 DEF BindNext

\* Every variable of get_binded_socks() keeps its type.
THEOREM SocketsTyped == BindSpec => []BindTypeOK
  BY TypedAtFirst, TypedKept, PTL DEF BindSpec

-----------------------------------------------------------------------------
(* Sockets.                                                                *)

Result == {socks[n].sock : n \in 1 .. Len(socks)}

\* The open sockets are those of the result and the one that is being bound,
\* which is newer than all of them.
SocketInv ==
    /\ open = Result \union (IF at = "bind" THEN {made} ELSE {})
    /\ \A n \in 1 .. Len(socks) : socks[n].sock <= made /\ (at = "bind" => socks[n].sock < made)
    /\ at = "bind" => made > 0

\* Places of the result come before the place the loops are at.
Passed(p) ==
    CASE at \in {"unicast", "bind"} -> p[1] < adapter \/ (p[1] = adapter /\ p[2] < unicast)
      [] at \in {"query", "adapter"} -> p[1] < adapter
      [] OTHER -> TRUE

PlaceInv == (\A n \in 1 .. Len(socks) : Passed(socks[n].place)) /\ SocketsDistinct

CountInv ==
    /\ CountRespected
    /\ at \in {"query", "adapter", "unicast", "bind"} => Len(socks) = 0 \/ Len(socks) < max_count

LEMMA CountInductive == BindTypeOK /\ CountInv /\ [BindNext]_bind_vars => CountInv'
<1>1. SUFFICES ASSUME BindTypeOK, CountInv, [BindNext]_bind_vars PROVE CountInv'
  OBVIOUS
<1>2. socks \in Seq(Entry) /\ max_count \in Nat /\ Len(socks) \in Nat
  BY <1>1, BindAssumption DEF BindTypeOK, Entry
<1>3. CASE Bind
  <2>1. [sock |-> made, place |-> <<adapter, unicast>>] \in Entry
    BY <1>1 DEF BindTypeOK, Entry
  <2>2. Len(socks') = Len(socks) + 1
    BY <1>2, <1>3, <2>1, AppendedEntry DEF Bind
  <2> QED
    BY <1>1, <1>2, <1>3, <2>2 DEF Bind, CountInv, CountRespected
<1>4. CASE ~Bind
  <2>1. socks' = socks /\ max_count' = max_count
    BY <1>1, <1>4
    DEF BindNext, Query, QueryFails, SkipAdapter, EnterAdapter, LeaveAdapter, SkipAddress, SocketFails,
        MakeSocket, BindFails, Return, bind_vars
  <2>2. at' \in {"query", "adapter", "unicast", "bind"} => at \in {"query", "adapter", "unicast", "bind"}
    BY <1>1, <1>4
    DEF BindNext, Query, QueryFails, SkipAdapter, EnterAdapter, LeaveAdapter, SkipAddress, SocketFails,
        MakeSocket, BindFails, Return, bind_vars
  <2> QED
    BY <1>1, <2>1, <2>2 DEF CountInv, CountRespected
<1> QED
  BY <1>3, <1>4

\* The result never has more than max_count sockets, or one if max_count is 0.
THEOREM CountIsRespected == BindSpec => []CountRespected
<1>1. BindInit => CountInv
  BY BindAssumption DEF BindInit, CountInv, CountRespected
<1>2. CountInv => CountRespected
  BY DEF CountInv
<1> QED
  BY <1>1, <1>2, CountInductive, SocketsTyped, PTL DEF BindSpec

LEMMA SocketInductive == BindTypeOK /\ SocketInv /\ [BindNext]_bind_vars => SocketInv'
<1>1. SUFFICES ASSUME BindTypeOK, SocketInv, [BindNext]_bind_vars PROVE SocketInv'
  OBVIOUS
<1>2. socks \in Seq(Entry) /\ made \in Nat /\ Len(socks) \in Nat
  BY <1>1 DEF BindTypeOK, Entry
<1>3. CASE Query \/ QueryFails \/ SkipAdapter \/ EnterAdapter \/ LeaveAdapter \/ SkipAddress \/ SocketFails
           \/ Return \/ UNCHANGED bind_vars
  <2>1. socks' = socks /\ made' = made /\ open' = open /\ (at' = "bind" <=> at = "bind")
    BY <1>3
    DEF Query, QueryFails, SkipAdapter, EnterAdapter, LeaveAdapter, SkipAddress, SocketFails, Return, bind_vars
  <2> QED
    BY <1>1, <2>1 DEF SocketInv, Result
<1>4. CASE MakeSocket
  <2>1. socks' = socks /\ made' = made + 1 /\ open' = open \union {made + 1} /\ at' = "bind" /\ at # "bind"
    BY <1>4 DEF MakeSocket
  <2>2. \A n \in 1 .. Len(socks) : socks[n].sock \in Nat /\ socks[n].sock <= made
    BY <1>1, <1>2, EntryType DEF SocketInv
  <2>3. \A n \in 1 .. Len(socks) : socks[n].sock <= made + 1 /\ socks[n].sock < made + 1
    BY <1>2, <2>2
  <2>4. open = Result
    BY <1>1, <2>1 DEF SocketInv
  <2> QED
    BY <1>2, <2>1, <2>3, <2>4 DEF SocketInv, Result
<1>5. CASE BindFails
  <2>1. socks' = socks /\ made' = made /\ open' = open \ {made} /\ at' = "unicast" /\ at = "bind"
    BY <1>5 DEF BindFails
  <2>2. \A n \in 1 .. Len(socks) : socks[n].sock \in Nat /\ socks[n].sock < made /\ socks[n].sock <= made
    BY <1>1, <1>2, <2>1, EntryType DEF SocketInv
  <2>3. made \notin Result
    BY <1>2, <2>2 DEF Result
  <2>4. open = Result \union {made}
    BY <1>1, <2>1 DEF SocketInv
  <2>5. open' = Result'
    BY <2>1, <2>3, <2>4 DEF Result
  <2> QED
    BY <2>1, <2>2, <2>5 DEF SocketInv
<1>6. CASE Bind
  <2> DEFINE e == [sock |-> made, place |-> <<adapter, unicast>>]
  <2>1. socks' = Append(socks, e) /\ made' = made /\ open' = open /\ at = "bind" /\ at' # "bind"
    BY <1>6 DEF Bind
  <2>2. e \in Entry /\ e.sock = made
    BY <1>1 DEF BindTypeOK, Entry
  <2> HIDE DEF e
  <2>3. /\ Len(socks') = Len(socks) + 1
        /\ \A n \in 1 .. Len(socks) : socks'[n] = socks[n]
        /\ socks'[Len(socks) + 1] = e
    BY <1>2, <2>1, <2>2, AppendedEntry
  <2>4. \A n \in 1 .. Len(socks') : n \in 1 .. Len(socks) \/ n = Len(socks) + 1
    BY <1>2, <2>3
  <2>5. 1 .. Len(socks) \subseteq 1 .. Len(socks') /\ Len(socks) + 1 \in 1 .. Len(socks')
    BY <1>2, <2>3
  <2>6. Result' = Result \union {made}
    BY <2>2, <2>3, <2>4, <2>5 DEF Result
  <2>7. open = Result \union {made} /\ \A n \in 1 .. Len(socks) : socks[n].sock <= made
    BY <1>1, <2>1 DEF SocketInv
  <2>8. \A n \in 1 .. Len(socks') : socks'[n].sock <= made
    BY <1>2, <2>2, <2>3, <2>4, <2>7
  <2> QED
    BY <2>1, <2>6, <2>7, <2>8 DEF SocketInv
<1> QED
  BY <1>1, <1>3, <1>4, <1>5, <1>6 DEF BindNext

\* Whatever calls fail, no socket stays open that the result does not have.
THEOREM NothingLeaks == BindSpec => []NoSocketLeaks
<1>1. BindInit => SocketInv
  BY DEF BindInit, SocketInv, Result
<1>2. SocketInv => NoSocketLeaks
  BY DEF SocketInv, NoSocketLeaks, Result
<1> QED
  BY <1>1, <1>2, SocketInductive, SocketsTyped, PTL DEF BindSpec

LEMMA PlaceInductive == BindTypeOK /\ SocketInv /\ PlaceInv /\ [BindNext]_bind_vars => PlaceInv'
<1>1. SUFFICES ASSUME BindTypeOK, SocketInv, PlaceInv, [BindNext]_bind_vars PROVE PlaceInv'
  OBVIOUS
<1>2. /\ socks \in Seq(Entry) /\ made \in Nat /\ Len(socks) \in Nat
      /\ adapter \in Nat /\ unicast \in Nat
      /\ \A n \in 1 .. Len(socks) : socks[n].sock \in Nat /\ socks[n].place \in Nat \X Nat
  <2>1. socks \in Seq(Entry)
    BY <1>1 DEF BindTypeOK, Entry
  <2>2. \A n \in 1 .. Len(socks) : socks[n].sock \in Nat /\ socks[n].place \in Nat \X Nat
    BY <2>1, EntryType
  <2> QED
    BY <1>1, <2>1, <2>2 DEF BindTypeOK
<1>3. CASE ~Bind
  <2>1. socks' = socks
    BY <1>1, <1>3
    DEF BindNext, Query, QueryFails, SkipAdapter, EnterAdapter, LeaveAdapter, SkipAddress, SocketFails,
        MakeSocket, BindFails, Return, bind_vars
  <2>2. \A p \in Nat \X Nat : Passed(p) => Passed(p)'
    BY <1>1, <1>2, <1>3
    DEF BindNext, Query, QueryFails, SkipAdapter, EnterAdapter, LeaveAdapter, SkipAddress, SocketFails,
        MakeSocket, BindFails, Return, bind_vars, Passed
  <2> QED
    BY <1>1, <1>2, <2>1, <2>2 DEF PlaceInv, SocketsDistinct
<1>4. CASE Bind
  <2> DEFINE e == [sock |-> made, place |-> <<adapter, unicast>>]
  <2>1. socks' = Append(socks, e) /\ adapter' = adapter /\ unicast' = unicast + 1 /\ at = "bind"
        /\ at' \in {"done", "unicast"}
    BY <1>4 DEF Bind
  <2>2. e \in Entry /\ e.sock = made /\ e.place = <<adapter, unicast>> /\ e.place \in Nat \X Nat
    BY <1>2 DEF Entry
  <2> HIDE DEF e
  <2>3. /\ Len(socks') = Len(socks) + 1
        /\ \A n \in 1 .. Len(socks) : socks'[n] = socks[n]
        /\ socks'[Len(socks) + 1] = e
    BY <1>2, <2>1, <2>2, AppendedEntry
  <2>4. \A n \in 1 .. Len(socks') : n \in 1 .. Len(socks) \/ n = Len(socks) + 1
    BY <1>2, <2>3
  <2>5. \A n \in 1 .. Len(socks) :
            /\ socks[n].sock # e.sock /\ socks[n].place # e.place
            /\ \A p : p = socks[n].place => Passed(p)'
    <3>1. TAKE n \in 1 .. Len(socks)
    <3>2. socks[n].sock < made /\ socks[n].sock \in Nat
      BY <1>1, <1>2, <2>1 DEF SocketInv
    <3> DEFINE p == socks[n].place
    <3>3. p \in Nat \X Nat /\ (p[1] < adapter \/ (p[1] = adapter /\ p[2] < unicast))
      BY <1>1, <1>2, <2>1 DEF PlaceInv, Passed
    <3>4. p # <<adapter, unicast>>
      BY <1>2, <3>3
    <3>5. socks[n].sock # e.sock /\ socks[n].place # e.place
      BY <2>2, <3>2, <3>4
    <3>6. \A q : q = p => Passed(q)'
      BY <1>2, <2>1, <3>3 DEF Passed
    <3> QED
      BY <3>5, <3>6
  <2>6. \A p : p = e.place => Passed(p)'
    BY <1>2, <2>1, <2>2 DEF Passed
  <2>7. (\A n \in 1 .. Len(socks) : Passed(socks[n].place))'
    <3>1. \A n \in 1 .. Len(socks') : \A p : p = socks'[n].place => Passed(p)'
      BY <2>3, <2>4, <2>5, <2>6
    <3> QED
      BY <3>1 DEF Passed
  <2>8. \A m, n \in 1 .. Len(socks) :
            m # n => socks[m].sock # socks[n].sock /\ socks[m].place # socks[n].place
    BY <1>1 DEF PlaceInv, SocketsDistinct
  <2>9. SocketsDistinct'
    BY <2>3, <2>4, <2>5, <2>8 DEF SocketsDistinct
  <2> QED
    BY <2>7, <2>9 DEF PlaceInv
<1> QED
  BY <1>3, <1>4

\* No socket and no address is twice in the result.
THEOREM ResultDistinct == BindSpec => []SocketsDistinct
<1>1. BindInit => SocketInv /\ PlaceInv
  BY DEF BindInit, SocketInv, Result, PlaceInv, SocketsDistinct
<1>2. PlaceInv => SocketsDistinct
  BY DEF PlaceInv
<1> QED
  BY <1>1, <1>2, SocketInductive, PlaceInductive, SocketsTyped, PTL DEF BindSpec

-----------------------------------------------------------------------------
(* Addresses.                                                              *)

\* The loops have been past address j of adapter i.
Scanned(i, j) ==
    CASE at \in {"query", "adapter"} -> i < adapter
      [] at \in {"unicast", "bind"} -> i < adapter \/ (i = adapter /\ j < unicast)
      [] at = "done" -> Len(socks) < max_count
      [] OTHER -> FALSE

\* A socket is bound to it, or some call failed for it.
Covered(i, j) == <<i, j>> \in failed \/ \E n \in 1 .. Len(socks) : socks[n].place = <<i, j>>

\* The loops leave no eligible address behind.
ScanInv ==
    /\ \A n \in 1 .. Len(socks) : Eligible(socks[n].place[1], socks[n].place[2])
    /\ at \in {"unicast", "bind"} => Usable(adapters[adapter])
    /\ at = "bind" => Eligible(adapter, unicast)
    /\ \A i \in 1 .. Len(adapters) : \A j \in 1 .. Len(adapters[i].unicast) :
            Eligible(i, j) /\ Scanned(i, j) => Covered(i, j)

\* What is covered stays covered, and only Bind adds to the result.
LEMMA CoveredStays ==
    ASSUME BindTypeOK, [BindNext]_bind_vars
    PROVE  /\ UNCHANGED <<adapters, max_count>>
           /\ \A i, j : Covered(i, j) => Covered(i, j)'
           /\ ~Bind => socks' = socks
<1>1. UNCHANGED <<adapters, max_count>> /\ failed \subseteq failed' /\ (~Bind => socks' = socks)
  BY DEF BindNext, Query, QueryFails, SkipAdapter, EnterAdapter, LeaveAdapter, SkipAddress, SocketFails,
         MakeSocket, BindFails, Bind, Return, bind_vars
<1>2. CASE ~Bind
  BY <1>1, <1>2 DEF Covered
<1>3. CASE Bind
  <2>1. socks' = Append(socks, [sock |-> made, place |-> <<adapter, unicast>>])
    BY <1>3 DEF Bind
  <2>2. socks \in Seq(Entry) /\ [sock |-> made, place |-> <<adapter, unicast>>] \in Entry
    BY DEF BindTypeOK, Entry
  <2>3. Len(socks') = Len(socks) + 1 /\ Len(socks) \in Nat /\ \A n \in 1 .. Len(socks) : socks'[n] = socks[n]
    BY <2>1, <2>2, AppendedEntry
  <2>4. 1 .. Len(socks) \subseteq 1 .. Len(socks')
    BY <2>3
  <2> QED
    BY <1>1, <1>3, <2>3, <2>4 DEF Covered
<1> QED
  BY <1>2, <1>3

LEMMA ScanInductive == BindTypeOK /\ ScanInv /\ [BindNext]_bind_vars => ScanInv'
<1> SUFFICES ASSUME BindTypeOK, ScanInv, [BindNext]_bind_vars PROVE ScanInv'
  OBVIOUS
<1>1. /\ adapter \in Nat /\ unicast \in Nat /\ max_count \in Nat
      /\ socks \in Seq(Entry) /\ Len(socks) \in Nat
      /\ Len(adapters) \in Nat /\ \A i \in 1 .. Len(adapters) : Len(adapters[i].unicast) \in Nat
  BY Machine, BindAssumption DEF BindTypeOK, Entry
<1>2. UNCHANGED <<adapters, max_count>> /\ \A i, j : Covered(i, j) => Covered(i, j)'
  BY CoveredStays
<1>3. \A i, j : Eligible(i, j)' = Eligible(i, j)
  BY <1>2 DEF Eligible, Usable
<1>4. (at' \in {"unicast", "bind"} => Usable(adapters[adapter])') /\ (at' = "bind" => Eligible(adapter, unicast)')
  <2>1. CASE at' \notin {"unicast", "bind"}
    BY <2>1
  <2>2. CASE EnterAdapter
    BY <1>2, <2>2 DEF EnterAdapter, Usable
  <2>3. CASE MakeSocket
    BY <1>2, <2>3 DEF MakeSocket, ScanInv, Eligible, Usable
  <2>4. CASE SkipAddress \/ SocketFails \/ BindFails \/ Bind
    BY <1>2, <2>4 DEF SkipAddress, SocketFails, BindFails, Bind, ScanInv, Usable
  <2>5. CASE UNCHANGED bind_vars
    BY <2>5 DEF bind_vars, ScanInv, Usable, Eligible
  <2>6. CASE Query \/ QueryFails \/ SkipAdapter \/ LeaveAdapter \/ Return
    BY <2>1, <2>6 DEF Query, QueryFails, SkipAdapter, LeaveAdapter, Return
  <2> QED
    BY <2>2, <2>3, <2>4, <2>5, <2>6 DEF BindNext
<1>5. (\A n \in 1 .. Len(socks) : Eligible(socks[n].place[1], socks[n].place[2]))'
  <2>1. CASE socks' = socks
    BY <1>3, <2>1 DEF ScanInv, Eligible, Usable
  <2>2. CASE Bind
    <3>1. socks' = Append(socks, [sock |-> made, place |-> <<adapter, unicast>>]) /\ at = "bind"
      BY <2>2 DEF Bind
    <3>2. [sock |-> made, place |-> <<adapter, unicast>>] \in Entry
      BY DEF BindTypeOK, Entry
    <3>3. /\ \A n \in 1 .. Len(socks) : socks'[n] = socks[n]
          /\ socks'[Len(socks) + 1].place = <<adapter, unicast>>
          /\ \A n \in 1 .. Len(socks') : n \in 1 .. Len(socks) \/ n = Len(socks) + 1
      BY <1>1, <3>1, <3>2, AppendedEntry
    <3>4. Eligible(adapter, unicast)
      BY <3>1 DEF ScanInv
    <3>5. \A n \in 1 .. Len(socks') : Eligible(socks'[n].place[1], socks'[n].place[2])
      BY <3>3, <3>4 DEF ScanInv
    <3> QED
      BY <1>2, <3>5 DEF Eligible, Usable
  <2> QED
    BY <2>1, <2>2, CoveredStays
<1>6. ASSUME NEW i \in 1 .. Len(adapters), NEW j \in 1 .. Len(adapters[i].unicast), Eligible(i, j), Scanned(i, j)'
      PROVE  Covered(i, j)'
  <2> SUFFICES ASSUME ~Scanned(i, j) PROVE Covered(i, j)'
    BY <1>2, <1>6 DEF ScanInv
  <2>0. i \in Nat /\ j \in Nat
    BY <1>1
  <2>1. CASE Query \/ QueryFails \/ EnterAdapter \/ MakeSocket \/ UNCHANGED bind_vars
    BY <1>1, <1>6, <2>0, <2>1 DEF Query, QueryFails, EnterAdapter, MakeSocket, bind_vars, Scanned
  <2>2. CASE SkipAdapter
    <3>1. i = adapter
      BY <1>1, <1>6, <2>0, <2>2 DEF SkipAdapter, Scanned
    <3> QED
      BY <1>6, <2>2, <3>1 DEF SkipAdapter, Eligible
  <2>3. CASE LeaveAdapter
    BY <1>1, <1>6, <2>0, <2>3 DEF LeaveAdapter, Scanned
  <2>4. CASE SkipAddress
    <3>1. i = adapter /\ j = unicast
      BY <1>1, <1>6, <2>0, <2>4 DEF SkipAddress, Scanned
    <3> QED
      BY <1>6, <2>4, <3>1 DEF SkipAddress, Eligible
  <2>5. CASE SocketFails \/ BindFails
    <3>1. i = adapter /\ j = unicast
      BY <1>1, <1>6, <2>0, <2>5 DEF SocketFails, BindFails, Scanned
    <3> QED
      BY <2>5, <3>1 DEF SocketFails, BindFails, Covered
  <2>6. CASE Bind
    <3>1. /\ socks' = Append(socks, [sock |-> made, place |-> <<adapter, unicast>>]) /\ at = "bind"
          /\ at' = IF Len(socks') >= max_count THEN "done" ELSE "unicast"
          /\ unicast' = unicast + 1 /\ adapter' = adapter
      BY <2>6 DEF Bind
    <3>2. [sock |-> made, place |-> <<adapter, unicast>>] \in Entry
      BY DEF BindTypeOK, Entry
    <3>3. Len(socks') = Len(socks) + 1 /\ socks'[Len(socks) + 1].place = <<adapter, unicast>>
      BY <1>1, <3>1, <3>2, AppendedEntry
    <3>4. at' = "unicast"
      BY <1>1, <1>2, <1>6, <3>1, <3>3 DEF Scanned
    <3>5. i = adapter /\ j = unicast
      BY <1>1, <1>6, <2>0, <3>1, <3>4 DEF Scanned
    <3>6. Len(socks) + 1 \in 1 .. Len(socks')
      BY <1>1, <3>3
    <3> QED
      BY <3>3, <3>5, <3>6 DEF Covered
  <2>7. CASE Return
    BY <1>1, <1>6, <2>0, <2>7 DEF Return, Scanned
  <2> QED
    BY <2>1, <2>2, <2>3, <2>4, <2>5, <2>6, <2>7 DEF BindNext
<1>7. (\A i \in 1 .. Len(adapters) : \A j \in 1 .. Len(adapters[i].unicast) :
            Eligible(i, j) /\ Scanned(i, j) => Covered(i, j))'
  BY <1>2, <1>3, <1>6
<1> QED
  BY <1>4, <1>5, <1>7 DEF ScanInv

\* Only eligible addresses are bound, and one is left out only because a call
\* failed for it or because there are max_count sockets already.
THEOREM NoneMissed == BindSpec => []NothingMissed
<1>1. BindTypeOK /\ BindInit => ScanInv
  <2> SUFFICES ASSUME BindTypeOK, BindInit PROVE ScanInv
    OBVIOUS
  <2>1. \A i \in 1 .. Len(adapters) : ~(i < 1)
    BY Machine DEF BindTypeOK
  <2> QED
    BY <2>1 DEF BindInit, ScanInv, Scanned
<1>2. ScanInv => NothingMissed
  BY DEF ScanInv, NothingMissed, Scanned, Covered
<1> QED
  BY <1>1, <1>2, ScanInductive, SocketsTyped, PTL DEF BindSpec

-----------------------------------------------------------------------------
(* The server's init() and the datagrams after it.                         *)

\* The buffer is that of WireFormat all along.
LEMMA StartReceives == StartSpec => Spec
<1>1. StartInit => Init
  BY DEF StartInit
<1>2. [StartNext]_start_vars => [Next]_vars
  BY DEF StartNext, GetBindedSocks, TakeSocket, Listen, start_vars
<1> QED
  BY <1>1, <1>2, PTL DEF StartSpec, Spec

Binding == BindTypeOK /\ SocketInv /\ CountInv /\ ScanInv

Listening == at = "listening" /\ socks = <<>> /\ max_count \in Nat

\* Whatever calls fail: the sockets that are open are those get_binded_socks()
\* returns, at most max_count of them, of eligible addresses and of all for which
\* no call failed; and of the datagrams that come to the one the server takes it
\* and the clients read what was sent.
THEOREM StartKeeps ==
    StartSpec => [](NoSocketLeaks /\ CountRespected /\ NothingMissed
                    /\ ServerReadsWhatWasSent /\ ClientsReadAnswers)
<1>1. StartInit => Binding
  <2> SUFFICES ASSUME BindInit PROVE Binding
    BY DEF StartInit
  <2>1. BindTypeOK
    BY TypedAtFirst
  <2>2. \A i \in 1 .. Len(adapters) : ~(i < 1)
    BY <2>1, Machine DEF BindTypeOK
  <2>3. ScanInv
    BY <2>2 DEF BindInit, ScanInv, Scanned
  <2>4. CountInv
    BY BindAssumption DEF BindInit, CountInv, CountRespected
  <2>5. SocketInv
    BY DEF BindInit, SocketInv, Result
  <2> QED
    BY <2>1, <2>3, <2>4, <2>5 DEF Binding
<1>2. (Binding \/ Listening) /\ [StartNext]_start_vars => (Binding \/ Listening)'
  <2> SUFFICES ASSUME Binding \/ Listening, [StartNext]_start_vars PROVE (Binding \/ Listening)'
    OBVIOUS
  <2>1. CASE TakeSocket
    BY <2>1 DEF TakeSocket, Listening
  <2>2. CASE Binding /\ [BindNext]_bind_vars
    BY <2>2, TypedKept, SocketInductive, CountInductive, ScanInductive DEF Binding
  <2>3. CASE Listening /\ UNCHANGED bind_vars
    BY <2>3 DEF Listening, bind_vars
  <2>4. Listening => ~BindNext
    BY DEF Listening, BindNext, Query, QueryFails, SkipAdapter, EnterAdapter, LeaveAdapter, SkipAddress,
           SocketFails, MakeSocket, BindFails, Bind, Return
  <2> QED
    BY <2>1, <2>2, <2>3, <2>4 DEF StartNext, GetBindedSocks, Listen, start_vars
<1>3. Binding => NoSocketLeaks /\ CountRespected /\ NothingMissed
  BY DEF Binding, SocketInv, CountInv, ScanInv, NoSocketLeaks, NothingMissed, Result, Scanned, Covered
<1>4. Listening => NoSocketLeaks /\ CountRespected /\ NothingMissed
  BY DEF Listening, NoSocketLeaks, CountRespected, NothingMissed
<1> QED
  BY <1>1, <1>2, <1>3, <1>4, StartReceives, BufferReadsWhatWasSent, AnswersAreRead, PTL DEF StartSpec
=============================================================================
