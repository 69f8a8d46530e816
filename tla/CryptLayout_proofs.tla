------------------------- MODULE CryptLayout_proofs ------------------------
(***************************************************************************)
(* Facts about the layout arithmetic, for every header, sector and tag     *)
(* size the assumption admits.                                             *)
(***************************************************************************)
EXTENDS CryptLayout, TLAPS

\* The sizes the layout is built from are positive and the header fits a file.

\* The derived sizes of the layout are positive and a word is a whole number of sectors.
LEMMA LayoutTypes ==
  /\ LogicalSector \in Nat \ {0}
  /\ UIntRange \div SectorSize \in Nat \ {0}
  /\ MaxFileSize \in Nat
  /\ HeaderSize <= MaxFileSize
<1>1. LogicalSector \in Nat \ {0}
  BY LayoutAssumption DEF LayoutAssumption, LogicalSector
<1>2. UIntRange \div SectorSize \in Nat \ {0}
  BY LayoutAssumption DEF LayoutAssumption
<1>3. MaxFileSize \in Nat /\ HeaderSize <= MaxFileSize
  BY LayoutAssumption DEF LayoutAssumption, MaxFileSize
<1> QED BY <1>1, <1>2, <1>3

\* A logical position has a block and a place inside its plaintext.
LEMMA BlockTypes ==
  ASSUME NEW off \in Nat
  PROVE  /\ BlockIdx(off) \in Nat
         /\ OffsetInSector(off) \in 0 .. LogicalSector - 1
         /\ SeekPos(off) \in Nat
         /\ SeekPos(off) >= HeaderSize
<1>1. BlockIdx(off) \in Nat
  BY LayoutTypes DEF BlockIdx
<1>2. OffsetInSector(off) \in 0 .. LogicalSector - 1
  BY LayoutTypes DEF OffsetInSector
<1>3. BlockIdx(off) * SectorSize \in Nat
  BY <1>1, LayoutAssumption DEF LayoutAssumption
<1> QED BY <1>1, <1>2, <1>3, LayoutAssumption DEF LayoutAssumption, SeekPos

\* The 32-bit position of any block names one of the slots.
LEMMA SlotTypes ==
  ASSUME NEW k \in Nat
  PROVE  /\ Slot(k) \in Slots
         /\ BlockStart(k) \in Nat
<1>1. Slot(k) \in Slots
  BY LayoutTypes DEF Slot, Slots
<1>2. HeaderSize + k * SectorSize \in Nat
  BY LayoutAssumption DEF LayoutAssumption
<1>3. BlockStart(k) \in Nat
  BY <1>2, LayoutAssumption DEF LayoutAssumption, BlockStart
<1> QED BY <1>1, <1>3

\* Division with remainder.
LEMMA DivMod ==
  ASSUME NEW d \in Nat \ {0}, NEW x \in Nat
  PROVE  /\ x \div d \in Nat
         /\ x % d \in 0 .. d - 1
         /\ x = d * (x \div d) + (x % d)
OBVIOUS

\* Division with remainder is unique.
LEMMA ModUnique ==
  ASSUME NEW d \in Nat \ {0}, NEW q \in Nat, NEW r \in 0 .. d - 1, NEW x \in Nat,
         x = d * q + r
  PROVE  x % d = r /\ x \div d = q
<1> DEFINE q2 == x \div d
           r2 == x % d
<1>1. q2 \in Nat /\ r2 \in 0 .. d - 1 /\ x = d * q2 + r2
  BY DivMod
<1> HIDE DEF q2, r2
<1>2. ~(q2 < q)
  <2> SUFFICES ASSUME q2 < q PROVE FALSE
    OBVIOUS
  <2>1. d * q >= d * (q2 + 1)
    BY <1>1
  <2>2. d * (q2 + 1) = d * q2 + d
    BY <1>1
  <2> QED BY <1>1, <2>1, <2>2
<1>3. ~(q < q2)
  <2> SUFFICES ASSUME q < q2 PROVE FALSE
    OBVIOUS
  <2>1. d * q2 >= d * (q + 1)
    BY <1>1
  <2>2. d * (q + 1) = d * q + d
    BY <1>1
  <2> QED BY <1>1, <2>1, <2>2
<1>4. q2 = q
  BY <1>1, <1>2, <1>3
<1>5. r2 = r
  BY <1>1, <1>4
<1> QED BY <1>4, <1>5 DEF q2, r2

\* The 32-bit arithmetic of f_crypt_read and f_crypt_write puts block k on the
\* boundary of slot k modulo the number of slots.
THEOREM BlockOnSlot ==
  ASSUME NEW k \in Nat
  PROVE  /\ BlockStart(k) = HeaderSize + Slot(k) * SectorSize
         /\ BlockStart(k) + SectorSize = SlotEnd(Slot(k))
<1> DEFINE N == UIntRange \div SectorSize
           a == k \div N
           s == Slot(k)
           r == HeaderSize + s * SectorSize
<1>1. N \in Nat \ {0} /\ UIntRange = SectorSize * N
  BY LayoutTypes, LayoutAssumption DEF LayoutAssumption
<1>2. a \in Nat /\ s \in 0 .. N - 1 /\ k = N * a + s
  BY <1>1, DivMod DEF Slot
<1> HIDE DEF N, a, s
<1>3. s * SectorSize \in Nat /\ s * SectorSize <= (N - 1) * SectorSize
  BY <1>1, <1>2, LayoutAssumption DEF LayoutAssumption
<1>4. (N - 1) * SectorSize = UIntRange - SectorSize
  BY <1>1, LayoutAssumption DEF LayoutAssumption
<1>5. r \in 0 .. UIntRange - 1
  BY <1>3, <1>4, LayoutAssumption DEF LayoutAssumption
<1>6. k * SectorSize = UIntRange * a + s * SectorSize
  <2>1. k * SectorSize = (N * a) * SectorSize + s * SectorSize
    BY <1>1, <1>2, LayoutAssumption DEF LayoutAssumption
  <2>2. (N * a) * SectorSize = (SectorSize * N) * a
    BY <1>1, <1>2, LayoutAssumption DEF LayoutAssumption
  <2> QED BY <2>1, <2>2, <1>1
<1>7. HeaderSize + k * SectorSize = UIntRange * a + r
  BY <1>6, <1>3, <1>2, LayoutAssumption DEF LayoutAssumption
<1>8. UIntRange \in Nat \ {0} /\ HeaderSize + k * SectorSize \in Nat
  BY LayoutAssumption DEF LayoutAssumption
<1>9. BlockStart(k) = r
  BY <1>2, <1>5, <1>7, <1>8, ModUnique DEF BlockStart
<1>10. r + SectorSize = HeaderSize + (s + 1) * SectorSize
  BY <1>2, LayoutAssumption DEF LayoutAssumption
<1> QED BY <1>9, <1>10 DEF SlotEnd, s

\* The last slot reaches past the largest file, so a run of blocks that are all
\* written never wraps around.
LEMMA NoWrapInside ==
  ASSUME NEW k1 \in Nat, NEW k2 \in Nat, k1 <= k2,
         \A j \in k1 .. k2 : Slot(j) # (UIntRange \div SectorSize) - 1
  PROVE  Slot(k2) = Slot(k1) + (k2 - k1)
<1> DEFINE N == UIntRange \div SectorSize
           a == k1 \div N
           b == k2 \div N
<1>1. N \in Nat \ {0}
  BY LayoutTypes
<1>2. a \in Nat /\ Slot(k1) \in 0 .. N - 1 /\ k1 = N * a + Slot(k1)
  BY <1>1, DivMod DEF Slot
<1>3. b \in Nat /\ Slot(k2) \in 0 .. N - 1 /\ k2 = N * b + Slot(k2)
  BY <1>1, DivMod DEF Slot
<1>4. \A j \in k1 .. k2 : Slot(j) # N - 1
  OBVIOUS
<1> HIDE DEF N, a, b
<1>5. CASE a = b
  BY <1>2, <1>3, <1>5, <1>1
<1>6. CASE a < b
  <2> DEFINE j == N * a + (N - 1)
  <2>1. N * b >= N * (a + 1) /\ N * (a + 1) = N * a + N
    BY <1>1, <1>2, <1>3, <1>6
  <2>2. N * a \in Nat /\ j \in Nat
    BY <1>1, <1>2
  <2>3. j \in k1 .. k2
    BY <1>1, <1>2, <1>3, <2>1, <2>2
  <2>4. j % N = N - 1
    <3> DEFINE r == N - 1
    <3>1. r \in 0 .. N - 1 /\ j = N * a + r
      BY <1>1
    <3> HIDE DEF r, j
    <3>2. j % N = r
      BY <1>1, <1>2, <2>2, <3>1, ModUnique
    <3> QED BY <3>2 DEF r
  <2>5. Slot(j) = N - 1
    BY <2>4 DEF Slot, N
  <2> QED BY <1>4, <2>3, <2>5
<1>7. ~(b < a)
  <2> SUFFICES ASSUME b < a PROVE FALSE
    OBVIOUS
  <2>1. N * a >= N * (b + 1) /\ N * (b + 1) = N * b + N
    BY <1>1, <1>2, <1>3
  <2>2. N * a \in Nat /\ N * b \in Nat
    BY <1>1, <1>2, <1>3
  <2> QED BY <1>1, <1>2, <1>3, <2>1, <2>2
<1> QED BY <1>2, <1>3, <1>5, <1>6, <1>7

\* Slots end in the order of their numbers.
LEMMA SlotEndOrder ==
  ASSUME NEW s \in Nat, NEW t \in Nat
  PROVE  /\ SlotEnd(s) \in Nat
         /\ s <= t => SlotEnd(s) <= SlotEnd(t)
<1>1. (s + 1) * SectorSize \in Nat /\ (t + 1) * SectorSize \in Nat
  BY LayoutAssumption DEF LayoutAssumption
<1>2. s <= t => (s + 1) * SectorSize <= (t + 1) * SectorSize
  BY LayoutAssumption DEF LayoutAssumption
<1> QED BY <1>1, <1>2, LayoutAssumption DEF LayoutAssumption, SlotEnd

\* The last slot does not fit a FAT file.
LEMMA LastSlotTooLong ==
  SlotEnd((UIntRange \div SectorSize) - 1) > MaxFileSize
<1> DEFINE N == UIntRange \div SectorSize
<1>1. N \in Nat \ {0} /\ UIntRange = SectorSize * N
  BY LayoutTypes, LayoutAssumption DEF LayoutAssumption
<1> HIDE DEF N
<1>2. ((N - 1) + 1) * SectorSize = UIntRange
  BY <1>1, LayoutAssumption DEF LayoutAssumption
<1> QED BY <1>2, LayoutAssumption DEF LayoutAssumption, SlotEnd, MaxFileSize, N
=============================================================================
