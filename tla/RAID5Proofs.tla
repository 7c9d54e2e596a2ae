----------------------------- MODULE RAID5Proofs -----------------------------
(***************************************************************************)
(* Proofs about RAID5, for any number of disks, any size of block and any  *)
(* data.                                                                   *)
(***************************************************************************)
EXTENDS RAID5, FiniteSetTheorems, FunctionTheorems, TLAPS

-----------------------------------------------------------------------------
(* Arithmetic of positions. *)

(* Quotient and remainder. *)
LEMMA Division ==
    ASSUME NEW a \in Nat, NEW b \in Nat, b > 0
    PROVE  /\ a \div b \in Nat
           /\ a % b \in 0..b - 1
           /\ a = (a \div b) * b + (a % b)
<1>1. a \div b \in Nat
  OBVIOUS
<1>2. a % b \in 0..b - 1
  OBVIOUS
<1>3. a = (a \div b) * b + (a % b)
  OBVIOUS
<1> QED
  BY <1>1, <1>2, <1>3

(* Products grow with their factors. *)
LEMMA Monotonic ==
    ASSUME NEW a \in Nat, NEW b \in Nat, NEW n \in Nat, a <= b
    PROVE  /\ a * n \in Nat
           /\ a * n <= b * n
<1>1. b * n = a * n + (b - a) * n
  OBVIOUS
<1>2. (b - a) * n >= 0
  OBVIOUS
<1> QED
  BY <1>1, <1>2

(* A quotient is below what the dividend is below a multiple of. *)
LEMMA QuotientBound ==
    ASSUME NEW a \in Nat, NEW b \in Nat, b > 0, NEW n \in Nat, a < n * b
    PROVE  a \div b < n
<1>1. a \div b \in Nat /\ a = (a \div b) * b + (a % b) /\ a % b >= 0
  BY Division
<1>2. SUFFICES ASSUME n <= a \div b PROVE FALSE
  BY <1>1
<1>3. n * b <= (a \div b) * b
  BY <1>1, <1>2, Monotonic
<1>4. n * b \in Nat /\ (a \div b) * b \in Nat
  BY <1>1, Monotonic
<1> QED
  BY <1>1, <1>3, <1>4

(* A row holds at least one byte. *)
LEMMA RowSizeType == RowSize \in Nat /\ RowSize >= 1
<1>1. 1 * StripeSize <= DataDisks * StripeSize /\ DataDisks * StripeSize \in Nat
  BY ArrayAssumption, Monotonic
<1> QED
  BY <1>1, ArrayAssumption DEF RowSize

(* Data and padding fill the rows. *)
LEMMA RowsFull ==
    ASSUME NEW data \in Seq({0, 1})
    PROVE  /\ PaddingOf(data) \in 0..RowSize - 1
           /\ RowsOf(data) \in Nat
           /\ RowsOf(data) * RowSize = Len(data) + PaddingOf(data)
<1> DEFINE q == Len(data) \div RowSize
<1>1. Len(data) \in Nat /\ RowSize \in Nat /\ RowSize > 0
  BY RowSizeType
<1>2. q \in Nat /\ Len(data) % RowSize \in 0..RowSize - 1
        /\ Len(data) = q * RowSize + (Len(data) % RowSize)
  BY <1>1, Division
<1>3. PaddingOf(data) \in 0..RowSize - 1
  BY <1>1, <1>2 DEF PaddingOf
<1>4. PICK m \in Nat : Len(data) + PaddingOf(data) = m * RowSize
  <2>1. CASE Len(data) % RowSize = 0
    <3>1. PaddingOf(data) = 0
      BY <2>1 DEF PaddingOf
    <3>2. Len(data) + PaddingOf(data) = q * RowSize
      BY <1>1, <1>2, <2>1, <3>1
    <3> HIDE DEF q
    <3> QED
      BY <1>2, <3>2
  <2>2. CASE Len(data) % RowSize # 0
    <3>1. PaddingOf(data) = RowSize - (Len(data) % RowSize)
      BY <2>2 DEF PaddingOf
    <3>2. Len(data) + PaddingOf(data) = q * RowSize + RowSize
      BY <1>1, <1>2, <3>1
    <3>3. q * RowSize + RowSize = (q + 1) * RowSize
      BY <1>1, <1>2
    <3> HIDE DEF q
    <3> QED
      BY <1>2, <3>2, <3>3
  <2> QED
    BY <2>1, <2>2
<1>5. (m * RowSize) \div RowSize = m
  BY <1>1
<1> QED
  BY <1>3, <1>4, <1>5 DEF RowsOf

-----------------------------------------------------------------------------
(* Blocks. *)

(* The padded data are bytes, and its blocks are blocks. *)
LEMMA DataBlockType ==
    ASSUME NEW data \in Seq({0, 1}), NEW row \in Nat, NEW b \in Nat
    PROVE  DataBlock(data, row, b) \in Block
<1>1. ASSUME NEW i \in Nat
      PROVE  Padded(data, i) \in {0, 1}
  BY DEF Padded
<1>2. RowSize \in Nat /\ row * RowSize \in Nat /\ b * StripeSize \in Nat
  BY RowSizeType, ArrayAssumption, Monotonic
<1>3. ASSUME NEW k \in 0..StripeSize - 1
      PROVE  row * RowSize + b * StripeSize + k \in Nat
  BY <1>2
<1> QED
  BY <1>1, <1>3 DEF DataBlock, Block

(* The XOR of a set of disks or blocks is a block. *)
LEMMA XorType ==
    ASSUME NEW block, NEW set, IsFiniteSet(set)
    PROVE  Xor(block, set) \in Block
<1>1. ASSUME NEW k \in 0..StripeSize - 1
      PROVE  Cardinality({d \in set : block[d][k] = 1}) % 2 \in {0, 1}
  <2>1. {d \in set : block[d][k] = 1} \in SUBSET set
    OBVIOUS
  <2>2. Cardinality({d \in set : block[d][k] = 1}) \in Nat
    BY <2>1, FS_Subset, FS_CardinalityType
  <2> QED
    BY <2>2
<1> QED
  BY <1>1 DEF Xor, Block

(* The XOR depends on the blocks of its set only. *)
LEMMA XorOfSame ==
    ASSUME NEW f, NEW g, NEW set, \A d \in set : f[d] = g[d]
    PROVE  Xor(f, set) = Xor(g, set)
<1>1. ASSUME NEW k \in 0..StripeSize - 1
      PROVE  {d \in set : f[d][k] = 1} = {d \in set : g[d][k] = 1}
  OBVIOUS
<1> QED
  BY <1>1 DEF Xor

(* Sets of disks and of blocks are finite. *)
LEMMA DiskFacts ==
    /\ IsFiniteSet(Disk)
    /\ \A d : IsFiniteSet(Disk \ {d})
    /\ IsFiniteSet(0..DataDisks - 1)
<1>1. IsFiniteSet(Disk) /\ IsFiniteSet(0..DataDisks - 1)
  BY ArrayAssumption, FS_Interval DEF Disk
<1> QED
  BY <1>1, FS_RemoveElement

(* The parity of a row is on one of the disks. *)
LEMMA ParityDiskType ==
    ASSUME NEW row \in Nat
    PROVE  ParityDisk(row) \in Disk
  BY ArrayAssumption DEF ParityDisk, Disk

(* What is placed on a disk is a block. *)
LEMMA PlacedType ==
    ASSUME NEW data \in Seq({0, 1}), NEW row \in Nat, NEW d \in Disk
    PROVE  Placed(data, row, d) \in Block
<1>1. Xor(DataBlocks(data, row), 0..DataDisks - 1) \in Block
  BY XorType, DiskFacts
<1>2. ParityDisk(row) \in Disk
  BY ParityDiskType
<1>3. d # ParityDisk(row) => (IF d < ParityDisk(row) THEN d ELSE d - 1) \in Nat
  BY <1>2, ArrayAssumption DEF Disk
<1> QED
  BY <1>1, <1>3, DataBlockType DEF Placed

(* A data block is where DiskOf says, and each other disk than that of     *)
(* the parity has one.                                                     *)
LEMMA DiskOfFacts ==
    ASSUME NEW row \in Nat
    PROVE  /\ \A b \in 0..DataDisks - 1 :
                 /\ DiskOf(b, row) \in Disk \ {ParityDisk(row)}
                 /\ \A data : Placed(data, row, DiskOf(b, row)) = DataBlock(data, row, b)
           /\ \A b, c \in 0..DataDisks - 1 : DiskOf(b, row) = DiskOf(c, row) => b = c
           /\ \A d \in Disk \ {ParityDisk(row)} :
                 \E b \in 0..DataDisks - 1 : DiskOf(b, row) = d
<1>1. ParityDisk(row) \in 0..DataDisks /\ DataDisks \in Nat /\ DataDisks >= 2
  BY ParityDiskType, ArrayAssumption DEF Disk
<1>2. ASSUME NEW b \in 0..DataDisks - 1
      PROVE  /\ DiskOf(b, row) \in Disk \ {ParityDisk(row)}
             /\ \A data : Placed(data, row, DiskOf(b, row)) = DataBlock(data, row, b)
  <2>1. CASE b < ParityDisk(row)
    BY <1>1, <2>1 DEF DiskOf, Disk, Placed
  <2>2. CASE ~ (b < ParityDisk(row))
    <3>1. DiskOf(b, row) = b + 1 /\ b + 1 # ParityDisk(row) /\ ~ (b + 1 < ParityDisk(row))
      BY <1>1, <2>2 DEF DiskOf
    <3>2. b + 1 - 1 = b
      OBVIOUS
    <3> QED
      BY <1>1, <3>1, <3>2 DEF Disk, Placed
  <2> QED
    BY <2>1, <2>2
<1>3. ASSUME NEW b \in 0..DataDisks - 1, NEW c \in 0..DataDisks - 1,
             DiskOf(b, row) = DiskOf(c, row)
      PROVE  b = c
  BY <1>1, <1>3 DEF DiskOf
<1>4. ASSUME NEW d \in Disk \ {ParityDisk(row)}
      PROVE  \E b \in 0..DataDisks - 1 : DiskOf(b, row) = d
  <2>1. CASE d < ParityDisk(row)
    BY <1>1, <2>1 DEF DiskOf, Disk
  <2>2. CASE ~ (d < ParityDisk(row))
    <3>1. d - 1 \in 0..DataDisks - 1 /\ DiskOf(d - 1, row) = d
      BY <1>1, <2>2 DEF DiskOf, Disk
    <3> QED
      BY <3>1
  <2> QED
    BY <2>1, <2>2
<1> QED
  BY <1>2, <1>3, <1>4

(* The parity of a row is that of the blocks on the other disks. *)
LEMMA ParityOfDisks ==
    ASSUME NEW data, NEW row \in Nat, NEW k \in 0..StripeSize - 1
    PROVE  Placed(data, row, ParityDisk(row))[k] =
             Cardinality({d \in Disk \ {ParityDisk(row)} : Placed(data, row, d)[k] = 1}) % 2
<1> DEFINE p == ParityDisk(row)
           S == {b \in 0..DataDisks - 1 : DataBlocks(data, row)[b][k] = 1}
           T == {d \in Disk \ {p} : Placed(data, row, d)[k] = 1}
           f == [b \in S |-> DiskOf(b, row)]
<1>1. Placed(data, row, p)[k] = Cardinality(S) % 2
  BY DEF Placed, Xor
<1>2. \A b \in S : /\ DiskOf(b, row) \in Disk \ {p}
                   /\ Placed(data, row, DiskOf(b, row))[k] = 1
  BY DiskOfFacts DEF DataBlocks
<1>3. f \in [S -> T]
  BY <1>2
<1>4. \A b, c \in S : f[b] = f[c] => b = c
  BY DiskOfFacts
<1>5. ASSUME NEW d \in T
      PROVE  \E b \in S : f[b] = d
  <2>1. PICK b \in 0..DataDisks - 1 : DiskOf(b, row) = d
    BY DiskOfFacts
  <2>2. DataBlocks(data, row)[b][k] = 1
    BY <2>1, DiskOfFacts DEF DataBlocks
  <2> QED
    BY <2>1, <2>2
<1>6. ExistsBijection(S, T)
  <2>1. f \in Injection(S, T)
    BY <1>3, <1>4 DEF Injection, IsInjective
  <2>2. f \in Surjection(S, T)
    BY <1>3, <1>5 DEF Surjection
  <2> QED
    BY <2>1, <2>2 DEF Bijection, ExistsBijection
<1>7. IsFiniteSet(S)
  <2>1. S \in SUBSET (0..DataDisks - 1)
    OBVIOUS
  <2> HIDE DEF S
  <2> QED
    BY <2>1, DiskFacts, FS_Subset
<1>8. Cardinality(S) = Cardinality(T)
  <2> HIDE DEF S, T
  <2> QED
    BY <1>6, <1>7, FS_Bijection
<1> QED
  BY <1>1, <1>8

(* Each disk of a row is the XOR of the others. *)
LEMMA EachIsXorOfOthers ==
    ASSUME NEW data \in Seq({0, 1}), NEW row \in Nat, NEW d \in Disk
    PROVE  Xor([e \in Disk |-> Placed(data, row, e)], Disk \ {d}) = Placed(data, row, d)
<1> DEFINE p == ParityDisk(row)
           x(e, k) == Placed(data, row, e)[k]
           Ones(D, k) == {e \in D : x(e, k) = 1}
<1>1. p \in Disk
  BY ParityDiskType
<1>2. \A e \in Disk : Placed(data, row, e) \in [0..StripeSize - 1 -> {0, 1}]
  BY PlacedType DEF Block
<1>3. ASSUME NEW k \in 0..StripeSize - 1
      PROVE  Cardinality(Ones(Disk \ {d}, k)) % 2 = x(d, k)
  <2>1. x(p, k) = Cardinality(Ones(Disk \ {p}, k)) % 2
    BY ParityOfDisks
  <2>2. \A e \in Disk : x(e, k) \in {0, 1}
    BY <1>2
  <2>3. IsFiniteSet(Ones(Disk \ {p}, k)) /\ Cardinality(Ones(Disk \ {p}, k)) \in Nat
    <3>1. Ones(Disk \ {p}, k) \in SUBSET (Disk \ {p})
      OBVIOUS
    <3> HIDE DEF Ones, p
    <3> QED
      BY <3>1, DiskFacts, FS_Subset, FS_CardinalityType
  <2>4. CASE d = p
    BY <2>1, <2>4
  <2>5. CASE d # p
    <3> DEFINE A == Ones(Disk \ {p}, k)
    <3>1. Ones(Disk \ {d}, k) = IF x(p, k) = 1 THEN (A \ {d}) \cup {p} ELSE A \ {d}
      BY <1>1, <2>5
    <3>2. d \in A <=> x(d, k) = 1
      BY <2>5
    <3>3. p \notin A \ {d}
      OBVIOUS
    <3>4. IsFiniteSet(A) /\ Cardinality(A) \in Nat
      BY <2>3
    <3> HIDE DEF A
    <3>5. /\ IsFiniteSet(A \ {d})
          /\ Cardinality(A \ {d}) = IF d \in A THEN Cardinality(A) - 1 ELSE Cardinality(A)
      BY <3>4, FS_RemoveElement
    <3>6. Cardinality((A \ {d}) \cup {p}) = Cardinality(A \ {d}) + 1
      BY <3>3, <3>5, FS_AddElement
    <3>7. x(p, k) = Cardinality(A) % 2
      BY <2>1 DEF A
    <3>8. x(d, k) \in {0, 1} /\ x(p, k) \in {0, 1}
      BY <1>1, <2>2
    <3>9. d \in A => Cardinality(A) >= 1
      BY <3>4, FS_EmptySet
    <3> DEFINE n == Cardinality(A)
    <3> HIDE DEF x, n
    <3>10. CASE x(p, k) = 1
      <4>1. Cardinality(Ones(Disk \ {d}, k)) = (IF d \in A THEN n - 1 ELSE n) + 1
        BY <3>1, <3>5, <3>6, <3>10 DEF n
      <4>2. n \in Nat /\ n % 2 = 1
        BY <3>4, <3>7, <3>10 DEF n
      <4> QED
        BY <4>1, <4>2, <3>2, <3>8
    <3>11. CASE x(p, k) = 0
      <4>1. x(p, k) # 1
        BY <3>11
      <4>2. Ones(Disk \ {d}, k) = A \ {d}
        BY <3>1, <4>1
      <4> HIDE DEF Ones
      <4>3. Cardinality(Ones(Disk \ {d}, k)) = IF d \in A THEN n - 1 ELSE n
        BY <4>2, <3>5 DEF n
      <4>4. n \in Nat /\ n % 2 = 0 /\ (d \in A => n >= 1)
        BY <3>4, <3>7, <3>9, <3>11 DEF n
      <4> QED
        BY <4>3, <4>4, <3>2, <3>8
    <3> QED
      BY <3>8, <3>10, <3>11
  <2> QED
    BY <2>4, <2>5
<1>4. Xor([e \in Disk |-> Placed(data, row, e)], Disk \ {d})
        = [k \in 0..StripeSize - 1 |-> Cardinality(Ones(Disk \ {d}, k)) % 2]
  <2>1. ASSUME NEW k \in 0..StripeSize - 1
        PROVE  {e \in Disk \ {d} : [g \in Disk |-> Placed(data, row, g)][e][k] = 1}
                 = Ones(Disk \ {d}, k)
    OBVIOUS
  <2> HIDE DEF Ones
  <2> QED
    BY <2>1 DEF Xor
<1>5. Placed(data, row, d) = [k \in 0..StripeSize - 1 |-> x(d, k)]
  BY <1>2
<1> HIDE DEF Ones, x
<1> QED
  BY <1>3, <1>4, <1>5

-----------------------------------------------------------------------------
(* The invariant: the shape is that of what was written, what is not lost  *)
(* is where it was placed, and a single lost disk is marked.               *)

Shape ==
    /\ rows = RowsOf(written)
    /\ padding = PaddingOf(written)

KeepsPlaced ==
    \A d \in Disk \ lost : disks[d] = [row \in 0..rows - 1 |-> Placed(written, row, d)]

LossIsMarked == \A d \in Disk : lost = {d} => failed = d

Inv == TypeOK /\ Shape /\ KeepsPlaced /\ LossIsMarked

(* A disk that is rebuilt from others, none of them lost, is as written.   *)
LEMMA RebuiltAsPlaced ==
    ASSUME Inv, NEW d \in Disk, lost \subseteq {d}, NEW row \in 0..rows - 1
    PROVE  Rebuilt(d, row) = Placed(written, row, d)
<1>1. \A e \in Disk \ {d} : disks[e][row] = Placed(written, row, e)
  BY DEF Inv, KeepsPlaced
<1>2. Xor(Row(row), Disk \ {d}) = Xor([e \in Disk |-> Placed(written, row, e)], Disk \ {d})
  BY <1>1, XorOfSame DEF Row
<1>3. row \in Nat /\ written \in Seq({0, 1})
  BY DEF Inv, TypeOK
<1> QED
  BY <1>2, <1>3, EachIsXorOfOthers DEF Rebuilt

(* What is rebuilt is a block, whatever is lost. *)
LEMMA RebuiltType ==
    ASSUME NEW d, NEW row
    PROVE  Rebuilt(d, row) \in Block
  BY XorType, DiskFacts DEF Rebuilt

(* With one disk lost at most, each row is read as it was written. *)
LEMMA RowAsPlaced ==
    ASSUME Inv, NEW e \in Disk, lost \subseteq {e}, NEW row \in 0..rows - 1
    PROVE  ReadRow(row) = [d \in Disk |-> Placed(written, row, d)]
<1>1. CASE failed = NoDisk
  <2>1. lost = {}
    BY <1>1, ArrayAssumption DEF Inv, LossIsMarked, Disk
  <2>2. \A d \in Disk : disks[d][row] = Placed(written, row, d)
    BY <2>1 DEF Inv, KeepsPlaced
  <2> QED
    BY <1>1, <2>2 DEF ReadRow, Row
<1>2. CASE failed # NoDisk
  <2>1. failed \in Disk /\ lost \subseteq {failed}
    BY <1>2 DEF Inv, TypeOK, LossIsMarked
  <2>2. \A d \in Disk \ {failed} : disks[d][row] = Placed(written, row, d)
    BY <2>1 DEF Inv, KeepsPlaced
  <2>3. Rebuilt(failed, row) = Placed(written, row, failed)
    BY <2>1, RebuiltAsPlaced
  <2>4. ReadRow(row) = [Row(row) EXCEPT ![failed] = Rebuilt(failed, row)]
    BY <1>2 DEF ReadRow
  <2> QED
    BY <2>1, <2>2, <2>3, <2>4 DEF Row
<1> QED
  BY <1>1, <1>2

(* Byte i of what was written is where read looks for it. *)
LEMMA ByteAsWritten ==
    ASSUME NEW data \in Seq({0, 1}), NEW i \in 1..Len(data)
    PROVE  LET row == (i - 1) \div RowSize
               n   == (i - 1) % RowSize
               d   == DiskOf(n \div StripeSize, row)
           IN  /\ row \in 0..RowsOf(data) - 1
               /\ d \in Disk
               /\ Placed(data, row, d)[n % StripeSize] = data[i]
<1> DEFINE row == (i - 1) \div RowSize
           n   == (i - 1) % RowSize
           b   == n \div StripeSize
           k   == n % StripeSize
<1>1. /\ i - 1 \in Nat /\ Len(data) \in Nat
      /\ RowSize \in Nat /\ RowSize > 0
      /\ StripeSize \in Nat /\ StripeSize > 0
      /\ DataDisks \in Nat
  BY RowSizeType, ArrayAssumption
<1>2. row \in Nat /\ n \in 0..RowSize - 1 /\ i - 1 = row * RowSize + n
  BY <1>1, Division
<1>3. b \in Nat /\ k \in 0..StripeSize - 1 /\ n = b * StripeSize + k
  BY <1>1, <1>2, Division
<1>4. row < RowsOf(data)
  <2>1. /\ RowsOf(data) \in Nat
        /\ RowsOf(data) * RowSize = Len(data) + PaddingOf(data)
        /\ PaddingOf(data) \in Nat
    BY RowsFull, RowSizeType
  <2>2. i - 1 < RowsOf(data) * RowSize
    BY <1>1, <2>1
  <2> QED
    BY <1>1, <2>1, <2>2, QuotientBound
<1>5. b < DataDisks
  <2>1. n < DataDisks * StripeSize /\ n \in Nat
    BY <1>1, <1>2 DEF RowSize
  <2> HIDE DEF n
  <2> QED
    BY <1>1, <2>1, QuotientBound
<1> HIDE DEF row, n, b, k
<1>6. b \in 0..DataDisks - 1
  BY <1>1, <1>3, <1>5
<1>7. /\ DiskOf(b, row) \in Disk
      /\ Placed(data, row, DiskOf(b, row)) = DataBlock(data, row, b)
  BY <1>2, <1>6, DiskOfFacts
<1>8. DataBlock(data, row, b)[k] = data[i]
  <2>1. DataBlock(data, row, b)[k] = Padded(data, row * RowSize + b * StripeSize + k)
    BY <1>3 DEF DataBlock
  <2>2. row * RowSize \in Nat /\ b * StripeSize \in Nat
    BY <1>1, <1>2, <1>3, Monotonic
  <2>3. row * RowSize + b * StripeSize + k = i - 1
    BY <1>1, <1>2, <1>3, <2>2
  <2>4. i - 1 < Len(data) /\ i - 1 + 1 = i
    BY <1>1
  <2> QED
    BY <2>1, <2>3, <2>4 DEF Padded
<1> QED
  BY <1>1, <1>2, <1>4, <1>7, <1>8, RowsFull DEF row, n, b, k

(* The invariant makes what is read what was written. *)
LEMMA InvGivesData == Inv => SurvivesOneFailure
<1> SUFFICES ASSUME Inv, NEW e \in Disk, lost \subseteq {e}
             PROVE  Read = written
  BY DEF SurvivesOneFailure
<1>1. written \in Seq({0, 1}) /\ rows = RowsOf(written) /\ padding = PaddingOf(written)
  BY DEF Inv, TypeOK, Shape
<1>2. rows * RowSize - padding = Len(written)
  <2>1. /\ PaddingOf(written) \in Nat /\ Len(written) \in Nat
        /\ RowsOf(written) * RowSize = Len(written) + PaddingOf(written)
    BY <1>1, RowsFull, RowSizeType
  <2> QED
    BY <1>1, <2>1
<1>3. ASSUME NEW i \in 1..Len(written)
      PROVE  LET row == (i - 1) \div RowSize
                 n   == (i - 1) % RowSize
             IN  ReadRow(row)[DiskOf(n \div StripeSize, row)][n % StripeSize] = written[i]
  <2> DEFINE row == (i - 1) \div RowSize
             n   == (i - 1) % RowSize
             d   == DiskOf(n \div StripeSize, row)
  <2>1. /\ row \in 0..rows - 1
        /\ d \in Disk
        /\ Placed(written, row, d)[n % StripeSize] = written[i]
    BY <1>1, ByteAsWritten
  <2> HIDE DEF row, n, d
  <2>2. ReadRow(row)[d] = Placed(written, row, d)
    BY <2>1, RowAsPlaced
  <2> QED
    BY <2>1, <2>2 DEF row, n, d
<1>4. written = [i \in 1..Len(written) |-> written[i]]
  BY <1>1
<1> QED
  BY <1>2, <1>3, <1>4 DEF Read

(* An array without rows has it. *)
LEMMA InvInit == Init => Inv
<1> SUFFICES ASSUME Init PROVE Inv
  OBVIOUS
<1>1. RowSize \in Nat /\ RowSize >= 1 /\ Len(<<>>) = 0
  BY RowSizeType
<1>2. PaddingOf(<<>>) = 0 /\ RowsOf(<<>>) = 0
  BY <1>1 DEF PaddingOf, RowsOf
<1>3. TypeOK
  BY <1>1 DEF Init, TypeOK
<1>4. Shape
  BY <1>2 DEF Init, Shape
<1>5. KeepsPlaced
  BY DEF Init, KeepsPlaced
<1>6. LossIsMarked
  BY DEF Init, LossIsMarked
<1> QED
  BY <1>3, <1>4, <1>5, <1>6 DEF Inv

(* Writes, failures and recoveries keep it. *)
LEMMA InvStep == Inv /\ [Next]_vars => Inv'
<1> SUFFICES ASSUME Inv, [Next]_vars PROVE Inv'
  OBVIOUS
<1>1. ASSUME NEW data \in Data, Write(data)
      PROVE  Inv'
  <2>1. data \in Seq({0, 1})
    BY ArrayAssumption
  <2>2. RowsOf(data) \in Nat /\ PaddingOf(data) \in 0..RowSize - 1
    BY <2>1, RowsFull
  <2>3. \A d \in Disk, row \in 0..RowsOf(data) - 1 : Placed(data, row, d) \in Block
    BY <2>1, <2>2, PlacedType
  <2>4. TypeOK'
    BY <1>1, <2>1, <2>2, <2>3 DEF Write, Inv, TypeOK
  <2>5. Shape' /\ KeepsPlaced' /\ LossIsMarked'
    BY <1>1 DEF Write, Shape, KeepsPlaced, LossIsMarked
  <2> QED
    BY <2>4, <2>5 DEF Inv
<1>2. ASSUME NEW d \in Disk, Fail(d)
      PROVE  Inv'
  <2>1. [row \in 0..rows - 1 |-> Zeros] \in [0..rows - 1 -> Block]
    BY DEF Zeros, Block
  <2>2. TypeOK'
    BY <1>2, <2>1 DEF Fail, Inv, TypeOK
  <2>3. Shape' /\ LossIsMarked'
    BY <1>2 DEF Fail, Inv, Shape, LossIsMarked
  <2>4. ASSUME NEW e \in Disk \ lost'
        PROVE  disks'[e] = [row \in 0..rows' - 1 |-> Placed(written', row, e)]
    <3>1. e \in Disk \ lost /\ e # d /\ rows' = rows /\ written' = written
      BY <1>2 DEF Fail
    <3>2. disks'[e] = disks[e]
      BY <1>2, <3>1 DEF Fail, Inv, TypeOK
    <3> QED
      BY <3>1, <3>2 DEF Inv, KeepsPlaced
  <2> QED
    BY <2>2, <2>3, <2>4 DEF Inv, KeepsPlaced
<1>3. ASSUME RecoverDisk
      PROVE  Inv'
  <2>1. failed \in Disk
    BY <1>3 DEF RecoverDisk, Inv, TypeOK
  <2>2. [row \in 0..rows - 1 |-> Rebuilt(failed, row)] \in [0..rows - 1 -> Block]
    BY RebuiltType
  <2>3. TypeOK'
    BY <1>3, <2>1, <2>2 DEF RecoverDisk, Inv, TypeOK
  <2>4. Shape'
    BY <1>3 DEF RecoverDisk, Inv, Shape
  <2>5. CASE lost \subseteq {failed}
    <3>1. \A row \in 0..rows - 1 : Rebuilt(failed, row) = Placed(written, row, failed)
      BY <2>1, <2>5, RebuiltAsPlaced
    <3>2. \A d \in Disk : disks'[d] = [row \in 0..rows - 1 |-> Placed(written, row, d)]
      BY <1>3, <2>1, <2>5, <3>1 DEF RecoverDisk, Inv, TypeOK, KeepsPlaced
    <3>3. KeepsPlaced' /\ LossIsMarked'
      BY <1>3, <2>5, <3>2 DEF RecoverDisk, KeepsPlaced, LossIsMarked
    <3> QED
      BY <2>3, <2>4, <3>3 DEF Inv
  <2>6. CASE ~ (lost \subseteq {failed})
    <3>1. KeepsPlaced'
      BY <1>3, <2>6 DEF RecoverDisk, Inv, TypeOK, KeepsPlaced
    <3>2. LossIsMarked'
      BY <1>3, <2>6 DEF RecoverDisk, LossIsMarked
    <3> QED
      BY <2>3, <2>4, <3>1, <3>2 DEF Inv
  <2> QED
    BY <2>5, <2>6
<1>4. CASE UNCHANGED vars
  <2>1. TypeOK' /\ Shape'
    BY <1>4 DEF vars, Inv, TypeOK, Shape
  <2>2. KeepsPlaced' /\ LossIsMarked'
    BY <1>4 DEF vars, Inv, KeepsPlaced, LossIsMarked
  <2> QED
    BY <2>1, <2>2 DEF Inv
<1> QED
  BY <1>1, <1>2, <1>3, <1>4 DEF Next

(* The invariant holds always. *)
THEOREM Invariance == Spec => []Inv
<1> QED
  BY InvInit, InvStep, PTL DEF Spec

(* Every variable of the array has its type. *)
THEOREM ArrayTypeCorrect == Spec => []TypeOK
<1>1. Inv => TypeOK
  BY DEF Inv
<1> QED
  BY <1>1, Invariance, PTL

(* With one disk lost at most, what is read is what was written: for any   *)
(* number of disks, size of blocks, data, failures and recoveries.         *)
THEOREM ArrayKeepsData == Spec => []SurvivesOneFailure
<1> QED
  BY InvGivesData, Invariance, PTL
=============================================================================
