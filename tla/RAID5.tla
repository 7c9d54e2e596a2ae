-------------------------------- MODULE RAID5 --------------------------------
(***************************************************************************)
(* The storage array of src/raid5.py: data in rows of blocks, one on each  *)
(* disk, of which one is the XOR of the others and changes place from row  *)
(* to row; failures of disks, what is read meanwhile, and recovery.        *)
(*                                                                         *)
(* A byte is one bit, since XOR treats the eight alike.  Disks, rows,      *)
(* blocks of a row and bytes of a block are counted from 0.                *)
(***************************************************************************)
EXTENDS Integers, Sequences, FiniteSets

CONSTANTS
    DataDisks,   \* num_data_disks
    StripeSize,  \* stripe_size
    Data,        \* what is written
    NoDisk       \* no disk has failed

ASSUME ArrayAssumption ==
    /\ DataDisks \in Nat /\ DataDisks >= 2
    /\ StripeSize \in Nat /\ StripeSize >= 1
    /\ Data \subseteq Seq({0, 1})
    /\ NoDisk \notin 0..DataDisks

VARIABLES
    disks,    \* disks[d][row]: a block
    failed,   \* failed_disk
    rows,     \* num_stripe_rows
    padding,  \* _padding
    written,  \* what was written last
    lost      \* disks that have failed since, and are not rebuilt

vars == <<disks, failed, rows, padding, written, lost>>

-----------------------------------------------------------------------------

Disk  == 0..DataDisks
Block == [0..StripeSize - 1 -> {0, 1}]
Zeros == [k \in 0..StripeSize - 1 |-> 0]

RowSize == DataDisks * StripeSize

(* _xor_bytes of the blocks of a set of disks. *)
Xor(block, set) ==
    [k \in 0..StripeSize - 1 |-> Cardinality({d \in set : block[d][k] = 1}) % 2]

ParityDisk(row) == DataDisks - (row % (DataDisks + 1))

(* Variant: the blocks are read as if the parity were always on the last disk. *)
SameDisk(b, row) == b

(* The disk that block b of a row is on. *)
DiskOf(b, row) == IF b < ParityDisk(row) THEN b ELSE b + 1

(* Byte i of the padded data, and block b of a row of it. *)
Padded(data, i) == IF i < Len(data) THEN data[i + 1] ELSE 0
DataBlock(data, row, b) ==
    [k \in 0..StripeSize - 1 |-> Padded(data, row * RowSize + b * StripeSize + k)]

DataBlocks(data, row) == [b \in 0..DataDisks - 1 |-> DataBlock(data, row, b)]

(* Variant: data that fills its rows is padded with another one. *)
AlwaysPads(data) == RowSize - (Len(data) % RowSize)

PaddingOf(data) ==
    IF Len(data) % RowSize = 0 THEN 0 ELSE RowSize - (Len(data) % RowSize)

RowsOf(data) == (Len(data) + PaddingOf(data)) \div RowSize

(* The block that disk d has in a row. *)
Placed(data, row, d) ==
    IF d = ParityDisk(row) THEN Xor(DataBlocks(data, row), 0..DataDisks - 1)
    ELSE DataBlock(data, row, IF d < ParityDisk(row) THEN d ELSE d - 1)

(* The blocks of a row as the disks hold them. *)
Row(row) == [d \in Disk |-> disks[d][row]]

(* Disk d as the XOR of the others. *)
Rebuilt(d, row) == Xor(Row(row), Disk \ {d})

(* The blocks of a row as read takes them. *)
ReadRow(row) ==
    IF failed = NoDisk THEN Row(row)
    ELSE [Row(row) EXCEPT ![failed] = Rebuilt(failed, row)]

(* read: the data blocks of the rows one after the other. *)
Read ==
    [i \in 1..(rows * RowSize - padding) |->
        LET row == (i - 1) \div RowSize
            n   == (i - 1) % RowSize
        IN  ReadRow(row)[DiskOf(n \div StripeSize, row)][n % StripeSize]]

-----------------------------------------------------------------------------

Init ==
    /\ disks = [d \in Disk |-> [row \in {} |-> Zeros]]
    /\ failed = NoDisk
    /\ rows = 0
    /\ padding = 0
    /\ written = <<>>
    /\ lost = {}

(* A disk that failed and was not recovered stays marked as failed. *)
Write(data) ==
    /\ disks' = [d \in Disk |-> [row \in 0..RowsOf(data) - 1 |-> Placed(data, row, d)]]
    /\ rows' = RowsOf(data)
    /\ padding' = PaddingOf(data)
    /\ written' = data
    /\ lost' = {}
    /\ UNCHANGED failed

(* simulate_disk_failure: another disk may have failed before. *)
Fail(d) ==
    /\ failed' = d
    /\ disks' = [disks EXCEPT ![d] = [row \in 0..rows - 1 |-> Zeros]]
    /\ lost' = lost \cup {d}
    /\ UNCHANGED <<rows, padding, written>>

(* Variant: the disk is marked as healthy and not rebuilt. *)
MarksOnly ==
    /\ failed # NoDisk
    /\ failed' = NoDisk
    /\ lost' = IF lost \subseteq {failed} THEN {} ELSE lost
    /\ UNCHANGED <<disks, rows, padding, written>>

(* recover_disk.  What is rebuilt from another lost disk is lost as well. *)
RecoverDisk ==
    /\ failed # NoDisk
    /\ disks' = [disks EXCEPT ![failed] = [row \in 0..rows - 1 |-> Rebuilt(failed, row)]]
    /\ failed' = NoDisk
    /\ lost' = IF lost \subseteq {failed} THEN {} ELSE lost \cup {failed}
    /\ UNCHANGED <<rows, padding, written>>

Next ==
    \/ \E data \in Data : Write(data)
    \/ \E d \in Disk : Fail(d)
    \/ RecoverDisk

Spec == Init /\ [][Next]_vars

-----------------------------------------------------------------------------

(* Every variable has its type. *)
TypeOK ==
    /\ rows \in Nat
    /\ padding \in 0..RowSize - 1
    /\ disks \in [Disk -> [0..rows - 1 -> Block]]
    /\ failed \in Disk \cup {NoDisk}
    /\ written \in Seq({0, 1})
    /\ lost \subseteq Disk

(* What is read is what was written, through any number of failures and    *)
(* recoveries and with a disk still marked as failed from before the       *)
(* write, as long as no two disks are lost at the same time                *)
(* ("Subsequent read() calls will reconstruct its content").               *)
SurvivesOneFailure ==
    (\E d \in Disk : lost \subseteq {d}) => Read = written
=============================================================================
