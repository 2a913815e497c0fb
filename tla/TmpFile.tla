------------------------------- MODULE TmpFile -------------------------------
(***************************************************************************)
(* One regular file of tmpfs.c, its fixed buffer and its size, read,       *)
(* written and repositioned through several open files.                    *)
(***************************************************************************)
EXTENDS Integers, Sequences

CONSTANTS
  Handles,   \* the struct files that show the file
  Bytes, Zero,
  MaxSize,   \* TMPFS_MAX_FILE_SIZE
  Lengths,   \* bound: the lengths passed to read and write
  MaxSeek    \* bound: the largest offset passed to lseek64

ASSUME TmpFileAssumption ==
  /\ MaxSize \in Nat \ {0} /\ MaxSeek \in Nat /\ Lengths \subseteq Nat
  /\ Zero \in Bytes

VARIABLES
  data,   \* u.data, from offset 0
  size,
  f_pos,  \* of every open file
  got     \* the bytes the last read copied out
vars == <<data, size, f_pos, got>>

Offsets == 0 .. MaxSize - 1

(* tmpfs_alloc_node zeroes the node.                                         *)
Init ==
  /\ data = [i \in Offsets |-> Zero] /\ size = 0
  /\ f_pos = [h \in Handles |-> 0] /\ got = <<>>

(* How many of len bytes there is room for, and how many there are to read;  *)
(* the subtractions are of unsigned numbers and wrap below zero to more than *)
(* any length.                                                               *)
AtMost(n, len) == IF n < 0 \/ n > len THEN len ELSE n
Writable(h, len) == AtMost(MaxSize - f_pos[h], len)
Readable(h, len) == AtMost(size - f_pos[h], len)

(* tmpfs_write; without room it fails.  A write of nothing is never turned   *)
(* away, and makes the file reach the place of h, wherever that is.          *)
(* Faulty variant of the size: it ends with the write.                       *)
SizeTruncated(h, n) == f_pos[h] + n
SizeAfter(h, n) == IF size < f_pos[h] + n THEN f_pos[h] + n ELSE size
Write(h, buf) ==
  LET n == Writable(h, Len(buf))
  IN  /\ ~(f_pos[h] >= MaxSize /\ Len(buf) > 0)
      /\ data' = [i \in Offsets |->
                    IF f_pos[h] <= i /\ i < f_pos[h] + n
                    THEN buf[i - f_pos[h] + 1] ELSE data[i]]
      /\ size' = SizeAfter(h, n)
      /\ f_pos' = [f_pos EXCEPT ![h] = @ + n]
      /\ UNCHANGED got

(* tmpfs_read.  Where the size lies behind the buffer, what is copied from   *)
(* there is whatever the memory behind it holds.                             *)
Read(h, len) ==
  LET n == Readable(h, len)
  IN  /\ \/ /\ f_pos[h] >= size
            /\ got' = <<>> /\ UNCHANGED f_pos
         \/ /\ f_pos[h] < size
            /\ got' \in [1 .. n -> Bytes]
            /\ \A i \in 1 .. n : f_pos[h] + i <= MaxSize => got'[i] = data[f_pos[h] + i - 1]
            /\ f_pos' = [f_pos EXCEPT ![h] = @ + n]
      /\ UNCHANGED <<data, size>>

(* tmpfs_lseek64 from the start; the offset is not compared with the size.   *)
Lseek(h, offset) ==
  /\ f_pos' = [f_pos EXCEPT ![h] = offset]
  /\ UNCHANGED <<data, size, got>>

Next ==
  \E h \in Handles :
    \/ \E len \in Lengths :
         \/ \E buf \in [1 .. len -> Bytes] : Write(h, buf)
         \/ Read(h, len)
    \/ \E offset \in 0 .. MaxSeek : Lseek(h, offset)

Spec == Init /\ [][Next]_vars

-----------------------------------------------------------------------------
TypeOK ==
  /\ data \in [Offsets -> Bytes]
  /\ size \in Nat
  /\ f_pos \in [Handles -> Nat]
  /\ got \in Seq(Bytes)

(* "at most 4096 bytes for a file": the size passes the end of the buffer in *)
(* one way only, by a write of nothing at a place behind it, which           *)
(* tmpfs_write does not compare with the buffer; no such write stores a byte.*)
SizeBounded ==
  [][size' > MaxSize /\ size' # size =>
       /\ \E h \in Handles : f_pos[h] > MaxSize /\ size' = f_pos[h]
       /\ UNCHANGED <<data, f_pos>>]_vars

(* The file is a sequence of bytes, with a place for every handle, and a     *)
(* hole left by lseek64 reads as zeros: nothing beyond the size has ever     *)
(* been written (tmpfs_read, tmpfs_write, tmpfs_lseek64).                    *)
Abstract == INSTANCE ByteFile WITH
  contents <- [i \in 1 .. (IF size <= MaxSize THEN size ELSE MaxSize) |-> data[i - 1]],
  length <- size,
  at <- f_pos,
  Capacity <- MaxSize
IsByteFile == Abstract!Spec
=============================================================================
