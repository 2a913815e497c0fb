---------------------------- MODULE TmpFileProofs ----------------------------
(***************************************************************************)
(* A tmpfs file is the sequence of bytes that ByteFile describes, and only *)
(* a write of nothing makes it longer than its buffer (TmpFile).           *)
(* What is written to the framebuffer is on the screen (Framebuffer).      *)
(* Paths behave as in one tree where users mount on empty directories      *)
(* (Mounts).                                                               *)
(* Every block that lab6's processes hold is counted, from creation and    *)
(* fork over faults, signals and exec to the end, wherever memory runs     *)
(* out, and the hart runs on the memory of its thread (ProcessMemory).     *)
(***************************************************************************)
EXTENDS TmpFile, Framebuffer, Mounts, ProcessMemory, WellFoundedInduction,
        FiniteSetTheorems, TLAPS

(* Nothing beyond the size has ever been written: what a hole relies on.     *)
HolesZero == \A i \in Offsets : i >= size => data[i] = Zero

IInv == TypeOK /\ HolesZero

(* A write of at least one byte that is not turned away has room for one,    *)
(* and ends within the buffer.                                               *)
LEMMA WritableFits ==
  ASSUME TypeOK, NEW h \in Handles, NEW len \in Nat \ {0}, f_pos[h] < MaxSize
  PROVE  /\ Writable(h, len) \in 1 .. len
         /\ f_pos[h] + Writable(h, len) <= MaxSize
BY TmpFileAssumption DEF TypeOK, Writable, AtMost

LEMMA ReadableFits ==
  ASSUME TypeOK, NEW h \in Handles, NEW len \in Nat, f_pos[h] < size
  PROVE  /\ Readable(h, len) \in 0 .. len
         /\ f_pos[h] + Readable(h, len) <= size
BY DEF TypeOK, Readable, AtMost

(* What a write does: it stores what fits, or, empty, it stores nothing.     *)
LEMMA WriteDoes ==
  ASSUME TypeOK, NEW h \in Handles, NEW len \in Nat,
         NEW buf \in [1 .. len -> Bytes], Write(h, buf)
  PROVE  \E n \in Nat :
           /\ n = Writable(h, Len(buf)) /\ Len(buf) = len
           /\ \/ n > 0 /\ n <= len /\ f_pos[h] + n <= MaxSize
              \/ n = 0 /\ len = 0 /\ data' = data /\ f_pos' = f_pos
           /\ data' = [i \in Offsets |-> IF f_pos[h] <= i /\ i < f_pos[h] + n
                                         THEN buf[i - f_pos[h] + 1] ELSE data[i]]
           /\ size' = IF size < f_pos[h] + n THEN f_pos[h] + n ELSE size
           /\ f_pos' = [f_pos EXCEPT ![h] = f_pos[h] + n]
           /\ got' = got
<1> DEFINE n == Writable(h, Len(buf))
<1>1. Len(buf) = len /\ f_pos[h] \in Nat /\ MaxSize \in Nat \ {0}
  BY TmpFileAssumption DEF TypeOK
<1>2. /\ data' = [i \in Offsets |-> IF f_pos[h] <= i /\ i < f_pos[h] + n
                                    THEN buf[i - f_pos[h] + 1] ELSE data[i]]
      /\ size' = IF size < f_pos[h] + n THEN f_pos[h] + n ELSE size
      /\ f_pos' = [f_pos EXCEPT ![h] = f_pos[h] + n]
      /\ got' = got
  BY DEF Write, SizeAfter, n
<1>3. CASE len # 0
  <2>1. f_pos[h] < MaxSize
    BY <1>1, <1>3 DEF Write
  <2>2. n \in 1 .. len /\ f_pos[h] + n <= MaxSize
    BY <1>1, <1>3, <2>1, WritableFits
  <2> HIDE DEF n
  <2>3. n \in Nat /\ n > 0 /\ n <= len
    BY <2>2
  <2> QED BY <1>1, <1>2, <2>2, <2>3 DEF n
<1>4. CASE len = 0
  <2>1. n = 0
    BY <1>1, <1>4 DEF Writable, AtMost
  <2> HIDE DEF n
  <2>2. \A i \in Offsets : ~(f_pos[h] <= i /\ i < f_pos[h] + n)
    BY <1>1, <2>1 DEF Offsets
  <2>3. data' = [i \in Offsets |-> data[i]]
    BY <1>2, <2>2
  <2>4. data' = data /\ f_pos' = f_pos
    BY <1>1, <1>2, <2>1, <2>3 DEF TypeOK
  <2> QED BY <1>1, <1>2, <1>4, <2>1, <2>4 DEF n
<1> QED BY <1>3, <1>4

LEMMA InitIInv == Init => IInv
BY TmpFileAssumption DEF Init, IInv, TypeOK, HolesZero, Offsets

LEMMA WriteIInv ==
  ASSUME IInv, NEW h \in Handles, NEW len \in Nat,
         NEW buf \in [1 .. len -> Bytes], Write(h, buf)
  PROVE  IInv'
<1>1. PICK n \in Nat :
        /\ n = Writable(h, Len(buf)) /\ Len(buf) = len
        /\ \/ n > 0 /\ n <= len /\ f_pos[h] + n <= MaxSize
           \/ n = 0 /\ len = 0 /\ data' = data /\ f_pos' = f_pos
        /\ data' = [i \in Offsets |-> IF f_pos[h] <= i /\ i < f_pos[h] + n
                                      THEN buf[i - f_pos[h] + 1] ELSE data[i]]
        /\ size' = IF size < f_pos[h] + n THEN f_pos[h] + n ELSE size
        /\ f_pos' = [f_pos EXCEPT ![h] = f_pos[h] + n]
        /\ got' = got
  BY WriteDoes DEF IInv
<1>2. f_pos[h] \in Nat /\ size \in Nat
  BY DEF IInv, TypeOK
<1>3. data' \in [Offsets -> Bytes]
  <2>1. CASE n = 0
    BY <1>1, <2>1 DEF IInv, TypeOK
  <2>2. CASE n > 0
    BY <1>1, <1>2, <2>2 DEF IInv, TypeOK, Offsets
  <2> QED BY <2>1, <2>2
<1>4. TypeOK'
  BY <1>1, <1>2, <1>3 DEF IInv, TypeOK
<1>5. HolesZero'
  BY <1>1, <1>2 DEF IInv, TypeOK, HolesZero, Offsets
<1> QED BY <1>4, <1>5 DEF IInv

LEMMA ReadIInv ==
  ASSUME IInv, NEW h \in Handles, NEW len \in Nat, Read(h, len)
  PROVE  IInv'
<1> DEFINE n == Readable(h, len)
<1>0. UNCHANGED <<data, size>>
  BY DEF Read
<1>1. CASE f_pos[h] >= size /\ got' = <<>> /\ UNCHANGED f_pos
  BY <1>0, <1>1 DEF IInv, TypeOK, HolesZero
<1>2. CASE f_pos[h] < size /\ got' \in [1 .. n -> Bytes]
           /\ f_pos' = [f_pos EXCEPT ![h] = @ + n]
  <2>1. n \in Nat /\ f_pos[h] \in Nat
    BY <1>2, ReadableFits DEF IInv, TypeOK
  <2> HIDE DEF n
  <2>2. got' \in Seq(Bytes)
    BY <1>2, <2>1
  <2>3. f_pos' \in [Handles -> Nat]
    BY <1>2, <2>1 DEF IInv, TypeOK
  <2> QED BY <1>0, <2>2, <2>3 DEF IInv, TypeOK, HolesZero
<1> QED BY <1>1, <1>2 DEF Read

LEMMA LseekIInv ==
  ASSUME IInv, NEW h \in Handles, NEW offset \in Nat, Lseek(h, offset)
  PROVE  IInv'
BY DEF Lseek, IInv, TypeOK, HolesZero

LEMMA NextIInv ==
  ASSUME IInv, [Next]_vars
  PROVE  IInv'
<1>1. ASSUME NEW h \in Handles, NEW len \in Lengths,
             NEW buf \in [1 .. len -> Bytes], Write(h, buf)
      PROVE  IInv'
  BY <1>1, WriteIInv, TmpFileAssumption
<1>2. ASSUME NEW h \in Handles, NEW len \in Lengths, Read(h, len)
      PROVE  IInv'
  BY <1>2, ReadIInv, TmpFileAssumption
<1>3. ASSUME NEW h \in Handles, NEW offset \in 0 .. MaxSeek, Lseek(h, offset)
      PROVE  IInv'
  BY <1>3, LseekIInv, TmpFileAssumption
<1>4. CASE UNCHANGED vars
  BY <1>4 DEF vars, IInv, TypeOK, HolesZero
<1> QED BY <1>1, <1>2, <1>3, <1>4 DEF Next

(* The size of a file passes the end of its buffer only by a write of        *)
(* nothing behind it, for any buffer and any lengths, zero among them        *)
(* (tmpfs_write).                                                            *)
THEOREM FileSizeBounded == Spec => SizeBounded
<1> DEFINE Grows == size' > MaxSize /\ size' # size =>
                      /\ \E h \in Handles : f_pos[h] > MaxSize /\ size' = f_pos[h]
                      /\ UNCHANGED <<data, f_pos>>
<1>1. ASSUME IInv, [Next]_vars
      PROVE  [Grows]_vars
  <2>1. ASSUME NEW h \in Handles, NEW len \in Lengths,
               NEW buf \in [1 .. len -> Bytes], Write(h, buf)
        PROVE  Grows
    <3>0. len \in Nat
      BY TmpFileAssumption
    <3>1. PICK n \in Nat :
            /\ n = Writable(h, Len(buf)) /\ Len(buf) = len
            /\ \/ n > 0 /\ n <= len /\ f_pos[h] + n <= MaxSize
               \/ n = 0 /\ len = 0 /\ data' = data /\ f_pos' = f_pos
            /\ data' = [i \in Offsets |-> IF f_pos[h] <= i /\ i < f_pos[h] + n
                                          THEN buf[i - f_pos[h] + 1] ELSE data[i]]
            /\ size' = IF size < f_pos[h] + n THEN f_pos[h] + n ELSE size
            /\ f_pos' = [f_pos EXCEPT ![h] = f_pos[h] + n]
            /\ got' = got
      BY <1>1, <2>1, <3>0, WriteDoes DEF IInv
    <3>2. f_pos[h] \in Nat /\ size \in Nat /\ MaxSize \in Nat
      BY <1>1, TmpFileAssumption DEF IInv, TypeOK
    <3>3. CASE n > 0 /\ f_pos[h] + n <= MaxSize
      BY <3>1, <3>2, <3>3
    <3>4. CASE n = 0 /\ data' = data /\ f_pos' = f_pos
      BY <3>1, <3>2, <3>4
    <3> QED BY <3>1, <3>3, <3>4
  <2>2. ASSUME NEW h \in Handles, \/ \E len \in Lengths : Read(h, len)
                                  \/ \E offset \in 0 .. MaxSeek : Lseek(h, offset)
        PROVE  Grows
    BY <2>2 DEF Read, Lseek
  <2>3. CASE UNCHANGED vars
    BY <2>3
  <2> QED BY <1>1, <2>1, <2>2, <2>3 DEF Next
<1>2. IInv /\ [Next]_vars => IInv'
  BY NextIInv
<1> QED BY <1>1, <1>2, InitIInv, PTL DEF Spec, SizeBounded

-----------------------------------------------------------------------------
(* Every step is a step of ByteFile.                                         *)
WithinBuffer == IF size <= MaxSize THEN size ELSE MaxSize
Contents == [i \in 1 .. WithinBuffer |-> data[i - 1]]

LEMMA WriteImplements ==
  ASSUME IInv, NEW h \in Handles, NEW len \in Nat,
         NEW buf \in [1 .. len -> Bytes], Write(h, buf)
  PROVE  Abstract!Write(h, buf)
<1> DEFINE m == Abstract!Lesser(Len(buf), Abstract!Greater(0, MaxSize - f_pos[h]))
<1>1. PICK n \in Nat :
        /\ n = Writable(h, Len(buf)) /\ Len(buf) = len
        /\ \/ n > 0 /\ n <= len /\ f_pos[h] + n <= MaxSize
           \/ n = 0 /\ len = 0 /\ data' = data /\ f_pos' = f_pos
        /\ data' = [i \in Offsets |-> IF f_pos[h] <= i /\ i < f_pos[h] + n
                                      THEN buf[i - f_pos[h] + 1] ELSE data[i]]
        /\ size' = IF size < f_pos[h] + n THEN f_pos[h] + n ELSE size
        /\ f_pos' = [f_pos EXCEPT ![h] = f_pos[h] + n]
        /\ got' = got
  BY WriteDoes DEF IInv
<1>2. f_pos[h] \in Nat /\ size \in Nat /\ MaxSize \in Nat \ {0}
  BY TmpFileAssumption DEF IInv, TypeOK
<1>3. n = m
  <2>1. CASE n = 0
    BY <1>1, <1>2, <2>1 DEF Abstract!Lesser, Abstract!Greater
  <2>2. CASE n > 0 /\ f_pos[h] + n <= MaxSize
    BY <1>1, <1>2, <2>2 DEF Writable, AtMost, Abstract!Lesser, Abstract!Greater
  <2> QED BY <1>1, <2>1, <2>2
<1> DEFINE end == f_pos[h] + n
<1>4. size' = Abstract!Greater(end, size) /\ size' \in Nat
  BY <1>1, <1>2 DEF Abstract!Greater
<1>5. WithinBuffer' = Abstract!Lesser(Abstract!Greater(end, size), MaxSize)
  BY <1>2, <1>4 DEF WithinBuffer, Abstract!Lesser
<1>6. ASSUME NEW i \in 1 .. WithinBuffer'
      PROVE  data'[i - 1] = IF i \in f_pos[h] + 1 .. end THEN buf[i - f_pos[h]]
                            ELSE IF i <= size THEN Contents[i] ELSE Zero
  <2>1. i - 1 \in Offsets /\ i \in Int /\ i <= size' /\ i <= MaxSize /\ 1 <= i
    BY <1>2, <1>4, <1>6 DEF Offsets, WithinBuffer
  <2>2. CASE i \in f_pos[h] + 1 .. end
    BY <2>1, <2>2, <1>1, <1>2, SMTT(30)
  <2>3. CASE i \notin f_pos[h] + 1 .. end /\ i <= size
    <3>1. i \in 1 .. WithinBuffer
      BY <1>2, <2>1, <2>3 DEF WithinBuffer
    <3>2. data'[i - 1] = data[i - 1]
      BY <2>1, <2>3, <1>1, <1>2
    <3> QED BY <2>3, <3>1, <3>2 DEF Contents
  <2>4. CASE i \notin f_pos[h] + 1 .. end /\ ~(i <= size)
    <3>1. i - 1 >= size
      BY <1>2, <2>1, <2>4
    <3>2. data'[i - 1] = data[i - 1]
      BY <2>1, <2>4, <1>1, <1>2
    <3> QED BY <2>1, <2>4, <3>1, <3>2 DEF IInv, HolesZero
  <2> QED BY <2>2, <2>3, <2>4
<1>7. Contents' = [i \in 1 .. Abstract!Lesser(Abstract!Greater(end, size), MaxSize) |->
                     IF i \in f_pos[h] + 1 .. end THEN buf[i - f_pos[h]]
                     ELSE IF i <= size THEN Contents[i] ELSE Zero]
  <2> HIDE DEF end
  <2>1. Contents' = [i \in 1 .. WithinBuffer' |-> data'[i - 1]]
    BY DEF Contents
  <2> QED BY <1>5, <1>6, <2>1
<1>8. n > 0 \/ Len(buf) = 0
  BY <1>1
<1> HIDE DEF m
<1> DEFINE e == f_pos[h] + m
<1>9. /\ m > 0 \/ Len(buf) = 0
      /\ size' = Abstract!Greater(e, size)
      /\ Contents' = [i \in 1 .. Abstract!Lesser(Abstract!Greater(e, size), MaxSize) |->
                        IF i \in f_pos[h] + 1 .. e THEN buf[i - f_pos[h]]
                        ELSE IF i <= size THEN Contents[i] ELSE Zero]
      /\ f_pos' = [f_pos EXCEPT ![h] = e] /\ got' = got
  BY <1>1, <1>3, <1>4, <1>7, <1>8
<1> QED BY <1>9, Zenon DEF Abstract!Write, Contents, WithinBuffer, m

LEMMA ReadImplements ==
  ASSUME IInv, NEW h \in Handles, NEW len \in Nat, Read(h, len)
  PROVE  Abstract!Read(h, len)
<1> DEFINE n == Abstract!Lesser(len, Abstract!Greater(0, size - f_pos[h]))
<1>1. size \in Nat /\ f_pos[h] \in Nat /\ MaxSize \in Nat
  BY TmpFileAssumption DEF IInv, TypeOK
<1>2. UNCHANGED <<data, size>>
  BY DEF Read
<1>3. CASE f_pos[h] >= size /\ got' = <<>> /\ UNCHANGED f_pos
  <2>1. n = 0
    BY <1>1, <1>3 DEF Abstract!Lesser, Abstract!Greater
  <2> HIDE DEF n
  <2>2. got' \in [1 .. n -> Bytes] /\ \A i \in 1 .. n : FALSE
    BY <2>1, <1>3
  <2>3. f_pos' = [f_pos EXCEPT ![h] = @ + n]
    BY <2>1, <1>3, <1>1 DEF IInv, TypeOK
  <2> QED BY <2>2, <2>3, <1>2 DEF Abstract!Read, n
<1>4. CASE /\ f_pos[h] < size
           /\ got' \in [1 .. Readable(h, len) -> Bytes]
           /\ \A i \in 1 .. Readable(h, len) :
                f_pos[h] + i <= MaxSize => got'[i] = data[f_pos[h] + i - 1]
           /\ f_pos' = [f_pos EXCEPT ![h] = @ + Readable(h, len)]
  <2>1. n = Readable(h, len) /\ n \in Nat /\ f_pos[h] + n <= size
    BY <1>1, <1>4 DEF Abstract!Lesser, Abstract!Greater, Readable, AtMost
  <2> HIDE DEF n
  <2>2. ASSUME NEW i \in 1 .. n, f_pos[h] + i <= MaxSize
        PROVE  got'[i] = Contents[f_pos[h] + i]
    <3>1. f_pos[h] + i \in 1 .. WithinBuffer
      BY <1>1, <2>1, <2>2 DEF WithinBuffer
    <3>2. got'[i] = data[f_pos[h] + i - 1]
      BY <1>4, <2>1, <2>2
    <3>3. PICK k \in 1 .. WithinBuffer : k = f_pos[h] + i
      BY <3>1
    <3>4. Contents[k] = data[k - 1]
      BY <3>3 DEF Contents
    <3>5. k - 1 = f_pos[h] + i - 1
      <4>1. i \in Nat /\ f_pos[h] \in Nat
        BY <1>1, <2>1
      <4> QED BY <3>3, <4>1
    <3> HIDE DEF Contents
    <3> QED BY <3>2, <3>3, <3>4, <3>5
  <2>3. /\ got' \in [1 .. n -> Bytes]
        /\ \A i \in 1 .. n : f_pos[h] + i <= MaxSize => got'[i] = Contents[f_pos[h] + i]
        /\ f_pos' = [f_pos EXCEPT ![h] = @ + n]
    BY <1>4, <2>1, <2>2
  <2> QED BY <1>2, <2>3, Zenon DEF Abstract!Read, Contents, WithinBuffer, n
<1> QED BY <1>3, <1>4 DEF Read

LEMMA InitImplements == Init => Abstract!Init
BY TmpFileAssumption DEF Init, Abstract!Init

LEMMA NextImplements ==
  ASSUME IInv, [Next]_vars
  PROVE  [Abstract!Next]_(Abstract!vars)
<1>1. ASSUME NEW h \in Handles, NEW len \in Lengths,
             NEW buf \in [1 .. len -> Bytes], Write(h, buf)
      PROVE  Abstract!Next
  BY <1>1, WriteImplements, TmpFileAssumption DEF Abstract!Next
<1>2. ASSUME NEW h \in Handles, NEW len \in Lengths, Read(h, len)
      PROVE  Abstract!Next
  BY <1>2, ReadImplements, TmpFileAssumption DEF Abstract!Next
<1>3. ASSUME NEW h \in Handles, NEW offset \in 0 .. MaxSeek, Lseek(h, offset)
      PROVE  Abstract!Next
  BY <1>3 DEF Lseek, Abstract!Next, Abstract!Seek
<1>4. CASE UNCHANGED vars
  BY <1>4 DEF vars, Abstract!vars
<1> QED BY <1>1, <1>2, <1>3, <1>4 DEF Next

(* tmpfs_read, tmpfs_write and tmpfs_lseek64 implement a sequence of bytes,  *)
(* for any size, any number of handles and any lengths, zero among them.     *)
THEOREM TmpFileIsByteFile == Spec => IsByteFile
<1>1. IInv /\ [Next]_vars => IInv'
  BY NextIInv
<1>2. IInv /\ [Next]_vars => [Abstract!Next]_(Abstract!vars)
  BY NextImplements
<1> QED
  BY <1>1, <1>2, InitIInv, InitImplements, PTL DEF Spec, IsByteFile, Abstract!Spec

-----------------------------------------------------------------------------
(* /dev/fb and images (Framebuffer), for any screen, cache line and image.   *)
(*                                                                           *)
(* The argument: the processor sees what was last to be shown, and the       *)
(* display sees the same but at what a call has copied and not flushed, or   *)
(* left so when it was ended (FbInv).  Every byte that is written lies in a  *)
(* line that is flushed (FlushCovers).  A byte is in a row of an image just  *)
(* if its pixel is (RowOver, RowsShow), so every byte of the image is in     *)
(* some row that is still to come until it is copied (CallSound).            *)
(* Multiples, quotients and remainders.                                      *)
LEMMA Quotient ==
  ASSUME NEW n \in Nat \ {0}, NEW x \in Int
  PROVE  /\ x = (x \div n) * n + (x % n)
         /\ x \div n \in Int /\ x % n \in 0 .. n - 1
OBVIOUS

LEMMA QuotientOf ==
  ASSUME NEW n \in Nat \ {0}, NEW q \in Int, NEW r \in 0 .. n - 1
  PROVE  (q * n + r) \div n = q /\ (q * n + r) % n = r
OBVIOUS

LEMMA Scaled ==
  ASSUME NEW n \in Nat \ {0}, NEW x \in Int, NEW y \in Int, x <= y
  PROVE  x * n <= y * n
OBVIOUS

LEMMA Distributes ==
  ASSUME NEW n \in Int, NEW x \in Int, NEW y \in Int
  PROVE  (x + y) * n = x * n + y * n /\ (x - y) * n = x * n - y * n /\ x * n \in Int
OBVIOUS

(* A number of q whole units and a part of one lies among c units.           *)
LEMMA Among ==
  ASSUME NEW n \in Nat \ {0}, NEW q \in Int, NEW c \in Int, NEW r \in 0 .. n - 1
  PROVE  0 <= q * n + r /\ q * n + r < c * n <=> 0 <= q /\ q < c
<1>1. q * n \in Int /\ c * n \in Int /\ 0 * n = 0 /\ (0 - 1) * n = 0 - n /\ (c - 1) * n = c * n - n
  BY Distributes
<1>2. CASE q < 0
  <2>1. q * n <= (0 - 1) * n
    BY <1>2, Scaled
  <2> QED BY <1>1, <1>2, <2>1
<1>3. CASE 0 <= q /\ q < c
  <2>1. 0 * n <= q * n /\ q * n <= (c - 1) * n
    BY <1>3, Scaled
  <2> QED BY <1>1, <1>3, <2>1
<1>4. CASE 0 <= q /\ c <= q
  <2>1. c * n <= q * n
    BY <1>4, Scaled
  <2> QED BY <1>1, <1>4, <2>1
<1> QED BY <1>2, <1>3, <1>4

LEMMA LeastOf ==
  ASSUME NEW X \in SUBSET Nat, X # {}
  PROVE  \E n \in X : \A x \in X : n <= x
<1>1. PICK n \in X : \A other \in X : <<other, n>> \notin OpToRel(<, Nat)
  <2>1. X \subseteq Nat /\ X # {}
    OBVIOUS
  <2> QED BY <2>1, WFMin, NatLessThanWellFounded
<1>2. OpToRel(<, Nat) = {pair \in Nat \X Nat : pair[1] < pair[2]}
  BY Zenon DEF OpToRel
<1>3. ASSUME NEW x \in X
      PROVE  n <= x
  <2>1. n \in Nat /\ x \in Nat
    OBVIOUS
  <2>2. <<x, n>> \notin {pair \in Nat \X Nat : pair[1] < pair[2]}
    BY <1>1, <1>2
  <2> QED BY <2>1, <2>2
<1> QED BY <1>3

LEMMA GreatestOf ==
  ASSUME NEW b \in Nat, NEW X \in SUBSET (0 .. b), X # {}
  PROVE  Max(X) \in X /\ \A x \in X : x <= Max(X)
<1> DEFINE Y == {b - x : x \in X}
<1>1. Y \in SUBSET Nat /\ Y # {}
  <2>1. \A x \in X : b - x \in Nat
    OBVIOUS
  <2> QED BY <2>1
<1>2. PICK m \in Y : \A y \in Y : m <= y
  <2> HIDE DEF Y
  <2> QED BY <1>1, LeastOf
<1>3. PICK n \in X : m = b - n
  BY <1>2
<1>4. ASSUME NEW x \in X PROVE n >= x
  <2>1. b - n <= b - x /\ x \in 0 .. b /\ n \in 0 .. b
    BY <1>2, <1>3
  <2> QED BY <2>1
<1>5. Max(X) \in X /\ \A x \in X : Max(X) >= x
  BY <1>4 DEF Max
<1>6. Max(X) \in Int /\ \A x \in X : x \in Int
  <2>1. X \subseteq Int
    OBVIOUS
  <2> QED BY <1>5, <2>1
<1> QED BY <1>5, <1>6

LEMMA MinOfTwo ==
  ASSUME NEW a \in Int, NEW b \in Int
  PROVE  Min({a, b}) = IF a <= b THEN a ELSE b
<1>1. \E x \in {a, b} : \A y \in {a, b} : x <= y
  BY DEF Min
<1>2. Min({a, b}) \in {a, b} /\ \A y \in {a, b} : Min({a, b}) <= y
  BY <1>1 DEF Min
<1> QED BY <1>2

LEMMA MinOfOne ==
  ASSUME NEW a \in Int
  PROVE  Min({a}) = a
<1>1. a \in {a} /\ \A y \in {a} : a <= y
  OBVIOUS
<1> QED BY <1>1 DEF Min

-----------------------------------------------------------------------------
LEMMA FbFacts ==
  /\ Width \in Nat \ {0} /\ Height \in Nat \ {0} /\ Bpp \in Nat \ {0} /\ Line \in Nat \ {0}
  /\ Size \in Nat
<1>1. Width \in Nat \ {0} /\ Height \in Nat \ {0} /\ Bpp \in Nat \ {0} /\ Line \in Nat \ {0}
  BY FramebufferAssumption
<1>2. Width * Height \in Nat
  BY <1>1
<1> DEFINE area == Width * Height
<1>3. area * Bpp \in Nat
  <2> HIDE DEF area
  <2> QED BY <1>1, <1>2 DEF area
<1> QED BY <1>1, <1>3 DEF Size

(* What is written lies in the lines that are flushed.                       *)
LEMMA LinesCover ==
  ASSUME NEW from \in Nat, NEW len \in Nat, NEW i \in FbBytes, from <= i, i < from + len
  PROVE  \E k \in 0 .. len : MoreLines(from, len, k) /\ i \in LineAfter(from, k)
<1> DEFINE qi == i \div Line
           ri == i % Line
           qf == from \div Line
           rf == from % Line
           k == qi - qf
<1>0. Line \in Nat \ {0} /\ i \in Nat
  BY FbFacts DEF FbBytes
<1>1. /\ i = qi * Line + ri /\ qi \in Int /\ ri \in 0 .. Line - 1
      /\ from = qf * Line + rf /\ qf \in Int /\ rf \in 0 .. Line - 1
  BY <1>0, Quotient
<1>r. from % Line = rf
  OBVIOUS
<1> HIDE DEF qi, ri, qf, rf
<1>2. k * Line = qi * Line - qf * Line /\ qi * Line \in Int /\ qf * Line \in Int
  BY <1>0, <1>1, Distributes
<1>3. from - (from % Line) + k * Line = qi * Line
  <2> DEFINE A == qi * Line
             B == qf * Line
             K == k * Line
  <2>1. K = A - B /\ A \in Int /\ B \in Int /\ from = B + rf /\ rf \in Int
    BY <1>0, <1>1, <1>2
  <2> HIDE DEF A, B, K
  <2>2. from - rf + K = A
    BY <2>1
  <2> QED BY <1>r, <2>2 DEF A, K
<1>4. qi * Line <= i
  BY <1>0, <1>1, <1>2
<1>5. (qi * Line) \div Line = qi
  <2>1. 0 \in 0 .. Line - 1 /\ qi * Line + 0 = qi * Line
    BY <1>0, <1>2
  <2> QED BY <1>0, <1>1, <2>1, QuotientOf
<1>6. 0 <= k
  <2>1. SUFFICES ASSUME k <= 0 - 1 PROVE FALSE
    BY <1>1
  <2>2. k * Line <= (0 - 1) * Line
    BY <1>0, <1>1, <2>1, Scaled
  <2>3. (0 - 1) * Line = 0 - Line
    BY <1>0
  <2> HIDE DEF k
  <2> QED BY <1>0, <1>1, <1>2, <2>2, <2>3
<1>7. k <= len
  <2> DEFINE d == i - from
  <2>1. d \in Nat /\ d < len
    BY <1>0
  <2>2. SUFFICES ASSUME d + 1 <= k PROVE FALSE
    BY <1>1, <2>1
  <2>3. (d + 1) * Line <= k * Line
    BY <1>0, <1>1, <2>1, <2>2, Scaled
  <2>4. (d + 1) * Line = d * Line + Line /\ d * Line \in Int
    BY <1>0, <2>1, Distributes
  <2>5. d <= d * Line
    BY <1>0, <2>1
  <2>6. k * Line = d + rf - ri
    BY <1>0, <1>1, <1>2
  <2> HIDE DEF d, k
  <2> QED BY <1>0, <1>1, <2>1, <2>3, <2>4, <2>5, <2>6
<1>8. k \in 0 .. len
  BY <1>1, <1>6, <1>7
<1>9. from - (from % Line) + k * Line < from + len /\ qi = (from - (from % Line) + k * Line) \div Line
  <2> HIDE DEF k
  <2> QED BY <1>0, <1>2, <1>3, <1>4, <1>5
<1>10. len > 0
  BY <1>0
<1> QED BY <1>8, <1>9, <1>10 DEF MoreLines, LineAfter, FlushFrom, qi

LEMMA FlushCovers ==
  ASSUME NEW from \in Nat, NEW len \in Nat, NEW i \in FbBytes, from <= i, i < from + len
  PROVE  i \in Flushed(from, len)
BY LinesCover DEF Flushed

(* When no line is left, the line of every byte has been flushed.            *)
LEMMA AllFlushed ==
  ASSUME NEW from \in Nat, NEW len \in Nat, NEW f \in Nat, ~MoreLines(from, len, f),
         NEW i \in FbBytes, from <= i, i < from + len
  PROVE  \E k \in 0 .. f - 1 : i \in LineAfter(from, k)
<1>1. PICK k \in 0 .. len : MoreLines(from, len, k) /\ i \in LineAfter(from, k)
  BY LinesCover
<1>2. Line \in Nat \ {0} /\ len > 0
  BY FbFacts, <1>1 DEF MoreLines
<1> DEFINE s == FlushFrom(from)
<1>3. s \in Int
  <2>1. from % Line \in Int
    BY <1>2
  <2> QED BY <2>1 DEF FlushFrom
<1>4. s + k * Line < from + len /\ ~(s + f * Line < from + len)
  BY <1>1, <1>2 DEF MoreLines
<1> HIDE DEF s
<1>5. f * Line \in Int /\ k * Line \in Int
  BY <1>2, Distributes
<1>6. ~(f <= k)
  <2>1. f <= k => f * Line <= k * Line
    BY <1>2, Scaled
  <2> DEFINE F == f * Line
             K == k * Line
  <2> HIDE DEF F, K
  <2>2. (f <= k => F <= K) /\ F \in Int /\ K \in Int /\ s + K < from + len /\ ~(s + F < from + len)
    BY <1>4, <1>5, <2>1 DEF F, K
  <2> QED BY <1>3, <2>2
<1> QED BY <1>1, <1>6

(* A byte of the screen is written when it is among those asked for, and is  *)
(* then flushed.                                                             *)
LEMMA WrittenIs ==
  ASSUME NEW from \in Nat, NEW len \in Nat, NEW i \in FbBytes
  PROVE  /\ RoomFor(from, len) \in Nat
         /\ i \in Written(from, len) <=> from <= i /\ i < from + len
         /\ i \in Written(from, len) => i \in Flushed(from, RoomFor(from, len))
<1>1. Size \in Nat /\ i \in Nat /\ i < Size
  BY FbFacts DEF FbBytes
<1>2. CASE from >= Size
  <2>1. RoomFor(from, len) = 0
    BY <1>2 DEF RoomFor
  <2> QED BY <1>1, <1>2, <2>1 DEF Written
<1>3. CASE from < Size
  <2>1. RoomFor(from, len) = Min({Size - from, len})
    BY <1>1, <1>3 DEF RoomFor
  <2>2. RoomFor(from, len) = IF Size - from <= len THEN Size - from ELSE len
    BY <1>1, <2>1, MinOfTwo
  <2>3. RoomFor(from, len) \in Nat
    BY <1>1, <1>3, <2>2
  <2>4. i \in Written(from, len) <=> from <= i /\ i < from + RoomFor(from, len)
    BY <1>1, <2>3 DEF Written
  <2>5. from <= i /\ i < from + RoomFor(from, len) <=> from <= i /\ i < from + len
    BY <1>1, <1>3, <2>2
  <2> QED BY <2>3, <2>4, <2>5, FlushCovers
<1> QED BY <1>1, <1>2, <1>3

RoomFits(from, len) ==
  /\ RoomFor(from, len) \in Nat /\ RoomFor(from, len) <= len
  /\ Written(from, len) \subseteq FbBytes
LEMMA RoomFit ==
  ASSUME NEW from \in Nat, NEW len \in Nat
  PROVE  RoomFits(from, len)
<1>1. Size \in Nat
  BY FbFacts
<1>2. CASE from >= Size
  <2>1. RoomFor(from, len) = 0
    BY <1>2 DEF RoomFor
  <2> QED BY <2>1 DEF Written, RoomFits
<1>3. CASE from < Size
  <2>1. RoomFor(from, len) = Min({Size - from, len})
    BY <1>1, <1>3 DEF RoomFor
  <2>2. RoomFor(from, len) = IF Size - from <= len THEN Size - from ELSE len
    BY <1>1, <2>1, MinOfTwo
  <2>3. RoomFor(from, len) \in Nat /\ RoomFor(from, len) <= len /\ from + RoomFor(from, len) <= Size
    BY <1>1, <1>3, <2>2
  <2> QED BY <1>1, <2>3 DEF Written, FbBytes, RoomFits
<1> QED BY <1>1, <1>2, <1>3

-----------------------------------------------------------------------------
(* Where a byte of the screen lies: its row, its column, and in its pixel.   *)
LEMMA PixelOf ==
  ASSUME NEW i \in FbBytes
  PROVE  LET p == i \div Bpp
             x == p % Width
             y == p \div Width
             b == i % Bpp
         IN  /\ i = (y * Width + x) * Bpp + b
             /\ x \in 0 .. Width - 1 /\ y \in 0 .. Height - 1 /\ b \in 0 .. Bpp - 1
<1> DEFINE p == i \div Bpp
           x == p % Width
           y == p \div Width
           b == i % Bpp
<1>1. Width \in Nat \ {0} /\ Height \in Nat \ {0} /\ Bpp \in Nat \ {0} /\ i \in Nat /\ i < Size
  BY FbFacts DEF FbBytes
<1>2. i = p * Bpp + b /\ p \in Int /\ b \in 0 .. Bpp - 1
  BY <1>1, Quotient
<1> HIDE DEF p, b
<1>3. p = y * Width + x /\ y \in Int /\ x \in 0 .. Width - 1
  BY <1>1, <1>2, Quotient
<1> HIDE DEF x, y
<1>4. Size = (Height * Width) * Bpp /\ Height * Width \in Int
  <2>1. Width * Height = Height * Width /\ Height * Width \in Int
    BY <1>1
  <2> QED BY <2>1 DEF Size
<1>5. 0 <= p /\ p < Height * Width
  <2> DEFINE area == Height * Width
  <2>1. 0 <= p * Bpp + b /\ p * Bpp + b < area * Bpp
    BY <1>1, <1>2, <1>4
  <2> HIDE DEF area
  <2>2. area \in Int
    BY <1>4 DEF area
  <2>3. 0 <= p /\ p < area
    BY <1>1, <1>2, <2>1, <2>2, Among
  <2> QED BY <2>3 DEF area
<1>6. 0 <= y /\ y < Height
  <2>1. 0 <= y * Width + x /\ y * Width + x < Height * Width
    BY <1>3, <1>5
  <2> QED BY <1>1, <1>3, <2>1, Among
<1>7. y \in 0 .. Height - 1
  BY <1>1, <1>3, <1>6
<1> QED BY <1>2, <1>3, <1>7 DEF p, x, y, b

(* The part that fits, and the margins that put it into the middle.          *)
LEMMA Fitting ==
  ASSUME NEW full \in Nat \ {0}, NEW part \in Nat \ {0}
  PROVE  LET c == Min({part, full})
         IN  /\ c \in Nat \ {0} /\ c <= full /\ c <= part
             /\ Margin(full, c) \in Nat /\ Margin(full, c) + c <= full
             /\ Margin(part, c) \in Nat /\ Margin(part, c) + c <= part
             /\ \A x \in 0 .. full - 1 :
                  Centred(full, part, x) =
                    IF Margin(full, c) <= x /\ x < Margin(full, c) + c
                    THEN {Margin(part, c) + x - Margin(full, c)} ELSE {}
<1> DEFINE c == Min({part, full})
<1>1. c = IF part <= full THEN part ELSE full
  BY MinOfTwo
<1>2. CASE part < full
  <2>1. c = part /\ Margin(part, c) = 0
    BY <1>1, <1>2 DEF Margin
  <2> DEFINE m == (full - part) \div 2
  <2>2. Margin(full, c) = m
    BY <2>1 DEF Margin
  <2>3. m \in Nat /\ full - part - 2 * m \in {0, 1} /\ m + part <= full
    BY <1>2
  <2> HIDE DEF m
  <2>4. ASSUME NEW x \in 0 .. full - 1
        PROVE  Centred(full, part, x) = IF m <= x /\ x < m + part THEN {x - m} ELSE {}
    <3>1. \A i \in 0 .. part - 1 : (2 * i + 1 - part) - (2 * x + 1 - full) \in {0, 1} <=> i = x - m
      BY <2>3
    <3>2. Centred(full, part, x) = {i \in 0 .. part - 1 : i = x - m}
      BY <1>2, <3>1 DEF Centred
    <3> QED BY <2>3, <3>2
  <2>5. c \in Nat \ {0} /\ c <= full /\ c <= part
    BY <1>2, <2>1
  <2> HIDE DEF c
  <2>6. Margin(full, c) \in Nat /\ Margin(full, c) + c <= full
    BY <2>1, <2>2, <2>3
  <2>7. Margin(part, c) \in Nat /\ Margin(part, c) + c <= part
    BY <2>1
  <2>8. ASSUME NEW x \in 0 .. full - 1
        PROVE  Centred(full, part, x) =
                 IF Margin(full, c) <= x /\ x < Margin(full, c) + c
                 THEN {Margin(part, c) + x - Margin(full, c)} ELSE {}
    <3>1. Margin(part, c) + x - Margin(full, c) = x - m
      BY <2>1, <2>2, <2>3
    <3>2. Margin(full, c) <= x /\ x < Margin(full, c) + c <=> m <= x /\ x < m + part
      BY <2>1, <2>2
    <3> QED BY <2>4, <3>1, <3>2
  <2> QED BY <2>5, <2>6, <2>7, <2>8 DEF c
<1>3. CASE full <= part
  <2>1. c = full /\ Margin(full, c) = 0
    BY <1>1, <1>3 DEF Margin
  <2> DEFINE m == (part - full) \div 2
  <2>2. Margin(part, c) = m
    BY <2>1 DEF Margin
  <2>3. m \in Nat /\ part - full - 2 * m \in {0, 1} /\ m + full <= part
    BY <1>3
  <2> HIDE DEF m
  <2>4. ASSUME NEW x \in 0 .. full - 1
        PROVE  Centred(full, part, x) = {m + x}
    <3>1. \A i \in 0 .. part - 1 : (2 * i + 1 - part) - (2 * x + 1 - full) \in {0, -1} <=> i = m + x
      BY <2>3
    <3>2. Centred(full, part, x) = {i \in 0 .. part - 1 : i = m + x}
      BY <1>3, <3>1 DEF Centred
    <3> QED BY <2>3, <3>2
  <2>5. c \in Nat \ {0} /\ c <= full /\ c <= part
    BY <1>3, <2>1
  <2> HIDE DEF c
  <2>6. Margin(full, c) \in Nat /\ Margin(full, c) + c <= full
    BY <2>1
  <2>7. Margin(part, c) \in Nat /\ Margin(part, c) + c <= part
    BY <2>1, <2>2, <2>3
  <2>8. ASSUME NEW x \in 0 .. full - 1
        PROVE  Centred(full, part, x) =
                 IF Margin(full, c) <= x /\ x < Margin(full, c) + c
                 THEN {Margin(part, c) + x - Margin(full, c)} ELSE {}
    <3>1. Margin(part, c) + x - Margin(full, c) = m + x
      BY <2>1, <2>2, <2>3
    <3>2. Margin(full, c) <= x /\ x < Margin(full, c) + c
      BY <2>1
    <3> QED BY <2>4, <3>1, <3>2
  <2> QED BY <2>5, <2>6, <2>7, <2>8 DEF c
<1> QED BY <1>2, <1>3

(* The row y of an image is over a byte just if the byte's pixel is in it;   *)
(* and that is the byte of the row it gets.                                  *)
LEMMA RowOver ==
  ASSUME NEW img \in Images, NEW i \in FbBytes, NEW y \in 0 .. CopyH(img) - 1,
         NEW px \in 0 .. Width - 1, NEW py \in 0 .. Height - 1, NEW b \in 0 .. Bpp - 1,
         i = (py * Width + px) * Bpp + b
  PROVE  /\ From(img, y) \in Nat /\ RowLen(img) \in Nat
         /\ i \in Written(From(img, y), RowLen(img)) <=>
              /\ py = Margin(Height, CopyH(img)) + y
              /\ Margin(Width, CopyW(img)) <= px /\ px < Margin(Width, CopyW(img)) + CopyW(img)
         /\ py = Margin(Height, CopyH(img)) + y =>
              i - From(img, y) = (px - Margin(Width, CopyW(img))) * Bpp + b
<1> DEFINE cw == CopyW(img)
           ch == CopyH(img)
           mx == Margin(Width, cw)
           my == Margin(Height, ch)
<1>1. /\ Width \in Nat \ {0} /\ Height \in Nat \ {0} /\ Bpp \in Nat \ {0}
      /\ img.w \in Nat \ {0} /\ img.h \in Nat \ {0}
  BY FramebufferAssumption
<1>2. /\ cw \in Nat \ {0} /\ mx \in Nat /\ mx + cw <= Width
      /\ ch \in Nat \ {0} /\ my \in Nat /\ my + ch <= Height
  BY <1>1, Fitting DEF CopyW, CopyH
<1>3. From(img, y) = ((my + y) * Width + mx) * Bpp /\ RowLen(img) = cw * Bpp
  BY DEF From, RowLen
<1> HIDE DEF cw, ch, mx, my
<1>0. y \in Nat /\ px \in Nat /\ py \in Nat /\ b \in Nat
  <2>1. CopyH(img) = ch
    BY DEF ch
  <2> QED BY <1>1, <1>2, <2>1
<1> DEFINE row == (my + y) * Width
           start == row + mx
           pixel == py * Width
           off == pixel + px - start
           down == py - (my + y)
<1>4. row \in Nat /\ pixel \in Nat
  BY <1>0, <1>1, <1>2
<1>5. down * Width = pixel - row /\ down \in Int
  BY <1>0, <1>1, <1>2, Distributes
<1> HIDE DEF row, pixel
<1>6. start \in Nat /\ off \in Int /\ off = down * Width + (px - mx)
  BY <1>0, <1>2, <1>4, <1>5
<1>7. 0 <= off /\ off < cw <=> down = 0 /\ 0 <= px - mx /\ px - mx < cw
  <2> DEFINE w == down * Width
  <2>1. w \in Int /\ (1 <= down => Width <= w) /\ (down <= 0 - 1 => w <= 0 - Width) /\ (down = 0 => w = 0)
    <3>1. 1 * Width = Width /\ (0 - 1) * Width = 0 - Width /\ 0 * Width = 0
      BY <1>1
    <3>2. 1 <= down => 1 * Width <= down * Width
      BY <1>1, <1>5, Scaled
    <3>3. down <= 0 - 1 => down * Width <= (0 - 1) * Width
      BY <1>1, <1>5, Scaled
    <3> HIDE DEF down
    <3> QED BY <1>1, <1>5, <3>1, <3>2, <3>3
  <2>2. off = w + (px - mx)
    BY <1>6
  <2>3. down = 0 \/ 1 <= down \/ down <= 0 - 1
    BY <1>5
  <2> HIDE DEF w, off, down
  <2> QED BY <1>0, <1>1, <1>2, <2>1, <2>2, <2>3
<1>8. start * Bpp \in Nat /\ cw * Bpp \in Nat
  BY <1>1, <1>2, <1>6
<1>9. i - start * Bpp = off * Bpp + b
  <2>1. (pixel + px - start) * Bpp = (pixel + px) * Bpp - start * Bpp
    BY <1>0, <1>1, <1>4, <1>6, Distributes
  <2>2. i = (pixel + px) * Bpp + b /\ (pixel + px) * Bpp \in Int
    BY <1>0, <1>1, <1>4 DEF pixel
  <2> DEFINE a == (pixel + px) * Bpp
             s == start * Bpp
             o == off * Bpp
  <2>3. o = a - s /\ i = a + b /\ a \in Int /\ s \in Int
    BY <1>8, <2>1, <2>2
  <2> HIDE DEF a, s, o
  <2>4. i - s = o + b
    BY <1>0, <2>3
  <2> QED BY <2>4 DEF s, o
<1>10. From(img, y) = start * Bpp /\ RowLen(img) = cw * Bpp
  BY <1>3 DEF row
<1>11. i \in Written(From(img, y), RowLen(img)) <=> 0 <= off * Bpp + b /\ off * Bpp + b < cw * Bpp
  <2>1. i \in Written(start * Bpp, cw * Bpp) <=> start * Bpp <= i /\ i < start * Bpp + cw * Bpp
    BY <1>8, WrittenIs
  <2> DEFINE s == start * Bpp
             c == cw * Bpp
             o == off * Bpp + b
  <2>2. i - s = o /\ s \in Nat /\ c \in Nat /\ i \in Nat
    BY <1>8, <1>9, FbFacts DEF FbBytes
  <2> HIDE DEF s, c, o
  <2>3. s <= i /\ i < s + c <=> 0 <= o /\ o < c
    BY <2>2
  <2> QED BY <1>10, <2>1, <2>3 DEF s, c, o
<1>12. i \in Written(From(img, y), RowLen(img)) <=> 0 <= off /\ off < cw
  <2> HIDE DEF off
  <2> QED BY <1>1, <1>2, <1>6, <1>11, Among
<1>13. down = 0 => off = px - mx
  <2>1. 0 * Width = 0
    BY <1>1
  <2> HIDE DEF off
  <2> QED BY <1>0, <1>2, <1>6, <2>1
<1>14. down = 0 <=> py = my + y
  BY <1>0, <1>2
<1>15. 0 <= px - mx /\ px - mx < cw <=> mx <= px /\ px < mx + cw
  BY <1>0, <1>2
<1> HIDE DEF off, start, down
<1> QED BY <1>7, <1>8, <1>9, <1>10, <1>12, <1>13, <1>14, <1>15 DEF mx, my, cw, ch


(* A row of an image puts to a byte what is to be shown there, and every     *)
(* byte of the image is in a row.                                            *)
LEMMA RowsShow ==
  ASSUME NEW img \in Images, NEW i \in FbBytes
  PROVE  /\ \A y \in 0 .. CopyH(img) - 1 :
              i \in Written(From(img, y), RowLen(img)) =>
                i \in Picture(img) /\ RowByte(img, y, i - From(img, y)) = Shown(img, i)
         /\ i \in Picture(img) =>
              \E y \in 0 .. CopyH(img) - 1 : i \in Written(From(img, y), RowLen(img))
<1> DEFINE px == (i \div Bpp) % Width
           py == (i \div Bpp) \div Width
           b == i % Bpp
           xs == Column(img, i)
           ys == Row(img, i)
           cw == CopyW(img)
           ch == CopyH(img)
           mx == Margin(Width, cw)
           my == Margin(Height, ch)
           Touches(y) == i \in Written(From(img, y), RowLen(img))
           inX == mx <= px /\ px < mx + cw
<1>1. /\ Width \in Nat \ {0} /\ Height \in Nat \ {0} /\ Bpp \in Nat \ {0}
      /\ img.w \in Nat \ {0} /\ img.h \in Nat \ {0}
  BY FramebufferAssumption
<1>2. /\ i = (py * Width + px) * Bpp + b
      /\ px \in 0 .. Width - 1 /\ py \in 0 .. Height - 1 /\ b \in 0 .. Bpp - 1
  BY PixelOf
<1>p. xs = Centred(Width, img.w, px) /\ ys = Centred(Height, img.h, py)
  BY DEF Column, Row
<1>q. Shown(img, i) = Color(Min(xs), Min(ys), b) /\ (i \in Picture(img) <=> xs # {} /\ ys # {})
  BY DEF Shown, Picture
<1> HIDE DEF px, py, b, xs, ys
<1>3. /\ cw \in Nat \ {0} /\ mx \in Nat /\ mx + cw <= Width /\ Margin(img.w, cw) \in Nat
      /\ xs = IF inX THEN {Margin(img.w, cw) + px - mx} ELSE {}
  BY <1>1, <1>2, <1>p, Fitting DEF CopyW
<1>4. /\ ch \in Nat \ {0} /\ my \in Nat /\ my + ch <= Height /\ Margin(img.h, ch) \in Nat
      /\ ys = IF my <= py /\ py < my + ch THEN {Margin(img.h, ch) + py - my} ELSE {}
  BY <1>1, <1>2, <1>p, Fitting DEF CopyH
<1>5. ASSUME NEW y \in 0 .. ch - 1
      PROVE  /\ Touches(y) <=> py = my + y /\ inX
             /\ py = my + y => i - From(img, y) = (px - mx) * Bpp + b
  BY <1>2, RowOver
<1> HIDE DEF cw, mx, my, Touches
<1>6. ASSUME NEW row \in 0 .. ch - 1, Touches(row)
      PROVE  i \in Picture(img) /\ RowByte(img, row, i - From(img, row)) = Shown(img, i)
  <2> DEFINE col == px - mx
  <2>1. py = my + row /\ inX /\ i - From(img, row) = col * Bpp + b
    BY <1>5, <1>6
  <2>2. my <= py /\ py < my + ch /\ col \in Nat /\ row \in Nat
    <3> HIDE DEF ch
    <3> QED BY <1>2, <1>3, <1>4, <2>1
  <2>3. Margin(img.w, cw) + px - mx = Margin(img.w, cw) + col
    BY <1>2, <1>3
  <2>4. Margin(img.h, ch) + py - my = Margin(img.h, ch) + row
    <3> HIDE DEF ch
    <3> QED BY <1>4, <2>1, <2>2
  <2>5. xs = {Margin(img.w, cw) + col} /\ ys = {Margin(img.h, ch) + row}
    BY <1>3, <1>4, <2>1, <2>2, <2>3, <2>4
  <2>6. Margin(img.w, cw) + col \in Int /\ Margin(img.h, ch) + row \in Int
    <3> HIDE DEF ch
    <3> QED BY <1>3, <1>4, <2>2
  <2>7. Min(xs) = Margin(img.w, cw) + col /\ Min(ys) = Margin(img.h, ch) + row
    BY <2>5, <2>6, MinOfOne
  <2> HIDE DEF col
  <2>8. (col * Bpp + b) \div Bpp = col /\ (col * Bpp + b) % Bpp = b
    <3>1. col \in Int /\ Bpp \in Nat \ {0} /\ b \in 0 .. Bpp - 1
      BY <1>1, <1>2, <2>2
    <3> QED BY <3>1, QuotientOf
  <2>9. RowByte(img, row, col * Bpp + b) = Color(Margin(img.w, cw) + col, Margin(img.h, ch) + row, b)
    BY <2>8 DEF RowByte, cw
  <2> QED BY <1>q, <2>1, <2>5, <2>7, <2>9
<1>7. ASSUME i \in Picture(img)
      PROVE  \E y \in 0 .. ch - 1 : Touches(y)
  <2> DEFINE row == py - my
  <2>1. inX /\ my <= py /\ py < my + ch
    BY <1>3, <1>4, <1>7, <1>q
  <2>2. row \in 0 .. ch - 1 /\ py = my + row
    <3> HIDE DEF ch
    <3> QED BY <1>2, <1>4, <2>1
  <2> HIDE DEF row
  <2> QED BY <1>5, <2>1, <2>2
<1> QED BY <1>6, <1>7 DEF Touches, ch

(* The rows lie on the screen.                                               *)
LEMMA RowFacts ==
  ASSUME NEW img \in Images
  PROVE  /\ CopyH(img) \in Nat \ {0}
         /\ \A y \in 0 .. CopyH(img) - 1 :
              /\ From(img, y) \in Nat /\ RowRoom(img, y) \in Nat
              /\ Written(From(img, y), RowLen(img)) =
                   From(img, y) .. From(img, y) + RowRoom(img, y) - 1
              /\ Written(From(img, y), RowLen(img)) \subseteq FbBytes
<1>1. /\ Width \in Nat \ {0} /\ Height \in Nat \ {0} /\ Bpp \in Nat \ {0}
      /\ img.w \in Nat \ {0} /\ img.h \in Nat \ {0}
  BY FramebufferAssumption
<1>2. CopyH(img) \in Nat \ {0} /\ Margin(Height, CopyH(img)) \in Nat
  BY <1>1, Fitting DEF CopyH
<1>3. CopyW(img) \in Nat \ {0} /\ Margin(Width, CopyW(img)) \in Nat
  BY <1>1, Fitting DEF CopyW
<1>4. ASSUME NEW y \in 0 .. CopyH(img) - 1
      PROVE  /\ From(img, y) \in Nat /\ RowRoom(img, y) \in Nat
             /\ Written(From(img, y), RowLen(img)) =
                  From(img, y) .. From(img, y) + RowRoom(img, y) - 1
             /\ Written(From(img, y), RowLen(img)) \subseteq FbBytes
  <2>1. y \in Nat
    BY <1>2
  <2> DEFINE down == Margin(Height, CopyH(img)) + y
             pixel == down * Width + Margin(Width, CopyW(img))
  <2>2. down \in Nat
    BY <1>2, <2>1
  <2> HIDE DEF down
  <2>3. pixel \in Nat
    BY <1>1, <1>3, <2>2
  <2> HIDE DEF pixel
  <2>4. pixel * Bpp \in Nat
    BY <1>1, <2>3
  <2>5. From(img, y) \in Nat
    BY <2>4 DEF From, pixel, down
  <2>6. RowLen(img) \in Nat
    BY <1>1, <1>3 DEF RowLen
  <2>7. RoomFits(From(img, y), RowLen(img))
    BY <2>5, <2>6, RoomFit
  <2> QED BY <2>5, <2>7 DEF RoomFits, RowRoom, Written
<1> QED BY <1>2, <1>4

-----------------------------------------------------------------------------
(* A call of video_display: while it copies it has flushed nothing, and what *)
(* is missing of its image is in its row, behind what it has copied, or      *)
(* below.                                                                    *)
Ahead(j, i) ==
  \E y \in j.y .. CopyH(j.img) - 1 :
    /\ i \in Written(From(j.img, y), RowLen(j.img))
    /\ y = j.y => i >= From(j.img, y) + j.copied
CallSound(j) ==
  /\ j \in [by : Viewers, img : Images, y : Nat, copied : Nat, flushed : Nat,
            missing : SUBSET FbBytes]
  /\ j.y <= CopyH(j.img)
  /\ j.y = CopyH(j.img) => j.copied = 0
  /\ j.y < CopyH(j.img) => /\ j.copied <= RowRoom(j.img, j.y)
                           /\ j.copied < RowRoom(j.img, j.y) => j.flushed = 0
  /\ \A i \in j.missing : Ahead(j, i)

Excused(i) == i \in unflushed \/ \E j \in shows : i \in Pending(j)
FbInv ==
  /\ cached = wanted
  /\ \E X : cached \in [FbBytes -> X]
  /\ fbPos \in [FbFiles -> Nat]
  /\ \A i \in FbBytes : screen[i] = cached[i] \/ Excused(i)
  /\ \A j \in shows : CallSound(j)

LEMMA FbStart ==
  ASSUME FbInit
  PROVE  FbInv
<1>1. cached \in [FbBytes -> {Black}]
  BY DEF FbInit
<1> QED BY <1>1 DEF FbInit, FbInv

LEMMA StoredFacts ==
  ASSUME NEW old, NEW from, NEW buf, NEW n
  PROVE  \E X : Stored(old, from, buf, n) \in [FbBytes -> X]
<1>1. Stored(old, from, buf, n) \in [FbBytes -> {Stored(old, from, buf, n)[i] : i \in FbBytes}]
  BY DEF Stored
<1> QED BY <1>1

(* A write, all of it or, when its process ends, the beginning.              *)
LEMMA FbWriteKeeps ==
  ASSUME FbInv, NEW h \in FbFiles, NEW buf \in Buffers, FbWrite(h, buf)
  PROVE  FbInv'
<1> DEFINE from == fbPos[h]
           len == Len(buf)
           room == RoomFor(from, len)
<1>1. from \in Nat /\ len \in Nat
  <2>1. buf \in Seq(Nat)
    BY FramebufferAssumption
  <2> QED BY <2>1 DEF FbInv
<1>2. /\ cached' = Stored(cached, from, buf, room)
      /\ wanted' = Stored(wanted, from, buf, len)
      /\ screen' = [i \in FbBytes |-> IF i \in Flushed(from, room) THEN cached'[i] ELSE screen[i]]
      /\ unflushed' = unflushed \ Flushed(from, room)
      /\ fbPos' = [fbPos EXCEPT ![h] = @ + room]
      /\ shows' = shows
  BY DEF FbWrite, Clean
<1> HIDE DEF from, len
<1>3. room \in Nat /\ \A i \in FbBytes : from <= i /\ i < from + room <=> from <= i /\ i < from + len
  <2>1. RoomFits(from, len)
    BY <1>1, RoomFit
  <2>2. \A i \in FbBytes : i \in Written(from, len) <=> from <= i /\ i < from + len
    BY <1>1, WrittenIs
  <2>3. \A i \in FbBytes : i \in Nat
    BY FbFacts DEF FbBytes
  <2>4. \A i \in FbBytes : i \in Written(from, len) <=> from <= i /\ i < from + room
    <3>1. room \in Nat
      BY <2>1 DEF RoomFits
    <3> HIDE DEF room
    <3>2. Written(from, len) = from .. from + room - 1
      BY DEF Written, room
    <3> QED BY <1>1, <2>3, <3>1, <3>2
  <2> QED BY <2>1, <2>2, <2>4 DEF RoomFits
<1> HIDE DEF room
<1>4. wanted' = cached'
  <2>1. Stored(cached, from, buf, room) = Stored(cached, from, buf, len)
    BY <1>3 DEF Stored
  <2> QED BY <1>2, <2>1 DEF FbInv
<1>5. ASSUME NEW i \in FbBytes
      PROVE  screen'[i] = cached'[i] \/ Excused(i)'
  <2>1. CASE i \in Flushed(from, room)
    BY <1>2, <2>1
  <2>2. CASE i \notin Flushed(from, room)
    <3>1. ~(from <= i /\ i < from + room)
      BY <1>1, <1>3, <2>2, FlushCovers
    <3>2. cached'[i] = cached[i] /\ screen'[i] = screen[i]
      BY <1>2, <2>2, <3>1 DEF Stored
    <3>3. Excused(i) => Excused(i)'
      BY <1>2, <2>2 DEF Excused
    <3> QED BY <3>2, <3>3 DEF FbInv
  <2> QED BY <2>1, <2>2
<1>6. fbPos' \in [FbFiles -> Nat]
  BY <1>1, <1>2, <1>3 DEF FbInv, from
<1>7. \E X : cached' \in [FbBytes -> X]
  BY <1>2, StoredFacts
<1> QED BY <1>2, <1>4, <1>5, <1>6, <1>7 DEF FbInv

LEMMA FbWriteEndsKeeps ==
  ASSUME FbInv, NEW h \in FbFiles, NEW buf \in Buffers, NEW n \in 0 .. Len(buf) - 1,
         FbWriteEnds(h, buf, n)
  PROVE  FbInv'
<1> DEFINE from == fbPos[h]
<1>0. Len(buf) \in Nat
  <2>1. buf \in Seq(Nat)
    BY FramebufferAssumption
  <2> QED BY <2>1
<1>1. from \in Nat /\ n \in Nat
  BY <1>0 DEF FbInv
<1>2. /\ cached' = Stored(cached, from, buf, n)
      /\ wanted' = Stored(wanted, from, buf, n)
      /\ unflushed' = unflushed \cup Written(from, n)
      /\ UNCHANGED <<screen, fbPos, shows>>
  BY DEF FbWriteEnds
<1> HIDE DEF from
<1>3. ASSUME NEW i \in FbBytes
      PROVE  screen'[i] = cached'[i] \/ Excused(i)'
  <2>1. CASE i \in Written(from, n)
    BY <1>2, <2>1 DEF Excused
  <2>2. CASE i \notin Written(from, n)
    <3>1. ~(from <= i /\ i < from + n)
      BY <1>1, <2>2, WrittenIs
    <3>2. cached'[i] = cached[i] /\ screen'[i] = screen[i]
      BY <1>2, <3>1 DEF Stored
    <3>3. Excused(i) => Excused(i)'
      BY <1>2 DEF Excused
    <3> QED BY <3>2, <3>3 DEF FbInv
  <2> QED BY <2>1, <2>2
<1>4. \E X : cached' \in [FbBytes -> X]
  BY <1>2, StoredFacts
<1> QED BY <1>2, <1>3, <1>4 DEF FbInv

LEMMA DisplayStarts ==
  ASSUME FbInv, NEW p \in Viewers, NEW img \in Images, VideoDisplay(p, img)
  PROVE  FbInv'
<1> DEFINE j == [by |-> p, img |-> img, y |-> 0, copied |-> 0, flushed |-> 0,
                 missing |-> Picture(img)]
<1>1. shows' = shows \cup {j} /\ UNCHANGED <<cached, screen, fbPos, wanted, unflushed>>
  BY DEF VideoDisplay
<1>2. CallSound(j)
  <2>1. CopyH(img) \in Nat \ {0} /\ \A y \in 0 .. CopyH(img) - 1 : RowRoom(img, y) \in Nat
    BY RowFacts
  <2>2. Picture(img) \in SUBSET FbBytes
    BY DEF Picture
  <2>3. ASSUME NEW i \in Picture(img)
        PROVE  Ahead(j, i)
    <3>1. PICK y \in 0 .. CopyH(img) - 1 : i \in Written(From(img, y), RowLen(img))
      BY <2>2, RowsShow
    <3>2. i >= From(img, y) + 0
      <4>1. /\ Written(From(img, y), RowLen(img)) = From(img, y) .. From(img, y) + RowRoom(img, y) - 1
            /\ From(img, y) \in Nat /\ RowRoom(img, y) \in Nat
        BY RowFacts
      <4> QED BY <3>1, <4>1
    <3> QED BY <3>1, <3>2 DEF Ahead
  <2>4. 0 \in 0 .. CopyH(img) - 1
    BY <2>1
  <2> QED BY <2>1, <2>2, <2>3, <2>4 DEF CallSound
<1> HIDE DEF j
<1>3. ASSUME NEW i \in FbBytes
      PROVE  screen'[i] = cached'[i] \/ Excused(i)'
  BY <1>1 DEF FbInv, Excused
<1> QED BY <1>1, <1>2, <1>3 DEF FbInv

(* A step of a call that leaves to others what they have and that excuses    *)
(* what it excused before.                                                   *)
LEMMA CallGoesOn ==
  ASSUME FbInv, NEW j \in shows, NEW k, GoesOn(j, k), CallSound(k)
  PROVE  /\ \A c \in shows' : CallSound(c)
         /\ \A i : (\E c \in shows : i \in Pending(c))
                     => i \in Pending(j) \/ \E c \in shows' : i \in Pending(c)
         /\ k \in shows'
BY DEF FbInv, GoesOn

LEMMA CopyByteKeeps ==
  ASSUME FbInv, NEW j \in shows, CopyByte(j)
  PROVE  FbInv'
<1> DEFINE img == j.img
           from == From(j.img, j.y)
           i0 == from + j.copied
           k == [j EXCEPT !.copied = @ + 1, !.missing = @ \ {i0}]
<1>1. /\ j.y < CopyH(img) /\ j.copied < RowRoom(img, j.y)
      /\ cached' = [cached EXCEPT ![i0] = RowByte(img, j.y, j.copied)]
      /\ wanted' = IF i0 \in Picture(img) THEN [wanted EXCEPT ![i0] = Shown(img, i0)] ELSE wanted
      /\ GoesOn(j, k)
      /\ UNCHANGED <<screen, fbPos, unflushed, writes>>
  BY DEF CopyByte
<1>2. CallSound(j)
  BY DEF FbInv
<1>3. /\ img \in Images /\ j.y \in Nat /\ j.copied \in Nat /\ j.flushed = 0
      /\ j.missing \in SUBSET FbBytes /\ CopyH(img) \in Nat /\ j.y \in 0 .. CopyH(img) - 1
  <2>1. img \in Images /\ j.y \in Nat /\ j.copied \in Nat /\ j.missing \in SUBSET FbBytes
    BY <1>2 DEF CallSound
  <2>2. CopyH(img) \in Nat
    BY <2>1, RowFacts
  <2> QED BY <1>1, <1>2, <2>1, <2>2 DEF CallSound
<1>4. /\ from \in Nat /\ RowRoom(img, j.y) \in Nat
      /\ Written(from, RowLen(img)) = from .. from + RowRoom(img, j.y) - 1
      /\ Written(from, RowLen(img)) \subseteq FbBytes
  BY <1>3, RowFacts
<1>5. k.by = j.by /\ k.img = img /\ k.y = j.y /\ k.copied = j.copied + 1 /\ k.flushed = j.flushed
      /\ k.missing = j.missing \ {i0}
      /\ k \in [by : Viewers, img : Images, y : Nat, copied : Nat, flushed : Nat,
                missing : SUBSET FbBytes]
  <2> DEFINE c == j.copied + 1
             m == j.missing \ {i0}
             q == [j EXCEPT !.copied = c, !.missing = m]
  <2>1. c \in Nat /\ m \in SUBSET FbBytes
    BY <1>3
  <2>2. j \in [by : Viewers, img : Images, y : Nat, copied : Nat, flushed : Nat,
                missing : SUBSET FbBytes]
    BY <1>2 DEF CallSound
  <2>3. k = q
    OBVIOUS
  <2> HIDE DEF c, m, k
  <2>4. /\ q.by = j.by /\ q.img = j.img /\ q.y = j.y /\ q.copied = c /\ q.flushed = j.flushed
        /\ q.missing = m
        /\ q \in [by : Viewers, img : Images, y : Nat, copied : Nat, flushed : Nat,
                  missing : SUBSET FbBytes]
    BY <2>1, <2>2
  <2> QED BY <2>3, <2>4 DEF c, m
<1> HIDE DEF from, k
<1>6. i0 \in Written(from, RowLen(img)) /\ i0 - from = j.copied /\ i0 \in FbBytes
  <2>1. i0 \in from .. from + RowRoom(img, j.y) - 1 /\ i0 - from = j.copied
    BY <1>1, <1>3, <1>4
  <2> QED BY <1>4, <2>1
<1>7. i0 \in Picture(img) /\ RowByte(img, j.y, j.copied) = Shown(img, i0)
  BY <1>3, <1>6, RowsShow DEF from
<1>8. wanted' = cached'
  BY <1>1, <1>7 DEF FbInv
<1>9. CallSound(k)
  <2>1. k.y <= CopyH(k.img) /\ ~(k.y = CopyH(k.img))
    BY <1>1, <1>3, <1>5
  <2>2. k.copied <= RowRoom(k.img, k.y) /\ k.flushed = 0
    BY <1>1, <1>3, <1>4, <1>5
  <2>3. ASSUME NEW i \in k.missing
        PROVE  Ahead(k, i)
    <3>1. i \in j.missing /\ i # i0 /\ i \in FbBytes
      BY <1>3, <1>5
    <3>2. PICK y \in j.y .. CopyH(img) - 1 :
            /\ i \in Written(From(img, y), RowLen(img))
            /\ y = j.y => i >= From(img, y) + j.copied
      BY <1>2, <3>1 DEF CallSound, Ahead
    <3>3. y = j.y => i >= From(img, y) + (j.copied + 1)
      <4>1. SUFFICES ASSUME y = j.y PROVE i >= from + (j.copied + 1)
        BY DEF from
      <4>2. i >= from + j.copied /\ i # from + j.copied
        BY <3>1, <3>2, <4>1 DEF from
      <4>3. i \in Nat /\ from \in Nat /\ j.copied \in Nat
        BY <1>3, <1>4, <3>1, FbFacts DEF FbBytes
      <4> QED BY <4>2, <4>3
    <3> QED BY <1>5, <3>2, <3>3 DEF Ahead
  <2> QED BY <1>5, <2>1, <2>2, <2>3 DEF CallSound
<1>10. \A c \in shows' : CallSound(c)
  BY <1>1, <1>9, CallGoesOn
<1>11. ASSUME NEW i \in FbBytes
       PROVE  screen'[i] = cached'[i] \/ Excused(i)'
  <2>1. \A x : x \in from .. from + j.copied => x \in Pending(k)
    <3>1. from + k.copied - 1 = from + j.copied /\ k.flushed - 1 = 0 - 1
      BY <1>3, <1>4, <1>5
    <3>2. \A n \in 0 .. 0 - 1 : FALSE
      OBVIOUS
    <3> QED BY <1>5, <3>1, <3>2 DEF Pending, from
  <2>2. CASE i = i0
    <3>1. i0 \in from .. from + j.copied
      BY <1>3, <1>4
    <3>2. i \in Pending(k) /\ k \in shows'
      BY <1>1, <1>9, <2>1, <2>2, <3>1, CallGoesOn
    <3> QED BY <3>2 DEF Excused
  <2>3. CASE i # i0
    <3>1. cached'[i] = cached[i] /\ screen'[i] = screen[i]
      BY <1>1, <2>3 DEF FbInv
    <3>2. i \in Pending(j) => i \in Pending(k)
      <4>1. i \in Pending(j) => i \in from .. from + j.copied - 1
        BY DEF Pending, from
      <4>2. from .. from + j.copied - 1 \subseteq from .. from + j.copied
        BY <1>3, <1>4
      <4> QED BY <2>1, <4>1, <4>2
    <3>3. Excused(i) => Excused(i)'
      <4>1. i \in unflushed => i \in unflushed'
        BY <1>1
      <4>2. (\E c \in shows : i \in Pending(c)) => \E c \in shows' : i \in Pending(c)
        BY <1>1, <1>9, <3>2, CallGoesOn
      <4> QED BY <4>1, <4>2 DEF Excused
    <3> QED BY <3>1, <3>3 DEF FbInv
  <2> QED BY <2>2, <2>3
<1>12. \E X : cached' \in [FbBytes -> X]
  <2>1. cached' \in [FbBytes -> {cached'[i] : i \in FbBytes}]
    BY <1>1 DEF FbInv
  <2> QED BY <2>1
<1> QED BY <1>1, <1>8, <1>10, <1>11, <1>12 DEF FbInv

LEMMA FlushLineKeeps ==
  ASSUME FbInv, NEW j \in shows, FlushLine(j)
  PROVE  FbInv'
<1> DEFINE lines == LineAfter(From(j.img, j.y), j.flushed)
           k == [j EXCEPT !.flushed = @ + 1]
<1>1. /\ j.y < CopyH(j.img) /\ j.copied = RowRoom(j.img, j.y)
      /\ GoesOn(j, k)
      /\ UNCHANGED <<cached, fbPos, wanted, writes>>
      /\ screen' = [i \in FbBytes |-> IF i \in lines THEN cached'[i] ELSE screen[i]]
      /\ unflushed' = unflushed \ lines
  BY DEF FlushLine, Clean
<1>2. CallSound(j)
  BY DEF FbInv
<1>3. k.by = j.by /\ k.img = j.img /\ k.y = j.y /\ k.copied = j.copied /\ k.flushed = j.flushed + 1
      /\ k.missing = j.missing
      /\ k \in [by : Viewers, img : Images, y : Nat, copied : Nat, flushed : Nat,
                missing : SUBSET FbBytes]
      /\ j.flushed \in Nat /\ j.img \in Images /\ j.y \in Nat
  BY <1>2 DEF CallSound
<1> HIDE DEF k
<1>4. CallSound(k)
  <2>1. \A i \in k.missing : Ahead(k, i)
    BY <1>2, <1>3 DEF CallSound, Ahead
  <2>2. CopyH(j.img) \in Nat /\ RowRoom(j.img, j.y) \in Nat
    <3>1. CopyH(j.img) \in Nat
      BY <1>3, RowFacts
    <3> QED BY <1>1, <1>3, <3>1, RowFacts
  <2>3. ~(k.copied < RowRoom(k.img, k.y)) /\ ~(k.y = CopyH(k.img))
    BY <1>1, <1>3, <2>2
  <2> QED BY <1>1, <1>2, <1>3, <2>1, <2>3 DEF CallSound
<1>5. \A c \in shows' : CallSound(c)
  BY <1>1, <1>4, CallGoesOn
<1>6. ASSUME NEW i \in FbBytes
      PROVE  screen'[i] = cached'[i] \/ Excused(i)'
  <2>1. CASE i \in lines
    BY <1>1, <2>1
  <2>2. CASE i \notin lines
    <3>1. cached'[i] = cached[i] /\ screen'[i] = screen[i]
      BY <1>1, <2>2
    <3>2. i \in Pending(j) => i \in Pending(k)
      <4>1. \A n \in 0 .. k.flushed - 1 : n \in 0 .. j.flushed - 1 \/ n = j.flushed
        BY <1>3
      <4> QED BY <1>3, <2>2, <4>1 DEF Pending
    <3>3. Excused(i) => Excused(i)'
      <4>1. i \in unflushed => i \in unflushed'
        BY <1>1, <2>2
      <4>2. (\E c \in shows : i \in Pending(c)) => \E c \in shows' : i \in Pending(c)
        BY <1>1, <1>4, <3>2, CallGoesOn
      <4> QED BY <4>1, <4>2 DEF Excused
    <3> QED BY <3>1, <3>3 DEF FbInv
  <2> QED BY <2>1, <2>2
<1> QED BY <1>1, <1>5, <1>6 DEF FbInv

LEMMA NextRowKeeps ==
  ASSUME FbInv, NEW j \in shows, NextRow(j)
  PROVE  FbInv'
<1> DEFINE img == j.img
           from == From(j.img, j.y)
           k == [j EXCEPT !.y = @ + 1, !.copied = 0, !.flushed = 0]
<1>1. /\ j.y < CopyH(img) /\ j.copied = RowRoom(img, j.y)
      /\ ~MoreLines(from, j.copied, j.flushed)
      /\ GoesOn(j, k)
      /\ UNCHANGED <<cached, screen, fbPos, wanted, unflushed, writes>>
  BY DEF NextRow
<1>2. CallSound(j)
  BY DEF FbInv
<1>3. k.by = j.by /\ k.img = img /\ k.y = j.y + 1 /\ k.copied = 0 /\ k.flushed = 0
      /\ k.missing = j.missing
      /\ k \in [by : Viewers, img : Images, y : Nat, copied : Nat, flushed : Nat,
                missing : SUBSET FbBytes]
      /\ j.flushed \in Nat /\ img \in Images /\ j.y \in Nat /\ j.missing \in SUBSET FbBytes
  <2> DEFINE y == j.y + 1
             q == [j EXCEPT !.y = y, !.copied = 0, !.flushed = 0]
  <2>1. j \in [by : Viewers, img : Images, y : Nat, copied : Nat, flushed : Nat,
                missing : SUBSET FbBytes]
    BY <1>2 DEF CallSound
  <2>2. y \in Nat /\ k = q
    BY <2>1
  <2> HIDE DEF y, k
  <2>3. /\ q.by = j.by /\ q.img = j.img /\ q.y = y /\ q.copied = 0 /\ q.flushed = 0
        /\ q.missing = j.missing
        /\ q \in [by : Viewers, img : Images, y : Nat, copied : Nat, flushed : Nat,
                  missing : SUBSET FbBytes]
    BY <2>1, <2>2
  <2> QED BY <2>1, <2>2, <2>3 DEF y
<1> HIDE DEF k
<1>4. CopyH(img) \in Nat /\ j.y \in 0 .. CopyH(img) - 1
  <2>1. CopyH(img) \in Nat
    BY <1>3, RowFacts
  <2> QED BY <1>1, <1>3, <2>1
<1>5. /\ from \in Nat /\ j.copied \in Nat
      /\ Written(from, RowLen(img)) = from .. from + j.copied - 1
  BY <1>1, <1>3, <1>4, RowFacts
<1>6. CallSound(k)
  <2>1. ASSUME NEW i \in k.missing
        PROVE  Ahead(k, i)
    <3>1. PICK y \in j.y .. CopyH(img) - 1 :
            /\ i \in Written(From(img, y), RowLen(img))
            /\ y = j.y => i >= From(img, y) + j.copied
      BY <1>2, <1>3 DEF CallSound, Ahead
    <3>2. y # j.y
      <4>1. SUFFICES ASSUME y = j.y PROVE FALSE
        OBVIOUS
      <4>2. i >= from + j.copied /\ i \in from .. from + j.copied - 1
        BY <1>5, <3>1, <4>1 DEF from
      <4> QED BY <1>5, <4>2
    <3>3. y \in j.y + 1 .. CopyH(img) - 1 /\ y \in 0 .. CopyH(img) - 1
      BY <1>3, <1>4, <3>1, <3>2
    <3>4. i >= From(img, y) + 0
      <4>1. /\ Written(From(img, y), RowLen(img)) = From(img, y) .. From(img, y) + RowRoom(img, y) - 1
            /\ From(img, y) \in Nat /\ RowRoom(img, y) \in Nat
        BY <1>3, <3>3, RowFacts
      <4> QED BY <3>1, <4>1
    <3> QED BY <1>3, <3>1, <3>3, <3>4 DEF Ahead
  <2>2. k.y <= CopyH(k.img)
    BY <1>1, <1>3, <1>4
  <2>3. k.y < CopyH(k.img) => k.copied <= RowRoom(k.img, k.y)
    <3>1. SUFFICES ASSUME k.y < CopyH(k.img) PROVE 0 <= RowRoom(img, j.y + 1)
      BY <1>3
    <3>2. j.y + 1 \in 0 .. CopyH(img) - 1
      BY <1>3, <1>4, <3>1
    <3>3. RowRoom(img, j.y + 1) \in Nat
      BY <1>3, <3>2, RowFacts
    <3> QED BY <3>3
  <2> QED BY <1>3, <2>1, <2>2, <2>3 DEF CallSound
<1>7. \A c \in shows' : CallSound(c)
  BY <1>1, <1>6, CallGoesOn
<1>8. ASSUME NEW i \in FbBytes
      PROVE  screen'[i] = cached'[i] \/ Excused(i)'
  <2>1. i \notin Pending(j)
    <3>1. SUFFICES ASSUME i \in from .. from + j.copied - 1
                   PROVE  \E n \in 0 .. j.flushed - 1 : i \in LineAfter(from, n)
      BY DEF Pending, from
    <3>2. from <= i /\ i < from + j.copied
      BY <1>5, <3>1
    <3> QED BY <1>1, <1>3, <1>5, <3>2, AllFlushed
  <2>2. Excused(i) => Excused(i)'
    BY <1>1, <1>6, <2>1, CallGoesOn DEF Excused
  <2> QED BY <1>1, <2>2 DEF FbInv
<1> QED BY <1>1, <1>7, <1>8 DEF FbInv

(* A call that returns has no row begun; one that ends leaves its row so.    *)
LEMMA DisplayOver ==
  ASSUME FbInv, NEW j \in shows, DisplayReturns(j) \/ DisplayEnds(j)
  PROVE  FbInv'
<1>1. /\ shows' = shows \ {j} /\ UNCHANGED <<cached, screen, fbPos, wanted>>
      /\ unflushed \subseteq unflushed'
  BY DEF DisplayReturns, DisplayEnds
<1>2. ASSUME NEW i \in Pending(j)
      PROVE  i \in unflushed'
  <2>1. CASE DisplayReturns(j)
    <3>1. j.copied = 0 /\ j.img \in Images /\ j.y = CopyH(j.img)
      BY <2>1 DEF DisplayReturns, FbInv, CallSound
    <3>2. From(j.img, j.y) \in Int
      <4>1. /\ Width \in Nat \ {0} /\ Height \in Nat \ {0} /\ Bpp \in Nat \ {0}
            /\ j.img.w \in Nat \ {0} /\ j.img.h \in Nat \ {0}
        BY <3>1, FramebufferAssumption
      <4>2. CopyH(j.img) \in Nat /\ Margin(Height, CopyH(j.img)) \in Nat
        BY <4>1, Fitting DEF CopyH
      <4>3. Margin(Width, CopyW(j.img)) \in Nat
        BY <4>1, Fitting DEF CopyW
      <4> DEFINE down == Margin(Height, CopyH(j.img)) + j.y
                 pixel == down * Width + Margin(Width, CopyW(j.img))
      <4>4. down \in Int
        BY <3>1, <4>2
      <4> HIDE DEF down
      <4>5. pixel \in Int
        BY <4>1, <4>3, <4>4
      <4> HIDE DEF pixel
      <4>6. pixel * Bpp \in Int
        BY <4>1, <4>5
      <4> QED BY <4>6 DEF From, pixel, down
    <3>3. i \in From(j.img, j.y) .. From(j.img, j.y) + 0 - 1
      BY <1>2, <3>1 DEF Pending
    <3> QED BY <3>2, <3>3
  <2>2. CASE DisplayEnds(j)
    BY <1>2, <2>2 DEF DisplayEnds
  <2> QED BY <2>1, <2>2
<1>3. ASSUME NEW i \in FbBytes
      PROVE  screen'[i] = cached'[i] \/ Excused(i)'
  <2>1. Excused(i) => Excused(i)'
    BY <1>1, <1>2 DEF Excused
  <2> QED BY <1>1, <2>1 DEF FbInv
<1> QED BY <1>1, <1>3 DEF FbInv

LEMMA FbStep ==
  ASSUME FbInv, [FbNext]_fbVars
  PROVE  FbInv'
<1>1. CASE \E h \in FbFiles, buf \in Buffers :
             FbWrite(h, buf) \/ \E n \in 0 .. Len(buf) - 1 : FbWriteEnds(h, buf, n)
  BY <1>1, FbWriteKeeps, FbWriteEndsKeeps
<1>2. CASE \E h \in FbFiles, offset \in Seeks : FbLseek(h, offset)
  <2>1. PICK h \in FbFiles, offset \in Seeks : FbLseek(h, offset)
    BY <1>2
  <2>2. offset \in Nat
    BY FramebufferAssumption
  <2>3. fbPos' \in [FbFiles -> Nat] /\ UNCHANGED <<cached, screen, shows, wanted, unflushed>>
    BY <2>1, <2>2 DEF FbLseek, FbInv
  <2> QED BY <2>3 DEF FbInv, Excused
<1>3. CASE \E l \in 0 .. (Size - 1) \div Line : Evict(l)
  <2>1. PICK B : /\ screen' = [i \in FbBytes |-> IF i \in B THEN cached'[i] ELSE screen[i]]
                 /\ unflushed' = unflushed \ B /\ UNCHANGED <<cached, fbPos, shows, wanted>>
    BY <1>3 DEF Evict, Clean
  <2>2. ASSUME NEW i \in FbBytes
        PROVE  screen'[i] = cached'[i] \/ Excused(i)'
    <3>1. CASE i \in B
      BY <2>1, <3>1
    <3>2. CASE i \notin B
      <4>1. screen'[i] = screen[i] /\ cached'[i] = cached[i]
        BY <2>1, <3>2
      <4>2. Excused(i) => Excused(i)'
        BY <2>1, <3>2 DEF Excused
      <4> QED BY <4>1, <4>2 DEF FbInv
    <3> QED BY <3>1, <3>2
  <2> QED BY <2>1, <2>2 DEF FbInv
<1>4. CASE \E p \in Viewers, img \in Images : VideoDisplay(p, img)
  BY <1>4, DisplayStarts
<1>5. CASE \E j \in shows :
             CopyByte(j) \/ FlushLine(j) \/ NextRow(j) \/ DisplayReturns(j) \/ DisplayEnds(j)
  BY <1>5, CopyByteKeeps, FlushLineKeeps, NextRowKeeps, DisplayOver
<1>6. CASE UNCHANGED fbVars
  BY <1>6 DEF fbVars, FbInv, Excused
<1> QED BY <1>1, <1>2, <1>3, <1>4, <1>5, <1>6 DEF FbNext

(* What was last written to /dev/fb or copied by video_display is on the     *)
(* screen, but for what a call is about to flush or was ended before it      *)
(* flushed, and a call that is through its rows has shown all of its image,  *)
(* whatever the sizes of the screen, of its pixels, of cache lines and of    *)
(* the images and whoever else writes meanwhile.                             *)
THEOREM ScreenShowsAll == FbSpec => []ScreenCurrent
<1>1. FbInit => FbInv
  BY FbStart
<1>2. FbInv /\ [FbNext]_fbVars => FbInv'
  BY FbStep
<1>3. FbInv => ScreenCurrent
  <2>1. SUFFICES ASSUME FbInv PROVE ScreenCurrent
    OBVIOUS
  <2>2. ASSUME NEW j \in shows, j.y = CopyH(j.img)
        PROVE  j.missing = {}
    <3>1. CallSound(j) /\ CopyH(j.img) \in Nat
      BY <2>1, RowFacts DEF FbInv, CallSound
    <3>2. \A y \in j.y .. CopyH(j.img) - 1 : FALSE
      BY <2>2, <3>1
    <3> QED BY <3>1, <3>2 DEF CallSound, Ahead
  <2>3. ASSUME NEW i \in FbBytes
        PROVE  screen[i] = wanted[i] \/ i \in unflushed \/ \E j \in shows : i \in Pending(j)
    BY <2>1 DEF FbInv, Excused
  <2> QED BY <2>2, <2>3 DEF ScreenCurrent
<1> QED BY <1>1, <1>2, <1>3, PTL DEF FbSpec

-----------------------------------------------------------------------------
(* lab6's processes and the memory they hold (ProcessMemory).                *)

(* Types.  A field of a struct names a block of its own use.                 *)
Targets == Blocks \cup {Nothing}
Owned == {o \in [Fields -> Targets] : \A f \in Fields : o[f] # Nothing => o[f][2] = f}
Entries == [to : Targets, w : BOOLEAN, cow : BOOLEAN]
Maps == [Pages -> Entries]
Structs ==
  [status : {"none", "READY", "RUNNING", "WAITING", "SLEEPING", "TERMINATED"},
   parent : Procs \cup {Shell, NoThread}, waits : Procs \cup {NoThread},
   asked : Procs \cup {NoThread}, at : {"ret", "user", "waitpid"},
   handlers : SUBSET Sigs, pending : SUBSET Sigs, active : BOOLEAN,
   regs : {"main", "handler"}, saved : {"none", "main"},
   own : Owned, pte : Maps, rw : BOOLEAN]

(* An entry maps the block that is recorded for its page; without a region   *)
(* there is no page of it; a thread is built and destroyed as a whole.       *)
Tied(o, pt, v) == pt[v].to = o[v] /\ (o[v] = Nothing => pt[v] = NoEntry)
RegionFirst(o) ==
  "mmap" \in Areas /\ o["region"] = Nothing => o["frames"] = Nothing /\ o["mmap"] = Nothing
Built(o) == \A f \in {"struct", "kernel stack", "root", "images", "stacks"} : o[f] # Nothing
Space(s) ==
  /\ \A v \in Pages : Tied(s.own, s.pte, v)
  /\ RegionFirst(s.own)
  /\ IF s.status = "none" THEN s.own = NoBlocks ELSE Built(s.own)

(* A living thread in its handler and out of it.                             *)
Handled(s) ==
  s.status \notin {"none", "TERMINATED"} =>
    /\ s.active <=> s.own["sig"] # Nothing
    /\ s.active => s.pte["sig"] = Entry(s.own["sig"], TRUE) /\ s.saved = "main"
    /\ s.active <=> s.regs = "handler"

(* Every count is the number of owners, and a page one may write is one's own. *)
OwnersIn(ts, b) == {t \in Procs : ts[t].own[b[2]] = b}
Exact(ts, rs) == \A b \in Blocks : rs[b] = Cardinality(OwnersIn(ts, b))
Alone(ts, rs) == \A t \in Procs, v \in Pages : ts[t].pte[v].w => rs[ts[t].own[v]] = 1

Fine(ts, rs) ==
  /\ ts \in [Procs -> Structs] /\ rs \in [Blocks -> Nat]
  /\ \A t \in Procs : Space(ts[t]) /\ Handled(ts[t])
  /\ Exact(ts, rs) /\ Alone(ts, rs)

(* The hart translates by the tables of the thread it runs.                  *)
OnHart(ts, c, root) ==
  /\ c \in Threads
  /\ IF c \in Procs THEN ts[c].status = "RUNNING" /\ root = ts[c].own["root"] ELSE root = Nothing

MemoryInv == Fine(th, refs) /\ OnHart(th, cur, satp)

(* Jobs.  Whoever else owns a block (rest) does not change while a call is   *)
(* under way; Rests leave a free name for every use.                         *)
Jobs == [for : Procs, left : Nat, ok : BOOLEAN, refs : [Blocks -> Nat],
         own : Owned, pte : Maps, par : Maps]
Held(o, b) == IF o[b[2]] = b THEN 1 ELSE 0
Rests == {r \in [Blocks -> Nat] :
            \A t \in Procs, f \in Fields : \E n \in Names : r[<<t, f, n>>] = 0}
Counted(m, rest) ==
  /\ rest \in [Blocks -> Nat] /\ m \in Jobs
  /\ \A b \in Blocks : m.refs[b] = rest[b] + Held(m.own, b)

(* From m to n some of the fields fs have been given back or newly granted.  *)
Turned(m, n, rest, fs) ==
  /\ Counted(n, rest) /\ n.for = m.for /\ n.par = m.par
  /\ \A g \in Fields \ fs : n.own[g] = m.own[g]
  /\ \A g \in fs : n.own[g] \in {m.own[g], Nothing} \/ rest[n.own[g]] = 0

-----------------------------------------------------------------------------
LEMMA FieldFacts ==
  ASSUME ProcessMemoryAssumption
  PROVE  /\ Pages \subseteq SpaceFields /\ SpaceFields \subseteq Fields /\ "sig" \in Pages
         /\ {"root", "images", "stacks"} \subseteq SpaceFields \ Pages
         /\ {"struct", "kernel stack"} \subseteq Fields \ SpaceFields
         /\ Fields \ SpaceFields \subseteq {"struct", "kernel stack"}
         /\ \A v \in Pages : TableOf(v) \in SpaceFields \ Pages
                             /\ TableOf(v) \notin {"root", "images", "stacks", "region", "frames"}
         /\ "mmap" \in Areas => {"region", "frames"} \subseteq SpaceFields \ Pages /\ "mmap" \in Pages
         /\ {"region", "frames", "mmap"} \cap {"root", "images", "stacks", "sig"} = {}
         /\ Areas = Pages \ {"sig"}
<1>1. Pages \subseteq {"image", "stack", "mmap", "sig"} /\ "sig" \in Pages /\ Areas = Pages \ {"sig"}
  BY DEF Pages, ProcessMemoryAssumption
<1>2. Pages \subseteq SpaceFields /\ SpaceFields \subseteq Fields
  BY DEF SpaceFields, Fields
<1>3. \A v \in Pages : TableOf(v) \in SpaceFields
                       /\ TableOf(v) \in {"low table", "mmap table", "high table"}
  BY DEF SpaceFields, TableOf
<1>4. {"struct", "kernel stack"} \subseteq Fields \ SpaceFields
      /\ Fields \ SpaceFields \subseteq {"struct", "kernel stack"}
  BY <1>1, <1>3 DEF SpaceFields, Fields
<1>5. {"root", "images", "stacks"} \subseteq SpaceFields
  BY DEF SpaceFields
<1>6. "mmap" \in Areas => {"region", "frames"} \subseteq SpaceFields /\ "mmap" \in Pages
  BY DEF SpaceFields, Pages
<1> QED BY <1>1, <1>2, <1>3, <1>4, <1>5, <1>6

LEMMA NothingFacts ==
  /\ Nothing \notin Blocks
  /\ \A b \in Blocks : b[1] \in Procs /\ b[2] \in Fields /\ b[3] \in Names /\ b = <<b[1], b[2], b[3]>>
  /\ \A t \in Procs, f \in Fields, n \in Names :
       <<t, f, n>> \in Blocks /\ <<t, f, n>>[2] = f
  /\ NoBlocks \in Owned /\ \A f \in Fields : NoBlocks[f] = Nothing
  /\ NoEntry \in Entries /\ NoEntry.to = Nothing /\ ~NoEntry.w
  /\ Unmapped \in Maps /\ \A v \in Pages : Unmapped[v] = NoEntry
<1>1. /\ Nothing \notin Blocks
      /\ \A b \in Blocks : b[1] \in Procs /\ b[2] \in Fields /\ b[3] \in Names /\ b = <<b[1], b[2], b[3]>>
      /\ \A t \in Procs, f \in Fields, n \in Names :
           <<t, f, n>> \in Blocks /\ <<t, f, n>>[2] = f
  BY DEF Blocks, Nothing
<1>2. NoBlocks \in Owned /\ \A f \in Fields : NoBlocks[f] = Nothing
  BY DEF NoBlocks, Owned, Targets
<1>3. NoEntry \in Entries /\ NoEntry.to = Nothing /\ ~NoEntry.w
  BY DEF NoEntry, Entries, Targets
<1>4. Unmapped \in Maps /\ \A v \in Pages : Unmapped[v] = NoEntry
  BY <1>3 DEF Unmapped, Maps
<1> QED BY <1>1, <1>2, <1>3, <1>4

LEMMA OwnedFacts ==
  ASSUME NEW o \in Owned, NEW f \in Fields
  PROVE  /\ o[f] \in Blocks \cup {Nothing} /\ (o[f] # Nothing => o[f] \in Blocks /\ o[f][2] = f)
         /\ \A x \in Blocks \cup {Nothing} : x # Nothing => (x[2] = f => [o EXCEPT ![f] = x] \in Owned)
         /\ [o EXCEPT ![f] = Nothing] \in Owned
BY DEF Owned, Targets

(* An allocation that succeeds gives a block that nobody else has.           *)
LEMMA GotFacts ==
  ASSUME NEW rest \in Rests, NEW m, Counted(m, rest), NEW f \in Fields, m.own[f] = Nothing
  PROVE  LET n == Got(m, f)
         IN  /\ Turned(m, n, rest, {f}) /\ n.pte = m.pte
             /\ IF n.ok THEN m.ok /\ n.own[f] # Nothing /\ n.own[f] \in Blocks /\ rest[n.own[f]] = 0
                ELSE n.own = m.own /\ n.refs = m.refs
<1> DEFINE k == CHOOSE k \in Names : m.refs[<<m.for, f, k>>] = 0
           new == <<m.for, f, k>>
<1>1. m \in Jobs /\ rest \in [Blocks -> Nat] /\ m.for \in Procs /\ m.own \in Owned
      /\ m.refs \in [Blocks -> Nat] /\ \A b \in Blocks : m.refs[b] = rest[b] + Held(m.own, b)
  BY DEF Counted, Jobs
<1>2. \A n \in Names : m.refs[<<m.for, f, n>>] = rest[<<m.for, f, n>>]
  BY <1>1, NothingFacts DEF Held
<1>3. \E n \in Names : m.refs[<<m.for, f, n>>] = 0
  BY <1>1, <1>2 DEF Rests
<1>4. k \in Names /\ m.refs[new] = 0
  BY <1>3
<1> HIDE DEF k
<1>5. new \in Blocks /\ new[2] = f /\ rest[new] = 0 /\ new # Nothing
  <2>1. new \in Blocks /\ new[2] = f
    BY <1>1, <1>4, NothingFacts
  <2> QED BY <1>2, <1>4, <2>1, NothingFacts
<1>6. CASE m.ok /\ m.left > 0
  <2> DEFINE n == [m EXCEPT !.left = @ - 1, !.refs[new] = 1, !.own[f] = new]
  <2>1. Got(m, f) = n
    BY <1>6 DEF Got, k
  <2>2. [m.own EXCEPT ![f] = new] \in Owned
    BY <1>1, <1>5 DEF Owned, Targets
  <2>a. [m.refs EXCEPT ![new] = 1] \in [Blocks -> Nat]
    BY <1>1
  <2>b. n.refs = [m.refs EXCEPT ![new] = 1] /\ n.own = [m.own EXCEPT ![f] = new]
    BY <1>1 DEF Jobs
  <2>3. n \in Jobs /\ n.for = m.for /\ n.par = m.par /\ n.pte = m.pte /\ n.ok = m.ok
        /\ n.refs = [m.refs EXCEPT ![new] = 1] /\ n.own = [m.own EXCEPT ![f] = new]
    <3>1. m.left - 1 \in Nat
      BY <1>1, <1>6 DEF Jobs
    <3>2. n = [m EXCEPT !.left = m.left - 1, !.refs = [m.refs EXCEPT ![new] = 1],
                        !.own = [m.own EXCEPT ![f] = new]]
      BY <1>1 DEF Jobs
    <3> QED BY <1>1, <2>2, <2>a, <3>1, <3>2 DEF Jobs
  <2> HIDE DEF n
  <2>4. /\ \A g \in Fields \ {f} : n.own[g] = m.own[g]
        /\ n.own[f] = new
    BY <1>1, <2>3 DEF Owned
  <2>5. ASSUME NEW b \in Blocks PROVE n.refs[b] = rest[b] + Held(n.own, b)
    <3>1. CASE b = new
      BY <1>1, <1>5, <2>3, <2>4, <3>1 DEF Held
    <3>2. CASE b # new
      <4>1. n.refs[b] = m.refs[b]
        BY <1>1, <2>3, <3>2
      <4>2. Held(n.own, b) = Held(m.own, b)
        BY <1>1, <1>5, <2>4, <3>2, NothingFacts DEF Held
      <4> QED BY <1>1, <4>1, <4>2
    <3> QED BY <3>1, <3>2
  <2>6. Counted(n, rest)
    BY <2>3, <2>5 DEF Counted
  <2> QED BY <1>5, <1>6, <2>1, <2>3, <2>4, <2>6 DEF Turned
<1>7. CASE ~(m.ok /\ m.left > 0)
  <2> DEFINE n == [m EXCEPT !.ok = FALSE]
  <2>1. Got(m, f) = n
    BY <1>7 DEF Got
  <2>2. n \in Jobs /\ n.for = m.for /\ n.par = m.par /\ n.pte = m.pte /\ n.own = m.own
        /\ n.refs = m.refs /\ n.ok = FALSE
    BY <1>1 DEF Jobs
  <2> HIDE DEF n
  <2>3. Counted(n, rest)
    BY <1>1, <2>2 DEF Counted
  <2> QED BY <2>1, <2>2, <2>3 DEF Turned
<1> QED BY <1>6, <1>7

LEMMA PutFacts ==
  ASSUME NEW rest, NEW m, Counted(m, rest), NEW fs \in SUBSET Fields
  PROVE  LET n == Put(m, fs)
         IN  /\ Turned(m, n, rest, fs) /\ n.pte = m.pte /\ n.ok = m.ok
             /\ \A f \in fs : n.own[f] = Nothing
<1> DEFINE Gone(b) == b[2] \in fs /\ m.own[b[2]] = b
           rs == [b \in Blocks |-> IF Gone(b) THEN m.refs[b] - 1 ELSE m.refs[b]]
           o == [f \in Fields |-> IF f \in fs THEN Nothing ELSE m.own[f]]
           n == [m EXCEPT !.refs = rs, !.own = o]
<1>1. m \in Jobs /\ rest \in [Blocks -> Nat] /\ m.own \in Owned
      /\ m.refs \in [Blocks -> Nat] /\ \A b \in Blocks : m.refs[b] = rest[b] + Held(m.own, b)
  BY DEF Counted, Jobs
<1>2. Put(m, fs) = n
  BY DEF Put
<1>4. o \in Owned
  BY <1>1 DEF Owned, Targets
<1>5. ASSUME NEW b \in Blocks
      PROVE  rs[b] \in Nat /\ rs[b] = rest[b] + Held(o, b)
  <2>0. m.refs[b] = rest[b] + Held(m.own, b) /\ rest[b] \in Nat /\ m.refs[b] \in Nat
        /\ b[2] \in Fields /\ b # Nothing
    BY <1>1, NothingFacts
  <2>1. CASE Gone(b)
    <3>1. Held(m.own, b) = 1 /\ Held(o, b) = 0
      BY <2>0, <2>1 DEF Held
    <3> QED BY <2>0, <2>1, <3>1
  <2>2. CASE ~Gone(b)
    <3>1. Held(m.own, b) = Held(o, b)
      BY <2>0, <2>2 DEF Held
    <3> QED BY <2>0, <2>2, <3>1
  <2> QED BY <2>1, <2>2
<1>6. rs \in [Blocks -> Nat]
  BY <1>5
<1>7. n \in Jobs /\ n.for = m.for /\ n.par = m.par /\ n.pte = m.pte /\ n.ok = m.ok
      /\ n.refs = rs /\ n.own = o
  BY <1>1, <1>4, <1>6 DEF Jobs
<1> HIDE DEF rs, n
<1>8. Counted(n, rest)
  BY <1>5, <1>7 DEF Counted
<1>9. (\A g \in Fields \ fs : n.own[g] = m.own[g]) /\ (\A f \in fs : n.own[f] = Nothing)
  BY <1>7
<1> QED BY <1>2, <1>7, <1>8, <1>9 DEF Turned

LEMMA TurnedTwice ==
  ASSUME NEW m, NEW n, NEW k, NEW rest, NEW fs \in SUBSET Fields, NEW gs \in SUBSET Fields,
         Turned(m, n, rest, fs), Turned(n, k, rest, gs)
  PROVE  Turned(m, k, rest, fs \cup gs)
<1>1. Counted(k, rest) /\ k.for = m.for /\ k.par = m.par
  BY DEF Turned
<1>2. \A g \in Fields \ (fs \cup gs) : k.own[g] = m.own[g]
  BY DEF Turned
<1>3. ASSUME NEW g \in fs \cup gs
      PROVE  k.own[g] \in {m.own[g], Nothing} \/ rest[k.own[g]] = 0
  <2>1. k.own[g] \in {n.own[g], Nothing} \/ rest[k.own[g]] = 0
    BY <1>3 DEF Turned
  <2>2. n.own[g] \in {m.own[g], Nothing} \/ rest[n.own[g]] = 0
    BY <1>3 DEF Turned
  <2> QED BY <2>1, <2>2
<1> QED BY <1>1, <1>2, <1>3 DEF Turned

LEMMA TurnedMore ==
  ASSUME NEW m, NEW n, NEW rest, NEW fs, NEW hs \in SUBSET Fields,
         fs \subseteq hs, Turned(m, n, rest, fs)
  PROVE  Turned(m, n, rest, hs)
<1>1. ASSUME NEW g \in hs PROVE n.own[g] \in {m.own[g], Nothing} \/ rest[n.own[g]] = 0
  BY <1>1 DEF Turned
<1> QED BY <1>1 DEF Turned

LEMMA TurnedAlong ==
  ASSUME NEW m, NEW n, NEW k, NEW rest, NEW fs, NEW gs, NEW hs \in SUBSET Fields,
         fs \subseteq hs, gs \subseteq hs, Turned(m, n, rest, fs), Turned(n, k, rest, gs)
  PROVE  Turned(m, k, rest, hs)
<1>1. Turned(m, n, rest, hs) /\ Turned(n, k, rest, hs)
  BY TurnedMore
<1>2. Turned(m, k, rest, hs \cup hs)
  BY <1>1, TurnedTwice
<1> QED BY <1>2, hs \cup hs = hs

LEMMA Unturned ==
  ASSUME NEW m, NEW n, NEW rest, Counted(m, rest), n \in Jobs, n.own = m.own, n.refs = m.refs,
         n.for = m.for, n.par = m.par, NEW fs \in SUBSET Fields
  PROVE  Counted(n, rest) /\ Turned(m, n, rest, fs)
BY DEF Counted, Turned

LEMMA ClearedFacts ==
  ASSUME NEW rest, NEW m, Counted(m, rest), NEW vs
  PROVE  LET n == Cleared(m, vs)
         IN  /\ Turned(m, n, rest, {}) /\ n.own = m.own /\ n.refs = m.refs /\ n.ok = m.ok
             /\ \A v \in Pages : n.pte[v] = IF v \in vs THEN NoEntry ELSE m.pte[v]
             /\ Pages \subseteq vs => n.pte = Unmapped
<1> DEFINE pt == [v \in Pages |-> IF v \in vs THEN NoEntry ELSE m.pte[v]]
           n == [m EXCEPT !.pte = pt]
<1>1. m \in Jobs /\ m.pte \in Maps
  BY DEF Counted, Jobs
<1>2. Cleared(m, vs) = n
  BY DEF Cleared
<1>3. pt \in Maps
  BY <1>1, NothingFacts DEF Maps
<1>4. n \in Jobs /\ n.own = m.own /\ n.refs = m.refs /\ n.for = m.for /\ n.par = m.par
      /\ n.ok = m.ok /\ n.pte = pt
  BY <1>1, <1>3 DEF Jobs
<1> HIDE DEF n
<1>5. Pages \subseteq vs => pt = Unmapped
  BY DEF Unmapped
<1>6. Turned(m, n, rest, {})
  BY <1>4, Unturned
<1> QED BY <1>2, <1>4, <1>5, <1>6

LEMMA MappedFacts ==
  ASSUME ProcessMemoryAssumption, NEW rest \in Rests, NEW m, Counted(m, rest), NEW v \in Pages,
         NEW e \in Entries
  PROVE  LET n == Mapped(m, v, e)
         IN  /\ Turned(m, n, rest, {TableOf(v)})
             /\ IF n.ok THEN m.ok /\ n.pte = [m.pte EXCEPT ![v] = e] ELSE n.pte = m.pte
<1> DEFINE f == TableOf(v)
           n == IF m.own[f] = Nothing THEN Got(m, f) ELSE m
           k == IF n.ok THEN [n EXCEPT !.pte[v] = e] ELSE n
<1>1. f \in Fields /\ Mapped(m, v, e) = k
  BY FieldFacts DEF Mapped
<1> HIDE DEF f
<1>2. Turned(m, n, rest, {f}) /\ n.pte = m.pte /\ (n.ok => m.ok)
  <2>1. CASE m.own[f] = Nothing
    BY <1>1, <2>1, GotFacts
  <2>2. CASE m.own[f] # Nothing
    BY <1>1, <2>2, Unturned DEF Counted
  <2> QED BY <2>1, <2>2
<1> HIDE DEF n
<1>3. CASE n.ok
  <2>1. n \in Jobs /\ n.pte \in Maps /\ Counted(n, rest)
    BY <1>2 DEF Turned, Counted, Jobs
  <2>2. [n.pte EXCEPT ![v] = e] \in Maps
    BY <2>1 DEF Maps
  <2>3. k = [n EXCEPT !.pte = [n.pte EXCEPT ![v] = e]]
    BY <1>3, <2>1 DEF Jobs
  <2> HIDE DEF k
  <2>4. k \in Jobs /\ k.own = n.own /\ k.refs = n.refs /\ k.for = n.for /\ k.par = n.par
        /\ k.ok = n.ok /\ k.pte = [n.pte EXCEPT ![v] = e]
    BY <2>1, <2>2, <2>3 DEF Jobs
  <2>5. Counted(k, rest)
    BY <2>1, <2>4 DEF Counted
  <2>6. Turned(m, k, rest, {f})
    BY <1>2, <2>4, <2>5 DEF Turned
  <2> QED BY <1>1, <1>2, <1>3, <2>4, <2>6 DEF f
<1>4. CASE ~n.ok
  BY <1>1, <1>2, <1>4 DEF f
<1> QED BY <1>3, <1>4

(* An address space that is taken down leaves nothing behind.                *)
LEMMA DestroyedFacts ==
  ASSUME ProcessMemoryAssumption, NEW rest, NEW m, Counted(m, rest)
  PROVE  LET n == Destroyed(m)
         IN  /\ Turned(m, n, rest, SpaceFields) /\ n.ok = m.ok /\ n.pte = Unmapped
             /\ \A f \in SpaceFields : n.own[f] = Nothing
<1> DEFINE a == Put(m, RegionFields)
           b == Cleared(a, {"mmap"})
           c == Put(b, SpaceFields)
           d == Cleared(c, Pages)
<1>1. RegionFields \in SUBSET Fields /\ RegionFields \subseteq SpaceFields
      /\ SpaceFields \in SUBSET Fields
  BY FieldFacts DEF RegionFields
<1>2. Destroyed(m) = d
  BY DEF Destroyed, MmapDestroyed
<1>3. Turned(m, a, rest, RegionFields) /\ a.ok = m.ok
  BY <1>1, PutFacts
<1>4. Counted(a, rest)
  BY <1>3 DEF Turned
<1> HIDE DEF a
<1>5. Turned(a, b, rest, {}) /\ b.ok = a.ok
  BY <1>4, ClearedFacts
<1>6. Counted(b, rest)
  BY <1>5 DEF Turned
<1> HIDE DEF b
<1>7. Turned(b, c, rest, SpaceFields) /\ c.ok = b.ok /\ \A f \in SpaceFields : c.own[f] = Nothing
  BY <1>1, <1>6, PutFacts
<1>8. Counted(c, rest)
  BY <1>7 DEF Turned
<1> HIDE DEF c
<1>9. Turned(c, d, rest, {}) /\ d.ok = c.ok /\ d.own = c.own /\ d.pte = Unmapped
  BY <1>8, ClearedFacts
<1> HIDE DEF d
<1>10. Turned(m, b, rest, SpaceFields)
  BY <1>1, <1>3, <1>5, TurnedAlong
<1>11. Turned(m, c, rest, SpaceFields)
  BY <1>1, <1>7, <1>10, TurnedAlong
<1>12. Turned(m, d, rest, SpaceFields)
  BY <1>1, <1>9, <1>11, TurnedAlong
<1> QED BY <1>2, <1>3, <1>5, <1>7, <1>9, <1>12

LEMMA GotOne ==
  ASSUME NEW rest \in Rests, NEW m, Counted(m, rest), NEW f \in Fields, m.own[f] = Nothing,
         NEW fs \in SUBSET Fields, f \in fs
  PROVE  LET n == Got(m, f)
         IN  /\ Turned(m, n, rest, fs) /\ Counted(n, rest) /\ n.pte = m.pte
             /\ n.ok => m.ok /\ n.own[f] # Nothing
             /\ \A g \in Fields \ {f} : n.own[g] = m.own[g]
<1>1. Turned(m, Got(m, f), rest, {f})
  BY GotFacts
<1>2. Turned(m, Got(m, f), rest, fs)
  BY <1>1, TurnedMore
<1> QED BY <1>1, <1>2, GotFacts DEF Turned

LEMMA GotTwoFacts ==
  ASSUME NEW rest \in Rests, NEW m, Counted(m, rest), NEW f \in Fields, NEW g \in Fields, f # g,
         m.own[f] = Nothing, m.own[g] = Nothing
  PROVE  LET n == Got2(m, f, g)
         IN  /\ Turned(m, n, rest, {f, g}) /\ Counted(n, rest) /\ n.pte = m.pte
             /\ n.ok => m.ok /\ n.own[f] # Nothing /\ n.own[g] # Nothing
             /\ \A h \in Fields \ {f, g} : n.own[h] = m.own[h]
<1> DEFINE a == Got(m, f)
           b == Got(a, g)
<1>1. Got2(m, f, g) = b
  BY DEF Got2
<1>2. /\ Turned(m, a, rest, {f}) /\ Counted(a, rest) /\ a.pte = m.pte
      /\ a.ok => m.ok /\ a.own[f] # Nothing
      /\ \A h \in Fields \ {f} : a.own[h] = m.own[h]
  BY GotOne
<1> HIDE DEF a
<1>3. /\ Turned(a, b, rest, {g}) /\ Counted(b, rest) /\ b.pte = a.pte
      /\ b.ok => a.ok /\ b.own[g] # Nothing
      /\ \A h \in Fields \ {g} : b.own[h] = a.own[h]
  BY <1>2, GotOne
<1> HIDE DEF b
<1>4. Turned(m, b, rest, {f, g})
  <2>1. Turned(m, b, rest, {f} \cup {g})
    BY <1>2, <1>3, TurnedTwice
  <2> QED BY <2>1, {f} \cup {g} = {f, g}
<1> QED BY <1>1, <1>2, <1>3, <1>4

LEMMA SpaceInitFacts ==
  ASSUME ProcessMemoryAssumption, NEW rest \in Rests, NEW m, Counted(m, rest),
         \A f \in SpaceFields : m.own[f] = Nothing
  PROVE  LET n == SpaceInit(m)
             three == {"root", "images", "stacks"}
         IN  /\ Turned(m, n, rest, SpaceFields)
             /\ IF n.ok THEN /\ m.ok /\ n.pte = m.pte
                             /\ \A f \in three : n.own[f] # Nothing
                             /\ \A f \in SpaceFields \ three : n.own[f] = Nothing
                ELSE \A f \in SpaceFields : n.own[f] = Nothing
<1> DEFINE a == Got(m, "root")
           b == Got2(a, "images", "stacks")
<1>0. {"root", "images", "stacks"} \subseteq SpaceFields /\ SpaceFields \in SUBSET Fields
  BY FieldFacts
<1>1. SpaceInit(m) = IF b.ok THEN b ELSE Destroyed(b)
  BY DEF SpaceInit
<1>2. /\ Turned(m, a, rest, {"root"}) /\ Counted(a, rest) /\ a.pte = m.pte
      /\ a.ok => m.ok /\ a.own["root"] # Nothing
      /\ \A h \in Fields \ {"root"} : a.own[h] = m.own[h]
  BY <1>0, GotOne
<1> HIDE DEF a
<1>3. /\ Turned(a, b, rest, {"images", "stacks"}) /\ Counted(b, rest) /\ b.pte = a.pte
      /\ b.ok => a.ok /\ b.own["images"] # Nothing /\ b.own["stacks"] # Nothing
      /\ \A h \in Fields \ {"images", "stacks"} : b.own[h] = a.own[h]
  <2>1. a.own["images"] = Nothing /\ a.own["stacks"] = Nothing
        /\ "images" \in Fields /\ "stacks" \in Fields
    BY <1>0, <1>2
  <2> QED BY <1>2, <2>1, GotTwoFacts
<1> HIDE DEF b
<1>4. Turned(m, b, rest, SpaceFields)
  <2>1. {"root"} \subseteq SpaceFields /\ {"images", "stacks"} \subseteq SpaceFields
    BY <1>0
  <2> QED BY <1>0, <1>2, <1>3, <2>1, TurnedAlong
<1>5. CASE b.ok
  BY <1>0, <1>1, <1>2, <1>3, <1>4, <1>5
<1>6. CASE ~b.ok
  <2>1. /\ Turned(b, Destroyed(b), rest, SpaceFields) /\ ~Destroyed(b).ok
        /\ \A f \in SpaceFields : Destroyed(b).own[f] = Nothing
    BY <1>3, <1>6, DestroyedFacts
  <2>2. Turned(m, Destroyed(b), rest, SpaceFields)
    BY <1>0, <1>4, <2>1, TurnedAlong
  <2> QED BY <1>1, <1>6, <2>1, <2>2
<1> QED BY <1>5, <1>6

-----------------------------------------------------------------------------
(* What others than p count of each block.                                   *)
RestOf(ts, rs, p) == [b \in Blocks |-> rs[b] - Held(ts[p].own, b)]

LEMMA OwnersFinite ==
  ASSUME ProcessMemoryAssumption, NEW ts, NEW b
  PROVE  /\ IsFiniteSet(OwnersIn(ts, b)) /\ Cardinality(OwnersIn(ts, b)) \in Nat
         /\ Cardinality(OwnersIn(ts, b)) = 0 <=> OwnersIn(ts, b) = {}
<1>1. OwnersIn(ts, b) \in SUBSET Procs /\ IsFiniteSet(Procs)
  BY DEF OwnersIn, ProcessMemoryAssumption
<1>2. IsFiniteSet(OwnersIn(ts, b))
  BY <1>1, FS_Subset
<1> QED BY <1>2, FS_CardinalityType, FS_EmptySet

(* Each owner has one block of a use, so that one of its names is free.      *)
LEMMA FreeName ==
  ASSUME ProcessMemoryAssumption, NEW ts, NEW rs, Fine(ts, rs), NEW t \in Procs, NEW f \in Fields
  PROVE  \E n \in Names : rs[<<t, f, n>>] = 0
<1>1. SUFFICES ASSUME \A n \in Names : rs[<<t, f, n>>] # 0 PROVE FALSE
  OBVIOUS
<1>2. ASSUME NEW n \in Names PROVE \E q \in Procs : ts[q].own[f] = <<t, f, n>>
  <2>1. <<t, f, n>> \in Blocks /\ <<t, f, n>>[2] = f
    BY NothingFacts
  <2>2. Cardinality(OwnersIn(ts, <<t, f, n>>)) # 0
    BY <1>1, <2>1 DEF Fine, Exact
  <2>3. OwnersIn(ts, <<t, f, n>>) # {}
    BY <2>2, OwnersFinite
  <2> QED BY <2>1, <2>3 DEF OwnersIn
<1> DEFINE g == [n \in Names |-> CHOOSE q \in Procs : ts[q].own[f] = <<t, f, n>>]
<1>3. \A n \in Names : g[n] \in Procs /\ ts[g[n]].own[f] = <<t, f, n>>
  BY <1>2
<1>4. g \in [Names -> Procs]
  BY <1>3
<1>5. IsFiniteSet(Procs) /\ Cardinality(Procs) \in Nat
  BY FS_CardinalityType DEF ProcessMemoryAssumption
<1>6. IsFiniteSet(Names) /\ Cardinality(Procs) < Cardinality(Names)
  BY <1>5, FS_Interval DEF Names
<1> HIDE DEF g
<1>7. \E x, y \in Names : x # y /\ g[x] = g[y]
  BY <1>4, <1>5, <1>6, FS_PigeonHole
<1> QED BY <1>3, <1>7

LEMMA FewerAreRests ==
  ASSUME ProcessMemoryAssumption, NEW ts, NEW rs, Fine(ts, rs), NEW rest \in [Blocks -> Nat],
         \A b \in Blocks : rest[b] <= rs[b]
  PROVE  rest \in Rests
<1>1. ASSUME NEW t \in Procs, NEW f \in Fields PROVE \E n \in Names : rest[<<t, f, n>>] = 0
  <2>1. PICK n \in Names : rs[<<t, f, n>>] = 0
    BY FreeName
  <2>2. <<t, f, n>> \in Blocks
    BY NothingFacts
  <2>3. rest[<<t, f, n>>] \in Nat /\ rest[<<t, f, n>>] <= 0
    BY <2>1, <2>2
  <2> QED BY <2>3
<1> QED BY <1>1 DEF Rests

LEMMA RestFacts ==
  ASSUME ProcessMemoryAssumption, NEW ts, NEW rs, Fine(ts, rs), NEW p \in Procs
  PROVE  /\ RestOf(ts, rs, p) \in Rests
         /\ \A b \in Blocks : /\ rs[b] = RestOf(ts, rs, p)[b] + Held(ts[p].own, b)
                              /\ RestOf(ts, rs, p)[b] = Cardinality(OwnersIn(ts, b) \ {p})
                              /\ rs[b] \in Nat /\ RestOf(ts, rs, p)[b] \in Nat
<1>1. ASSUME NEW b \in Blocks
      PROVE  /\ Cardinality(OwnersIn(ts, b) \ {p}) \in Nat /\ rs[b] \in Nat
             /\ rs[b] - Held(ts[p].own, b) = Cardinality(OwnersIn(ts, b) \ {p})
  <2> DEFINE all == OwnersIn(ts, b)
  <2>1. IsFiniteSet(all) /\ rs[b] = Cardinality(all) /\ rs[b] \in Nat
    BY OwnersFinite DEF Fine, Exact
  <2>2. p \in all <=> Held(ts[p].own, b) = 1
    BY DEF OwnersIn, Held
  <2>3. Held(ts[p].own, b) \in {0, 1}
    BY DEF Held
  <2> HIDE DEF all
  <2>4. /\ IsFiniteSet(all \ {p})
        /\ Cardinality(all \ {p}) = IF p \in all THEN Cardinality(all) - 1 ELSE Cardinality(all)
    BY <2>1, FS_RemoveElement
  <2>5. Cardinality(all \ {p}) \in Nat
    BY <2>4, FS_CardinalityType
  <2> QED BY <2>1, <2>2, <2>3, <2>4, <2>5 DEF all
<1>2. RestOf(ts, rs, p) \in [Blocks -> Nat]
  BY <1>1 DEF RestOf
<1>3. \A b \in Blocks : RestOf(ts, rs, p)[b] = rs[b] - Held(ts[p].own, b)
                        /\ Held(ts[p].own, b) \in {0, 1}
  BY DEF RestOf, Held
<1>4. ASSUME NEW b \in Blocks PROVE RestOf(ts, rs, p)[b] <= rs[b]
  <2>1. rs[b] \in Nat
    BY <1>1
  <2> QED BY <1>3, <2>1
<1>5. RestOf(ts, rs, p) \in Rests
  BY <1>2, <1>4, FewerAreRests
<1> QED BY <1>1, <1>3, <1>5

LEMMA RestSum ==
  ASSUME ProcessMemoryAssumption, NEW ts, NEW rs, Fine(ts, rs), NEW p \in Procs, NEW b \in Blocks
  PROVE  rs[b] = RestOf(ts, rs, p)[b] + Held(ts[p].own, b)
<1>1. \A c \in Blocks : /\ rs[c] = RestOf(ts, rs, p)[c] + Held(ts[p].own, c)
                         /\ RestOf(ts, rs, p)[c] = Cardinality(OwnersIn(ts, c) \ {p})
                         /\ rs[c] \in Nat /\ RestOf(ts, rs, p)[c] \in Nat
  BY RestFacts
<1> QED BY <1>1

LEMMA RestHolds ==
  ASSUME ProcessMemoryAssumption, NEW ts, NEW rs, Fine(ts, rs), NEW p \in Procs,
         NEW b \in Blocks, NEW q \in OwnersIn(ts, b) \ {p}
  PROVE  RestOf(ts, rs, p)[b] # 0 /\ RestOf(ts, rs, p)[b] \in Nat
<1>1. IsFiniteSet(OwnersIn(ts, b) \ {p})
  BY OwnersFinite, FS_RemoveElement
<1>2. Cardinality(OwnersIn(ts, b) \ {p}) # 0
  BY <1>1, FS_EmptySet
<1> QED BY <1>2, RestFacts

(* Only p changes, and shares no page that another may write.                *)
LEMMA OneChanges ==
  ASSUME ProcessMemoryAssumption, NEW ts, NEW rs, Fine(ts, rs), NEW p \in Procs,
         NEW s \in Structs, Space(s), Handled(s), NEW rs2 \in [Blocks -> Nat],
         \A b \in Blocks : rs2[b] = RestOf(ts, rs, p)[b] + Held(s.own, b),
         \A v \in Pages : s.pte[v].w => RestOf(ts, rs, p)[s.own[v]] = 0,
         \A q \in Procs \ {p}, v \in Pages : ts[q].pte[v].w => s.own[v] # ts[q].own[v]
  PROVE  Fine([ts EXCEPT ![p] = s], rs2)
<1> DEFINE ts2 == [ts EXCEPT ![p] = s]
<1>0. \A b \in Blocks : rs[b] = RestOf(ts, rs, p)[b] + Held(ts[p].own, b)
  BY RestSum
<1>1. ts \in [Procs -> Structs] /\ ts2 \in [Procs -> Structs] /\ ts2[p] = s
      /\ \A t \in Procs \ {p} : ts2[t] = ts[t]
  BY DEF Fine
<1> HIDE DEF ts2
<1>2. \A t \in Procs : Space(ts2[t]) /\ Handled(ts2[t])
  BY <1>1 DEF Fine
<1>3. ASSUME NEW b \in Blocks PROVE rs2[b] = Cardinality(OwnersIn(ts2, b))
  <2> DEFINE others == OwnersIn(ts, b) \ {p}
  <2>1. IsFiniteSet(others) /\ p \notin others
    BY OwnersFinite, FS_RemoveElement
  <2>2. rs2[b] = Cardinality(others) + Held(s.own, b) /\ Cardinality(others) \in Nat
    BY RestFacts
  <2>3. OwnersIn(ts2, b) = IF s.own[b[2]] = b THEN others \cup {p} ELSE others
    BY <1>1 DEF OwnersIn
  <2> HIDE DEF others
  <2>4. Cardinality(others \cup {p}) = Cardinality(others) + 1
    BY <2>1, FS_AddElement
  <2> QED BY <2>2, <2>3, <2>4 DEF Held
<1>4. ASSUME NEW t \in Procs, NEW v \in Pages, ts2[t].pte[v].w PROVE rs2[ts2[t].own[v]] = 1
  <2> DEFINE b == ts2[t].own[v]
  <2>1. ts2[t].own \in Owned /\ v \in Fields /\ Tied(ts2[t].own, ts2[t].pte, v)
    BY <1>1, <1>2, FieldFacts DEF Structs, Space
  <2>2. b # Nothing
    BY <1>4, <2>1, NothingFacts DEF Tied
  <2>3. b \in Blocks /\ b[2] = v
    BY <2>1, <2>2, OwnedFacts
  <2>4. CASE t = p
    <3>1. RestOf(ts, rs, p)[b] = 0 /\ Held(s.own, b) = 1
      BY <1>1, <1>4, <2>3, <2>4 DEF Held
    <3> QED BY <2>3, <3>1
  <2>5. CASE t # p
    <3>1. ts2[t] = ts[t] /\ b = ts[t].own[v] /\ s.own[v] # b
      BY <1>1, <1>4, <2>5
    <3>2. rs[b] = 1
      BY <1>4, <3>1 DEF Fine, Alone
    <3>3. t \in OwnersIn(ts, b) \ {p}
      BY <2>3, <2>5, <3>1 DEF OwnersIn
    <3>4. RestOf(ts, rs, p)[b] # 0 /\ RestOf(ts, rs, p)[b] \in Nat
      BY <2>3, <3>3, RestHolds
    <3>5. rs[b] = RestOf(ts, rs, p)[b] + Held(ts[p].own, b)
      BY <1>0, <2>3
    <3>a. Held(ts[p].own, b) \in {0, 1}
      BY DEF Held
    <3>6. RestOf(ts, rs, p)[b] = 1
      BY <3>2, <3>4, <3>5, <3>a
    <3>7. Held(s.own, b) = 0
      BY <2>3, <3>1 DEF Held
    <3> QED BY <2>3, <3>6, <3>7
  <2> QED BY <2>4, <2>5
<1> QED BY <1>1, <1>2, <1>3, <1>4 DEF Fine, Exact, Alone, ts2

(* A call under way for p comes to its end, with what it has granted in s.   *)
LEMMA JobEnds ==
  ASSUME ProcessMemoryAssumption, Fine(th, refs), NEW p \in Procs, NEW m,
         Counted(m, RestOf(th, refs, p)),
         \A f \in Fields : m.own[f] \in {th[p].own[f], Nothing} \/ RestOf(th, refs, p)[m.own[f]] = 0,
         NEW s \in Structs, Space(s), Handled(s), s.own = m.own,
         \A v \in Pages : s.pte[v].w => RestOf(th, refs, p)[s.own[v]] = 0
  PROVE  Fine([th EXCEPT ![p] = s], m.refs)
<1> DEFINE rest == RestOf(th, refs, p)
<1>0. \A b \in Blocks : refs[b] = rest[b] + Held(th[p].own, b)
  BY RestSum
<1>1. m.refs \in [Blocks -> Nat] /\ \A b \in Blocks : m.refs[b] = rest[b] + Held(s.own, b)
  BY DEF Counted, Jobs
<1>2. ASSUME NEW q \in Procs \ {p}, NEW v \in Pages, th[q].pte[v].w
      PROVE  s.own[v] # th[q].own[v]
  <2> DEFINE b == th[q].own[v]
  <2>1. th[q].own \in Owned /\ v \in Fields /\ Tied(th[q].own, th[q].pte, v)
    BY FieldFacts DEF Structs, Space, Fine
  <2>2. b # Nothing
    BY <1>2, <2>1, NothingFacts DEF Tied
  <2>3. b \in Blocks /\ b[2] = v
    BY <2>1, <2>2, OwnedFacts
  <2>4. refs[b] = 1
    BY <1>2 DEF Fine, Alone
  <2>5. q \in OwnersIn(th, b) \ {p}
    BY <2>3 DEF OwnersIn
  <2> HIDE DEF b
  <2>6. rest[b] # 0 /\ rest[b] \in Nat
    BY <2>3, <2>5, RestHolds
  <2>7. refs[b] = rest[b] + Held(th[p].own, b)
    BY <1>0, <2>3
  <2>8. Held(th[p].own, b) # 1
    BY <2>4, <2>6, <2>7
  <2>9. th[p].own[v] # b
    BY <2>3, <2>8 DEF Held
  <2> QED BY <2>1, <2>2, <2>6, <2>9 DEF b
<1> QED BY <1>1, <1>2, OneChanges

(* What changes neither a thread's memory nor its place in a handler.        *)
Akin(s, r) ==
  /\ r.own = s.own /\ r.pte = s.pte /\ (r.status = "none" <=> s.status = "none")
  /\ r.status \notin {"none", "TERMINATED"} =>
       /\ s.status \notin {"none", "TERMINATED"}
       /\ r.active = s.active /\ r.regs = s.regs /\ r.saved = s.saved

LEMMA AkinFine ==
  ASSUME NEW ts, NEW rs, Fine(ts, rs), NEW ts2 \in [Procs -> Structs],
         \A t \in Procs : Akin(ts[t], ts2[t])
  PROVE  Fine(ts2, rs)
<1>1. \A t \in Procs : Space(ts2[t]) /\ Handled(ts2[t])
  <2> SUFFICES ASSUME NEW t \in Procs PROVE Space(ts2[t]) /\ Handled(ts2[t])
    OBVIOUS
  <2> DEFINE s == ts[t]
             r == ts2[t]
  <2>1. Space(s) /\ Handled(s) /\ Akin(s, r)
    BY DEF Fine
  <2> HIDE DEF s, r
  <2>2. Space(r)
    BY <2>1 DEF Akin, Space
  <2>3. Handled(r)
    BY <2>1 DEF Akin, Handled
  <2> QED BY <2>2, <2>3 DEF r
<1>2. \A b : OwnersIn(ts2, b) = OwnersIn(ts, b)
  BY DEF OwnersIn, Akin
<1>3. Exact(ts2, rs)
  BY <1>2 DEF Fine, Exact
<1>4. Alone(ts2, rs)
  BY DEF Fine, Alone, Akin
<1> QED BY <1>1, <1>3, <1>4 DEF Fine

LEMMA ScheduleKeeps ==
  ASSUME ProcessMemoryAssumption, NEW ts, NEW rs, Fine(ts, rs), cur \in Threads,
         satp = (IF cur \in Procs THEN ts[cur].own["root"] ELSE Nothing), Schedule(ts)
  PROVE  Fine(th', rs) /\ OnHart(th', cur', satp')
<1>1. PICK next \in Runnable(ts) :
        /\ cur' = next
        /\ th' = [t \in Procs |->
                    IF t = next THEN [ts[t] EXCEPT !.status = "RUNNING"]
                    ELSE IF t = cur /\ ts[t].status = "RUNNING"
                    THEN [ts[t] EXCEPT !.status = "READY"] ELSE ts[t]]
        /\ satp' = IF next = cur THEN satp
                   ELSE IF next \in Procs THEN ts[next].own["root"] ELSE Nothing
  BY DEF Schedule
<1>2. ts \in [Procs -> Structs]
  BY DEF Fine
<1>3. \A t \in Procs : ts[t] \in Structs
  BY <1>2
<1>4. th' \in [Procs -> Structs]
  BY <1>1, <1>3 DEF Structs
<1>5. next \in Procs => ts[next].status \in {"READY", "RUNNING"}
  BY DEF Runnable, ProcessMemoryAssumption
<1>6. ASSUME NEW t \in Procs PROVE Akin(ts[t], th'[t])
  BY <1>1, <1>3, <1>5 DEF Structs, Akin
<1>7. Fine(th', rs)
  BY <1>4, <1>6, AkinFine
<1>8. next \in Threads
  BY DEF Runnable, Threads
<1>9. CASE next \in Procs
  <2>1. th'[next].status = "RUNNING" /\ th'[next].own = ts[next].own
    BY <1>1, <1>3, <1>9 DEF Structs
  <2>2. satp' = ts[next].own["root"]
    BY <1>1, <1>9
  <2> QED BY <1>1, <1>7, <1>8, <1>9, <2>1, <2>2 DEF OnHart
<1>10. CASE next \notin Procs
  BY <1>1, <1>7, <1>8, <1>10 DEF OnHart
<1> QED BY <1>9, <1>10

-----------------------------------------------------------------------------
LEMMA ThreadFacts ==
  ASSUME ProcessMemoryAssumption, Fine(th, refs), NEW p \in Procs
  PROVE  /\ th[p] \in Structs /\ Space(th[p]) /\ Handled(th[p])
         /\ th[p].own \in Owned /\ th[p].pte \in Maps
         /\ \A v \in Pages : v \in Fields /\ th[p].pte[v] \in Entries
                             /\ Tied(th[p].own, th[p].pte, v)
                             /\ (th[p].own[v] = Nothing <=> th[p].pte[v] = NoEntry)
<1>1. th[p] \in Structs /\ Space(th[p]) /\ Handled(th[p])
  BY DEF Fine
<1>2. th[p].own \in Owned /\ th[p].pte \in Maps
  BY <1>1 DEF Structs
<1>3. \A v \in Pages : Tied(th[p].own, th[p].pte, v) /\ th[p].pte[v] \in Entries
  BY <1>1, <1>2 DEF Space, Maps
<1> QED BY <1>1, <1>2, <1>3, FieldFacts, NothingFacts DEF Tied

(* A page one may write is nobody else's.                                    *)
LEMMA WritableAlone ==
  ASSUME ProcessMemoryAssumption, Fine(th, refs), NEW p \in Procs, NEW v \in Pages,
         th[p].pte[v].w
  PROVE  RestOf(th, refs, p)[th[p].own[v]] = 0
<1> DEFINE b == th[p].own[v]
<1>1. b \in Blocks /\ b[2] = v
  BY ThreadFacts, NothingFacts, OwnedFacts
<1>2. refs[b] = 1 /\ Held(th[p].own, b) = 1
  BY <1>1 DEF Fine, Alone, Held
<1>3. RestOf(th, refs, p)[b] = refs[b] - Held(th[p].own, b)
  BY <1>1 DEF RestOf
<1> QED BY <1>2, <1>3

LEMMA JobFacts ==
  ASSUME ProcessMemoryAssumption, Fine(th, refs), NEW p \in Procs, NEW left \in Nat
  PROVE  LET m == Job(p, left)
         IN  /\ Counted(m, RestOf(th, refs, p)) /\ m.for = p /\ m.own = th[p].own
             /\ m.pte = th[p].pte /\ m.refs = refs /\ m.ok = TRUE /\ m.left = left
<1> DEFINE m == Job(p, left)
<1>1. refs \in [Blocks -> Nat] /\ Unmapped \in Maps /\ NoBlocks \in Owned
      /\ th[p].own \in Owned /\ th[p].pte \in Maps
  BY ThreadFacts, NothingFacts DEF Fine
<1> DEFINE n == NewJob(p, left)
<1>a. n = [for |-> p, left |-> left, ok |-> TRUE, refs |-> refs,
           own |-> NoBlocks, pte |-> Unmapped, par |-> Unmapped]
  BY DEF NewJob
<1>b. m = [n EXCEPT !.own = th[p].own, !.pte = th[p].pte]
  BY DEF Job
<1> HIDE DEF m, n
<1>c. n \in Jobs /\ n.for = p /\ n.refs = refs /\ n.ok = TRUE /\ n.left = left
  BY <1>1, <1>a DEF Jobs
<1>3. m \in Jobs /\ m.for = p /\ m.own = th[p].own /\ m.pte = th[p].pte /\ m.refs = refs
      /\ m.ok = TRUE /\ m.left = left
  BY <1>1, <1>b, <1>c DEF Jobs
<1>4. RestOf(th, refs, p) \in [Blocks -> Nat]
  BY RestFacts DEF Rests
<1>5. \A b \in Blocks : refs[b] = RestOf(th, refs, p)[b] + Held(th[p].own, b)
  BY RestSum
<1>6. Counted(m, RestOf(th, refs, p))
  BY <1>3, <1>4, <1>5 DEF Counted
<1> QED BY <1>3, <1>6 DEF m

(* Nothing is recorded for a struct that is not in use.                      *)
LEMMA NewJobFacts ==
  ASSUME ProcessMemoryAssumption, Fine(th, refs), NEW t \in Procs, th[t].status = "none",
         NEW left \in Nat
  PROVE  LET m == NewJob(t, left)
         IN  /\ Counted(m, RestOf(th, refs, t)) /\ m.for = t /\ m.pte = Unmapped
             /\ th[t].own = NoBlocks /\ \A f \in Fields : m.own[f] = Nothing /\ th[t].own[f] = Nothing
<1> DEFINE m == NewJob(t, left)
<1>1. refs \in [Blocks -> Nat] /\ Unmapped \in Maps /\ th[t].own = NoBlocks /\ NoBlocks \in Owned
  BY ThreadFacts, NothingFacts DEF Fine, Space
<1>2. m = [for |-> t, left |-> left, ok |-> TRUE, refs |-> refs,
           own |-> NoBlocks, pte |-> Unmapped, par |-> Unmapped]
  BY DEF NewJob
<1> HIDE DEF m
<1>3. m \in Jobs /\ m.for = t /\ m.own = th[t].own /\ m.pte = Unmapped /\ m.refs = refs
  BY <1>1, <1>2 DEF Jobs
<1>4. RestOf(th, refs, t) \in [Blocks -> Nat]
  BY RestFacts DEF Rests
<1>5. \A b \in Blocks : refs[b] = RestOf(th, refs, t)[b] + Held(th[t].own, b)
  BY RestSum
<1>6. Counted(m, RestOf(th, refs, t))
  BY <1>3, <1>4, <1>5 DEF Counted
<1> QED BY <1>1, <1>3, <1>6, NothingFacts DEF m

(* A call that ends with what it began with has changed no count.            *)
LEMMA AllBack ==
  ASSUME ProcessMemoryAssumption, Fine(th, refs), NEW p \in Procs, NEW m,
         Counted(m, RestOf(th, refs, p)), \A f \in Fields : m.own[f] = th[p].own[f]
  PROVE  m.refs = refs
<1>1. m.refs \in [Blocks -> Nat] /\ refs \in [Blocks -> Nat]
      /\ \A b \in Blocks : m.refs[b] = RestOf(th, refs, p)[b] + Held(m.own, b)
  BY DEF Counted, Jobs, Fine
<1>2. \A b \in Blocks : refs[b] = RestOf(th, refs, p)[b] + Held(th[p].own, b)
  BY RestSum
<1>3. \A b \in Blocks : Held(m.own, b) = Held(th[p].own, b)
  BY NothingFacts DEF Held
<1>4. \A b \in Blocks : m.refs[b] = refs[b]
  BY <1>1, <1>2, <1>3
<1> QED BY <1>1, <1>4

LEMMA HartStays ==
  ASSUME OnHart(th, cur, satp), NEW ts, UNCHANGED <<cur, satp>>, th' = ts,
         cur \in Procs => ts[cur].status = "RUNNING" /\ ts[cur].own["root"] = th[cur].own["root"]
  PROVE  OnHart(th', cur', satp')
BY DEF OnHart

-----------------------------------------------------------------------------
LEMMA CreateFacts ==
  ASSUME ProcessMemoryAssumption, Fine(th, refs), NEW t \in Procs, th[t].status = "none",
         NEW left \in Nat
  PROVE  LET m == SpaceInit(Got2(NewJob(t, left), "struct", "kernel stack"))
             rest == RestOf(th, refs, t)
         IN  /\ Turned(NewJob(t, left), m, rest, Fields) /\ Counted(m, rest) /\ m.own \in Owned
             /\ IF m.ok THEN Built(m.own) /\ m.pte = Unmapped /\ RegionFirst(m.own)
                             /\ \A v \in Pages : m.own[v] = Nothing
                ELSE \A f \in SpaceFields : m.own[f] = Nothing
<1> DEFINE rest == RestOf(th, refs, t)
           j == NewJob(t, left)
           a == Got2(j, "struct", "kernel stack")
           m == SpaceInit(a)
<1>1. rest \in Rests
  BY RestFacts
<1>2. /\ Counted(j, rest) /\ j.pte = Unmapped /\ \A f \in Fields : j.own[f] = Nothing
  BY NewJobFacts
<1>f. /\ "struct" \in Fields /\ "kernel stack" \in Fields
      /\ SpaceFields \subseteq Fields \ {"struct", "kernel stack"}
  BY FieldFacts
<1> HIDE DEF rest, j
<1>3. /\ Turned(j, a, rest, {"struct", "kernel stack"}) /\ Counted(a, rest) /\ a.pte = j.pte
      /\ a.ok => j.ok /\ a.own["struct"] # Nothing /\ a.own["kernel stack"] # Nothing
      /\ \A h \in Fields \ {"struct", "kernel stack"} : a.own[h] = j.own[h]
  <2> DEFINE f == "struct"
             g == "kernel stack"
  <2>1. j.own[f] = Nothing /\ j.own[g] = Nothing /\ f \in Fields /\ g \in Fields /\ f # g
    BY <1>2, <1>f
  <2>2. Counted(j, rest)
    BY <1>2
  <2>0. a = Got2(j, f, g)
    OBVIOUS
  <2> HIDE DEF a, f, g
  <2>3. /\ Turned(j, a, rest, {f, g}) /\ Counted(a, rest) /\ a.pte = j.pte
        /\ a.ok => j.ok /\ a.own[f] # Nothing /\ a.own[g] # Nothing
        /\ \A h \in Fields \ {f, g} : a.own[h] = j.own[h]
    BY <1>1, <2>0, <2>1, <2>2, GotTwoFacts
  <2> QED BY <2>3 DEF f, g
<1> HIDE DEF a
<1>4. \A f \in SpaceFields : a.own[f] = Nothing
  BY <1>2, <1>3, <1>f
<1>5. /\ Turned(a, m, rest, SpaceFields)
      /\ IF m.ok THEN /\ a.ok /\ m.pte = a.pte
                      /\ \A f \in {"root", "images", "stacks"} : m.own[f] # Nothing
                      /\ \A f \in SpaceFields \ {"root", "images", "stacks"} : m.own[f] = Nothing
         ELSE \A f \in SpaceFields : m.own[f] = Nothing
  BY <1>1, <1>3, <1>4, SpaceInitFacts
<1> HIDE DEF m
<1>6. Turned(j, m, rest, Fields)
  <2> DEFINE pair == {"struct", "kernel stack"}
  <2>1. pair \subseteq Fields /\ SpaceFields \subseteq Fields /\ Fields \in SUBSET Fields
    BY <1>f
  <2>2. Turned(j, a, rest, pair) /\ Turned(a, m, rest, SpaceFields)
    BY <1>3, <1>5
  <2> HIDE DEF pair
  <2> QED BY <2>1, <2>2, TurnedAlong
<1>7. Counted(m, rest) /\ m.own \in Owned
  BY <1>5 DEF Turned, Counted, Jobs
<1>8. CASE m.ok
  <2>1. m.own["struct"] # Nothing /\ m.own["kernel stack"] # Nothing
    BY <1>3, <1>5, <1>8, <1>f DEF Turned
  <2>2. Built(m.own)
    BY <1>5, <1>8, <2>1 DEF Built
  <2>3. \A v \in Pages : m.own[v] = Nothing
    BY <1>5, <1>8, FieldFacts
  <2>4. RegionFirst(m.own)
    BY <1>5, <1>8, FieldFacts DEF RegionFirst
  <2> QED BY <1>2, <1>3, <1>5, <1>6, <1>7, <1>8, <2>2, <2>3, <2>4 DEF m, a, j, rest
<1> QED BY <1>5, <1>6, <1>7, <1>8 DEF m, a, j, rest

LEMMA CreateKeeps ==
  ASSUME ProcessMemoryAssumption, MemoryInv, NEW t \in Procs, NEW left \in Nat, Create(t, left)
  PROVE  MemoryInv'
<1> DEFINE rest == RestOf(th, refs, t)
           j == NewJob(t, left)
           m == SpaceInit(Got2(j, "struct", "kernel stack"))
           s == [Blank EXCEPT !.status = "READY", !.parent = Shell, !.own = m.own]
<1>1. Fine(th, refs) /\ OnHart(th, cur, satp) /\ th[t].status = "none" /\ m.ok
      /\ th' = [th EXCEPT ![t] = s] /\ refs' = m.refs /\ UNCHANGED <<cur, satp>>
  BY DEF MemoryInv, Create
<1>2. /\ Turned(j, m, rest, Fields) /\ Counted(m, rest) /\ m.own \in Owned
      /\ Built(m.own) /\ m.pte = Unmapped /\ RegionFirst(m.own)
      /\ \A v \in Pages : m.own[v] = Nothing
  BY <1>1, CreateFacts
<1>3. \A f \in Fields : j.own[f] = Nothing /\ th[t].own[f] = Nothing
  BY <1>1, NewJobFacts
<1> HIDE DEF rest, j, m
<1>4. s \in Structs /\ s.own = m.own /\ s.pte = Unmapped /\ s.status = "READY" /\ s.active = FALSE
      /\ s.regs = "main"
  BY <1>2, NothingFacts DEF Structs, Blank
<1> HIDE DEF s
<1>5. Space(s)
  BY <1>2, <1>4, NothingFacts DEF Space, Tied
<1>6. Handled(s)
  BY <1>2, <1>4, FieldFacts DEF Handled
<1>7. \A f \in Fields : m.own[f] \in {th[t].own[f], Nothing} \/ rest[m.own[f]] = 0
  BY <1>2, <1>3 DEF Turned
<1>8. \A v \in Pages : ~s.pte[v].w
  BY <1>4, NothingFacts
<1>9. Fine(th', refs')
  BY <1>1, <1>2, <1>4, <1>5, <1>6, <1>7, <1>8, JobEnds DEF rest
<1>10. cur \in Procs => cur # t
  BY <1>1 DEF OnHart
<1>11. OnHart(th', cur', satp')
  <2>1. cur \in Procs => [th EXCEPT ![t] = s][cur] = th[cur]
    BY <1>10
  <2> QED BY <1>1, <2>1, HartStays DEF OnHart
<1> QED BY <1>9, <1>11 DEF MemoryInv

LEMMA CreateFailsKeeps ==
  ASSUME ProcessMemoryAssumption, MemoryInv, NEW t \in Procs, NEW left \in Nat,
         CreateFails(t, left)
  PROVE  MemoryInv'
<1> DEFINE rest == RestOf(th, refs, t)
           m == SpaceInit(Got2(NewJob(t, left), "struct", "kernel stack"))
           pair == {"struct", "kernel stack"}
           n == Put(m, pair)
<1>1. Fine(th, refs) /\ th[t].status = "none" /\ ~m.ok
      /\ refs' = n.refs /\ UNCHANGED <<th, cur, satp>>
  BY DEF MemoryInv, CreateFails
<1>2. Counted(m, rest) /\ \A f \in SpaceFields : m.own[f] = Nothing
  BY <1>1, CreateFacts
<1>3. \A f \in Fields : th[t].own[f] = Nothing
  BY <1>1, NewJobFacts
<1> HIDE DEF rest, m
<1>4. pair \in SUBSET Fields /\ Fields \ pair \subseteq SpaceFields
  BY FieldFacts
<1> HIDE DEF pair
<1>5. Turned(m, n, rest, pair) /\ \A f \in pair : n.own[f] = Nothing
  BY <1>2, <1>4, PutFacts
<1> HIDE DEF n
<1>6. Counted(n, rest) /\ \A f \in Fields : n.own[f] = th[t].own[f]
  BY <1>2, <1>3, <1>4, <1>5 DEF Turned
<1>7. n.refs = refs
  BY <1>1, <1>6, AllBack DEF rest
<1> QED BY <1>1, <1>7 DEF MemoryInv

-----------------------------------------------------------------------------
(* What a process keeps when its address space is replaced.                  *)
Kernels(o) == [f \in Fields |-> IF f \in SpaceFields THEN Nothing ELSE o[f]]
SpaceRest(p) == [b \in Blocks |-> refs[b] - Held(Kernels(th[p].own), b)]

LEMMA KernelsFacts ==
  ASSUME ProcessMemoryAssumption, Fine(th, refs), NEW p \in Procs
  PROVE  /\ Kernels(th[p].own) \in Owned
         /\ SpaceRest(p) \in Rests
         /\ \A b \in Blocks : refs[b] = SpaceRest(p)[b] + Held(Kernels(th[p].own), b)
<1> DEFINE o == th[p].own
           k == Kernels(o)
<1>1. o \in Owned /\ refs \in [Blocks -> Nat]
  BY ThreadFacts DEF Fine
<1>2. k \in Owned /\ \A f \in Fields : k[f] = o[f] \/ k[f] = Nothing
  BY <1>1 DEF Kernels, Owned, Targets
<1>3. ASSUME NEW b \in Blocks
      PROVE  /\ Held(k, b) \in {0, 1} /\ refs[b] \in Nat
             /\ refs[b] - Held(k, b) \in Nat /\ refs[b] - Held(k, b) <= refs[b]
  <2>1. refs[b] = RestOf(th, refs, p)[b] + Held(o, b)
    BY RestSum
  <2>2. RestOf(th, refs, p)[b] \in Nat /\ refs[b] \in Nat
    BY RestFacts, <1>1 DEF Rests
  <2>3. Held(k, b) \in {0, 1} /\ Held(o, b) \in {0, 1} /\ (Held(k, b) = 1 => Held(o, b) = 1)
    BY <1>2, NothingFacts DEF Held
  <2> HIDE DEF k, o
  <2> QED BY <2>1, <2>2, <2>3
<1>4. SpaceRest(p) \in [Blocks -> Nat] /\ \A b \in Blocks : SpaceRest(p)[b] = refs[b] - Held(k, b)
  BY <1>3 DEF SpaceRest
<1> HIDE DEF k
<1>5. \A b \in Blocks : SpaceRest(p)[b] <= refs[b]
  BY <1>3, <1>4
<1>6. SpaceRest(p) \in Rests
  BY <1>4, <1>5, FewerAreRests
<1>7. \A b \in Blocks : refs[b] = SpaceRest(p)[b] + Held(k, b)
  BY <1>3, <1>4
<1> QED BY <1>2, <1>6, <1>7 DEF k

LEMMA SpaceOfFacts ==
  ASSUME ProcessMemoryAssumption, Fine(th, refs), NEW p \in Procs, th[p].status # "none",
         NEW left \in Nat
  PROVE  LET m == SpaceOf(p, left)
         IN  /\ Counted(m, SpaceRest(p)) /\ m.own \in Owned
             /\ \A f \in Fields \ SpaceFields : m.own[f] = th[p].own[f]
             /\ IF m.ok THEN Built(m.own) /\ m.pte = Unmapped /\ RegionFirst(m.own)
                             /\ \A v \in Pages : m.own[v] = Nothing
                ELSE \A f \in Fields : m.own[f] = Kernels(th[p].own)[f]
<1> DEFINE k == Kernels(th[p].own)
           j == Job(p, left)
           i == [j EXCEPT !.pte = Unmapped, !.own = k]
           m == SpaceInit(i)
           rest == SpaceRest(p)
<1>1. j \in Jobs /\ j.refs = refs /\ j.own = th[p].own
  BY JobFacts DEF Counted
<1>2. k \in Owned /\ rest \in Rests /\ rest \in [Blocks -> Nat]
      /\ \A b \in Blocks : refs[b] = rest[b] + Held(k, b)
  BY KernelsFacts DEF Rests
<1>3. SpaceOf(p, left) = m
  BY <1>1 DEF SpaceOf, Kernels
<1>4. \A f \in Fields : k[f] = IF f \in SpaceFields THEN Nothing ELSE th[p].own[f]
  BY DEF Kernels
<1> HIDE DEF k, j, rest
<1>5. i \in Jobs /\ i.own = k /\ i.pte = Unmapped /\ i.refs = refs
  BY <1>1, <1>2, NothingFacts DEF Jobs
<1> HIDE DEF i
<1>6. Counted(i, rest) /\ \A f \in SpaceFields : i.own[f] = Nothing
  BY <1>2, <1>4, <1>5, FieldFacts DEF Counted
<1>7. /\ Turned(i, m, rest, SpaceFields)
      /\ IF m.ok THEN /\ i.ok /\ m.pte = i.pte
                      /\ \A f \in {"root", "images", "stacks"} : m.own[f] # Nothing
                      /\ \A f \in SpaceFields \ {"root", "images", "stacks"} : m.own[f] = Nothing
         ELSE \A f \in SpaceFields : m.own[f] = Nothing
  BY <1>2, <1>6, SpaceInitFacts
<1> HIDE DEF m
<1>8. Counted(m, rest) /\ m.own \in Owned
  BY <1>7 DEF Turned, Counted, Jobs
<1>a. \A f \in Fields \ SpaceFields : m.own[f] = th[p].own[f]
  BY <1>4, <1>5, <1>7 DEF Turned
<1>9. CASE m.ok
  <2>1. Built(th[p].own)
    BY ThreadFacts DEF Space
  <2>2. m.own["struct"] # Nothing /\ m.own["kernel stack"] # Nothing
    <3>1. \A f \in {"struct", "kernel stack"} : f \in Fields \ SpaceFields
      BY FieldFacts
    <3>2. \A f \in {"struct", "kernel stack"} : m.own[f] = th[p].own[f]
      BY <1>a, <3>1
    <3> QED BY <2>1, <3>2 DEF Built
  <2>3. Built(m.own)
    BY <1>7, <1>9, <2>2 DEF Built
  <2>4. \A v \in Pages : m.own[v] = Nothing
    BY <1>7, <1>9, FieldFacts
  <2>5. RegionFirst(m.own)
    BY <1>7, <1>9, FieldFacts DEF RegionFirst
  <2> QED BY <1>3, <1>5, <1>7, <1>8, <1>9, <1>a, <2>3, <2>4, <2>5 DEF rest
<1>10. CASE ~m.ok
  <2>1. \A f \in Fields : m.own[f] = k[f]
    BY <1>4, <1>5, <1>7, <1>10 DEF Turned
  <2> QED BY <1>3, <1>8, <1>10, <1>a, <2>1 DEF rest, k
<1> QED BY <1>9, <1>10

LEMMA ExecFailsKeeps ==
  ASSUME ProcessMemoryAssumption, MemoryInv, NEW p \in Procs, NEW left \in Nat,
         ExecFails(p, left)
  PROVE  MemoryInv'
<1> DEFINE m == SpaceOf(p, left)
           s == [th[p] EXCEPT !.at = "ret"]
<1>1. Fine(th, refs) /\ OnHart(th, cur, satp) /\ cur = p /\ ~m.ok /\ refs' = m.refs
      /\ UNCHANGED <<cur, satp>> /\ th' = [th EXCEPT ![p] = s] /\ th \in [Procs -> Structs]
  BY DEF MemoryInv, ExecFails, InUser, Returns, Fine
<1>2. th[p].status = "RUNNING" /\ th[p] \in Structs
  BY <1>1 DEF OnHart
<1>3. /\ Counted(m, SpaceRest(p))
      /\ \A f \in Fields : m.own[f] = Kernels(th[p].own)[f]
  BY <1>1, <1>2, SpaceOfFacts
<1>4. \A b \in Blocks : refs[b] = SpaceRest(p)[b] + Held(Kernels(th[p].own), b)
  BY <1>1, KernelsFacts
<1> HIDE DEF m
<1>5. \A b \in Blocks : m.refs[b] = refs[b]
  <2> SUFFICES ASSUME NEW b \in Blocks PROVE m.refs[b] = refs[b]
    OBVIOUS
  <2>1. Held(m.own, b) = Held(Kernels(th[p].own), b)
    BY <1>3, NothingFacts DEF Held
  <2> QED BY <1>3, <1>4, <2>1 DEF Counted
<1>6. refs' = refs
  BY <1>1, <1>3, <1>5 DEF Counted, Jobs, Fine
<1>7. s \in Structs /\ Akin(th[p], s) /\ s.status = "RUNNING" /\ s.own = th[p].own
  BY <1>2 DEF Structs, Akin
<1> HIDE DEF s
<1>8. Fine(th', refs)
  <2>1. th' \in [Procs -> Structs] /\ th'[p] = s
    BY <1>1, <1>7
  <2>2. \A t \in Procs : Akin(th[t], th'[t])
    BY <1>1, <1>7 DEF Akin
  <2> QED BY <1>1, <2>1, <2>2, AkinFine
<1>9. OnHart(th', cur', satp')
  <2>1. th'[p] = s
    BY <1>1
  <2> QED BY <1>1, <1>7, <2>1 DEF OnHart
<1> QED BY <1>6, <1>8, <1>9 DEF MemoryInv

LEMMA ExecKeeps ==
  ASSUME ProcessMemoryAssumption, MemoryInv, NEW p \in Procs, NEW left \in Nat, Exec(p, left)
  PROVE  MemoryInv'
<1> DEFINE m == SpaceOf(p, left)
           o == th[p].own
           i == [m EXCEPT !.own = o]
           d == Destroyed(i)
           s == [ClearSignalRuntime(th[p]) EXCEPT
                   !.own = m.own, !.pte = Unmapped, !.rw = FALSE, !.at = "ret"]
           rest == RestOf(th, refs, p)
           old == [b \in Blocks |-> m.refs[b] - Held(o, b)]
<1>1. Fine(th, refs) /\ OnHart(th, cur, satp) /\ cur = p /\ m.ok /\ refs' = d.refs
      /\ cur' = cur /\ satp' = m.own["root"] /\ th' = [th EXCEPT ![p] = s]
      /\ th \in [Procs -> Structs] /\ th[p] \in Structs
  BY DEF MemoryInv, Exec, InUser, Fine
<1>2. th[p].status = "RUNNING" /\ o \in Owned
  BY <1>1 DEF OnHart, Structs
<1>3. /\ Counted(m, SpaceRest(p)) /\ m \in Jobs /\ m.own \in Owned /\ m.refs \in [Blocks -> Nat]
      /\ Built(m.own) /\ m.pte = Unmapped /\ RegionFirst(m.own)
      /\ \A v \in Pages : m.own[v] = Nothing
      /\ \A f \in Fields \ SpaceFields : m.own[f] = o[f]
  BY <1>1, <1>2, SpaceOfFacts DEF Counted, Jobs
<1> HIDE DEF m
<1>4. ASSUME NEW b \in Blocks
      PROVE  /\ m.refs[b] = SpaceRest(p)[b] + Held(m.own, b)
             /\ refs[b] = SpaceRest(p)[b] + Held(Kernels(o), b)
             /\ refs[b] = rest[b] + Held(o, b)
             /\ rest[b] \in Nat /\ m.refs[b] \in Nat /\ SpaceRest(p)[b] \in Nat
             /\ Held(m.own, b) \in {0, 1} /\ Held(o, b) \in {0, 1}
             /\ Held(Kernels(o), b) = IF b[2] \in SpaceFields THEN 0 ELSE Held(o, b)
  <2>1. m.refs[b] = SpaceRest(p)[b] + Held(m.own, b) /\ SpaceRest(p)[b] \in Nat /\ m.refs[b] \in Nat
    BY <1>3 DEF Counted
  <2>2. refs[b] = SpaceRest(p)[b] + Held(Kernels(o), b)
    BY <1>1, KernelsFacts
  <2>3. refs[b] = rest[b] + Held(o, b)
    BY <1>1, RestSum
  <2>4. rest[b] \in Nat
    BY <1>1, RestFacts DEF Rests
  <2>5. Held(m.own, b) \in {0, 1} /\ Held(o, b) \in {0, 1}
        /\ Held(Kernels(o), b) = IF b[2] \in SpaceFields THEN 0 ELSE Held(o, b)
    BY NothingFacts DEF Held, Kernels
  <2> QED BY <2>1, <2>2, <2>3, <2>4, <2>5
<1>5. ASSUME NEW b \in Blocks
      PROVE  /\ old[b] = rest[b] + IF b[2] \in SpaceFields THEN Held(m.own, b) ELSE 0
             /\ old[b] \in Nat
  <2>1. b[2] \notin SpaceFields => Held(m.own, b) = Held(o, b)
    <3>2. \A f \in Fields \ SpaceFields : m.own[f] = o[f]
      BY <1>3
    <3> QED BY <3>2, NothingFacts DEF Held
  <2> HIDE DEF o, rest
  <2>2. m.refs[b] - Held(o, b) = rest[b] + IF b[2] \in SpaceFields THEN Held(m.own, b) ELSE 0
    BY <1>4, <2>1
  <2> QED BY <1>4, <2>2
<1> HIDE DEF rest, o
<1>6. i \in Jobs /\ i.own = o /\ i.refs = m.refs
  BY <1>2, <1>3 DEF Jobs
<1> HIDE DEF i
<1>7. Counted(i, old)
  <2>1. old \in [Blocks -> Nat]
    BY <1>5
  <2>2. \A b \in Blocks : m.refs[b] = old[b] + Held(o, b)
    BY <1>4, <1>5
  <2> QED BY <1>6, <2>1, <2>2 DEF Counted
<1> HIDE DEF old
<1>8. /\ Turned(i, d, old, SpaceFields)
      /\ \A f \in SpaceFields : d.own[f] = Nothing
  BY <1>7, DestroyedFacts
<1> HIDE DEF d
<1>9. d.refs \in [Blocks -> Nat] /\ \A b \in Blocks : d.refs[b] = old[b] + Held(d.own, b)
  BY <1>8 DEF Turned, Counted, Jobs
<1>10. \A f \in Fields \ SpaceFields : d.own[f] = o[f] /\ m.own[f] = o[f]
  <2>1. \A f \in Fields \ SpaceFields : d.own[f] = o[f]
    BY <1>6, <1>8 DEF Turned
  <2>2. \A f \in Fields \ SpaceFields : m.own[f] = o[f]
    BY <1>3 DEF o
  <2> QED BY <2>1, <2>2
<1>11. ASSUME NEW b \in Blocks PROVE d.refs[b] = rest[b] + Held(m.own, b)
  <2>1. d.refs[b] = old[b] + Held(d.own, b)
        /\ old[b] = rest[b] + (IF b[2] \in SpaceFields THEN Held(m.own, b) ELSE 0)
        /\ rest[b] \in Nat /\ Held(m.own, b) \in {0, 1}
    BY <1>4, <1>5, <1>9
  <2>2. CASE b[2] \in SpaceFields
    <3>1. Held(d.own, b) = 0
      BY <1>8, <2>2, NothingFacts DEF Held
    <3> QED BY <2>1, <2>2, <3>1
  <2>3. CASE b[2] \notin SpaceFields
    <3>1. Held(d.own, b) = Held(m.own, b)
      BY <1>10, <2>3, NothingFacts DEF Held
    <3> QED BY <2>1, <2>3, <3>1
  <2> QED BY <2>2, <2>3
<1>12. s \in Structs /\ s.own = m.own /\ s.pte = Unmapped /\ s.status = "RUNNING"
       /\ s.active = FALSE /\ s.regs = "main"
  BY <1>1, <1>2, <1>3, NothingFacts DEF Structs, ClearSignalRuntime
<1> HIDE DEF s
<1>13. Space(s)
  BY <1>3, <1>12, NothingFacts DEF Space, Tied
<1>14. Handled(s)
  BY <1>3, <1>12, FieldFacts DEF Handled
<1>15. \A v \in Pages : ~s.pte[v].w
  BY <1>12, NothingFacts
<1>16. \A q \in Procs \ {p}, v \in Pages : th[q].pte[v].w => s.own[v] # th[q].own[v]
  <2> SUFFICES ASSUME NEW q \in Procs \ {p}, NEW v \in Pages, th[q].pte[v].w
               PROVE  th[q].own[v] # Nothing
    BY <1>3, <1>12
  <2> QED BY <1>1, ThreadFacts, NothingFacts
<1>17. Fine(th', refs')
  <2>1. \A b \in Blocks : d.refs[b] = RestOf(th, refs, p)[b] + Held(s.own, b)
    BY <1>11, <1>12 DEF rest
  <2>2. \A v \in Pages : s.pte[v].w => RestOf(th, refs, p)[s.own[v]] = 0
    BY <1>15
  <2>3. Fine([th EXCEPT ![p] = s], d.refs)
    <3>1. Fine(th, refs) /\ s \in Structs /\ Space(s) /\ Handled(s) /\ d.refs \in [Blocks -> Nat]
      BY <1>1, <1>9, <1>12, <1>13, <1>14
    <3> QED BY <1>16, <2>1, <2>2, <3>1, OneChanges
  <2> QED BY <1>1, <2>3
<1>18. OnHart(th', cur', satp')
  <2>1. th'[p] = s
    BY <1>1
  <2> QED BY <1>1, <1>12, <2>1 DEF OnHart
<1> QED BY <1>17, <1>18 DEF MemoryInv

-----------------------------------------------------------------------------
(* Steps that move no memory: the threads are ts afterwards, or when the     *)
(* next one is chosen.                                                       *)
LEMMA ControlStep ==
  ASSUME MemoryInv, NEW ts \in [Procs -> Structs], \A t \in Procs : Akin(th[t], ts[t]),
         th' = ts, UNCHANGED <<refs, cur, satp>>,
         cur \in Procs => ts[cur].status = "RUNNING"
  PROVE  MemoryInv'
<1>1. Fine(ts, refs)
  BY AkinFine DEF MemoryInv
<1>2. cur \in Procs => ts[cur].own = th[cur].own
  BY DEF Akin
<1>3. OnHart(th', cur', satp')
  BY <1>2 DEF MemoryInv, OnHart
<1> QED BY <1>1, <1>3 DEF MemoryInv

LEMMA ControlSchedule ==
  ASSUME ProcessMemoryAssumption, MemoryInv, NEW ts \in [Procs -> Structs],
         \A t \in Procs : Akin(th[t], ts[t]), Schedule(ts), UNCHANGED refs
  PROVE  MemoryInv'
<1>1. Fine(ts, refs)
  BY AkinFine DEF MemoryInv
<1>2. cur \in Threads /\ satp = (IF cur \in Procs THEN ts[cur].own["root"] ELSE Nothing)
  BY DEF MemoryInv, OnHart, Akin
<1>3. Fine(th', refs) /\ OnHart(th', cur', satp')
  BY <1>1, <1>2, ScheduleKeeps
<1> QED BY <1>3 DEF MemoryInv

LEMMA EndedFacts ==
  ASSUME Fine(th, refs), NEW t \in Procs, th[t].status # "none"
  PROVE  /\ Ended(t) \in [Procs -> Structs]
         /\ \A u \in Procs : Akin(th[u], Ended(t)[u])
         /\ \A u \in Procs \ {t} : th[u].status = "RUNNING" => Ended(t)[u].status = "RUNNING"
         /\ Ended(t)[t] = Dead(th[t])
<1>1. \A u \in Procs : th[u] \in Structs
  BY DEF Fine
<1>2. ASSUME NEW u \in Procs
      PROVE  /\ Ended(t)[u] \in Structs /\ Akin(th[u], Ended(t)[u])
             /\ u # t /\ th[u].status = "RUNNING" => Ended(t)[u].status = "RUNNING"
  <2>1. CASE u = t
    <3>1. Ended(t)[u] = Dead(th[t])
      BY <2>1 DEF Ended
    <3>2. Dead(th[t]) \in Structs /\ Akin(th[t], Dead(th[t]))
      BY <1>1 DEF Dead, Blank, Structs, Akin
    <3> QED BY <2>1, <3>1, <3>2
  <2>2. CASE u # t
    <3>1. \/ Ended(t)[u] = th[u]
          \/ /\ th[u].status = "WAITING"
             /\ Ended(t)[u] = [th[u] EXCEPT !.status = "READY", !.waits = NoThread]
      BY <2>2 DEF Ended
    <3>2. [th[u] EXCEPT !.status = "READY", !.waits = NoThread] \in Structs
      BY <1>1 DEF Structs
    <3>3. th[u].status = "WAITING" =>
            Akin(th[u], [th[u] EXCEPT !.status = "READY", !.waits = NoThread])
      BY <1>1 DEF Structs, Akin
    <3>4. Akin(th[u], th[u])
      BY DEF Akin
    <3> QED BY <1>1, <2>2, <3>1, <3>2, <3>3, <3>4
  <2> QED BY <2>1, <2>2
<1>3. Ended(t) \in [Procs -> Structs] /\ Ended(t)[t] = Dead(th[t])
  BY <1>2 DEF Ended
<1> QED BY <1>2, <1>3

LEMMA ThreadExitKeeps ==
  ASSUME ProcessMemoryAssumption, MemoryInv, NEW t \in Procs, th[t].status # "none", ThreadExit(t)
  PROVE  MemoryInv'
BY EndedFacts, ControlSchedule DEF MemoryInv, ThreadExit

LEMMA InUserFacts ==
  ASSUME MemoryInv, NEW p \in Procs, cur = p
  PROVE  th \in [Procs -> Structs] /\ th[p] \in Structs /\ th[p].status = "RUNNING"
BY DEF MemoryInv, Fine, OnHart

LEMMA TerminateKeeps ==
  ASSUME ProcessMemoryAssumption, MemoryInv, NEW p \in Procs, NEW t \in Procs, InUser(p),
         th[t].status # "none", Terminate(p, t)
  PROVE  MemoryInv'
<1>1. cur = p /\ th \in [Procs -> Structs] /\ th[p].status = "RUNNING"
  BY InUserFacts DEF InUser
<1>2. CASE t = p
  BY <1>2, ThreadExitKeeps DEF Terminate
<1>3. CASE t # p
  <2> DEFINE ts == [Ended(t) EXCEPT ![p].at = "ret"]
  <2>1. /\ Ended(t) \in [Procs -> Structs] /\ \A u \in Procs : Akin(th[u], Ended(t)[u])
        /\ Ended(t)[p].status = "RUNNING"
    BY <1>1, <1>3, EndedFacts DEF MemoryInv
  <2>2. ts \in [Procs -> Structs] /\ ts[p].status = "RUNNING"
    BY <2>1 DEF Structs
  <2>3. ASSUME NEW u \in Procs PROVE Akin(th[u], ts[u])
    BY <2>1 DEF Structs, Akin
  <2>4. th' = ts /\ UNCHANGED <<refs, cur, satp>>
    BY <1>3 DEF Terminate
  <2> HIDE DEF ts
  <2> QED BY <1>1, <2>2, <2>3, <2>4, ControlStep
<1> QED BY <1>2, <1>3

LEMMA StopKeeps ==
  ASSUME ProcessMemoryAssumption, MemoryInv, NEW p \in Procs, NEW t \in Procs, Stop(p, t)
  PROVE  MemoryInv'
BY TerminateKeeps DEF Stop

LEMMA ExitKeeps ==
  ASSUME ProcessMemoryAssumption, MemoryInv, NEW p \in Procs, Exit(p)
  PROVE  MemoryInv'
<1>1. th[p].status # "none" /\ ThreadExit(p)
  BY InUserFacts DEF Exit, InUser
<1> QED BY <1>1, ThreadExitKeeps

(* A call that changes only the caller's own control fields.                 *)
LEMMA OneControl ==
  ASSUME MemoryInv, NEW p \in Procs, cur = p, NEW s \in Structs, Akin(th[p], s),
         s.status = "RUNNING", th' = [th EXCEPT ![p] = s], UNCHANGED <<refs, cur, satp>>
  PROVE  MemoryInv'
<1> DEFINE ts == [th EXCEPT ![p] = s]
<1>1. ts \in [Procs -> Structs] /\ ts[p] = s /\ \A t \in Procs \ {p} : ts[t] = th[t]
  BY InUserFacts
<1>2. th' = ts
  OBVIOUS
<1> HIDE DEF ts
<1>3. \A t \in Procs : Akin(th[t], ts[t])
  BY <1>1 DEF Akin
<1> QED BY <1>1, <1>2, <1>3, ControlStep

LEMMA SignalKeeps ==
  ASSUME MemoryInv, NEW p \in Procs, NEW s \in Sigs, Signal(p, s)
  PROVE  MemoryInv'
<1>1. PICK set \in {th[p].handlers \cup {s}, th[p].handlers \ {s}} :
        Returns(p, [th[p] EXCEPT !.handlers = set])
  BY DEF Signal
<1> DEFINE r == [[th[p] EXCEPT !.handlers = set] EXCEPT !.at = "ret"]
<1>2. th[p] \in Structs /\ th[p].status = "RUNNING" /\ cur = p /\ set \in SUBSET Sigs
  BY InUserFacts DEF Signal, InUser, Structs
<1>3. r \in Structs /\ Akin(th[p], r) /\ r.status = "RUNNING"
  BY <1>2 DEF Structs, Akin
<1>4. th' = [th EXCEPT ![p] = r] /\ UNCHANGED <<refs, cur, satp>>
  BY <1>1 DEF Signal, Returns
<1> HIDE DEF r
<1> QED BY <1>2, <1>3, <1>4, OneControl

LEMMA KillKeeps ==
  ASSUME ProcessMemoryAssumption, MemoryInv, NEW p \in Procs, NEW t \in Procs, NEW s \in Sigs,
         Kill(p, t, s)
  PROVE  MemoryInv'
<1>1. cur = p /\ th \in [Procs -> Structs] /\ th[p].status = "RUNNING" /\ InUser(p)
      /\ th[t].status \notin {"none", "TERMINATED"} /\ th[t] \in Structs
  BY InUserFacts DEF Kill, InUser, Alive
<1>2. CASE s \notin th[t].handlers
  BY <1>1, <1>2, TerminateKeeps DEF Kill
<1>3. CASE s \in th[t].handlers
  <2> DEFINE r == MadeRunnable(th[t])
             k == [r EXCEPT !.pending = @ \cup {s}]
             ts == [[th EXCEPT ![t] = k] EXCEPT ![p].at = "ret"]
  <2>1. r \in Structs /\ Akin(th[t], r) /\ (th[t].status = "RUNNING" => r.status = "RUNNING")
    <3>1. CASE th[t].status \in {"SLEEPING", "WAITING"}
      <4>1. r = [th[t] EXCEPT !.status = "READY", !.waits = NoThread]
        BY <3>1 DEF MadeRunnable
      <4> HIDE DEF r
      <4>2. r \in Structs /\ r.own = th[t].own /\ r.pte = th[t].pte /\ r.status = "READY"
            /\ r.active = th[t].active /\ r.regs = th[t].regs /\ r.saved = th[t].saved
        BY <1>1, <4>1 DEF Structs
      <4> QED BY <1>1, <3>1, <4>2 DEF Akin
    <3>2. CASE th[t].status \notin {"SLEEPING", "WAITING"}
      <4>1. r = th[t]
        BY <3>2 DEF MadeRunnable
      <4> QED BY <1>1, <4>1 DEF Akin
    <3> QED BY <3>1, <3>2
  <2> HIDE DEF r
  <2>2. k \in Structs /\ Akin(r, k) /\ k.status = r.status
    BY <2>1 DEF Structs, Akin
  <2> HIDE DEF k
  <2>3. Akin(th[t], k) /\ (t = p => k.status = "RUNNING")
    BY <1>1, <2>1, <2>2 DEF Akin
  <2>4. [th EXCEPT ![t] = k] \in [Procs -> Structs]
    BY <1>1, <2>2
  <2>5. ts \in [Procs -> Structs] /\ ts[p].status = "RUNNING"
    BY <1>1, <2>2, <2>3, <2>4 DEF Structs
  <2>6. ASSUME NEW u \in Procs PROVE Akin(th[u], ts[u])
    BY <1>1, <2>2, <2>3 DEF Structs, Akin
  <2>7. th' = ts /\ UNCHANGED <<refs, cur, satp>>
    <3>1. ts = [[th EXCEPT ![t] = [MadeRunnable(th[t]) EXCEPT !.pending = @ \cup {s}]]
                  EXCEPT ![p].at = "ret"]
      BY DEF k, r
    <3> HIDE DEF ts
    <3> QED BY <1>1, <1>3, <3>1 DEF Kill
  <2> HIDE DEF ts
  <2> QED BY <1>1, <2>5, <2>6, <2>7, ControlStep
<1> QED BY <1>2, <1>3

LEMMA CollectedFacts ==
  ASSUME NEW ts \in [Procs -> Structs], NEW t \in Procs \cup {NoThread}
  PROVE  /\ Collected(ts, t) \in [Procs -> Structs]
         /\ \A u \in Procs : /\ Akin(ts[u], Collected(ts, t)[u])
                             /\ Collected(ts, t)[u].status = ts[u].status
<1>1. CASE t # NoThread /\ ts[t].status = "TERMINATED"
  <2> DEFINE c == [ts EXCEPT ![t].parent = NoThread]
  <2>1. Collected(ts, t) = c /\ t \in Procs
    BY <1>1 DEF Collected
  <2>2. c \in [Procs -> Structs]
    BY <2>1 DEF Structs
  <2>3. ASSUME NEW u \in Procs PROVE Akin(ts[u], c[u]) /\ c[u].status = ts[u].status
    BY <1>1, <2>1 DEF Structs, Akin
  <2> QED BY <2>1, <2>2, <2>3
<1>2. CASE ~(t # NoThread /\ ts[t].status = "TERMINATED")
  <2>1. Collected(ts, t) = ts
    BY <1>2 DEF Collected
  <2> QED BY <2>1 DEF Akin
<1> QED BY <1>1, <1>2

LEMMA WaitpidKeeps ==
  ASSUME ProcessMemoryAssumption, MemoryInv, NEW p \in Procs, NEW t \in Procs, Waitpid(p, t)
  PROVE  MemoryInv'
<1>1. cur = p /\ th \in [Procs -> Structs] /\ th[p].status = "RUNNING" /\ th[p] \in Structs
      /\ UNCHANGED refs
  BY InUserFacts DEF Waitpid, InUser
<1>2. CASE Alive(t)
  <2> DEFINE s == [th[p] EXCEPT !.status = "WAITING", !.waits = t, !.asked = t, !.at = "waitpid"]
             ts == [th EXCEPT ![p] = s]
  <2>1. s \in Structs /\ Akin(th[p], s)
    BY <1>1 DEF Structs, Akin
  <2>2. [th EXCEPT ![p].status = "WAITING", ![p].waits = t, ![p].asked = t,
                   ![p].at = "waitpid"] = ts
    BY <1>1
  <2>3. Schedule(ts)
    BY <1>2, <2>2 DEF Waitpid
  <2> HIDE DEF s
  <2>4. ts \in [Procs -> Structs] /\ \A u \in Procs : Akin(th[u], ts[u])
    BY <1>1, <2>1 DEF Akin
  <2> HIDE DEF ts
  <2> QED BY <1>1, <2>3, <2>4, ControlSchedule
<1>3. CASE ~Alive(t)
  <2> DEFINE c == Collected(th, t)
             ts == [c EXCEPT ![p].at = "ret"]
  <2>1. c \in [Procs -> Structs] /\ \A u \in Procs : Akin(th[u], c[u]) /\ c[u].status = th[u].status
    BY <1>1, CollectedFacts
  <2>2. th' = ts /\ UNCHANGED <<refs, cur, satp>>
    BY <1>3 DEF Waitpid
  <2> HIDE DEF c
  <2>3. ts \in [Procs -> Structs] /\ ts[p].status = "RUNNING"
    BY <1>1, <2>1 DEF Structs
  <2>4. ASSUME NEW u \in Procs PROVE Akin(th[u], ts[u])
    BY <2>1 DEF Structs, Akin
  <2> HIDE DEF ts
  <2> QED BY <1>1, <2>2, <2>3, <2>4, ControlStep
<1> QED BY <1>2, <1>3

LEMMA WaitpidReturnsKeeps ==
  ASSUME MemoryInv, NEW p \in Procs, WaitpidReturns(p)
  PROVE  MemoryInv'
<1>1. cur = p /\ th \in [Procs -> Structs] /\ th[p].status = "RUNNING" /\ th[p] \in Structs
      /\ th[p].asked \in Procs \cup {NoThread}
  BY InUserFacts DEF WaitpidReturns, Structs
<1> DEFINE c == Collected(th, th[p].asked)
           ts == [c EXCEPT ![p].at = "ret", ![p].asked = NoThread]
<1>2. c \in [Procs -> Structs] /\ \A u \in Procs : Akin(th[u], c[u]) /\ c[u].status = th[u].status
  BY <1>1, CollectedFacts
<1>3. th' = ts /\ UNCHANGED <<refs, cur, satp>>
  BY DEF WaitpidReturns
<1> HIDE DEF c
<1> DEFINE s == [c[p] EXCEPT !.at = "ret", !.asked = NoThread]
<1>4. s \in Structs /\ Akin(c[p], s) /\ s.status = c[p].status
  <2>1. c[p] \in Structs
    BY <1>2
  <2> QED BY <2>1 DEF Structs, Akin
<1>5. ts = [c EXCEPT ![p] = s]
  BY <1>2
<1> HIDE DEF s, ts
<1>6. ts \in [Procs -> Structs] /\ ts[p].status = "RUNNING"
  BY <1>1, <1>2, <1>4, <1>5
<1>7. ASSUME NEW u \in Procs PROVE Akin(th[u], ts[u])
  BY <1>2, <1>4, <1>5 DEF Akin
<1> QED BY <1>1, <1>3, <1>6, <1>7, ControlStep

LEMMA UsleepKeeps ==
  ASSUME ProcessMemoryAssumption, MemoryInv, NEW p \in Procs, Usleep(p)
  PROVE  MemoryInv'
<1>1. cur = p /\ th \in [Procs -> Structs] /\ th[p].status = "RUNNING" /\ th[p] \in Structs
      /\ UNCHANGED refs
  BY InUserFacts DEF Usleep, InUser
<1>2. CASE th[p].pending = {}
  <2> DEFINE s == [th[p] EXCEPT !.status = "SLEEPING", !.at = "ret"]
             ts == [th EXCEPT ![p] = s]
  <2>1. s \in Structs /\ Akin(th[p], s)
    BY <1>1 DEF Structs, Akin
  <2>2. [th EXCEPT ![p].status = "SLEEPING", ![p].at = "ret"] = ts
    BY <1>1
  <2>3. Schedule(ts)
    BY <1>2, <2>2 DEF Usleep
  <2> HIDE DEF s
  <2>4. ts \in [Procs -> Structs] /\ \A u \in Procs : Akin(th[u], ts[u])
    BY <1>1, <2>1 DEF Akin
  <2> HIDE DEF ts
  <2> QED BY <1>1, <2>3, <2>4, ControlSchedule
<1>3. CASE th[p].pending # {}
  <2> DEFINE s == [th[p] EXCEPT !.at = "ret"]
  <2>1. s \in Structs /\ Akin(th[p], s) /\ s.status = "RUNNING"
    BY <1>1 DEF Structs, Akin
  <2>2. th' = [th EXCEPT ![p] = s] /\ UNCHANGED <<refs, cur, satp>>
    BY <1>3 DEF Usleep, Returns
  <2> HIDE DEF s
  <2> QED BY <1>1, <2>1, <2>2, OneControl
<1> QED BY <1>2, <1>3

LEMMA InterruptKeeps ==
  ASSUME ProcessMemoryAssumption, MemoryInv, NEW due \in SUBSET Procs, Interrupt(due)
  PROVE  MemoryInv'
<1> DEFINE ts == WakeSleepers(due)
<1>1. \A t \in Procs : th[t] \in Structs /\ (t \in due => th[t].status = "SLEEPING")
  BY DEF MemoryInv, Fine, Interrupt
<1>2. ASSUME NEW t \in Procs PROVE ts[t] \in Structs /\ Akin(th[t], ts[t])
  BY <1>1 DEF WakeSleepers, Structs, Akin
<1>3. ts \in [Procs -> Structs]
  BY <1>2 DEF WakeSleepers
<1>4. Schedule(ts) /\ UNCHANGED refs
  BY DEF Interrupt
<1> HIDE DEF ts
<1> QED BY <1>2, <1>3, <1>4, ControlSchedule

-----------------------------------------------------------------------------
(* A call that has left p with good memory.                                  *)
Lasting == {"struct", "kernel stack", "root", "images", "stacks"}
GoodFor(p, m) ==
  LET rest == RestOf(th, refs, p)
  IN  /\ Counted(m, rest)
      /\ \A f \in Fields : m.own[f] \in {th[p].own[f], Nothing} \/ rest[m.own[f]] = 0
      /\ \A f \in Lasting : m.own[f] = th[p].own[f]
      /\ \A v \in Pages : Tied(m.own, m.pte, v) /\ (m.pte[v].w => rest[m.own[v]] = 0)
      /\ RegionFirst(m.own)

LEMMA GoodJob ==
  ASSUME ProcessMemoryAssumption, Fine(th, refs), NEW p \in Procs, NEW left \in Nat,
         NEW m, NEW fs \in SUBSET (Fields \ Lasting), NEW vs \in SUBSET Pages,
         Turned(Job(p, left), m, RestOf(th, refs, p), fs),
         \A v \in Pages \ vs : m.own[v] = th[p].own[v] /\ m.pte[v] = th[p].pte[v],
         \A v \in vs : Tied(m.own, m.pte, v)
                       /\ (m.pte[v].w => RestOf(th, refs, p)[m.own[v]] = 0),
         RegionFirst(m.own)
  PROVE  GoodFor(p, m)
<1> DEFINE rest == RestOf(th, refs, p)
<1>1. Job(p, left).own = th[p].own
  BY JobFacts
<1>2. Counted(m, rest) /\ Lasting \subseteq Fields
  BY FieldFacts DEF Turned, Lasting
<1>3. \A f \in Fields : m.own[f] \in {th[p].own[f], Nothing} \/ rest[m.own[f]] = 0
  BY <1>1 DEF Turned
<1>4. \A f \in Lasting : m.own[f] = th[p].own[f]
  BY <1>1, <1>2 DEF Turned
<1>5. ASSUME NEW v \in Pages
      PROVE  Tied(m.own, m.pte, v) /\ (m.pte[v].w => rest[m.own[v]] = 0)
  <2>1. CASE v \in vs
    BY <2>1
  <2>2. CASE v \notin vs
    <3>1. m.own[v] = th[p].own[v] /\ m.pte[v] = th[p].pte[v]
      BY <2>2
    <3>2. Tied(m.own, m.pte, v)
      BY <3>1, ThreadFacts DEF Tied
    <3>3. th[p].pte[v].w => rest[th[p].own[v]] = 0
      BY WritableAlone
    <3> QED BY <3>1, <3>2, <3>3
  <2> QED BY <2>1, <2>2
<1> QED BY <1>2, <1>3, <1>4, <1>5 DEF GoodFor

LEMMA GoodFine ==
  ASSUME ProcessMemoryAssumption, Fine(th, refs), NEW p \in Procs, th[p].status # "none",
         NEW m, GoodFor(p, m),
         NEW s \in Structs, s.own = m.own, s.pte = m.pte, s.status # "none", Handled(s)
  PROVE  Fine([th EXCEPT ![p] = s], m.refs)
<1>1. Built(th[p].own)
  BY ThreadFacts DEF Space
<1>2. Built(m.own)
  BY <1>1 DEF GoodFor, Lasting, Built
<1>3. Space(s)
  BY <1>2 DEF Space, GoodFor
<1>4. /\ Counted(m, RestOf(th, refs, p))
      /\ \A f \in Fields : m.own[f] \in {th[p].own[f], Nothing} \/ RestOf(th, refs, p)[m.own[f]] = 0
      /\ \A v \in Pages : s.pte[v].w => RestOf(th, refs, p)[s.own[v]] = 0
  BY DEF GoodFor
<1> QED BY <1>3, <1>4, JobEnds

LEMMA GoodKeeps ==
  ASSUME ProcessMemoryAssumption, MemoryInv, NEW p \in Procs, cur = p, NEW m, GoodFor(p, m),
         NEW s \in Structs, s.own = m.own, s.pte = m.pte, s.status = "RUNNING", Handled(s),
         th' = [th EXCEPT ![p] = s], refs' = m.refs, UNCHANGED <<cur, satp>>
  PROVE  MemoryInv'
<1>1. Fine(th, refs) /\ th \in [Procs -> Structs] /\ th[p].status # "none"
  BY InUserFacts DEF MemoryInv
<1>2. Fine(th', refs')
  BY <1>1, GoodFine
<1>3. th'[p] = s
  BY <1>1
<1>4. s.own["root"] = th[p].own["root"]
  BY DEF GoodFor, Lasting
<1>5. OnHart(th', cur', satp')
  BY <1>3, <1>4 DEF MemoryInv, OnHart
<1> QED BY <1>2, <1>5 DEF MemoryInv

(* A page is granted and mapped, or what could be granted goes back.         *)
LEMMA GotMappedFacts ==
  ASSUME ProcessMemoryAssumption, NEW rest \in Rests, NEW j, Counted(j, rest), NEW v \in Pages,
         j.own[v] = Nothing, NEW w \in BOOLEAN
  PROVE  LET given == Got(j, v)
             m == Mapped(given, v, Entry(given.own[v], w))
         IN  /\ Turned(j, m, rest, {v, TableOf(v)}) /\ Counted(m, rest)
             /\ \A u \in Pages \ {v} : m.pte[u] = j.pte[u]
             /\ IF m.ok THEN /\ j.ok /\ m.own[v] \in Blocks /\ m.own[v] # Nothing
                             /\ rest[m.own[v]] = 0 /\ m.pte[v] = Entry(m.own[v], w)
                ELSE m.pte = j.pte
<1> DEFINE given == Got(j, v)
           e == Entry(given.own[v], w)
           m == Mapped(given, v, e)
           fs == {v, TableOf(v)}
           one == {v}
           two == {TableOf(v)}
<1>1. v \in Fields /\ TableOf(v) \in Fields /\ TableOf(v) # v
  BY FieldFacts
<1>2. /\ Turned(j, given, rest, one) /\ given.pte = j.pte
      /\ IF given.ok THEN /\ j.ok /\ given.own[v] # Nothing /\ given.own[v] \in Blocks
                          /\ rest[given.own[v]] = 0
         ELSE given.own = j.own
  BY <1>1, GotFacts
<1>3. Counted(given, rest) /\ given.own[v] \in Targets /\ given.pte \in Maps
  BY <1>1, <1>2 DEF Turned, Counted, Jobs, Owned
<1> HIDE DEF given
<1>4. e \in Entries
  BY <1>3 DEF Entries, Entry
<1> HIDE DEF e
<1>5. /\ Turned(given, m, rest, two)
      /\ IF m.ok THEN given.ok /\ m.pte = [given.pte EXCEPT ![v] = e] ELSE m.pte = given.pte
  BY <1>3, <1>4, MappedFacts
<1> HIDE DEF m
<1>6. Counted(m, rest) /\ m.own[v] = given.own[v]
  BY <1>1, <1>5 DEF Turned
<1>7. Turned(j, m, rest, fs)
  <2>1. one \subseteq fs /\ two \subseteq fs /\ fs \in SUBSET Fields
    BY <1>1
  <2> HIDE DEF one, two, fs
  <2> QED BY <1>2, <1>5, <2>1, TurnedAlong
<1>8. \A u \in Pages \ {v} : m.pte[u] = j.pte[u]
  BY <1>2, <1>3, <1>5 DEF Maps
<1>9. CASE m.ok
  <2>1. m.pte[v] = e
    BY <1>3, <1>5, <1>9 DEF Maps
  <2>2. m.pte[v] = Entry(m.own[v], w)
    BY <1>6, <2>1 DEF e
  <2> QED BY <1>2, <1>5, <1>6, <1>7, <1>8, <1>9, <2>2 DEF m, e, given
<1>10. CASE ~m.ok
  <2>1. m.pte = j.pte
    BY <1>2, <1>5, <1>10
  <2> QED BY <1>6, <1>7, <1>8, <1>10, <2>1 DEF m, e, given
<1> QED BY <1>9, <1>10

LEMMA PageGranted ==
  ASSUME ProcessMemoryAssumption, Fine(th, refs), NEW p \in Procs, NEW left \in Nat,
         NEW v \in Pages, th[p].own[v] = Nothing, NEW w \in BOOLEAN,
         v = "mmap" => th[p].own["region"] # Nothing
  PROVE  LET given == Got(Job(p, left), v)
             m == Mapped(given, v, Entry(given.own[v], w))
             back == Put(m, {v})
         IN  /\ \A u \in Pages \ {v} : m.pte[u] = th[p].pte[u] /\ m.own[u] = th[p].own[u]
             /\ m.ok => GoodFor(p, m) /\ m.own[v] # Nothing /\ m.pte[v] = Entry(m.own[v], w)
             /\ ~m.ok => GoodFor(p, back) /\ back.pte = th[p].pte /\ back.own[v] = Nothing
<1> DEFINE j == Job(p, left)
           given == Got(j, v)
           m == Mapped(given, v, Entry(given.own[v], w))
           one == {v}
           back == Put(m, one)
           fs == {v, TableOf(v)}
           rest == RestOf(th, refs, p)
<1>1. /\ v \in Fields /\ TableOf(v) \in Fields \ Pages /\ TableOf(v) \notin Lasting /\ v \notin Lasting
      /\ ("mmap" \in Areas => TableOf(v) \notin {"region", "frames", "mmap"} /\ v \notin {"region", "frames"})
  <2>1. v \in Fields /\ v \notin Lasting
    BY FieldFacts DEF Lasting
  <2>2. TableOf(v) \in Fields \ Pages /\ TableOf(v) \notin Lasting
    BY FieldFacts DEF Lasting
  <2>3. "mmap" \in Areas => TableOf(v) \notin {"region", "frames", "mmap"} /\ v \notin {"region", "frames"}
    BY <2>2, FieldFacts
  <2> QED BY <2>1, <2>2, <2>3
<1>2. Counted(j, rest) /\ j.own = th[p].own /\ j.pte = th[p].pte /\ rest \in Rests
  BY JobFacts, RestFacts
<1>3. /\ Turned(j, m, rest, fs) /\ Counted(m, rest)
      /\ \A u \in Pages \ {v} : m.pte[u] = j.pte[u]
      /\ IF m.ok THEN /\ j.ok /\ m.own[v] \in Blocks /\ m.own[v] # Nothing
                      /\ rest[m.own[v]] = 0 /\ m.pte[v] = Entry(m.own[v], w)
         ELSE m.pte = j.pte
  BY <1>2, GotMappedFacts
<1> HIDE DEF m
<1>4. fs \in SUBSET (Fields \ Lasting) /\ fs \in SUBSET Fields /\ one \in SUBSET Fields
      /\ one \subseteq fs /\ one \in SUBSET Pages /\ fs \subseteq fs
  BY <1>1
<1>5. \A u \in Pages \ one : u \in Fields \ fs
  BY <1>1, FieldFacts
<1>6. ASSUME NEW n, Turned(j, n, rest, fs), v = "mmap" \/ n.own["mmap"] = th[p].own["mmap"]
      PROVE  RegionFirst(n.own)
  <2>1. RegionFirst(th[p].own)
    BY ThreadFacts DEF Space
  <2>2. "mmap" \in Areas => \A f \in {"region", "frames"} : f \in Fields \ fs
    BY <1>1, FieldFacts
  <2>3. "mmap" \in Areas => \A f \in {"region", "frames"} : n.own[f] = th[p].own[f]
    BY <1>2, <1>6, <2>2 DEF Turned
  <2> QED BY <1>6, <2>1, <2>3 DEF RegionFirst
<1>7. ASSUME NEW n, Turned(j, n, rest, fs)
      PROVE  \A u \in Pages \ one : n.own[u] = th[p].own[u]
  BY <1>2, <1>5, <1>7 DEF Turned
<1>8. ASSUME NEW n, Turned(j, n, rest, fs) PROVE v = "mmap" \/ n.own["mmap"] = th[p].own["mmap"] \/ "mmap" \notin Areas
  BY <1>7, <1>8 DEF Pages
<1>9. ASSUME NEW n, Turned(j, n, rest, fs) PROVE RegionFirst(n.own)
  BY <1>6, <1>8, <1>9 DEF RegionFirst
<1>10. \A u \in Pages \ {v} : m.pte[u] = th[p].pte[u] /\ m.own[u] = th[p].own[u]
  BY <1>2, <1>3, <1>7
<1>11. CASE m.ok
  <2>1. Tied(m.own, m.pte, v)
    BY <1>3, <1>11 DEF Tied, Entry
  <2>2. \A u \in one : Tied(m.own, m.pte, u) /\ (m.pte[u].w => rest[m.own[u]] = 0)
    BY <1>3, <1>11, <2>1
  <2>3. \A u \in Pages \ one : m.own[u] = th[p].own[u] /\ m.pte[u] = th[p].pte[u]
    BY <1>10
  <2>4. RegionFirst(m.own)
    BY <1>3, <1>9
  <2>5. GoodFor(p, m)
    <3> HIDE DEF one, fs
    <3> QED BY <1>3, <1>4, <2>2, <2>3, <2>4, GoodJob DEF j, rest
  <2> QED BY <1>3, <1>10, <1>11, <2>5 DEF m, given, j
<1>12. CASE ~m.ok
  <2>1. /\ Turned(m, back, rest, one) /\ back.pte = m.pte /\ \A f \in one : back.own[f] = Nothing
    <3> HIDE DEF one
    <3> QED BY <1>3, <1>4, PutFacts
  <2> HIDE DEF back
  <2>2. Turned(j, back, rest, fs)
    <3> HIDE DEF one, fs
    <3> QED BY <1>3, <1>4, <2>1, TurnedAlong
  <2>3. back.pte = th[p].pte /\ back.own[v] = Nothing
    BY <1>2, <1>3, <1>12, <2>1
  <2> DEFINE none == {}
  <2>4. \A u \in Pages \ none : back.own[u] = th[p].own[u] /\ back.pte[u] = th[p].pte[u]
    BY <1>7, <2>2, <2>3
  <2>5. RegionFirst(back.own)
    BY <1>9, <2>2
  <2>6. none \in SUBSET Pages
        /\ \A u \in none : Tied(back.own, back.pte, u) /\ (back.pte[u].w => rest[back.own[u]] = 0)
    OBVIOUS
  <2>7. GoodFor(p, back)
    <3> HIDE DEF none, one, fs
    <3> QED BY <1>4, <2>2, <2>4, <2>5, <2>6, GoodJob DEF j, rest
  <2> QED BY <1>10, <1>12, <2>3, <2>7 DEF back, one, m, given, j
<1> QED BY <1>11, <1>12

LEMMA ReturnPlainKeeps ==
  ASSUME ProcessMemoryAssumption, MemoryInv, NEW p \in Procs, ReturnPlain(p)
  PROVE  MemoryInv'
<1> DEFINE m == Job(p, 0)
           s == [th[p] EXCEPT !.own = m.own, !.pte = m.pte, !.at = "user"]
<1>1. cur = p /\ th[p] \in Structs /\ th[p].status = "RUNNING" /\ Fine(th, refs)
  BY InUserFacts DEF ReturnPlain, AtReturn, MemoryInv
<1>2. m.own = th[p].own /\ m.pte = th[p].pte /\ m.refs = refs
  <2>1. \A left \in Nat : /\ Job(p, left).own = th[p].own /\ Job(p, left).pte = th[p].pte
                          /\ Job(p, left).refs = refs
    BY <1>1, JobFacts
  <2> QED BY <2>1, 0 \in Nat
<1>3. th' = [th EXCEPT ![p] = s] /\ refs' = m.refs /\ UNCHANGED <<cur, satp>>
  BY DEF ReturnPlain, ToUser
<1> HIDE DEF m
<1>4. s \in Structs /\ Akin(th[p], s) /\ s.status = "RUNNING"
  BY <1>1, <1>2 DEF Structs, Akin
<1> HIDE DEF s
<1> QED BY <1>1, <1>2, <1>3, <1>4, OneControl

LEMMA SigreturnKeeps ==
  ASSUME ProcessMemoryAssumption, MemoryInv, NEW p \in Procs, Sigreturn(p)
  PROVE  MemoryInv'
<1> DEFINE j == Job(p, 0)
           fs == {"sig"}
           a == Cleared(j, fs)
           m == Put(a, fs)
           rest == RestOf(th, refs, p)
           s == [th[p] EXCEPT !.own = m.own, !.pte = m.pte, !.active = FALSE,
                              !.regs = th[p].saved, !.saved = "none", !.at = "ret"]
<1>1. cur = p /\ th \in [Procs -> Structs] /\ th[p] \in Structs /\ th[p].status = "RUNNING"
      /\ Fine(th, refs) /\ th[p].active
  BY InUserFacts DEF Sigreturn, InUser, MemoryInv
<1>2. Counted(j, rest) /\ j.own = th[p].own /\ j.pte = th[p].pte
  BY <1>1, JobFacts
<1>3. refs' = m.refs /\ UNCHANGED <<cur, satp>> /\ th' = [th EXCEPT ![p] = s]
  BY DEF Sigreturn, Returns
<1>f. fs \in SUBSET (Fields \ Lasting) /\ fs \in SUBSET Fields /\ "sig" \in Pages
      /\ fs \subseteq Fields /\ fs \in SUBSET Pages
  BY FieldFacts DEF Lasting
<1>4. /\ Turned(j, a, rest, {}) /\ a.own = j.own /\ Counted(a, rest)
      /\ \A v \in Pages : a.pte[v] = IF v \in fs THEN NoEntry ELSE j.pte[v]
  BY <1>2, ClearedFacts DEF Turned
<1> HIDE DEF a, fs, j
<1>5. /\ Turned(a, m, rest, fs) /\ m.pte = a.pte /\ \A f \in fs : m.own[f] = Nothing
  BY <1>4, <1>f, PutFacts
<1> HIDE DEF m
<1>6. Turned(j, m, rest, fs)
  BY <1>4, <1>5, <1>f, TurnedAlong
<1>7. ASSUME NEW v \in Pages \ fs PROVE m.own[v] = th[p].own[v] /\ m.pte[v] = th[p].pte[v]
  <2>1. v \in Fields \ fs
    BY <1>7, FieldFacts
  <2>2. m.own[v] = a.own[v]
    BY <1>5, <2>1 DEF Turned
  <2>3. m.pte[v] = j.pte[v]
    BY <1>4, <1>5, <1>7
  <2> QED BY <1>2, <1>4, <2>2, <2>3
<1>8. \A v \in fs : m.own[v] = Nothing /\ m.pte[v] = NoEntry
  BY <1>4, <1>5, <1>f
<1>9. \A v \in fs : Tied(m.own, m.pte, v) /\ (m.pte[v].w => rest[m.own[v]] = 0)
  BY <1>8, NothingFacts DEF Tied
<1>10. RegionFirst(m.own)
  <2>1. RegionFirst(th[p].own)
    BY <1>1, ThreadFacts DEF Space
  <2>2. "mmap" \in Areas => \A f \in {"region", "frames", "mmap"} : f \in Fields \ fs
    BY FieldFacts DEF fs
  <2>3. \A f \in Fields \ fs : m.own[f] = th[p].own[f]
    BY <1>2, <1>6 DEF Turned
  <2> QED BY <2>1, <2>2, <2>3 DEF RegionFirst
<1>11. GoodFor(p, m)
  BY <1>1, <1>6, <1>7, <1>9, <1>10, <1>f, GoodJob DEF rest, j
<1>12. m.own \in Owned /\ m.pte \in Maps /\ th[p].saved = "main"
  BY <1>1, <1>6, ThreadFacts DEF Turned, Counted, Jobs, Handled
<1>13. s \in Structs /\ s.own = m.own /\ s.pte = m.pte /\ s.status = "RUNNING"
       /\ s.active = FALSE /\ s.regs = "main"
  BY <1>1, <1>12 DEF Structs
<1> HIDE DEF s
<1>14. Handled(s)
  BY <1>8, <1>13 DEF Handled, fs
<1> QED BY <1>1, <1>3, <1>11, <1>13, <1>14, GoodKeeps

LEMMA ReturnSignalledKeeps ==
  ASSUME ProcessMemoryAssumption, MemoryInv, NEW p \in Procs, NEW left \in Nat,
         ReturnSignalled(p, left)
  PROVE  MemoryInv'
<1> DEFINE sig == Min(Deliverable(p))
           given == Got(Job(p, left), "sig")
           m == Mapped(given, "sig", Entry(given.own["sig"], TRUE))
           back == Put(m, {"sig"})
           delivered == [th[p] EXCEPT !.pending = @ \ {sig}, !.active = TRUE, !.regs = "handler",
                                      !.saved = th[p].regs]
<1>1. cur = p /\ th \in [Procs -> Structs] /\ th[p] \in Structs /\ th[p].status = "RUNNING"
      /\ Fine(th, refs) /\ Deliverable(p) # {} /\ "sig" \in Pages
  BY InUserFacts, FieldFacts DEF ReturnSignalled, AtReturn, MemoryInv
<1>2. ~th[p].active /\ Handled(th[p])
  BY <1>1, ThreadFacts DEF Deliverable
<1>3. th[p].own["sig"] = Nothing /\ th[p].regs = "main"
  BY <1>1, <1>2 DEF Handled, Structs
<1>4. CASE sig \notin th[p].handlers
  BY <1>1, <1>4, ThreadExitKeeps DEF ReturnSignalled
<1>5. CASE sig \in th[p].handlers
  <2>1. IF m.ok THEN ToUser(p, m, delivered) ELSE ToUser(p, back, th[p])
    BY <1>1, <1>5 DEF ReturnSignalled
  <2>2. /\ m.ok => /\ GoodFor(p, m) /\ m.own["sig"] # Nothing
                   /\ m.pte["sig"] = Entry(m.own["sig"], TRUE)
        /\ ~m.ok => GoodFor(p, back) /\ back.pte = th[p].pte /\ back.own["sig"] = Nothing
    <3> DEFINE v == "sig"
    <3>1. v \in Pages /\ th[p].own[v] = Nothing /\ (v = "mmap" => th[p].own["region"] # Nothing)
          /\ Fine(th, refs) /\ TRUE \in BOOLEAN
      BY <1>1, <1>3
    <3> HIDE DEF v
    <3>2. LET g == Got(Job(p, left), v)
              n == Mapped(g, v, Entry(g.own[v], TRUE))
          IN  /\ n.ok => GoodFor(p, n) /\ n.own[v] # Nothing /\ n.pte[v] = Entry(n.own[v], TRUE)
              /\ ~n.ok => /\ GoodFor(p, Put(n, {v})) /\ Put(n, {v}).pte = th[p].pte
                          /\ Put(n, {v}).own[v] = Nothing
      BY <3>1, PageGranted
    <3> QED BY <3>2 DEF v
  <2> HIDE DEF m, back
  <2>3. CASE m.ok
    <3> DEFINE s == [delivered EXCEPT !.own = m.own, !.pte = m.pte, !.at = "user"]
    <3>1. th' = [th EXCEPT ![p] = s] /\ refs' = m.refs /\ UNCHANGED <<cur, satp>>
      BY <2>1, <2>3 DEF ToUser
    <3>2. m.own \in Owned /\ m.pte \in Maps
      BY <2>2, <2>3 DEF GoodFor, Counted, Jobs
    <3>3. s \in Structs /\ s.own = m.own /\ s.pte = m.pte /\ s.status = "RUNNING"
          /\ s.active = TRUE /\ s.regs = "handler" /\ s.saved = "main"
      BY <1>1, <1>3, <3>2 DEF Structs
    <3> HIDE DEF s
    <3>4. Handled(s)
      BY <2>2, <2>3, <3>3 DEF Handled
    <3> QED BY <1>1, <2>2, <2>3, <3>1, <3>3, <3>4, GoodKeeps
  <2>4. CASE ~m.ok
    <3> DEFINE s == [th[p] EXCEPT !.own = back.own, !.pte = back.pte, !.at = "user"]
    <3>1. th' = [th EXCEPT ![p] = s] /\ refs' = back.refs /\ UNCHANGED <<cur, satp>>
      BY <2>1, <2>4 DEF ToUser
    <3>2. back.own \in Owned /\ back.pte \in Maps
      BY <2>2, <2>4 DEF GoodFor, Counted, Jobs
    <3>3. s \in Structs /\ s.own = back.own /\ s.pte = back.pte /\ s.status = "RUNNING"
          /\ s.active = th[p].active /\ s.regs = th[p].regs /\ s.saved = th[p].saved
      BY <1>1, <3>2 DEF Structs
    <3> HIDE DEF s
    <3>4. Handled(s)
      BY <1>1, <1>2, <1>3, <2>2, <2>4, <3>3 DEF Handled
    <3> QED BY <1>1, <2>2, <2>4, <3>1, <3>3, <3>4, GoodKeeps
  <2> QED BY <2>3, <2>4
<1> QED BY <1>4, <1>5

-----------------------------------------------------------------------------
(* What mmap grants, with its page or without, is of the region only.        *)
RegionHeld == {"region", "frames", "mmap", TableOf("mmap")}

LEMMA RegionHeldFacts ==
  ASSUME ProcessMemoryAssumption, "mmap" \in Areas
  PROVE  /\ RegionHeld \in SUBSET (Fields \ Lasting) /\ RegionHeld \in SUBSET Fields
         /\ {"region", "frames"} \in SUBSET Fields /\ {"region", "frames", "mmap"} \in SUBSET Fields
         /\ "mmap" \in Pages /\ "sig" \in Pages /\ \A v \in Pages \ {"mmap"} : v \in Fields \ RegionHeld
         /\ TableOf("mmap") \notin {"region", "frames", "mmap"} /\ TableOf("mmap") \in Fields
<1>1. TableOf("mmap") = "mmap table"
  BY DEF TableOf
<1>2. "mmap" \in Pages /\ "sig" \in Pages /\ {"region", "frames"} \subseteq SpaceFields \ Pages
      /\ TableOf("mmap") \in SpaceFields \ Pages /\ SpaceFields \subseteq Fields
      /\ Pages \subseteq SpaceFields
  BY FieldFacts
<1>3. RegionHeld \in SUBSET Fields
  BY <1>2 DEF RegionHeld
<1>4. RegionHeld \cap Lasting = {}
  BY <1>1 DEF RegionHeld, Lasting
<1>5. \A v \in Pages \ {"mmap"} : v \in Fields \ RegionHeld
  BY <1>2 DEF RegionHeld
<1> QED BY <1>1, <1>2, <1>3, <1>4, <1>5

LEMMA RegionGranted ==
  ASSUME ProcessMemoryAssumption, Fine(th, refs), NEW p \in Procs, NEW rw \in BOOLEAN,
         NEW populate \in BOOLEAN, NEW left \in Nat, "mmap" \in Areas,
         th[p].own["region"] = Nothing
  PROVE  LET region == Got2(Job(p, left), "region", "frames")
             m == IF populate THEN Populated(region, rw) ELSE region
             rest == RestOf(th, refs, p)
         IN  /\ Turned(Job(p, left), m, rest, RegionHeld) /\ Counted(m, rest)
             /\ \A v \in Pages \ {"mmap"} : m.pte[v] = th[p].pte[v] /\ m.own[v] = th[p].own[v]
             /\ m.ok => /\ m.own["region"] # Nothing /\ Tied(m.own, m.pte, "mmap")
                        /\ m.pte["mmap"].w => rest[m.own["mmap"]] = 0
<1> DEFINE j == Job(p, left)
           f == "region"
           g == "frames"
           two == {f, g}
           region == Got2(j, f, g)
           rest == RestOf(th, refs, p)
<1>1. Counted(j, rest) /\ j.own = th[p].own /\ j.pte = th[p].pte /\ rest \in Rests
  BY JobFacts, RestFacts
<1>2. th[p].own[f] = Nothing /\ th[p].own[g] = Nothing /\ th[p].own["mmap"] = Nothing
  BY ThreadFacts DEF Space, RegionFirst
<1>3. f \in Fields /\ g \in Fields /\ f # g /\ two \subseteq RegionHeld /\ f \notin {"mmap", TableOf("mmap")}
      /\ "mmap" \in Fields \ two
  BY RegionHeldFacts DEF RegionHeld
<1> HIDE DEF f, g, j
<1>4. /\ Turned(j, region, rest, two) /\ Counted(region, rest) /\ region.pte = j.pte
      /\ region.ok => j.ok /\ region.own[f] # Nothing /\ region.own[g] # Nothing
      /\ \A h \in Fields \ two : region.own[h] = j.own[h]
  <2>1. Counted(j, rest) /\ rest \in Rests /\ f \in Fields /\ g \in Fields /\ f # g
        /\ j.own[f] = Nothing /\ j.own[g] = Nothing
    BY <1>1, <1>2, <1>3
  <2> HIDE DEF rest
  <2>2. /\ Turned(j, region, rest, {f, g}) /\ Counted(region, rest) /\ region.pte = j.pte
        /\ region.ok => j.ok /\ region.own[f] # Nothing /\ region.own[g] # Nothing
        /\ \A h \in Fields \ {f, g} : region.own[h] = j.own[h]
    BY <2>1, GotTwoFacts
  <2> QED BY <2>2
<1>5. region.own["mmap"] = Nothing
  BY <1>1, <1>2, <1>3, <1>4
<1> HIDE DEF region, two
<1> DEFINE m == IF populate THEN Populated(region, rw) ELSE region
<1>6. CASE populate
  <2> DEFINE page == {"mmap", TableOf("mmap")}
             k == Mapped(Got(region, "mmap"), "mmap", Entry(Got(region, "mmap").own["mmap"], rw))
  <2>1. m = k
    BY <1>6 DEF Populated
  <2> HIDE DEF m
  <2>2. /\ Turned(region, k, rest, page) /\ Counted(k, rest)
        /\ \A u \in Pages \ {"mmap"} : k.pte[u] = region.pte[u]
        /\ IF k.ok THEN /\ region.ok /\ k.own["mmap"] \in Blocks /\ k.own["mmap"] # Nothing
                        /\ rest[k.own["mmap"]] = 0 /\ k.pte["mmap"] = Entry(k.own["mmap"], rw)
           ELSE k.pte = region.pte
    BY <1>1, <1>4, <1>5, RegionHeldFacts, GotMappedFacts
  <2> HIDE DEF k
  <2>3. page \subseteq RegionHeld /\ RegionHeld \in SUBSET Fields
    BY RegionHeldFacts DEF RegionHeld
  <2>4. Turned(j, k, rest, RegionHeld)
    <3> HIDE DEF page
    <3> QED BY <1>3, <1>4, <2>2, <2>3, TurnedAlong
  <2>5. k.own[f] = region.own[f]
    BY <1>3, <2>2 DEF Turned
  <2>6. \A v \in Pages \ {"mmap"} : k.pte[v] = th[p].pte[v] /\ k.own[v] = th[p].own[v]
    BY <1>1, <1>4, <2>2, <2>4, RegionHeldFacts DEF Turned
  <2>7. k.ok => /\ k.own[f] # Nothing /\ Tied(k.own, k.pte, "mmap")
                /\ k.pte["mmap"].w => rest[k.own["mmap"]] = 0
    BY <1>4, <2>2, <2>5 DEF Tied, Entry
  <2> QED BY <2>1, <2>2, <2>4, <2>6, <2>7 DEF j, f, m, region, g
<1>7. CASE ~populate
  <2>1. m = region
    BY <1>7
  <2> HIDE DEF m
  <2>2. Turned(j, region, rest, RegionHeld)
    BY <1>3, <1>4, RegionHeldFacts, TurnedMore
  <2>3. \A v \in Pages \ {"mmap"} : region.pte[v] = th[p].pte[v] /\ region.own[v] = th[p].own[v]
    BY <1>1, <1>4, <2>2, RegionHeldFacts DEF Turned
  <2>4. region.pte["mmap"] = NoEntry
    BY <1>1, <1>2, <1>4, RegionHeldFacts, ThreadFacts
  <2>5. Tied(region.own, region.pte, "mmap") /\ ~region.pte["mmap"].w
    BY <1>5, <2>4, NothingFacts DEF Tied
  <2> QED BY <1>4, <2>1, <2>2, <2>3, <2>5 DEF j, f, m, region, g
<1> QED BY <1>6, <1>7

LEMMA MmapKeeps ==
  ASSUME ProcessMemoryAssumption, MemoryInv, NEW p \in Procs, NEW rw \in BOOLEAN,
         NEW populate \in BOOLEAN, NEW left \in Nat, Mmap(p, rw, populate, left)
  PROVE  MemoryInv'
<1> DEFINE j == Job(p, left)
           region == Got2(j, "region", "frames")
           m == IF populate THEN Populated(region, rw) ELSE region
           n == IF m.ok THEN m ELSE RegionUndone(m)
           rest == RestOf(th, refs, p)
           three == {"region", "frames", "mmap"}
           page == {"mmap"}
           s == [th[p] EXCEPT !.own = n.own, !.pte = n.pte, !.rw = n.ok /\ rw, !.at = "ret"]
<1>1. cur = p /\ th \in [Procs -> Structs] /\ th[p] \in Structs /\ th[p].status = "RUNNING"
      /\ Fine(th, refs) /\ "mmap" \in Areas /\ th[p].own["region"] = Nothing
  BY InUserFacts DEF Mmap, InUser, MemoryInv
<1>2. refs' = n.refs /\ UNCHANGED <<cur, satp>> /\ th' = [th EXCEPT ![p] = s]
  BY DEF Mmap, CreateRegion, Returns
<1>3. /\ Turned(j, m, rest, RegionHeld) /\ Counted(m, rest)
      /\ \A v \in Pages \ page : m.pte[v] = th[p].pte[v] /\ m.own[v] = th[p].own[v]
      /\ m.ok => /\ m.own["region"] # Nothing /\ Tied(m.own, m.pte, "mmap")
                 /\ m.pte["mmap"].w => rest[m.own["mmap"]] = 0
  BY <1>1, RegionGranted
<1> HIDE DEF m, j
<1>4. /\ RegionHeld \in SUBSET (Fields \ Lasting) /\ RegionHeld \in SUBSET Fields
      /\ page \in SUBSET Pages /\ three \in SUBSET Fields /\ three \subseteq RegionHeld
      /\ "sig" \in Pages \ page
      /\ \A v \in Pages \ page : v \in Fields \ RegionHeld
  BY <1>1, RegionHeldFacts DEF RegionHeld
<1>5. GoodFor(p, n) /\ \A v \in Pages \ page : n.pte[v] = th[p].pte[v] /\ n.own[v] = th[p].own[v]
  <2>1. CASE m.ok
    <3>1. n = m
      BY <2>1
    <3> HIDE DEF n
    <3>2. \A v \in page : Tied(m.own, m.pte, v) /\ (m.pte[v].w => rest[m.own[v]] = 0)
      BY <1>3, <2>1
    <3>3. RegionFirst(m.own)
      BY <1>3, <2>1 DEF RegionFirst
    <3>4. GoodFor(p, m)
      <4> HIDE DEF page
      <4> QED BY <1>1, <1>3, <1>4, <3>2, <3>3, GoodJob DEF j, rest
    <3> QED BY <1>3, <3>1, <3>4
  <2>2. CASE ~m.ok
    <3> DEFINE a == Put(m, three)
    <3>1. n = Cleared(a, page)
      BY <2>2 DEF RegionUndone
    <3>2. /\ Turned(m, a, rest, three) /\ a.pte = m.pte /\ \A f \in three : a.own[f] = Nothing
      <4> HIDE DEF three
      <4> QED BY <1>3, <1>4, PutFacts
    <3>a. Counted(a, rest)
      BY <3>2 DEF Turned
    <3> HIDE DEF n, a
    <3>3. /\ Turned(a, n, rest, {}) /\ n.own = a.own
          /\ \A v \in Pages : n.pte[v] = IF v \in page THEN NoEntry ELSE a.pte[v]
      <4> HIDE DEF page
      <4> QED BY <3>1, <3>a, ClearedFacts
    <3>4. Turned(j, a, rest, RegionHeld)
      <4> HIDE DEF three
      <4> QED BY <1>3, <1>4, <3>2, TurnedAlong
    <3>5. Turned(j, n, rest, RegionHeld)
      BY <1>4, <3>3, <3>4, TurnedAlong
    <3>6. \A v \in page : n.own[v] = Nothing /\ n.pte[v] = NoEntry
      BY <1>4, <3>2, <3>3
    <3>7. \A v \in page : Tied(n.own, n.pte, v) /\ (n.pte[v].w => rest[n.own[v]] = 0)
      BY <3>6, NothingFacts DEF Tied
    <3>8. j.own = th[p].own
      BY <1>1, JobFacts DEF j
    <3>9. \A v \in Pages \ page : n.own[v] = th[p].own[v]
      <4> HIDE DEF page
      <4> QED BY <1>4, <3>5, <3>8 DEF Turned
    <3>10. \A v \in Pages \ page : n.pte[v] = th[p].pte[v]
      <4> HIDE DEF page
      <4> QED BY <1>3, <3>2, <3>3
    <3>11. RegionFirst(n.own)
      BY <3>2, <3>3 DEF RegionFirst
    <3>12. GoodFor(p, n)
      <4> HIDE DEF page
      <4> QED BY <1>1, <1>4, <3>5, <3>7, <3>9, <3>10, <3>11, GoodJob DEF j, rest
    <3> QED BY <3>9, <3>10, <3>12
  <2> QED BY <2>1, <2>2
<1> HIDE DEF n
<1>6. n.own \in Owned /\ n.pte \in Maps /\ n.ok \in BOOLEAN
  BY <1>5 DEF GoodFor, Counted, Jobs
<1>7. s \in Structs /\ s.own = n.own /\ s.pte = n.pte /\ s.status = "RUNNING"
      /\ s.active = th[p].active /\ s.regs = th[p].regs /\ s.saved = th[p].saved
  BY <1>1, <1>6 DEF Structs
<1> HIDE DEF s
<1>8. n.own["sig"] = th[p].own["sig"] /\ n.pte["sig"] = th[p].pte["sig"]
  BY <1>4, <1>5
<1>9. Handled(s)
  <2>1. Handled(th[p])
    BY <1>1, ThreadFacts
  <2>2. th[p].status = "RUNNING"
    BY <1>1
  <2> QED BY <1>7, <1>8, <2>1, <2>2 DEF Handled
<1> QED BY <1>1, <1>2, <1>5, <1>7, <1>9, GoodKeeps

-----------------------------------------------------------------------------
(* Page faults.  What the attempt leaves is good whether it succeeds or not. *)
(* A copy replaces a page that others have too; the last owner keeps it.     *)
LEMMA CopyFacts ==
  ASSUME ProcessMemoryAssumption, Fine(th, refs), NEW p \in Procs, NEW v \in Pages,
         NEW left \in Nat, th[p].own[v] # Nothing, refs[th[p].own[v]] > 1
  PROVE  LET m == Copied(p, v, left)
         IN  /\ GoodFor(p, m)
             /\ \A u \in Pages \ {v} : m.pte[u] = th[p].pte[u] /\ m.own[u] = th[p].own[u]
             /\ ~m.ok => m.refs = refs /\ m.own = th[p].own /\ m.pte = th[p].pte
<1> DEFINE j == Job(p, left)
           n == Got(j, v)
           m == Copied(p, v, left)
           old == th[p].own[v]
           rest == RestOf(th, refs, p)
           k == CHOOSE k \in Names : j.refs[<<j.for, v, k>>] = 0
           new == <<j.for, v, k>>
<1>1. /\ Counted(j, rest) /\ j \in Jobs /\ j.for = p /\ j.own = th[p].own /\ j.pte = th[p].pte
      /\ j.refs = refs /\ j.ok = TRUE
  <2>1. Counted(j, rest) /\ j.for = p /\ j.own = th[p].own /\ j.pte = th[p].pte
        /\ j.refs = refs /\ j.ok = TRUE
    BY JobFacts
  <2> QED BY <2>1 DEF Counted
<1>2. /\ th[p].own \in Owned /\ th[p].pte \in Maps /\ v \in Fields /\ th[p].pte[v].to = old
      /\ refs \in [Blocks -> Nat] /\ v \notin Lasting
  BY ThreadFacts, FieldFacts DEF Tied, Fine, Lasting
<1>3. old \in Blocks /\ old[2] = v
  BY <1>2, OwnedFacts
<1>4. k \in Names /\ j.refs[new] = 0
  <2>1. \E i \in Names : j.refs[<<j.for, v, i>>] = 0
    BY <1>1, <1>2, FreeName
  <2> QED BY <2>1
<1> HIDE DEF k
<1>5. new \in Blocks /\ new[2] = v /\ new # old /\ refs[new] = 0 /\ new # Nothing
  BY <1>1, <1>2, <1>3, <1>4, NothingFacts
<1>6. CASE j.left > 0
  <2> DEFINE rs == [refs EXCEPT ![new] = 1]
             rs2 == [rs EXCEPT ![old] = rs[old] - 1]
             o == [th[p].own EXCEPT ![v] = new]
             pt == [th[p].pte EXCEPT ![v] = Entry(new, TRUE)]
  <2>1. n = [j EXCEPT !.left = j.left - 1, !.refs = rs, !.own = o]
    BY <1>1, <1>6 DEF Got, k
  <2>2. o \in Owned /\ rs \in [Blocks -> Nat]
    BY <1>2, <1>5, OwnedFacts
  <2>3. rs2 \in [Blocks -> Nat]
    BY <1>2, <1>3, <1>5, <2>2
  <2>4. pt \in Maps
    BY <1>2, <1>5 DEF Maps, Entries, Entry, Targets
  <2>5. j.left - 1 \in Nat
    BY <1>1, <1>6 DEF Jobs
  <2> HIDE DEF o, rs, n
  <2>6. n.ok = TRUE /\ n.refs = rs /\ n.own = o /\ n.pte = th[p].pte /\ n \in Jobs
    BY <1>1, <2>1, <2>2, <2>5 DEF Jobs
  <2>7. o[v] = new /\ \A f \in Fields \ {v} : o[f] = th[p].own[f]
    BY <1>2 DEF o, Owned
  <2> HIDE DEF new
  <2>8. m = [n EXCEPT !.pte = pt, !.refs = rs2]
    <3>1. m = IF n.ok THEN Replaced(n, v, th[p].pte[v].to) ELSE n
      BY DEF Copied, n, j
    <3> HIDE DEF m
    <3>2. m = [n EXCEPT !.pte[v] = Entry(n.own[v], TRUE), !.refs[old] = n.refs[old] - 1]
      BY <1>2, <2>6, <3>1 DEF Replaced
    <3>3. m = [n EXCEPT !.pte = [n.pte EXCEPT ![v] = Entry(n.own[v], TRUE)],
                        !.refs = [n.refs EXCEPT ![old] = n.refs[old] - 1]]
      BY <3>2
    <3> QED BY <2>6, <2>7, <3>3
  <2> HIDE DEF pt, rs2, m
  <2>9. m \in Jobs /\ m.ok = TRUE /\ m.own = o /\ m.pte = pt /\ m.refs = rs2
    BY <2>3, <2>4, <2>6, <2>8 DEF Jobs
  <2>10. pt[v] = Entry(new, TRUE) /\ \A u \in Pages \ {v} : pt[u] = th[p].pte[u]
    BY <1>2 DEF pt, Maps
  <2>11. rest \in [Blocks -> Nat] /\ rest[new] = 0
    <3>1. rest \in [Blocks -> Nat] /\ refs[new] = rest[new] + Held(th[p].own, new)
      BY <1>5, RestSum, RestFacts DEF Rests
    <3>2. Held(th[p].own, new) = 0
      BY <1>5 DEF Held
    <3> QED BY <1>5, <3>1, <3>2
  <2>12. ASSUME NEW b \in Blocks PROVE m.refs[b] = rest[b] + Held(m.own, b)
    <3>1. refs[b] = rest[b] + Held(th[p].own, b) /\ rest[b] \in Nat /\ refs[b] \in Nat
      BY <1>2, <2>11, RestSum
    <3>2. CASE b = new
      <4>1. m.refs[b] = 1 /\ Held(m.own, b) = 1 /\ rest[b] = 0
        BY <1>2, <1>5, <2>7, <2>9, <2>11, <3>2 DEF rs2, rs, Held
      <4> QED BY <4>1
    <3>3. CASE b = old
      <4>1. m.refs[b] = refs[b] - 1 /\ Held(m.own, b) = 0 /\ Held(th[p].own, b) = 1
        BY <1>2, <1>3, <1>5, <2>7, <2>9, <3>3 DEF rs2, rs, Held
      <4> QED BY <3>1, <4>1
    <3>4. CASE b # new /\ b # old
      <4>1. m.refs[b] = refs[b]
        BY <1>2, <2>9, <3>4 DEF rs2, rs
      <4>2. Held(m.own, b) = Held(th[p].own, b)
        BY <2>7, <2>9, <3>4, NothingFacts DEF Held
      <4> QED BY <3>1, <4>1, <4>2
    <3> QED BY <3>2, <3>3, <3>4
  <2>13. Counted(m, rest)
    BY <2>9, <2>11, <2>12 DEF Counted
  <2>14. \A f \in Fields : m.own[f] \in {th[p].own[f], Nothing} \/ rest[m.own[f]] = 0
    BY <2>7, <2>9, <2>11
  <2>15. \A f \in Lasting : m.own[f] = th[p].own[f]
    <3>1. Lasting \subseteq Fields \ {v}
      BY <1>2, FieldFacts DEF Lasting
    <3> QED BY <2>7, <2>9, <3>1
  <2>16. \A u \in Pages \ {v} : m.own[u] = th[p].own[u] /\ m.pte[u] = th[p].pte[u]
    BY <2>7, <2>9, <2>10, FieldFacts
  <2>17. ASSUME NEW u \in Pages
         PROVE  Tied(m.own, m.pte, u) /\ (m.pte[u].w => rest[m.own[u]] = 0)
    <3>1. CASE u = v
      BY <1>5, <2>7, <2>9, <2>10, <2>11, <3>1 DEF Tied, Entry
    <3>2. CASE u # v
      <4>1. m.own[u] = th[p].own[u] /\ m.pte[u] = th[p].pte[u]
        BY <2>16, <3>2
      <4>2. Tied(th[p].own, th[p].pte, u)
        BY ThreadFacts
      <4>3. th[p].pte[u].w => rest[th[p].own[u]] = 0
        BY WritableAlone
      <4> QED BY <4>1, <4>2, <4>3 DEF Tied
    <3> QED BY <3>1, <3>2
  <2>18. RegionFirst(m.own)
    <3>1. RegionFirst(th[p].own)
      BY ThreadFacts DEF Space
    <3>2. "mmap" \in Areas => "region" \in Fields \ {v} /\ "frames" \in Fields \ {v} /\ "mmap" \in Fields
      BY FieldFacts
    <3>3. "mmap" \in Areas => m.own["region"] = th[p].own["region"] /\ m.own["frames"] = th[p].own["frames"]
      BY <2>7, <2>9, <3>2
    <3>4. "mmap" \in Areas /\ v # "mmap" => m.own["mmap"] = th[p].own["mmap"]
      BY <2>7, <2>9, <3>2
    <3> QED BY <3>1, <3>3, <3>4 DEF RegionFirst
  <2>19. GoodFor(p, m)
    BY <2>13, <2>14, <2>15, <2>17, <2>18 DEF GoodFor
  <2> QED BY <2>9, <2>16, <2>19 DEF m
<1>7. CASE ~(j.left > 0)
  <2>1. n = [j EXCEPT !.ok = FALSE]
    BY <1>7 DEF Got
  <2> HIDE DEF n, j
  <2>2. n \in Jobs /\ n.ok = FALSE /\ n.own = th[p].own /\ n.pte = th[p].pte /\ n.refs = refs
        /\ n.for = j.for /\ n.par = j.par
    BY <1>1, <2>1 DEF Jobs
  <2>3. m = n
    BY <2>2 DEF Copied, n, j
  <2> HIDE DEF m
  <2> DEFINE none == {}
  <2>4. none \in SUBSET (Fields \ Lasting) /\ none \in SUBSET Pages
        /\ \A u \in none : Tied(m.own, m.pte, u) /\ (m.pte[u].w => rest[m.own[u]] = 0)
    OBVIOUS
  <2>5. \A u \in Pages \ none : m.own[u] = th[p].own[u] /\ m.pte[u] = th[p].pte[u]
    BY <2>2, <2>3
  <2>6. none \in SUBSET Fields
    OBVIOUS
  <2>7. Turned(j, m, rest, none)
    BY <1>1, <2>2, <2>3, <2>6, Unturned
  <2>8. RegionFirst(m.own)
    BY <2>2, <2>3, ThreadFacts DEF Space
  <2>9. GoodFor(p, m)
    <3> HIDE DEF none
    <3> QED BY <2>4, <2>5, <2>7, <2>8, GoodJob DEF j
  <2> QED BY <2>2, <2>3, <2>9 DEF m
<1> QED BY <1>6, <1>7

(* The last owner's page becomes its own to write.                           *)
LEMMA KeptFacts ==
  ASSUME ProcessMemoryAssumption, Fine(th, refs), NEW p \in Procs, NEW v \in Pages,
         th[p].own[v] # Nothing, refs[th[p].own[v]] <= 1
  PROVE  LET m == Kept(p, v)
         IN  /\ GoodFor(p, m) /\ m.ok
             /\ \A u \in Pages \ {v} : m.pte[u] = th[p].pte[u] /\ m.own[u] = th[p].own[u]
<1> DEFINE j == Job(p, 0)
           m == Kept(p, v)
           b == th[p].own[v]
           rest == RestOf(th, refs, p)
           pt == [th[p].pte EXCEPT ![v] = Entry(b, TRUE)]
           none == {}
           one == {v}
<1>0. 0 \in Nat
  OBVIOUS
<1>1. /\ Counted(j, rest) /\ j \in Jobs /\ j.own = th[p].own /\ j.pte = th[p].pte /\ j.ok = TRUE
  <2>1. Counted(j, rest) /\ j.own = th[p].own /\ j.pte = th[p].pte /\ j.ok = TRUE
    BY <1>0, JobFacts
  <2> QED BY <2>1 DEF Counted
<1>2. /\ th[p].own \in Owned /\ th[p].pte \in Maps /\ v \in Fields /\ th[p].pte[v].to = b
  BY ThreadFacts DEF Tied
<1>3. b \in Blocks /\ b[2] = v
  BY <1>2, OwnedFacts
<1>4. rest[b] = 0
  <2>1. refs[b] = rest[b] + Held(th[p].own, b)
    BY <1>3, RestSum
  <2>2. Held(th[p].own, b) = 1
    BY <1>3 DEF Held
  <2>3. rest[b] \in Nat
    BY <1>3, RestFacts
  <2> QED BY <2>1, <2>2, <2>3
<1>5. pt \in Maps
  BY <1>2, <1>3 DEF Maps, Entries, Entry, Targets
<1>6. m = [j EXCEPT !.pte = pt]
  BY <1>1, <1>2 DEF Kept
<1> HIDE DEF m, j, pt
<1>7. m \in Jobs /\ m.ok = TRUE /\ m.own = th[p].own /\ m.pte = pt /\ m.refs = j.refs
      /\ m.for = j.for /\ m.par = j.par
  BY <1>1, <1>5, <1>6 DEF Jobs
<1>8. pt[v] = Entry(b, TRUE) /\ \A u \in Pages \ {v} : pt[u] = th[p].pte[u]
  BY <1>2 DEF pt, Maps
<1>9. none \in SUBSET (Fields \ Lasting) /\ none \in SUBSET Fields /\ one \in SUBSET Pages
  OBVIOUS
<1>10. Turned(j, m, rest, none)
  BY <1>1, <1>7, <1>9, Unturned
<1>11. \A u \in Pages \ one : m.own[u] = th[p].own[u] /\ m.pte[u] = th[p].pte[u]
  BY <1>7, <1>8
<1>12. \A u \in one : Tied(m.own, m.pte, u) /\ (m.pte[u].w => rest[m.own[u]] = 0)
  BY <1>4, <1>7, <1>8 DEF Tied, Entry
<1>13. RegionFirst(m.own)
  BY <1>7, ThreadFacts DEF Space
<1>14. GoodFor(p, m)
  <2> HIDE DEF none, one
  <2> QED BY <1>0, <1>9, <1>10, <1>11, <1>12, <1>13, GoodJob DEF j
<1> QED BY <1>7, <1>11, <1>14 DEF m

LEMMA TriedFacts ==
  ASSUME ProcessMemoryAssumption, Fine(th, refs), NEW p \in Procs, NEW v \in Areas,
         NEW store \in BOOLEAN, NEW left \in Nat
  PROVE  LET m == Tried(p, v, store, left)
             n == IF IsDemand(p, v, store) THEN Put(m, {v}) ELSE m
             SigStays(k) == k.pte["sig"] = th[p].pte["sig"] /\ k.own["sig"] = th[p].own["sig"]
         IN  /\ m.ok => GoodFor(p, m) /\ SigStays(m)
             /\ ~m.ok => GoodFor(p, n)
<1> DEFINE m == Tried(p, v, store, left)
           SigStays(k) == k.pte["sig"] = th[p].pte["sig"] /\ k.own["sig"] = th[p].own["sig"]
<1>1. v \in Pages /\ "sig" \in Pages \ {v} /\ th[p] \in Structs /\ th[p].pte[v].to = th[p].own[v]
      /\ (th[p].own[v] = Nothing <=> th[p].pte[v] = NoEntry) /\ refs \in [Blocks -> Nat]
      /\ th[p].own \in Owned
  <2>1. v \in Pages /\ "sig" \in Pages \ {v} /\ refs \in [Blocks -> Nat]
    BY FieldFacts DEF Fine
  <2> QED BY <2>1, ThreadFacts DEF Tied
<1>2. CASE IsDemand(p, v, store)
  <2> DEFINE w == MayWrite(p, v)
             given == Got(Job(p, left), v)
             k == Mapped(given, v, Entry(given.own[v], w))
             back == Put(k, {v})
  <2>1. w \in BOOLEAN
    BY <1>1 DEF MayWrite, Structs
  <2>2. th[p].own[v] = Nothing /\ (v = "mmap" => th[p].own["region"] # Nothing)
    BY <1>1, <1>2 DEF IsDemand
  <2>3. m = k
    BY <1>2 DEF Tried, Demanded
  <2> HIDE DEF m, w
  <2>4. /\ \A u \in Pages \ {v} : k.pte[u] = th[p].pte[u] /\ k.own[u] = th[p].own[u]
        /\ k.ok => GoodFor(p, k)
        /\ ~k.ok => GoodFor(p, back)
    <3>1. v \in Pages
      BY <1>1
    <3> QED BY <2>1, <2>2, <3>1, PageGranted
  <2> HIDE DEF k
  <2>5. SigStays(k)
    BY <1>1, <2>4
  <2> QED BY <1>2, <2>3, <2>4, <2>5 DEF m
<1>3. CASE ~IsDemand(p, v, store) /\ ~IsCow(p, v, store)
  <2> DEFINE j == Job(p, 0)
             k == [j EXCEPT !.ok = FALSE]
             none == {}
  <2>0. 0 \in Nat
    OBVIOUS
  <2>1. Counted(j, RestOf(th, refs, p)) /\ j.own = th[p].own /\ j.pte = th[p].pte
    BY <2>0, JobFacts
  <2>2. m = k
    BY <1>3 DEF Tried
  <2> HIDE DEF m, j
  <2>3. k \in Jobs /\ k.ok = FALSE /\ k.own = j.own /\ k.pte = j.pte /\ k.refs = j.refs
        /\ k.for = j.for /\ k.par = j.par
    BY <2>1 DEF Counted, Jobs
  <2> HIDE DEF k
  <2>4. none \in SUBSET (Fields \ Lasting) /\ none \in SUBSET Fields /\ none \in SUBSET Pages
        /\ \A u \in none : Tied(k.own, k.pte, u) /\ (k.pte[u].w => RestOf(th, refs, p)[k.own[u]] = 0)
    OBVIOUS
  <2>5. Turned(j, k, RestOf(th, refs, p), none)
    BY <2>1, <2>3, <2>4, Unturned
  <2>6. \A u \in Pages \ none : k.own[u] = th[p].own[u] /\ k.pte[u] = th[p].pte[u]
    BY <2>1, <2>3
  <2>7. RegionFirst(k.own)
    BY <2>1, <2>3, ThreadFacts DEF Space
  <2>8. GoodFor(p, k)
    <3> HIDE DEF none
    <3> QED BY <2>0, <2>4, <2>5, <2>6, <2>7, GoodJob DEF j
  <2> QED BY <1>3, <2>2, <2>3, <2>8 DEF m
<1>4. CASE ~IsDemand(p, v, store) /\ IsCow(p, v, store)
  <2>1. th[p].own[v] # Nothing
    BY <1>1, <1>4 DEF IsCow, NoEntry
  <2>2. m = IF refs[th[p].own[v]] <= 1 THEN Kept(p, v) ELSE Copied(p, v, left)
    BY <1>1, <1>4 DEF Tried
  <2>3. refs[th[p].own[v]] \in Nat
    BY <1>1, <2>1, FieldFacts, OwnedFacts
  <2> HIDE DEF m
  <2>4. CASE refs[th[p].own[v]] <= 1
    <3> DEFINE k == Kept(p, v)
    <3>1. /\ GoodFor(p, k) /\ k.ok
          /\ \A u \in Pages \ {v} : k.pte[u] = th[p].pte[u] /\ k.own[u] = th[p].own[u]
      BY <1>1, <2>1, <2>4, KeptFacts
    <3>2. m = k
      BY <2>2, <2>4
    <3> HIDE DEF k
    <3>3. SigStays(k)
      BY <1>1, <3>1
    <3> QED BY <3>1, <3>2, <3>3 DEF m
  <2>5. CASE ~(refs[th[p].own[v]] <= 1)
    <3> DEFINE k == Copied(p, v, left)
    <3>0. refs[th[p].own[v]] > 1
      BY <2>3, <2>5
    <3>1. /\ GoodFor(p, k)
          /\ \A u \in Pages \ {v} : k.pte[u] = th[p].pte[u] /\ k.own[u] = th[p].own[u]
      BY <1>1, <2>1, <3>0, CopyFacts
    <3>2. m = k
      BY <2>2, <2>5
    <3> HIDE DEF k
    <3>3. SigStays(k)
      BY <1>1, <3>1
    <3> QED BY <1>4, <3>1, <3>2, <3>3 DEF m
  <2> QED BY <2>4, <2>5
<1> QED BY <1>2, <1>3, <1>4

LEMMA ServedFaultKeeps ==
  ASSUME ProcessMemoryAssumption, MemoryInv, NEW p \in Procs, NEW v \in Areas,
         NEW store \in BOOLEAN, NEW left \in Nat, ServedFault(p, v, store, left)
  PROVE  MemoryInv'
<1> DEFINE m == Tried(p, v, store, left)
           s == [th[p] EXCEPT !.own = m.own, !.pte = m.pte, !.at = "ret"]
<1>1. cur = p /\ th \in [Procs -> Structs] /\ th[p] \in Structs /\ th[p].status = "RUNNING"
      /\ Fine(th, refs)
  BY InUserFacts DEF ServedFault, Faults, InUser, MemoryInv
<1>2. m.ok /\ refs' = m.refs /\ UNCHANGED <<cur, satp>> /\ th' = [th EXCEPT ![p] = s]
  BY DEF ServedFault, Returns
<1>3. GoodFor(p, m) /\ m.pte["sig"] = th[p].pte["sig"] /\ m.own["sig"] = th[p].own["sig"]
  BY <1>1, <1>2, TriedFacts
<1> HIDE DEF m
<1>4. m.own \in Owned /\ m.pte \in Maps
  BY <1>3 DEF GoodFor, Counted, Jobs
<1>5. s \in Structs /\ s.own = m.own /\ s.pte = m.pte /\ s.status = "RUNNING"
      /\ s.active = th[p].active /\ s.regs = th[p].regs /\ s.saved = th[p].saved
  BY <1>1, <1>4 DEF Structs
<1> HIDE DEF s
<1>6. Handled(s)
  <2>1. Handled(th[p]) /\ th[p].status = "RUNNING"
    BY <1>1, ThreadFacts
  <2> QED BY <1>3, <1>5, <2>1 DEF Handled
<1> QED BY <1>1, <1>2, <1>3, <1>5, <1>6, GoodKeeps

LEMMA SegmentationFaultKeeps ==
  ASSUME ProcessMemoryAssumption, MemoryInv, NEW p \in Procs, NEW v \in Areas,
         NEW store \in BOOLEAN, NEW left \in Nat, SegmentationFault(p, v, store, left)
  PROVE  MemoryInv'
<1> DEFINE m == Tried(p, v, store, left)
           n == IF IsDemand(p, v, store) THEN Put(m, {v}) ELSE m
           d == [Dead(th[p]) EXCEPT !.own = n.own, !.pte = n.pte]
           e == Ended(p)
           ts == [e EXCEPT ![p] = d]
           mid == [th EXCEPT ![p] = d]
<1>1. cur = p /\ th \in [Procs -> Structs] /\ th[p] \in Structs /\ th[p].status = "RUNNING"
      /\ Fine(th, refs) /\ OnHart(th, cur, satp)
  BY InUserFacts DEF SegmentationFault, Faults, InUser, MemoryInv
<1>2. ~m.ok /\ refs' = n.refs /\ Schedule([e EXCEPT ![p].own = n.own, ![p].pte = n.pte])
  BY DEF SegmentationFault
<1>3. GoodFor(p, n)
  BY <1>1, <1>2, TriedFacts
<1>4. e \in [Procs -> Structs] /\ e[p] = Dead(th[p]) /\ \A u \in Procs : Akin(th[u], e[u])
  BY <1>1, EndedFacts
<1> HIDE DEF n, e
<1>5. n.own \in Owned /\ n.pte \in Maps /\ n.own["root"] = th[p].own["root"]
  BY <1>3 DEF GoodFor, Counted, Jobs, Lasting
<1>6. [e EXCEPT ![p].own = n.own, ![p].pte = n.pte] = ts
  BY <1>4
<1>7. d \in Structs /\ d.own = n.own /\ d.pte = n.pte /\ d.status = "TERMINATED"
  BY <1>1, <1>5 DEF Dead, Blank, Structs
<1> HIDE DEF d
<1>8. Handled(d)
  BY <1>7 DEF Handled
<1>9. Fine(mid, n.refs)
  BY <1>1, <1>3, <1>7, <1>8, GoodFine
<1>10. ts \in [Procs -> Structs] /\ ts[p] = d /\ mid[p] = d
       /\ \A u \in Procs \ {p} : ts[u] = e[u] /\ mid[u] = th[u]
  BY <1>1, <1>4, <1>7
<1> HIDE DEF ts, mid
<1>11. \A u \in Procs : Akin(mid[u], ts[u])
  BY <1>4, <1>10 DEF Akin
<1>12. Fine(ts, n.refs)
  BY <1>9, <1>10, <1>11, AkinFine
<1>13. cur \in Threads /\ satp = (IF cur \in Procs THEN ts[cur].own["root"] ELSE Nothing)
  BY <1>1, <1>5, <1>7, <1>10 DEF OnHart
<1>14. Fine(th', n.refs) /\ OnHart(th', cur', satp')
  <2>1. Schedule(ts)
    BY <1>2, <1>6
  <2> QED BY <1>12, <1>13, <2>1, ScheduleKeeps
<1> QED BY <1>2, <1>14 DEF MemoryInv

-----------------------------------------------------------------------------
(* Fork.  Sharing takes the writing away from the parent, no more.           *)
LEMMA MakeCowFacts ==
  ASSUME NEW e \in Entries
  PROVE  /\ MakeCow(e) \in Entries /\ MakeCow(e).to = e.to /\ ~MakeCow(e).w
         /\ ~e.w => MakeCow(e) = e
         /\ MakeCow(MakeCow(e)) = MakeCow(e)
BY DEF MakeCow, Entries

LEMMA ParentMarked ==
  ASSUME ProcessMemoryAssumption, Fine(th, refs), NEW p \in Procs, NEW par \in Maps,
         th[p].status # "none",
         \A v \in Pages : par[v] \in {th[p].pte[v], MakeCow(th[p].pte[v])},
         par["sig"] = th[p].pte["sig"]
  PROVE  LET s == [th[p] EXCEPT !.pte = par, !.at = "ret"]
         IN  /\ Fine([th EXCEPT ![p] = s], refs)
             /\ s \in Structs /\ s.own = th[p].own /\ s.pte = par /\ s.status = th[p].status
<1> DEFINE s == [th[p] EXCEPT !.pte = par, !.at = "ret"]
           m == Job(p, 0)
<1>0. 0 \in Nat
  OBVIOUS
<1>1. Counted(m, RestOf(th, refs, p)) /\ m.own = th[p].own /\ m.refs = refs
  BY <1>0, JobFacts
<1>2. th[p] \in Structs /\ Space(th[p]) /\ Handled(th[p])
  BY ThreadFacts
<1>3. s \in Structs /\ s.own = th[p].own /\ s.pte = par /\ s.status = th[p].status
      /\ s.active = th[p].active /\ s.regs = th[p].regs /\ s.saved = th[p].saved
  BY <1>2 DEF Structs
<1> HIDE DEF s, m
<1>4. ASSUME NEW v \in Pages
      PROVE  Tied(s.own, s.pte, v) /\ (s.pte[v].w => th[p].pte[v].w)
  <2>1. th[p].pte[v] \in Entries /\ Tied(th[p].own, th[p].pte, v)
    BY ThreadFacts
  <2>2. s.pte[v].to = th[p].pte[v].to /\ (~th[p].pte[v].w => s.pte[v] = th[p].pte[v])
        /\ (s.pte[v].w => th[p].pte[v].w)
    BY <1>3, <2>1, MakeCowFacts
  <2> QED BY <1>3, <2>1, <2>2, NothingFacts DEF Tied
<1>5. Space(s)
  BY <1>2, <1>3, <1>4 DEF Space
<1>6. Handled(s)
  BY <1>2, <1>3 DEF Handled
<1>7. \A v \in Pages : s.pte[v].w => RestOf(th, refs, p)[s.own[v]] = 0
  BY <1>3, <1>4, WritableAlone
<1>8. \A f \in Fields : m.own[f] \in {th[p].own[f], Nothing}
  BY <1>1
<1>9. Fine([th EXCEPT ![p] = s], m.refs)
  BY <1>1, <1>3, <1>5, <1>6, <1>7, <1>8, JobEnds
<1> QED BY <1>1, <1>3, <1>9 DEF s

(* A clone under way for t: it has pages of p's that p cannot write any      *)
(* more, of those that have been shared so far.                              *)
Cloned(m, p, t, shared) ==
  /\ Counted(m, RestOf(th, refs, t)) /\ m.for = t
  /\ m.par["sig"] = th[p].pte["sig"]
  /\ \A v \in Pages :
       /\ m.par[v] \in {th[p].pte[v], MakeCow(th[p].pte[v])}
       /\ m.own[v] = Nothing \/ (v \in shared /\ m.own[v] = th[p].own[v] /\ ~m.par[v].w)
       /\ Tied(m.own, m.pte, v) /\ ~m.pte[v].w

LEMMA ClonedOn ==
  ASSUME NEW p \in Procs, NEW t \in Procs, NEW shared, NEW m, Cloned(m, p, t, shared), NEW n,
         NEW fs \in SUBSET Fields, \A v \in Pages : v \in Fields \ fs,
         Turned(m, n, RestOf(th, refs, t), fs), n.pte = m.pte
  PROVE  Cloned(n, p, t, shared)
<1>1. Counted(n, RestOf(th, refs, t)) /\ n.for = t /\ n.par = m.par
  BY DEF Turned, Cloned
<1>2. \A v \in Pages : n.own[v] = m.own[v]
  BY DEF Turned
<1> QED BY <1>1, <1>2 DEF Cloned, Tied

LEMMA ShareFacts ==
  ASSUME ProcessMemoryAssumption, Fine(th, refs), NEW p \in Procs, NEW t \in Procs,
         NEW shared, NEW m, Cloned(m, p, t, shared), NEW v, v \notin shared, v # "sig"
  PROVE  LET n == SharePage(m, p, v)
         IN  /\ Cloned(n, p, t, shared \cup {v}) /\ (n.ok => m.ok)
             /\ \A f \in Fields \ {v, TableOf(v)} : n.own[f] = m.own[f]
<1> DEFINE rest == RestOf(th, refs, t)
           e == MakeCow(m.par[v])
           b == e.to
           i == [m EXCEPT !.par[v] = e]
           k == Shared(i, v, b)
           n == Mapped(k, v, e)
           one == {v}
           back == Put(n, one)
           more == shared \cup {v}
<1>1. CASE v \notin Areas \/ ~m.ok \/ th[p].own[v] = Nothing
  <2>1. SharePage(m, p, v) = m
    BY <1>1 DEF SharePage
  <2>2. Cloned(m, p, t, more)
    BY DEF Cloned
  <2> QED BY <2>1, <2>2
<1>2. CASE v \in Areas /\ m.ok /\ th[p].own[v] # Nothing
  <2>1. v \in Pages /\ v \in Fields /\ TableOf(v) \in Fields \ Pages /\ "sig" \in Pages
    BY <1>2, FieldFacts
  <2>2. m \in Jobs /\ rest \in Rests /\ rest \in [Blocks -> Nat] /\ m.own[v] = Nothing
        /\ \A c \in Blocks : m.refs[c] = rest[c] + Held(m.own, c)
    <3>1. rest \in Rests
      BY RestFacts
    <3>2. Counted(m, rest) /\ m.own[v] = Nothing
      BY <2>1 DEF Cloned
    <3> QED BY <3>1, <3>2 DEF Counted, Rests
  <2>3. th[p].pte[v] \in Entries /\ th[p].pte[v].to = th[p].own[v] /\ th[p].own \in Owned
    BY <2>1, ThreadFacts DEF Tied
  <2>4. e \in Entries /\ b = th[p].own[v] /\ ~e.w /\ e = MakeCow(th[p].pte[v])
    <3>1. m.par[v] \in {th[p].pte[v], MakeCow(th[p].pte[v])}
      BY <2>1 DEF Cloned
    <3> QED BY <2>3, <3>1, MakeCowFacts
  <2>5. b \in Blocks /\ b[2] = v
    <3>1. th[p].own[v] \in Blocks /\ th[p].own[v][2] = v
      BY <1>2, <2>1, <2>3, OwnedFacts
    <3> QED BY <2>4, <3>1
  <2> HIDE DEF rest, e
  <2> DEFINE pr == [m.par EXCEPT ![v] = e]
             rs == [m.refs EXCEPT ![b] = m.refs[b] + 1]
             o == [m.own EXCEPT ![v] = b]
  <2>6. i = [m EXCEPT !.par = pr]
    OBVIOUS
  <2>7. pr \in Maps /\ rs \in [Blocks -> Nat] /\ o \in Owned
    <3>1. m.par \in Maps /\ m.refs \in [Blocks -> Nat] /\ m.own \in Owned
      BY <2>2 DEF Jobs
    <3>2. pr \in Maps
      BY <2>4, <3>1 DEF Maps
    <3>3. rs \in [Blocks -> Nat]
      BY <2>5, <3>1
    <3>4. o \in Owned
      BY <1>2, <2>1, <2>4, <2>5, <3>1, OwnedFacts
    <3> QED BY <3>2, <3>3, <3>4
  <2>8. pr[v] = e /\ (\A u \in Pages \ {v} : pr[u] = m.par[u])
        /\ o[v] = b /\ (\A f \in Fields \ {v} : o[f] = m.own[f])
        /\ rs[b] = m.refs[b] + 1 /\ (\A c \in Blocks \ {b} : rs[c] = m.refs[c])
    BY <2>1, <2>2, <2>5 DEF Jobs, Maps, Owned
  <2>9. i \in Jobs /\ i.par = pr /\ i.own = m.own /\ i.refs = m.refs /\ i.pte = m.pte
        /\ i.for = m.for /\ i.ok = m.ok
    <3> HIDE DEF pr, i
    <3> QED BY <2>2, <2>6, <2>7 DEF Jobs
  <2>10. k = [i EXCEPT !.refs = rs, !.own = o]
    <3> HIDE DEF i
    <3> QED BY <2>9 DEF Shared
  <2> HIDE DEF pr, rs, o, i, k
  <2>11. k \in Jobs /\ k.refs = rs /\ k.own = o /\ k.par = pr /\ k.pte = m.pte /\ k.for = m.for
         /\ k.ok = m.ok
    BY <2>7, <2>9, <2>10 DEF Jobs
  <2>12. ASSUME NEW c \in Blocks PROVE k.refs[c] = rest[c] + Held(k.own, c)
    <3>1. m.refs[c] = rest[c] + Held(m.own, c) /\ rest[c] \in Nat
      BY <2>2
    <3>2. CASE c = b
      <4>1. Held(m.own, c) = 0 /\ Held(k.own, c) = 1 /\ k.refs[c] = m.refs[c] + 1
        BY <2>2, <2>5, <2>8, <2>11, <3>2, NothingFacts DEF Held
      <4> QED BY <3>1, <4>1
    <3>3. CASE c # b
      <4>1. k.refs[c] = m.refs[c]
        BY <2>8, <2>11, <3>3
      <4>2. c[2] \in Fields /\ c # Nothing
        BY NothingFacts
      <4>3. Held(k.own, c) = Held(m.own, c)
        BY <2>2, <2>8, <2>11, <3>3, <4>2 DEF Held
      <4> QED BY <3>1, <4>1, <4>3
    <3> QED BY <3>2, <3>3
  <2>13. Counted(k, rest)
    BY <2>2, <2>11, <2>12 DEF Counted
  <2> DEFINE two == {TableOf(v)}
  <2>14. /\ Turned(k, n, rest, two)
         /\ IF n.ok THEN k.ok /\ n.pte = [k.pte EXCEPT ![v] = e] ELSE n.pte = k.pte
    BY <2>1, <2>2, <2>4, <2>13, MappedFacts
  <2>15. SharePage(m, p, v) = IF n.ok THEN n ELSE back
    BY <1>2 DEF SharePage, k, i, e
  <2> HIDE DEF n
  <2>16. n.for = t /\ n.par = pr /\ Counted(n, rest)
         /\ \A f \in Fields \ two : n.own[f] = k.own[f]
    BY <2>11, <2>14 DEF Turned, Cloned
  <2>17. n.own[v] = b /\ \A f \in Fields \ {v, TableOf(v)} : n.own[f] = m.own[f]
    BY <2>1, <2>8, <2>11, <2>16
  <2>18. \A u \in Pages \ {v} : n.own[u] = m.own[u] /\ pr[u] = m.par[u]
    BY <2>1, <2>8, <2>17, FieldFacts
  <2>19. pr["sig"] = th[p].pte["sig"] /\ pr[v] = e /\ \A u \in Pages : pr[u] \in {th[p].pte[u], MakeCow(th[p].pte[u])}
    BY <2>1, <2>4, <2>8 DEF Cloned
  <2>20. CASE n.ok
    <3>1. n.pte = [m.pte EXCEPT ![v] = e] /\ m.pte \in Maps
      BY <2>2, <2>11, <2>14, <2>20 DEF Jobs
    <3>2. n.pte[v] = e /\ \A u \in Pages \ {v} : n.pte[u] = m.pte[u]
      BY <2>1, <3>1 DEF Maps
    <3>3. ASSUME NEW u \in Pages
          PROVE  /\ n.own[u] = Nothing \/ (u \in more /\ n.own[u] = th[p].own[u] /\ ~n.par[u].w)
                 /\ Tied(n.own, n.pte, u) /\ ~n.pte[u].w
      <4>1. CASE u = v
        <5>1. n.own[u] = b /\ n.pte[u] = e /\ n.par[u] = e /\ b # Nothing
          BY <2>5, <2>16, <2>17, <2>19, <3>2, <4>1, NothingFacts
        <5> QED BY <2>4, <4>1, <5>1 DEF Tied
      <4>2. CASE u # v
        <5>1. n.own[u] = m.own[u] /\ n.pte[u] = m.pte[u] /\ n.par[u] = m.par[u]
          BY <2>16, <2>18, <3>2, <4>2
        <5> QED BY <5>1 DEF Cloned, Tied
      <4> QED BY <4>1, <4>2
    <3>4. Cloned(n, p, t, more)
      BY <2>16, <2>19, <3>3 DEF Cloned, rest
    <3> QED BY <1>2, <2>15, <2>17, <2>20, <3>4
  <2>21. CASE ~n.ok
    <3>1. /\ Turned(n, back, rest, one) /\ back.pte = n.pte /\ back.ok = n.ok
          /\ \A f \in one : back.own[f] = Nothing
      <4>1. one \in SUBSET Fields
        BY <2>1
      <4> HIDE DEF one
      <4> QED BY <2>16, <4>1, PutFacts
    <3> HIDE DEF back
    <3>2. back.for = t /\ back.par = pr /\ Counted(back, rest) /\ back.own[v] = Nothing
          /\ \A f \in Fields \ {v} : back.own[f] = n.own[f]
      BY <2>16, <3>1 DEF Turned
    <3>3. back.pte = m.pte /\ ~back.ok
      BY <2>11, <2>14, <2>21, <3>1
    <3>4. ASSUME NEW u \in Pages
          PROVE  /\ back.own[u] = Nothing \/ (u \in more /\ back.own[u] = th[p].own[u] /\ ~back.par[u].w)
                 /\ Tied(back.own, back.pte, u) /\ ~back.pte[u].w
      <4>1. back.own[u] = m.own[u]
        BY <2>2, <2>18, <3>2, FieldFacts
      <4>2. u = v \/ back.par[u] = m.par[u]
        BY <2>18, <3>2
      <4>3. Tied(m.own, m.pte, u) /\ ~m.pte[u].w
            /\ (m.own[u] = Nothing \/ (u \in shared /\ m.own[u] = th[p].own[u] /\ ~m.par[u].w))
        BY DEF Cloned
      <4> QED BY <2>2, <3>3, <4>1, <4>2, <4>3 DEF Tied
    <3>5. Cloned(back, p, t, more)
      BY <2>19, <3>2, <3>4 DEF Cloned, rest
    <3>6. \A f \in Fields \ {v, TableOf(v)} : back.own[f] = m.own[f]
      BY <2>17, <3>2
    <3> QED BY <2>15, <2>21, <3>3, <3>5, <3>6
  <2> QED BY <2>20, <2>21
<1> QED BY <1>1, <1>2

(* What a clone has for sure when all its allocations have succeeded.        *)
Whole(m) == m.ok => Built(m.own)
NoRegion(m) == \A f \in {"region", "frames"} \cap Fields : m.own[f] = Nothing

Shareable == {"image", "stack", "mmap"}

LEMMA ShareKeepsWhole ==
  ASSUME ProcessMemoryAssumption, Fine(th, refs), NEW p \in Procs, NEW t \in Procs,
         NEW shared, NEW m, Cloned(m, p, t, shared), NEW v \in Shareable, v \notin shared
  PROVE  LET n == SharePage(m, p, v)
         IN  /\ Cloned(n, p, t, shared \cup {v}) /\ (n.ok => m.ok)
             /\ Whole(m) => Whole(n)
             /\ "mmap" \in Areas => n.own["region"] = m.own["region"] /\ n.own["frames"] = m.own["frames"]
<1> DEFINE n == SharePage(m, p, v)
<1>1. /\ Cloned(n, p, t, shared \cup {v}) /\ (n.ok => m.ok)
      /\ \A f \in Fields \ {v, TableOf(v)} : n.own[f] = m.own[f]
  BY v # "sig", ShareFacts DEF Shareable
<1>2. n = m \/ v \in Pages
  BY DEF SharePage, Pages
<1>3. CASE v \notin Pages
  BY <1>1, <1>2, <1>3
<1>4. CASE v \in Pages
  <2>1. Lasting \subseteq Fields \ {v, TableOf(v)}
    BY <1>4, FieldFacts DEF Lasting
  <2>2. "mmap" \in Areas => {"region", "frames"} \subseteq Fields \ {v, TableOf(v)}
    BY <1>4, FieldFacts
  <2> HIDE DEF n
  <2>3. \A f \in Lasting : n.own[f] = m.own[f]
    BY <1>1, <2>1
  <2>4. Whole(m) => Whole(n)
    BY <1>1, <2>3 DEF Whole, Built, Lasting
  <2> QED BY <1>1, <2>2, <2>4 DEF n
<1> QED BY <1>3, <1>4

LEMMA ForkJobFacts ==
  ASSUME ProcessMemoryAssumption, Fine(th, refs), NEW p \in Procs, NEW t \in Procs,
         th[t].status = "none", NEW left \in Nat
  PROVE  LET m == ForkJob(p, t, left)
         IN  /\ Cloned(m, p, t, Shareable)
             /\ m.ok => Built(m.own) /\ RegionFirst(m.own)
<1> DEFINE rest == RestOf(th, refs, t)
           j0 == NewJob(t, left)
           j == [j0 EXCEPT !.par = th[p].pte]
           f1 == "struct"
           f2 == "kernel stack"
           f3 == "images"
           f4 == "stacks"
           root == "root"
           a == Got2(j, f1, f2)
           a2 == Got(a, root)
           b == Got2(a2, f3, f4)
           c == SharePage(b, p, "image")
           d == SharePage(c, p, "stack")
           kern == {f1, f2}
           rt == {root}
           arrays == {f3, f4}
           none == {}
           img == none \cup {"image"}
           img2 == img \cup {"stack"}
<1>1. rest \in Rests
  BY RestFacts
<1>2. Counted(j0, rest) /\ j0.for = t /\ j0.pte = Unmapped /\ \A f \in Fields : j0.own[f] = Nothing
  BY NewJobFacts
<1>3. th[p].pte \in Maps
  BY ThreadFacts
<1> HIDE DEF j0, rest
<1>4. /\ Counted(j, rest) /\ j.for = t /\ j.pte = Unmapped /\ j.par = th[p].pte
      /\ \A f \in Fields : j.own[f] = Nothing
  <2>1. j \in Jobs /\ j.for = j0.for /\ j.pte = j0.pte /\ j.par = th[p].pte /\ j.own = j0.own
        /\ j.refs = j0.refs
    BY <1>2, <1>3 DEF Counted, Jobs
  <2> QED BY <1>2, <2>1 DEF Counted
<1> HIDE DEF j
<1>5. Cloned(j, p, t, none)
  <2>1. \A v \in Pages : /\ j.own[v] = Nothing /\ j.pte[v] = NoEntry
                         /\ j.par[v] \in {th[p].pte[v], MakeCow(th[p].pte[v])}
    BY <1>4, FieldFacts, NothingFacts
  <2> QED BY <1>4, <2>1, NothingFacts DEF Cloned, Tied, rest
<1>f. /\ f1 \in Fields /\ f2 \in Fields /\ f3 \in Fields /\ f4 \in Fields /\ root \in Fields
      /\ f1 # f2 /\ f3 # f4 /\ root \notin kern /\ f3 \notin kern \cup rt /\ f4 \notin kern \cup rt
      /\ f1 \notin rt \cup arrays /\ f2 \notin rt \cup arrays /\ root \notin arrays
      /\ kern \in SUBSET Fields /\ rt \in SUBSET Fields /\ arrays \in SUBSET Fields
      /\ (\A v \in Pages : v \in Fields \ kern /\ v \in Fields \ rt /\ v \in Fields \ arrays)
  <2>1. kern \subseteq Fields \ Pages /\ rt \subseteq Fields \ Pages /\ arrays \subseteq Fields \ Pages
    BY FieldFacts
  <2> QED BY <2>1, FieldFacts
<1>g. "mmap" \in Areas => /\ "region" \in Fields \ (kern \cup rt \cup arrays)
                          /\ "frames" \in Fields \ (kern \cup rt \cup arrays)
  BY FieldFacts
<1> HIDE DEF f1, f2, f3, f4, root
<1>6. /\ Turned(j, a, rest, kern) /\ Counted(a, rest) /\ a.pte = j.pte
      /\ a.ok => j.ok /\ a.own[f1] # Nothing /\ a.own[f2] # Nothing
      /\ \A h \in Fields \ kern : a.own[h] = j.own[h]
  <2>1. j.own[f1] = Nothing /\ j.own[f2] = Nothing /\ f1 \in Fields /\ f2 \in Fields /\ f1 # f2
    BY <1>4, <1>f
  <2>2. /\ Turned(j, a, rest, {f1, f2}) /\ Counted(a, rest) /\ a.pte = j.pte
        /\ a.ok => j.ok /\ a.own[f1] # Nothing /\ a.own[f2] # Nothing
        /\ \A h \in Fields \ {f1, f2} : a.own[h] = j.own[h]
    BY <1>1, <1>4, <2>1, GotTwoFacts
  <2> QED BY <2>2
<1> HIDE DEF a
<1>7. /\ Turned(a, a2, rest, rt) /\ Counted(a2, rest) /\ a2.pte = a.pte
      /\ a2.ok => a.ok /\ a2.own[root] # Nothing
      /\ \A g \in Fields \ rt : a2.own[g] = a.own[g]
  <2>1. a.own[root] = Nothing /\ root \in Fields /\ root \in {root} /\ {root} \in SUBSET Fields
    BY <1>4, <1>6, <1>f
  <2>2. /\ Turned(a, a2, rest, {root}) /\ Counted(a2, rest) /\ a2.pte = a.pte
        /\ a2.ok => a.ok /\ a2.own[root] # Nothing
        /\ \A g \in Fields \ {root} : a2.own[g] = a.own[g]
    BY <1>1, <1>6, <2>1, GotOne
  <2> QED BY <2>2
<1> HIDE DEF a2
<1>8. /\ Turned(a2, b, rest, arrays) /\ Counted(b, rest) /\ b.pte = a2.pte
      /\ b.ok => a2.ok /\ b.own[f3] # Nothing /\ b.own[f4] # Nothing
      /\ \A h \in Fields \ arrays : b.own[h] = a2.own[h]
  <2>1. a2.own[f3] = Nothing /\ a2.own[f4] = Nothing /\ f3 \in Fields /\ f4 \in Fields /\ f3 # f4
    BY <1>4, <1>6, <1>7, <1>f
  <2>2. /\ Turned(a2, b, rest, {f3, f4}) /\ Counted(b, rest) /\ b.pte = a2.pte
        /\ b.ok => a2.ok /\ b.own[f3] # Nothing /\ b.own[f4] # Nothing
        /\ \A h \in Fields \ {f3, f4} : b.own[h] = a2.own[h]
    BY <1>1, <1>7, <2>1, GotTwoFacts
  <2> QED BY <2>2
<1> HIDE DEF b
<1>9. Whole(b)
  <2>1. b.ok => /\ b.own[f1] # Nothing /\ b.own[f2] # Nothing /\ b.own[f3] # Nothing
                /\ b.own[f4] # Nothing /\ b.own[root] # Nothing
    BY <1>6, <1>7, <1>8, <1>f
  <2> QED BY <2>1 DEF Whole, Built, f1, f2, f3, f4, root
<1>10. "mmap" \in Areas => b.own["region"] = Nothing /\ b.own["frames"] = Nothing
  BY <1>4, <1>6, <1>7, <1>8, <1>g
<1>11. Cloned(b, p, t, none)
  <2> HIDE DEF kern, rt, arrays, none
  <2>1. Cloned(a, p, t, none)
    BY <1>5, <1>6, <1>f, ClonedOn DEF rest
  <2>2. Cloned(a2, p, t, none)
    BY <1>7, <1>f, <2>1, ClonedOn DEF rest
  <2> QED BY <1>8, <1>f, <2>2, ClonedOn DEF rest
<1>12. /\ Cloned(c, p, t, img) /\ Whole(c)
       /\ "mmap" \in Areas => c.own["region"] = Nothing /\ c.own["frames"] = Nothing
  <2> DEFINE v == "image"
  <2>1. v \in Shareable /\ v \notin none
    BY DEF Shareable
  <2> HIDE DEF v, none
  <2>2. LET n == SharePage(b, p, v)
        IN  /\ Cloned(n, p, t, none \cup {v}) /\ (n.ok => b.ok)
            /\ Whole(b) => Whole(n)
            /\ "mmap" \in Areas => n.own["region"] = b.own["region"] /\ n.own["frames"] = b.own["frames"]
    BY <1>11, <2>1, ShareKeepsWhole
  <2> QED BY <1>9, <1>10, <2>2 DEF v
<1> HIDE DEF c
<1>13. /\ Cloned(d, p, t, img2) /\ Whole(d)
       /\ "mmap" \in Areas => d.own["region"] = Nothing /\ d.own["frames"] = Nothing
  <2> DEFINE v == "stack"
  <2>1. v \in Shareable /\ v \notin img
    BY DEF Shareable
  <2> HIDE DEF v, img
  <2>2. LET n == SharePage(c, p, v)
        IN  /\ Cloned(n, p, t, img \cup {v}) /\ (n.ok => c.ok)
            /\ Whole(c) => Whole(n)
            /\ "mmap" \in Areas => n.own["region"] = c.own["region"] /\ n.own["frames"] = c.own["frames"]
    BY <1>12, <2>1, ShareKeepsWhole
  <2> QED BY <1>12, <2>2 DEF v
<1>14. ForkJob(p, t, left) = ShareRegion(d, p)
  BY DEF ForkJob, CloneCow, d, c, b, a2, a, j, j0, f1, f2, f3, f4, root
<1> HIDE DEF d
<1> DEFINE all == Shareable
<1>15. CASE "mmap" \notin Areas \/ th[p].own["region"] = Nothing
  <2>1. ForkJob(p, t, left) = d
    BY <1>14, <1>15 DEF ShareRegion
  <2>2. Cloned(d, p, t, all)
    BY <1>13 DEF Cloned, Shareable
  <2>3. "mmap" \in Areas => d.own["mmap"] = Nothing
    <3>1. SUFFICES ASSUME "mmap" \in Areas PROVE d.own["mmap"] = Nothing
      OBVIOUS
    <3>2. "mmap" \in Pages
      BY <3>1, FieldFacts
    <3>3. d.own["mmap"] = Nothing \/ "mmap" \in img2
      BY <1>13, <3>2 DEF Cloned
    <3> QED BY <3>3
  <2>4. RegionFirst(d.own)
    BY <1>13, <2>3 DEF RegionFirst
  <2> QED BY <1>13, <2>1, <2>2, <2>4 DEF Whole
<1>16. CASE "mmap" \in Areas /\ th[p].own["region"] # Nothing
  <2> DEFINE g1 == "region"
             g2 == "frames"
             two == {g1, g2}
             r == Got2(d, g1, g2)
             m == SharePage(r, p, "mmap")
  <2>1. ForkJob(p, t, left) = m
    BY <1>14, <1>16 DEF ShareRegion, ShareRegionPage
  <2>2. g1 \in Fields /\ g2 \in Fields /\ g1 # g2 /\ two \in SUBSET Fields /\ two \cap Lasting = {}
        /\ (\A v \in Pages : v \in Fields \ two) /\ Lasting \subseteq Fields
    <3>1. {"region", "frames"} \subseteq Fields \ Pages /\ Pages \subseteq Fields /\ Lasting \subseteq Fields
      BY <1>16, FieldFacts DEF Lasting
    <3> QED BY <3>1 DEF Lasting
  <2>3. d.own[g1] = Nothing /\ d.own[g2] = Nothing /\ Counted(d, rest)
    BY <1>13, <1>16 DEF Cloned, rest
  <2> HIDE DEF g1, g2
  <2>4. /\ Turned(d, r, rest, {g1, g2}) /\ r.pte = d.pte
        /\ r.ok => d.ok /\ r.own[g1] # Nothing /\ r.own[g2] # Nothing
        /\ \A h \in Fields \ {g1, g2} : r.own[h] = d.own[h]
    <3>1. g1 \in Fields /\ g2 \in Fields /\ g1 # g2
      BY <2>2
    <3> QED BY <1>1, <2>3, <3>1, GotTwoFacts
  <2> HIDE DEF r
  <2>5. Cloned(r, p, t, img2)
    <3>1. Turned(d, r, rest, two)
      BY <2>4
    <3> HIDE DEF two, img2
    <3> QED BY <1>13, <2>2, <2>4, <3>1, ClonedOn DEF rest
  <2>6. Whole(r)
    <3>1. \A f \in Lasting : r.own[f] = d.own[f]
      BY <2>2, <2>4
    <3> QED BY <1>13, <2>4, <3>1 DEF Whole, Built, Lasting
  <2>7. /\ Cloned(m, p, t, all) /\ (m.ok => r.ok) /\ Whole(m)
        /\ m.own[g1] = r.own[g1]
    <3> DEFINE v == "mmap"
    <3>1. v \in Shareable /\ v \notin img2 /\ img2 \cup {v} = all
      BY DEF Shareable
    <3> HIDE DEF v, img2, all
    <3>2. LET n == SharePage(r, p, v)
          IN  /\ Cloned(n, p, t, img2 \cup {v}) /\ (n.ok => r.ok)
              /\ Whole(r) => Whole(n)
              /\ "mmap" \in Areas => n.own["region"] = r.own["region"] /\ n.own["frames"] = r.own["frames"]
      BY <2>5, <3>1, ShareKeepsWhole
    <3>3. LET n == SharePage(r, p, v)
          IN  Cloned(n, p, t, all) /\ (n.ok => r.ok) /\ Whole(n) /\ n.own["region"] = r.own["region"]
      BY <1>16, <2>6, <3>1, <3>2
    <3> QED BY <3>3 DEF v, g1
  <2> HIDE DEF m
  <2>8. m.ok => m.own["region"] # Nothing
    BY <2>4, <2>7 DEF g1
  <2> QED BY <2>1, <2>7, <2>8 DEF Whole, RegionFirst
<1> QED BY <1>15, <1>16

(* What a thread is buried with, or what a failed fork gives back, is all.   *)
LEMMA AllGivenBack ==
  ASSUME ProcessMemoryAssumption, NEW rest, NEW m, Counted(m, rest)
  PROVE  LET back == Put(Destroyed(m), {"struct", "kernel stack"})
         IN  Counted(back, rest) /\ \A f \in Fields : back.own[f] = Nothing
<1> DEFINE d == Destroyed(m)
           kern == {"struct", "kernel stack"}
           back == Put(d, kern)
<1>1. Turned(m, d, rest, SpaceFields) /\ Counted(d, rest) /\ \A f \in SpaceFields : d.own[f] = Nothing
  BY DestroyedFacts DEF Turned
<1> HIDE DEF d
<1>2. kern \in SUBSET Fields /\ \A f \in Fields \ kern : f \in SpaceFields
  BY FieldFacts
<1> HIDE DEF kern
<1>3. Turned(d, back, rest, kern) /\ Counted(back, rest) /\ \A f \in kern : back.own[f] = Nothing
  BY <1>1, <1>2, PutFacts DEF Turned
<1> HIDE DEF back
<1>4. \A f \in Fields : back.own[f] = Nothing
  BY <1>1, <1>2, <1>3 DEF Turned
<1> QED BY <1>3, <1>4 DEF back, kern, d

LEMMA ForkFailsKeeps ==
  ASSUME ProcessMemoryAssumption, MemoryInv, NEW p \in Procs, NEW t \in Procs, NEW left \in Nat,
         ForkFails(p, t, left)
  PROVE  MemoryInv'
<1> DEFINE m == ForkJob(p, t, left)
           back == Put(Destroyed(m), {"struct", "kernel stack"})
           rest == RestOf(th, refs, t)
           s == [th[p] EXCEPT !.pte = m.par, !.at = "ret"]
<1>1. cur = p /\ th \in [Procs -> Structs] /\ th[p] \in Structs /\ th[p].status = "RUNNING"
      /\ Fine(th, refs) /\ OnHart(th, cur, satp) /\ th[t].status = "none"
  BY InUserFacts DEF ForkFails, MayFork, InUser, MemoryInv
<1>2. refs' = back.refs /\ UNCHANGED <<cur, satp>> /\ th' = [th EXCEPT ![p] = s]
  BY DEF ForkFails, Returns
<1>3. Cloned(m, p, t, Shareable)
  BY <1>1, ForkJobFacts
<1> HIDE DEF m
<1>4. m.par \in Maps /\ Counted(m, rest) /\ m.par["sig"] = th[p].pte["sig"]
      /\ \A v \in Pages : m.par[v] \in {th[p].pte[v], MakeCow(th[p].pte[v])}
  BY <1>3 DEF Cloned, Counted, Jobs
<1>7. Counted(back, rest) /\ \A f \in Fields : back.own[f] = Nothing
  BY <1>4, AllGivenBack
<1> HIDE DEF back
<1>8. \A f \in Fields : th[t].own[f] = Nothing
  BY <1>1, NewJobFacts, 0 \in Nat
<1>9. back.refs = refs
  BY <1>1, <1>7, <1>8, AllBack
<1>10. Fine([th EXCEPT ![p] = s], refs) /\ s \in Structs /\ s.own = th[p].own /\ s.status = th[p].status
  BY <1>1, <1>4, ParentMarked
<1> HIDE DEF s
<1>11. OnHart(th', cur', satp')
  <2>1. th'[p] = s
    BY <1>1, <1>2
  <2> QED BY <1>1, <1>2, <1>10, <2>1 DEF OnHart
<1> QED BY <1>2, <1>9, <1>10, <1>11 DEF MemoryInv

LEMMA ForkKeeps ==
  ASSUME ProcessMemoryAssumption, ~ForkInHandler, MemoryInv, NEW p \in Procs, NEW t \in Procs,
         NEW left \in Nat, Fork(p, t, left)
  PROVE  MemoryInv'
<1> DEFINE m == ForkJob(p, t, left)
           rest == RestOf(th, refs, t)
           s == [th[p] EXCEPT !.pte = m.par, !.at = "ret"]
           mid == [th EXCEPT ![p] = s]
           child == [th[p] EXCEPT !.status = "READY", !.parent = p, !.pending = {},
                       !.active = FALSE, !.saved = "none", !.own = m.own, !.pte = m.pte,
                       !.at = "ret"]
           ts == [mid EXCEPT ![t] = child]
<1>1. cur = p /\ th \in [Procs -> Structs] /\ th[p] \in Structs /\ th[p].status = "RUNNING"
      /\ Fine(th, refs) /\ OnHart(th, cur, satp) /\ th[t].status = "none" /\ th[p].regs = "main"
  BY InUserFacts DEF Fork, MayFork, InUser, MemoryInv
<1>2. m.ok /\ refs' = m.refs /\ UNCHANGED <<cur, satp>>
      /\ th' = [th EXCEPT ![p].pte = m.par, ![p].at = "ret", ![t] = child]
  BY DEF Fork
<1>3. Cloned(m, p, t, Shareable) /\ Built(m.own) /\ RegionFirst(m.own)
  BY <1>1, <1>2, ForkJobFacts
<1> HIDE DEF m
<1>4. /\ m.par \in Maps /\ Counted(m, rest) /\ m.par["sig"] = th[p].pte["sig"]
      /\ m.own \in Owned /\ m.pte \in Maps /\ m.refs \in [Blocks -> Nat]
      /\ \A b \in Blocks : m.refs[b] = rest[b] + Held(m.own, b)
      /\ \A v \in Pages :
           /\ m.par[v] \in {th[p].pte[v], MakeCow(th[p].pte[v])}
           /\ m.own[v] = Nothing \/ (v \in Shareable /\ m.own[v] = th[p].own[v] /\ ~m.par[v].w)
           /\ Tied(m.own, m.pte, v) /\ ~m.pte[v].w
  BY <1>3 DEF Cloned, Counted, Jobs
<1>5. /\ Fine(mid, refs) /\ s \in Structs /\ s.own = th[p].own /\ s.pte = m.par
      /\ s.status = "RUNNING"
  BY <1>1, <1>4, ParentMarked
<1>6. child \in Structs /\ child.own = m.own /\ child.pte = m.pte /\ child.status = "READY"
      /\ child.active = FALSE /\ child.regs = "main"
  BY <1>1, <1>4 DEF Structs
<1>7. th' = ts
  BY <1>1, <1>2
<1> HIDE DEF s, child
<1>8. p # t /\ mid \in [Procs -> Structs] /\ mid[p] = s /\ (\A q \in Procs \ {p} : mid[q] = th[q])
      /\ mid[t] = th[t]
  BY <1>1, <1>5
<1> HIDE DEF mid
<1>9. RestOf(mid, refs, t) = rest
  BY <1>8 DEF RestOf
<1>10. Space(child)
  BY <1>3, <1>4, <1>6 DEF Space
<1>11. Handled(child)
  <2>1. "sig" \in Pages /\ "sig" \notin Shareable
    BY FieldFacts DEF Shareable
  <2>2. m.own["sig"] = Nothing
    BY <1>4, <2>1
  <2> QED BY <1>6, <2>2 DEF Handled
<1>12. \A v \in Pages : child.pte[v].w => RestOf(mid, refs, t)[child.own[v]] = 0
  BY <1>4, <1>6
<1>13. ASSUME NEW q \in Procs \ {t}, NEW v \in Pages, mid[q].pte[v].w
       PROVE  child.own[v] # mid[q].own[v]
  <2>1. SUFFICES ASSUME child.own[v] = mid[q].own[v] PROVE FALSE
    OBVIOUS
  <2>2. mid[q].own[v] # Nothing
    <3>1. Tied(mid[q].own, mid[q].pte, v)
      BY <1>5 DEF Fine, Space
    <3> QED BY <1>13, <3>1, NothingFacts DEF Tied
  <2>3. m.own[v] = th[p].own[v] /\ ~m.par[v].w
    BY <1>4, <1>6, <2>1, <2>2
  <2>4. q # p
    BY <1>5, <1>8, <1>13, <2>3
  <2>5. mid[q] = th[q]
    BY <1>8, <2>4
  <2>6. RestOf(th, refs, q)[th[q].own[v]] = 0
    BY <1>1, <1>13, <2>5, WritableAlone
  <2>7. th[q].own[v] \in Blocks /\ th[q].own[v][2] = v
    <3>1. th[q].own \in Owned /\ v \in Fields /\ th[q].own[v] # Nothing
      BY <1>1, <2>2, <2>5, ThreadFacts
    <3> QED BY <3>1, OwnedFacts
  <2>8. p \in OwnersIn(th, th[q].own[v]) \ {q}
    BY <1>6, <2>1, <2>3, <2>4, <2>5, <2>7 DEF OwnersIn
  <2>9. RestOf(th, refs, q)[th[q].own[v]] # 0
    BY <1>1, <2>7, <2>8, RestHolds
  <2> QED BY <2>6, <2>9
<1>14. Fine(ts, m.refs)
  <2>1. \A b \in Blocks : m.refs[b] = RestOf(mid, refs, t)[b] + Held(child.own, b)
    BY <1>4, <1>6, <1>9
  <2> HIDE DEF rest
  <2> QED BY <1>4, <1>5, <1>6, <1>10, <1>11, <1>12, <1>13, <2>1, OneChanges
<1>15. OnHart(th', cur', satp')
  <2>1. ts[p] = s
    BY <1>8
  <2> QED BY <1>1, <1>2, <1>5, <1>7, <2>1 DEF OnHart
<1> QED BY <1>2, <1>7, <1>14, <1>15 DEF MemoryInv

-----------------------------------------------------------------------------
(* kill_zombies: of each block the dead among its owners are gone, no other. *)
LEMMA BuriedFacts ==
  ASSUME ProcessMemoryAssumption, Fine(th, refs), NEW t \in Procs, NEW b \in Blocks
  PROVE  Buried(t)[b] < refs[b] <=> th[t].own[b[2]] = b
<1> DEFINE j == Job(t, 0)
           back == Put(Destroyed(j), {"struct", "kernel stack"})
           rest == RestOf(th, refs, t)
<1>1. Counted(j, rest)
  BY JobFacts, 0 \in Nat
<1> HIDE DEF j
<1>2. Counted(back, rest) /\ \A f \in Fields : back.own[f] = Nothing
  BY <1>1, AllGivenBack
<1>3. Buried(t) = back.refs
  BY DEF Buried, j
<1> HIDE DEF back
<1>4. b[2] \in Fields /\ b # Nothing
  BY NothingFacts
<1>5. back.refs[b] = rest[b] + Held(back.own, b) /\ Held(back.own, b) = 0
  BY <1>2, <1>4 DEF Counted, Held
<1>6. refs[b] = rest[b] + Held(th[t].own, b)
  BY RestSum
<1>7. rest[b] \in Nat
  BY RestFacts
<1> QED BY <1>3, <1>5, <1>6, <1>7 DEF Held

LEMMA BlankFacts ==
  ASSUME ProcessMemoryAssumption, NEW s, s.own = NoBlocks, s.pte = Unmapped, s.status = "none"
  PROVE  Space(s) /\ Handled(s)
<1>1. ASSUME NEW v \in Pages PROVE Tied(s.own, s.pte, v)
  <2>1. v \in Fields
    BY FieldFacts
  <2>2. s.own[v] = Nothing /\ s.pte[v] = NoEntry /\ NoEntry.to = Nothing
    BY <2>1, NothingFacts
  <2> QED BY <2>2 DEF Tied
<1>2. RegionFirst(s.own)
  <2>1. "mmap" \in Areas => "region" \in Fields /\ "frames" \in Fields /\ "mmap" \in Fields
    BY FieldFacts
  <2>2. \A f \in Fields : s.own[f] = Nothing
    BY NothingFacts
  <2> QED BY <2>1, <2>2 DEF RegionFirst
<1> QED BY <1>1, <1>2 DEF Space, Handled

LEMMA ReapKeeps ==
  ASSUME ProcessMemoryAssumption, MemoryInv, NEW reused, Reap(reused)
  PROVE  MemoryInv'
<1> DEFINE dead == Zombies(reused)
           Forgotten(t) == IF t \in dead THEN NoThread ELSE t
           ts == [t \in Procs |->
                    IF t \in dead THEN Blank
                    ELSE [th[t] EXCEPT !.waits = Forgotten(th[t].waits),
                                       !.asked = Forgotten(th[t].asked)]]
           rs == [b \in Blocks |-> refs[b] - Cardinality({t \in dead : Buried(t)[b] < refs[b]})]
<1>1. Fine(th, refs) /\ OnHart(th, cur, satp) /\ cur = Idle /\ refs' = rs /\ th' = ts
      /\ UNCHANGED <<cur, satp>>
  BY DEF MemoryInv, Reap
<1>2. dead \in SUBSET Procs
  BY DEF Zombies
<1> HIDE DEF dead
<1>3. ASSUME NEW t \in Procs \ dead
      PROVE  /\ ts[t] \in Structs /\ ts[t].own = th[t].own /\ ts[t].pte = th[t].pte
             /\ ts[t].status = th[t].status /\ ts[t].active = th[t].active
             /\ ts[t].regs = th[t].regs /\ ts[t].saved = th[t].saved
  <2>1. th[t] \in Structs
    BY <1>1 DEF Fine
  <2>2. Forgotten(th[t].waits) \in Procs \cup {NoThread} /\ Forgotten(th[t].asked) \in Procs \cup {NoThread}
    BY <2>1 DEF Structs
  <2> HIDE DEF Forgotten
  <2> QED BY <2>1, <2>2 DEF Structs
<1>4. ASSUME NEW t \in dead
      PROVE  /\ ts[t] \in Structs /\ ts[t].own = NoBlocks /\ ts[t].pte = Unmapped
             /\ ts[t].status = "none"
  BY <1>2, NothingFacts DEF Blank, Structs
<1>5. ts \in [Procs -> Structs]
  BY <1>3, <1>4
<1> HIDE DEF ts
<1>6. ASSUME NEW t \in Procs PROVE Space(ts[t]) /\ Handled(ts[t])
  <2>1. CASE t \in dead
    BY <1>4, <2>1, BlankFacts
  <2>2. CASE t \notin dead
    <3>1. Space(th[t]) /\ Handled(th[t])
      BY <1>1 DEF Fine
    <3> QED BY <1>3, <2>2, <3>1 DEF Space, Handled, Tied
  <2> QED BY <2>1, <2>2
<1>7. ASSUME NEW b \in Blocks
      PROVE  /\ rs[b] = Cardinality(OwnersIn(ts, b)) /\ rs[b] \in Nat
             /\ OwnersIn(ts, b) = OwnersIn(th, b) \ dead
             /\ rs[b] <= refs[b]
  <2> DEFINE gone == {t \in dead : Buried(t)[b] < refs[b]}
             all == OwnersIn(th, b)
  <2>1. IsFiniteSet(all) /\ refs[b] = Cardinality(all) /\ refs[b] \in Nat
    BY <1>1, OwnersFinite DEF Fine, Exact
  <2>2. gone = all \cap dead
    BY <1>1, <1>2, BuriedFacts DEF OwnersIn
  <2>3. b[2] \in Fields /\ b # Nothing
    BY NothingFacts
  <2>4. OwnersIn(ts, b) = all \ dead
    BY <1>2, <1>3, <1>4, <2>3, NothingFacts DEF OwnersIn
  <2>5. Cardinality(all \ dead) = Cardinality(all) - Cardinality(all \cap dead)
    BY <2>1, FS_Difference
  <2>6. rs[b] = refs[b] - Cardinality(gone)
    OBVIOUS
  <2>7. Cardinality(all \ dead) \in Nat /\ Cardinality(all \cap dead) \in Nat
    <3>1. IsFiniteSet(all \ dead) /\ IsFiniteSet(all \cap dead)
      BY <2>1, FS_Subset
    <3> QED BY <3>1, FS_CardinalityType
  <2> HIDE DEF gone, all, rs
  <2> QED BY <2>1, <2>2, <2>4, <2>5, <2>6, <2>7 DEF all
<1>8. rs \in [Blocks -> Nat]
  BY <1>7
<1> HIDE DEF rs
<1>9. ASSUME NEW t \in Procs, NEW v \in Pages, ts[t].pte[v].w PROVE rs[ts[t].own[v]] = 1
  <2> DEFINE b == ts[t].own[v]
  <2>1. t \notin dead
    BY <1>4, <1>9, NothingFacts
  <2>2. th[t].pte[v].w /\ b = th[t].own[v]
    BY <1>3, <1>9, <2>1
  <2>3. refs[b] = 1
    BY <1>1, <2>2 DEF Fine, Alone
  <2>4. th[t].own \in Owned /\ v \in Fields /\ th[t].own[v] # Nothing
    BY <1>1, <2>2, ThreadFacts, NothingFacts
  <2>5. b \in Blocks /\ b[2] = v
    BY <2>2, <2>4, OwnedFacts
  <2>6. t \in OwnersIn(ts, b)
    BY <2>5 DEF OwnersIn
  <2>7. rs[b] = Cardinality(OwnersIn(ts, b)) /\ rs[b] \in Nat /\ rs[b] <= refs[b]
    BY <1>7, <2>5
  <2>8. Cardinality(OwnersIn(ts, b)) # 0
    BY <2>6, OwnersFinite
  <2> HIDE DEF b
  <2>9. rs[b] = 1
    BY <2>3, <2>7, <2>8
  <2> QED BY <2>9 DEF b
<1>10. Fine(ts, rs)
  BY <1>5, <1>6, <1>7, <1>8, <1>9 DEF Fine, Exact, Alone
<1>11. cur \notin Procs
  BY <1>1 DEF ProcessMemoryAssumption
<1>12. OnHart(th', cur', satp')
  BY <1>1, <1>11 DEF OnHart
<1> QED BY <1>1, <1>10, <1>12 DEF MemoryInv

-----------------------------------------------------------------------------
LEMMA MemoryStarts ==
  ASSUME ProcessMemoryAssumption, MemoryInit
  PROVE  MemoryInv
<1>1. th = [t \in Procs |-> Blank] /\ refs = [b \in Blocks |-> 0] /\ cur = Idle /\ satp = Nothing
  BY DEF MemoryInit
<1>2. /\ Blank \in Structs /\ Blank.own = NoBlocks /\ Blank.pte = Unmapped
      /\ Blank.status = "none"
  BY NothingFacts DEF Blank, Structs
<1>3. Space(Blank) /\ Handled(Blank)
  BY <1>2, BlankFacts
<1>4. \A t \in Procs : th[t] = Blank
  BY <1>1
<1>5. ASSUME NEW b \in Blocks PROVE refs[b] = Cardinality(OwnersIn(th, b))
  <2>1. OwnersIn(th, b) = {}
    BY <1>2, <1>4, NothingFacts DEF OwnersIn
  <2> QED BY <1>1, <2>1, FS_EmptySet
<1>6. \A t \in Procs, v \in Pages : ~th[t].pte[v].w
  BY <1>2, <1>4, NothingFacts
<1>7. th \in [Procs -> Structs] /\ refs \in [Blocks -> Nat]
  BY <1>1, <1>2
<1>8. Fine(th, refs)
  BY <1>3, <1>4, <1>5, <1>6, <1>7 DEF Fine, Exact, Alone
<1>9. OnHart(th, cur, satp)
  BY <1>1 DEF OnHart, Threads, ProcessMemoryAssumption
<1> QED BY <1>8, <1>9 DEF MemoryInv

LEMMA MemoryStepKeeps ==
  ASSUME ProcessMemoryAssumption, ~ForkInHandler, MemoryInv, [MemoryNext]_memoryVars
  PROVE  MemoryInv'
<1>n. Room \in Nat /\ \A n \in {2, 3, 4, 5, Room} : Short(n) \in SUBSET Nat
  BY DEF Short, ProcessMemoryAssumption
<1>1. ASSUME NEW p \in Procs, NEW left \in Nat, Create(p, left) \/ CreateFails(p, left)
      PROVE  MemoryInv'
  BY <1>1, CreateKeeps, CreateFailsKeeps
<1>2. ASSUME NEW p \in Procs, NEW left \in Nat, Exec(p, left) \/ ExecFails(p, left)
      PROVE  MemoryInv'
  BY <1>2, ExecKeeps, ExecFailsKeeps
<1>3. ASSUME NEW p \in Procs, NEW t \in Procs, NEW left \in Nat,
             Fork(p, t, left) \/ ForkFails(p, t, left)
      PROVE  MemoryInv'
  BY <1>3, ForkKeeps, ForkFailsKeeps
<1>4. ASSUME NEW p \in Procs, NEW v \in Areas, NEW store \in BOOLEAN, NEW left \in Nat,
             ServedFault(p, v, store, left) \/ SegmentationFault(p, v, store, left)
      PROVE  MemoryInv'
  BY <1>4, ServedFaultKeeps, SegmentationFaultKeeps
<1>5. ASSUME NEW p \in Procs, NEW rw \in BOOLEAN, NEW populate \in BOOLEAN, NEW left \in Nat,
             Mmap(p, rw, populate, left)
      PROVE  MemoryInv'
  BY <1>5, MmapKeeps
<1>6. ASSUME NEW p \in Procs, NEW left \in Nat, ReturnSignalled(p, left)
      PROVE  MemoryInv'
  BY <1>6, ReturnSignalledKeeps
<1>7. ASSUME NEW p \in Procs,
             WaitpidReturns(p) \/ Usleep(p) \/ Exit(p) \/ Sigreturn(p) \/ ReturnPlain(p)
      PROVE  MemoryInv'
  BY <1>7, WaitpidReturnsKeeps, UsleepKeeps, ExitKeeps, SigreturnKeeps, ReturnPlainKeeps
<1>8. ASSUME NEW p \in Procs, NEW t \in Procs, Waitpid(p, t) \/ Stop(p, t)
      PROVE  MemoryInv'
  BY <1>8, WaitpidKeeps, StopKeeps
<1>9. ASSUME NEW p \in Procs, NEW s \in Sigs,
             Signal(p, s) \/ \E t \in Procs : Kill(p, t, s)
      PROVE  MemoryInv'
  BY <1>9, SignalKeeps, KillKeeps
<1>10. ASSUME NEW due \in SUBSET Procs, Interrupt(due) PROVE MemoryInv'
  BY <1>10, InterruptKeeps
<1>11. ASSUME NEW reused \in SUBSET Procs, Reap(reused) PROVE MemoryInv'
  BY <1>11, ReapKeeps
<1>12. CASE MemoryNext
  <2>1. ASSUME NEW p \in Procs, Create(p, Room) \/ \E left \in Short(5) : CreateFails(p, left)
        PROVE  MemoryInv'
    BY <1>n, <1>1, <2>1
  <2>2. ASSUME NEW p \in Procs, Exec(p, Room) \/ \E left \in Short(3) : ExecFails(p, left)
        PROVE  MemoryInv'
    BY <1>n, <1>2, <2>2
  <2>3. ASSUME NEW p \in Procs, NEW t \in Procs,
               Fork(p, t, Room) \/ \E left \in Short(Room) : ForkFails(p, t, left)
        PROVE  MemoryInv'
    BY <1>n, <1>3, <2>3
  <2>4. ASSUME NEW p \in Procs, \E left \in Short(2) \cup {Room} : ReturnSignalled(p, left)
        PROVE  MemoryInv'
    BY <1>n, <1>6, <2>4
  <2>5. ASSUME NEW p \in Procs, NEW rw \in BOOLEAN, NEW populate \in BOOLEAN,
               \E left \in Short(4) \cup {Room} : Mmap(p, rw, populate, left)
        PROVE  MemoryInv'
    BY <1>n, <1>5, <2>5
  <2>6. ASSUME NEW p \in Procs, NEW v \in Areas, NEW store \in BOOLEAN,
               \/ ServedFault(p, v, store, Room)
               \/ \E left \in Short(2) : SegmentationFault(p, v, store, left)
        PROVE  MemoryInv'
    BY <1>n, <1>4, <2>6
  <2> QED BY <1>7, <1>8, <1>9, <1>10, <1>11, <1>12, <2>1, <2>2, <2>3, <2>4, <2>5, <2>6 DEF MemoryNext
<1>13. CASE UNCHANGED memoryVars
  <2>1. th' = th /\ refs' = refs /\ cur' = cur /\ satp' = satp
    BY <1>13 DEF memoryVars
  <2> QED BY <2>1 DEF MemoryInv
<1> QED BY <1>12, <1>13

(* What the invariant is for.                                                *)
LEMMA MemoryInvSound ==
  ASSUME ProcessMemoryAssumption, MemoryInv
  PROVE  MemorySound
<1>1. Fine(th, refs) /\ OnHart(th, cur, satp)
  BY DEF MemoryInv
<1>2. MemoryTypes
  <2>1. ASSUME NEW t \in Procs, NEW f \in Fields
        PROVE  th[t].own[f] \in {Nothing} \cup (Procs \X {f} \X Names)
    <3>1. th[t].own \in Owned
      BY <1>1, ThreadFacts
    <3>2. th[t].own[f] = Nothing \/ (th[t].own[f] \in Blocks /\ th[t].own[f][2] = f)
      BY <3>1, OwnedFacts
    <3> QED BY <3>2 DEF Blocks
  <2>2. satp \in Blocks \cup {Nothing}
    <3>1. ASSUME NEW t \in Procs PROVE th[t].own["root"] \in Blocks \cup {Nothing}
      BY <1>1, ThreadFacts, FieldFacts, OwnedFacts
    <3> QED BY <1>1, <3>1 DEF OnHart
  <2> QED BY <1>1, <2>1, <2>2 DEF MemoryTypes, Fine, OnHart
<1>3. MemoryExact
  <2>1. ASSUME NEW b \in Blocks PROVE refs[b] = Cardinality(Owners(b))
    <3>1. Owners(b) = OwnersIn(th, b)
      BY DEF Owners, OwnersIn
    <3> QED BY <1>1, <3>1 DEF Fine, Exact
  <2>2. ASSUME NEW t \in Procs, NEW v \in Pages, th[t].pte[v] # NoEntry
        PROVE  /\ th[t].pte[v].to = th[t].own[v]
               /\ th[t].pte[v].w => refs[th[t].pte[v].to] = 1
    <3>1. Tied(th[t].own, th[t].pte, v)
      BY <1>1, ThreadFacts
    <3> QED BY <1>1, <3>1 DEF Tied, Fine, Alone
  <2> QED BY <2>1, <2>2 DEF MemoryExact
<1>4. ContextSound
  <2>1. IF cur \in Procs
        THEN /\ th[cur].status = "RUNNING" /\ satp = th[cur].own["root"]
             /\ \A f \in {"struct", "kernel stack", "root"} : th[cur].own[f] # Nothing
        ELSE satp = Nothing
    <3>1. CASE cur \in Procs
      <4>1. th[cur].status = "RUNNING" /\ satp = th[cur].own["root"]
        BY <1>1, <3>1 DEF OnHart
      <4>2. Space(th[cur])
        BY <1>1, <3>1, ThreadFacts
      <4>3. Built(th[cur].own)
        BY <4>1, <4>2 DEF Space
      <4> QED BY <3>1, <4>1, <4>3 DEF Built
    <3>2. CASE cur \notin Procs
      BY <1>1, <3>2 DEF OnHart
    <3> QED BY <3>1, <3>2
  <2>2. ASSUME NEW p \in Procs, Alive(p) PROVE HandlerSound(p)
    <3> DEFINE s == th[p].own["sig"]
    <3>1. Handled(th[p]) /\ th[p] \in Structs /\ "sig" \in Pages
          /\ (s = Nothing <=> th[p].pte["sig"] = NoEntry)
      BY <1>1, ThreadFacts, FieldFacts
    <3>2. /\ th[p].active <=> s # Nothing
          /\ th[p].active => th[p].pte["sig"] = Entry(s, TRUE) /\ th[p].saved = "main"
          /\ th[p].active <=> th[p].regs = "handler"
      BY <2>2, <3>1 DEF Alive, Handled
    <3>3. th[p].pte["sig"] = [to |-> s, w |-> TRUE, cow |-> FALSE] => th[p].active
      <4>1. NoEntry # [to |-> s, w |-> TRUE, cow |-> FALSE]
        <5>1. [to |-> s, w |-> TRUE, cow |-> FALSE].w
          OBVIOUS
        <5> QED BY <5>1, NothingFacts
      <4> QED BY <3>1, <3>2, <4>1
    <3> QED BY <3>2, <3>3 DEF HandlerSound, Entry
  <2> QED BY <2>1, <2>2 DEF ContextSound
<1> QED BY <1>2, <1>3, <1>4 DEF MemorySound

(* Whatever processes do to each other and however the memory runs out       *)
(* (lab6's fork, exec, mmap, faults, signals, exits and kill_zombies): no    *)
(* block is leaked, freed early or freed twice, a page that can be written   *)
(* has one owner, the hart translates by the tables of the thread it runs,   *)
(* and a handler runs only on its signal stack with the program's registers  *)
(* saved; for any number of processes, so long as no handler forks.          *)
THEOREM MemoryStaysSound ==
  ASSUME ProcessMemoryAssumption, ~ForkInHandler
  PROVE  MemorySpec => []MemorySound
<1>1. MemoryInit => MemoryInv
  BY MemoryStarts
<1>2. MemoryInv /\ [MemoryNext]_memoryVars => MemoryInv'
  BY MemoryStepKeeps
<1>3. MemoryInv => MemorySound
  BY MemoryInvSound
<1> QED BY <1>1, <1>2, <1>3, PTL DEF MemorySpec

-----------------------------------------------------------------------------
(* The tree of vnodes.  An entry leads to a vnode of the same directory that *)
(* is not the root of a mount, whatever is neither covered nor a root is in  *)
(* a directory, and what is covered is empty and no root: so whatever a path *)
(* comes to, it comes to what is on top.                                     *)
MapNames == Components \cup {"ramfs", "dev", "uart", "fb"}
EntryMaps == UNION {[S -> Nat] : S \in SUBSET MapNames}
Vnodes == [fs : {"tmpfs", "ramfs", "devfs"}, type : {"dir", "file"}, parent : Nat,
           mount : Nat, mounted : Nat, entries : EntryMaps]
Nodes == 1 .. Len(vn)
TopOf(v) == mt[vn[v].mount].root
TreeTypes == /\ vn \in Seq(Vnodes) /\ mt \in Seq([root : Nat, point : Nat])
             /\ Root \in Nodes /\ cwd \in [Users -> Nodes]
Placed(v) ==
  /\ vn[v].parent \in Nodes /\ vn[v].mount \in 1 .. Len(mt)
  /\ TopOf(v) # v => DOMAIN vn[vn[v].parent].entries # {}
Covered(v) ==
  vn[v].mounted # 0 =>
    /\ vn[v].mounted \in 1 .. Len(mt) /\ mt[vn[v].mounted].point = v
    /\ DOMAIN vn[v].entries = {} /\ TopOf(v) # v
Leads(v, name) ==
  LET child == vn[v].entries[name]
  IN  child \in Nodes /\ vn[child].parent = v /\ TopOf(child) # child
OnPoint(m) ==
  /\ mt[m].root \in Nodes /\ vn[mt[m].root].mount = m /\ mt[m].point \in 0 .. Len(vn)
  /\ mt[m].point # 0 => vn[mt[m].point].mounted = m
TreeInv ==
  /\ TreeTypes
  /\ \A v \in Nodes : Placed(v) /\ Covered(v) /\ \A name \in DOMAIN vn[v].entries : Leads(v, name)
  /\ \A m \in 1 .. Len(mt) : OnPoint(m)

(* Where paths come to.                                                      *)
Tops == {v \in Nodes : vn[v].mounted = 0}
GoodPlaces == [at : Tops, err : {"ok", "ENOTDIR", "ENOENT"}]

LEMMA FollowTop ==
  ASSUME TreeInv, NEW v \in Nodes
  PROVE  /\ Follow(v) = IF vn[v].mounted = 0 THEN v ELSE mt[vn[v].mounted].root
         /\ Follow(v) \in Tops
<1> DEFINE above(u) == mt[vn[u].mounted].root
           Steps == (0 .. Len(mt)) \X DOMAIN vn
           E(f) == [s \in Steps |->
                      LET mount == vn[s[2]].mounted
                      IN  IF mount = 0 THEN s[2]
                          ELSE IF s[1] = 0 THEN 0 ELSE f[<<s[1] - 1, mt[mount].root>>]]
           g == [s \in Steps |-> IF vn[s[2]].mounted = 0 THEN s[2]
                                 ELSE IF s[1] = 0 THEN 0 ELSE above(s[2])]
           from == CHOOSE f : f = E(f)
<1>1. Len(mt) \in Nat /\ DOMAIN vn = Nodes /\ Len(vn) \in Nat
  BY DEF TreeInv, TreeTypes, Nodes
<1>2. ASSUME NEW u \in Nodes, vn[u].mounted # 0
      PROVE  above(u) \in Nodes /\ vn[above(u)].mounted = 0 /\ Len(mt) # 0
  <2>1. vn[u].mounted \in 1 .. Len(mt)
    BY <1>2 DEF TreeInv, Covered
  <2>2. above(u) \in Nodes /\ vn[above(u)].mount = vn[u].mounted
    BY <2>1 DEF TreeInv, OnPoint
  <2>3. TopOf(above(u)) = above(u)
    BY <2>2 DEF TopOf
  <2>4. vn[above(u)].mounted = 0
    BY <2>2, <2>3 DEF TreeInv, Covered
  <2> QED BY <1>1, <2>1, <2>2, <2>4
<1>3. g = E(g)
  <2>1. ASSUME NEW s \in Steps
        PROVE  g[s] = LET mount == vn[s[2]].mounted
                      IN  IF mount = 0 THEN s[2]
                          ELSE IF s[1] = 0 THEN 0 ELSE g[<<s[1] - 1, mt[mount].root>>]
    <3>1. s[1] \in 0 .. Len(mt) /\ s[2] \in Nodes
      BY <1>1
    <3>2. CASE vn[s[2]].mounted # 0 /\ s[1] # 0
      <4>1. above(s[2]) \in Nodes /\ vn[above(s[2])].mounted = 0
        BY <1>2, <3>1, <3>2
      <4>2. <<s[1] - 1, above(s[2])>> \in Steps
        BY <1>1, <3>1, <3>2, <4>1
      <4>3. g[<<s[1] - 1, above(s[2])>>] = above(s[2])
        BY <4>1, <4>2
      <4> QED BY <3>2, <4>3
    <3> QED BY <3>2
  <2>2. g = [s \in Steps |-> g[s]]
    OBVIOUS
  <2> HIDE DEF g, Steps
  <2> QED BY <2>1, <2>2
<1>4. from = E(from)
  <2> HIDE DEF E, g
  <2> QED BY <1>3
<1>5. Follow(v) = from[<<Len(mt), v>>]
  BY DEF Follow
<1> HIDE DEF from
<1>6. ASSUME NEW n \in 0 .. Len(mt), NEW u \in Nodes
      PROVE  from[<<n, u>>] = IF vn[u].mounted = 0 THEN u
                              ELSE IF n = 0 THEN 0 ELSE from[<<n - 1, above(u)>>]
  <2>1. <<n, u>> \in Steps
    BY <1>1
  <2> QED BY <1>4, <2>1
<1>7. CASE vn[v].mounted = 0
  <2>1. Len(mt) \in 0 .. Len(mt)
    BY <1>1
  <2> HIDE DEF above
  <2>2. Follow(v) = v
    BY <1>5, <1>6, <1>7, <2>1
  <2> QED BY <1>7, <2>2 DEF Tops
<1>8. CASE vn[v].mounted # 0
  <2>1. above(v) \in Nodes /\ vn[above(v)].mounted = 0 /\ Len(mt) # 0
    BY <1>2, <1>8
  <2>2. Len(mt) - 1 \in 0 .. Len(mt) /\ Len(mt) \in 0 .. Len(mt)
    BY <1>1, <2>1
  <2> HIDE DEF above
  <2>3. from[<<Len(mt) - 1, above(v)>>] = above(v)
    BY <1>6, <2>1, <2>2
  <2>4. from[<<Len(mt), v>>] = above(v)
    BY <1>6, <1>8, <2>1, <2>2, <2>3
  <2>5. Follow(v) = above(v) /\ above(v) \in Tops
    BY <1>5, <2>1, <2>4 DEF Tops
  <2> QED BY <1>8, <2>5 DEF above
<1> QED BY <1>7, <1>8

(* ".." leads to the top, too: the parent has entries.                       *)
LEMMA ParentTop ==
  ASSUME TreeInv, NEW v \in Tops
  PROVE  ParentOf(v) \in Tops
<1> DEFINE m == mt[vn[v].mount]
<1>1. v \in Nodes /\ vn[v].mounted = 0
  BY DEF Tops
<1>2. ASSUME NEW u \in Nodes, TopOf(u) # u
      PROVE  vn[u].parent \in Tops
  <2>1. vn[u].parent \in Nodes /\ DOMAIN vn[vn[u].parent].entries # {}
    BY <1>2 DEF TreeInv, Placed
  <2> QED BY <2>1 DEF TreeInv, Covered, Tops
<1>3. CASE v # m.root
  BY <1>1, <1>2, <1>3 DEF ParentOf, TopOf
<1>4. CASE v = m.root /\ m.point = 0
  BY <1>4 DEF ParentOf
<1>5. CASE v = m.root /\ m.point # 0
  <2>1. vn[v].mount \in 1 .. Len(mt)
    BY <1>1 DEF TreeInv, Placed
  <2>2. m.point \in Nodes /\ vn[m.point].mounted = vn[v].mount
    <3>1. m.point \in 0 .. Len(vn) /\ vn[m.point].mounted = vn[v].mount
      BY <1>5, <2>1 DEF TreeInv, OnPoint
    <3>2. Len(vn) \in Nat
      BY DEF TreeInv, TreeTypes
    <3> QED BY <1>5, <3>1, <3>2 DEF Nodes
  <2>3. TopOf(m.point) # m.point
    BY <2>1, <2>2 DEF TreeInv, Covered
  <2> QED BY <1>2, <1>5, <2>2, <2>3 DEF ParentOf
<1> QED BY <1>3, <1>4, <1>5

LEMMA StepGood ==
  ASSUME TreeInv, NEW place \in GoodPlaces, NEW name
  PROVE  Step(place, name) \in GoodPlaces
<1> DEFINE v == place.at
<1>1. v \in Tops /\ v \in Nodes
  BY DEF GoodPlaces, Tops
<1>2. CASE place.err # "ok" \/ name = "."
  BY <1>2 DEF Step
<1>3. CASE ~(place.err # "ok" \/ name = ".") /\ name = ".."
  <2>1. ParentOf(v) \in Tops
    BY <1>1, ParentTop
  <2>2. Step(place, name) = At(ParentOf(v))
    BY <1>3 DEF Step
  <2> QED BY <2>1, <2>2 DEF At, GoodPlaces
<1>4. CASE ~(place.err # "ok" \/ name = ".") /\ name # ".." /\ vn[v].type # "dir"
  <2>1. Step(place, name) = [place EXCEPT !.err = "ENOTDIR"]
    BY <1>4 DEF Step
  <2> QED BY <2>1 DEF GoodPlaces
<1>5. CASE ~(place.err # "ok" \/ name = ".") /\ name # ".." /\ vn[v].type = "dir"
  <2>1. CASE name \notin DOMAIN vn[v].entries
    <3>1. Step(place, name) = [place EXCEPT !.err = "ENOENT"]
      BY <1>5, <2>1 DEF Step
    <3> QED BY <3>1 DEF GoodPlaces
  <2>2. CASE name \in DOMAIN vn[v].entries
    <3>1. vn[v].entries[name] \in Nodes
      BY <1>1, <2>2 DEF TreeInv, Leads
    <3>2. Follow(vn[v].entries[name]) \in Tops
      BY <3>1, FollowTop
    <3>3. Step(place, name) = At(Follow(vn[v].entries[name]))
      BY <1>5, <2>2 DEF Step, Enter, Lookup
    <3> QED BY <3>2, <3>3 DEF At, GoodPlaces
  <2> QED BY <2>1, <2>2
<1> QED BY <1>2, <1>3, <1>4, <1>5

(* The loop of resolve_path: the places it comes to, one for each component. *)
LEMMA WalkPlaces ==
  ASSUME TreeInv, NEW v \in Nodes, NEW names, Len(names) \in Nat
  PROVE  \E to \in [0 .. Len(names) -> GoodPlaces] :
           /\ to[0] = At(Follow(v)) /\ Walk(v, names) = to[Len(names)]
           /\ \A n \in 1 .. Len(names) : to[n] = Step(to[n - 1], names[n])
<1> DEFINE N == Len(names)
           E(f) == [n \in 0 .. N |-> IF n = 0 THEN At(Follow(v)) ELSE Step(f[n - 1], names[n])]
           Fits(k, f) == f[0] = At(Follow(v)) /\ \A n \in 1 .. k : f[n] = Step(f[n - 1], names[n])
           Unreached == {k \in 0 .. N : \A f \in [0 .. k -> GoodPlaces] : ~Fits(k, f)}
           to == CHOOSE f : f = E(f)
<1>1. At(Follow(v)) \in GoodPlaces
  BY FollowTop DEF At, GoodPlaces
<1>2. Unreached = {}
  <2> SUFFICES ASSUME Unreached # {} PROVE FALSE
    OBVIOUS
  <2>1. PICK k \in Unreached : \A x \in Unreached : k <= x
    <3>1. Unreached \in SUBSET Nat
      OBVIOUS
    <3> HIDE DEF Unreached
    <3> QED BY <3>1, LeastOf
  <2>2. k \in 0 .. N /\ \A f \in [0 .. k -> GoodPlaces] : ~Fits(k, f)
    OBVIOUS
  <2>3. CASE k = 0
    <3>1. [n \in 0 .. 0 |-> At(Follow(v))] \in [0 .. 0 -> GoodPlaces]
      BY <1>1
    <3>2. Fits(0, [n \in 0 .. 0 |-> At(Follow(v))])
      OBVIOUS
    <3> HIDE DEF Fits
    <3> QED BY <2>2, <2>3, <3>1, <3>2
  <2>4. CASE k # 0
    <3>1. k - 1 \in 0 .. N /\ k - 1 \notin Unreached
      <4> HIDE DEF Unreached
      <4> QED BY <2>1, <2>2, <2>4
    <3>2. PICK f \in [0 .. k - 1 -> GoodPlaces] : Fits(k - 1, f)
      BY <3>1
    <3> DEFINE g == [n \in 0 .. k |-> IF n = k THEN Step(f[k - 1], names[k]) ELSE f[n]]
    <3>3. Step(f[k - 1], names[k]) \in GoodPlaces
      <4>1. f[k - 1] \in GoodPlaces
        BY <3>1, <3>2
      <4> QED BY <4>1, StepGood
    <3>4. g \in [0 .. k -> GoodPlaces]
      BY <2>2, <3>2, <3>3
    <3>5. g[0] = At(Follow(v))
      BY <2>2, <2>4, <3>2
    <3>6. ASSUME NEW n \in 1 .. k
          PROVE  g[n] = Step(g[n - 1], names[n])
      <4>1. n \in 0 .. k /\ n - 1 \in 0 .. k /\ n - 1 # k
        BY <2>2
      <4>2. g[n - 1] = f[n - 1]
        BY <4>1
      <4>3. CASE n = k
        BY <4>1, <4>2, <4>3
      <4>4. CASE n # k
        <5>1. n \in 1 .. k - 1
          BY <2>2, <4>4
        <5>2. g[n] = f[n]
          BY <4>1, <4>4
        <5>3. f[n] = Step(f[n - 1], names[n])
          BY <3>2, <5>1
        <5> QED BY <4>2, <5>2, <5>3
      <4> QED BY <4>3, <4>4
    <3>7. Fits(k, g)
      <4> HIDE DEF g
      <4> QED BY <3>5, <3>6
    <3> HIDE DEF Fits, g
    <3> QED BY <2>2, <3>4, <3>7
  <2> QED BY <2>3, <2>4
<1>3. PICK w \in [0 .. N -> GoodPlaces] : Fits(N, w)
  <2>1. N \notin Unreached
    BY <1>2
  <2> QED BY <2>1
<1>4. w = E(w)
  <2>1. ASSUME NEW n \in 0 .. N
        PROVE  w[n] = IF n = 0 THEN At(Follow(v)) ELSE Step(w[n - 1], names[n])
    BY <1>3
  <2>2. w = [n \in 0 .. N |-> w[n]]
    BY <1>3
  <2> HIDE DEF Fits
  <2> QED BY <2>1, <2>2
<1>5. to = E(to)
  <2> HIDE DEF E
  <2> QED BY <1>4
<1>6. Walk(v, names) = to[N]
  BY DEF Walk
<1> HIDE DEF to
<1>7. /\ to[0] = At(Follow(v))
      /\ \A n \in 1 .. N : to[n] = Step(to[n - 1], names[n])
  <2>1. ASSUME NEW n \in 0 .. N
        PROVE  to[n] = IF n = 0 THEN At(Follow(v)) ELSE Step(to[n - 1], names[n])
    BY <1>5
  <2> QED BY <2>1
<1>8. ASSUME NEW n \in 0 .. N PROVE to[n] \in GoodPlaces
  <2> DEFINE Bad == {k \in 0 .. N : to[k] \notin GoodPlaces}
  <2> SUFFICES ASSUME Bad # {} PROVE FALSE
    OBVIOUS
  <2>1. PICK k \in Bad : \A x \in Bad : k <= x
    <3>1. Bad \in SUBSET Nat
      OBVIOUS
    <3> HIDE DEF Bad
    <3> QED BY <3>1, LeastOf
  <2>2. k \in 0 .. N /\ to[k] \notin GoodPlaces
    OBVIOUS
  <2>3. k # 0
    BY <1>1, <1>7, <2>2
  <2>4. k - 1 \in 0 .. N /\ k - 1 \notin Bad /\ k \in 1 .. N
    BY <2>1, <2>2, <2>3
  <2>5. to[k - 1] \in GoodPlaces
    BY <2>4
  <2> QED BY <1>7, <2>2, <2>4, <2>5, StepGood
<1>9. to \in [0 .. N -> GoodPlaces]
  <2>1. to = [n \in 0 .. N |-> to[n]]
    BY <1>5
  <2> QED BY <1>8, <2>1
<1> QED BY <1>6, <1>7, <1>9

LEMMA StartNode ==
  ASSUME TreeInv, NEW t \in Users, NEW path
  PROVE  Start(t, path) \in Nodes
BY DEF TreeInv, TreeTypes, Start

LEMMA PathNamesSeq ==
  ASSUME MountsAssumption, NEW path \in Paths
  PROVE  /\ path.names \in Seq(Components) /\ Len(path.names) \in Nat
         /\ path.names # <<>> => Last(path.names) \in Components
                                 /\ Len(Front(path.names)) \in Nat
<1>1. PathLength \in Nat
  BY DEF MountsAssumption
<1>2. path.names \in BoundedSeq(Components, PathLength)
  BY DEF Paths
<1>3. PICK m \in 0 .. PathLength : path.names \in [1 .. m -> Components]
  BY <1>2 DEF BoundedSeq, SeqOf
<1>4. path.names \in Seq(Components) /\ Len(path.names) = m /\ m \in Nat
  BY <1>1, <1>3
<1>5. ASSUME path.names # <<>>
      PROVE  Last(path.names) \in Components /\ Len(Front(path.names)) \in Nat
  <2>1. Len(path.names) \in Nat \ {0}
    BY <1>4, <1>5
  <2>2. path.names[Len(path.names)] \in Components
    BY <1>4, <2>1
  <2>3. SubSeq(path.names, 1, Len(path.names) - 1) \in Seq(Components)
    BY <1>4, <2>1
  <2> QED BY <2>2, <2>3 DEF Last, Front
<1> QED BY <1>4, <1>5

LEMMA WalkGood ==
  ASSUME TreeInv, NEW v \in Nodes, NEW names, Len(names) \in Nat
  PROVE  Walk(v, names) \in GoodPlaces
<1>1. PICK to \in [0 .. Len(names) -> GoodPlaces] : Walk(v, names) = to[Len(names)]
  BY WalkPlaces
<1> QED BY <1>1

LEMMA ResolveGood ==
  ASSUME MountsAssumption, TreeInv, NEW t \in Users, NEW path \in Paths
  PROVE  Resolve(t, path) \in GoodPlaces
BY StartNode, PathNamesSeq, WalkGood DEF Resolve

LEMMA ResolveParentGood ==
  ASSUME MountsAssumption, TreeInv, NEW t \in Users, NEW path \in Paths,
         ResolveParent(t, path).err = "ok"
  PROVE  ResolveParent(t, path).at \in Tops /\ Last(path.names) \in Components
<1> DEFINE dir == Walk(Start(t, path), Front(path.names))
<1>1. path.names # <<>>
  BY DEF ResolveParent
<1>2. dir \in GoodPlaces
  BY <1>1, StartNode, PathNamesSeq, WalkGood
<1>3. ResolveParent(t, path) = dir
  <2>1. dir.err = "ok" /\ Last(path.names) \in {".", ".."} =>
          ResolveParent(t, path) = [dir EXCEPT !.err = "EEXIST"]
    BY <1>1 DEF ResolveParent
  <2>2. dir.err = "ok" /\ Last(path.names) \in {".", ".."} =>
          ResolveParent(t, path).err = "EEXIST"
    BY <1>2, <2>1 DEF GoodPlaces
  <2> QED BY <1>1, <2>2 DEF ResolveParent
<1> QED BY <1>1, <1>2, <1>3, PathNamesSeq DEF GoodPlaces

LEMMA EntryMapFacts ==
  ASSUME NEW e
  PROVE  e \in EntryMaps <=> /\ e = [n \in DOMAIN e |-> e[n]] /\ DOMAIN e \subseteq MapNames
                             /\ \A n \in DOMAIN e : e[n] \in Nat
<1>1. ASSUME e \in EntryMaps
      PROVE  /\ e = [n \in DOMAIN e |-> e[n]] /\ DOMAIN e \subseteq MapNames
             /\ \A n \in DOMAIN e : e[n] \in Nat
  <2>1. PICK S \in SUBSET MapNames : e \in [S -> Nat]
    BY <1>1 DEF EntryMaps
  <2> QED BY <2>1
<1>2. ASSUME /\ e = [n \in DOMAIN e |-> e[n]] /\ DOMAIN e \subseteq MapNames
             /\ \A n \in DOMAIN e : e[n] \in Nat
      PROVE  e \in EntryMaps
  <2>1. e \in [DOMAIN e -> Nat]
    BY <1>2
  <2> QED BY <1>2, <2>1 DEF EntryMaps
<1> QED BY <1>1, <1>2

LEMMA NoEntriesMap == NoEntries \in EntryMaps /\ DOMAIN NoEntries = {}
<1>1. NoEntries = [n \in DOMAIN NoEntries |-> NoEntries[n]] /\ DOMAIN NoEntries = {}
  BY DEF NoEntries
<1> QED BY <1>1, EntryMapFacts

LEMMA MountsStart ==
  ASSUME MountsAssumption, MountsInit
  PROVE  TreeInv
<1> DEFINE top == [ramfs |-> 2, dev |-> 4]
<1>1. top \in EntryMaps /\ DOMAIN top = {"ramfs", "dev"} /\ top["ramfs"] = 2 /\ top["dev"] = 4
  <2>1. DOMAIN top = {"ramfs", "dev"} /\ top["ramfs"] = 2 /\ top["dev"] = 4
        /\ top = [n \in DOMAIN top |-> top[n]]
    OBVIOUS
  <2> HIDE DEF top
  <2> QED BY <2>1, EntryMapFacts DEF MapNames
<1>2. /\ Devices \in EntryMaps /\ DOMAIN Devices = {"uart", "fb"}
      /\ Devices["uart"] = 6 /\ Devices["fb"] = 7
  <2>1. /\ DOMAIN Devices = {"uart", "fb"} /\ Devices["uart"] = 6 /\ Devices["fb"] = 7
        /\ Devices = [n \in DOMAIN Devices |-> Devices[n]]
    BY DEF Devices, Uart, Fb
  <2> QED BY <2>1, EntryMapFacts DEF MapNames
<1>3. Len(vn) = 7 /\ Len(mt) = 3 /\ Nodes = 1 .. 7
  BY DEF MountsInit, Nodes
<1> HIDE DEF top
<1>4. /\ vn[1] = Vnode("tmpfs", "dir", 1, 1, 0, top)
      /\ vn[2] = Vnode("tmpfs", "dir", 1, 1, 2, NoEntries)
      /\ vn[3] = Vnode("ramfs", "dir", 3, 2, 0, NoEntries)
      /\ vn[4] = Vnode("tmpfs", "dir", 1, 1, 3, NoEntries)
      /\ vn[5] = Vnode("devfs", "dir", 5, 3, 0, Devices)
      /\ vn[6] = Vnode("devfs", "file", 5, 3, 0, NoEntries)
      /\ vn[7] = Vnode("devfs", "file", 5, 3, 0, NoEntries)
  BY DEF MountsInit, top
<1>5. /\ mt[1] = [root |-> 1, point |-> 0] /\ mt[2] = [root |-> 3, point |-> 2]
      /\ mt[3] = [root |-> 5, point |-> 4]
  BY DEF MountsInit
<1>6. TreeTypes
  <2>1. ASSUME NEW v \in 1 .. 7 PROVE vn[v] \in Vnodes
    <3>1. v \in {1, 2, 3, 4, 5, 6, 7}
      OBVIOUS
    <3> QED BY <1>1, <1>2, <1>4, <3>1, NoEntriesMap DEF Vnode, Vnodes
  <2>2. vn \in Seq(Vnodes)
    <3>1. vn = [v \in 1 .. 7 |-> vn[v]]
      BY DEF MountsInit
    <3> QED BY <2>1, <3>1
  <2>3. mt \in Seq([root : Nat, point : Nat])
    BY DEF MountsInit
  <2>4. cwd \in [Users -> Nodes]
    BY <1>3 DEF MountsInit, Root
  <2> QED BY <1>3, <2>2, <2>3, <2>4 DEF TreeTypes, Root
<1>7. ASSUME NEW v \in Nodes PROVE Placed(v) /\ Covered(v)
  <2>1. v \in {1, 2, 3, 4, 5, 6, 7}
    BY <1>3
  <2>2. /\ vn[1].entries = top /\ vn[5].entries = Devices
        /\ v \in {2, 3, 4, 6, 7} => vn[v].entries = NoEntries
        /\ vn[v].parent \in {1, 3, 5}
        /\ v = 3 <=> vn[v].parent = 3
        /\ vn[v].mount \in {1, 2, 3}
        /\ vn[v].mounted = IF v = 2 THEN 2 ELSE IF v = 4 THEN 3 ELSE 0
        /\ TopOf(v) = v <=> v \in {1, 3, 5}
    BY <1>4, <1>5, <2>1 DEF Vnode, TopOf
  <2>3. Placed(v)
    BY <1>1, <1>2, <1>3, <2>1, <2>2 DEF Placed
  <2>4. Covered(v)
    BY <1>3, <1>5, <2>1, <2>2, NoEntriesMap DEF Covered
  <2> QED BY <2>3, <2>4
<1>8. ASSUME NEW v \in Nodes, NEW name \in DOMAIN vn[v].entries PROVE Leads(v, name)
  <2>1. v \in {1, 2, 3, 4, 5, 6, 7}
    BY <1>3
  <2>2. /\ vn[1].entries = top /\ vn[5].entries = Devices
        /\ v \in {2, 3, 4, 6, 7} => vn[v].entries = NoEntries
    BY <1>4, <2>1 DEF Vnode
  <2>3. /\ vn[2].parent = 1 /\ vn[4].parent = 1 /\ vn[6].parent = 5 /\ vn[7].parent = 5
        /\ TopOf(2) = 1 /\ TopOf(4) = 1 /\ TopOf(6) = 5 /\ TopOf(7) = 5
    BY <1>4, <1>5 DEF Vnode, TopOf
  <2>4. CASE v = 1
    BY <1>1, <1>3, <2>2, <2>3, <2>4 DEF Leads
  <2>5. CASE v = 5
    BY <1>2, <1>3, <2>2, <2>3, <2>5 DEF Leads
  <2> QED BY <2>1, <2>2, <2>4, <2>5, NoEntriesMap
<1>9. ASSUME NEW m \in 1 .. Len(mt) PROVE OnPoint(m)
  <2>1. m \in {1, 2, 3}
    BY <1>3
  <2>2. vn[1].mount = 1 /\ vn[3].mount = 2 /\ vn[5].mount = 3 /\ vn[2].mounted = 2 /\ vn[4].mounted = 3
    BY <1>4 DEF Vnode
  <2> QED BY <1>3, <1>5, <2>1, <2>2 DEF OnPoint
<1> QED BY <1>6, <1>7, <1>8, <1>9 DEF TreeInv

(* What a child in an open directory changes.                                *)
LEMMA AddChildKeeps ==
  ASSUME TreeInv, NEW dir \in Tops, NEW name \in Components, NEW type \in {"file", "dir"},
         AddChild(dir, name, type)
  PROVE  TreeInv'
<1>0. PICK k : k = Len(vn) + 1
  OBVIOUS
<1> DEFINE old == vn[dir].entries
           e == [n \in DOMAIN old \cup {name} |-> IF n = name THEN k ELSE old[n]]
           node == Vnode("tmpfs", type, dir, vn[dir].mount, 0, NoEntries)
           more == [vn EXCEPT ![dir].entries = e]
<1>1. /\ vn \in Seq(Vnodes) /\ Len(vn) \in Nat /\ k \in Nat /\ Nodes = 1 .. Len(vn)
      /\ dir \in Nodes /\ vn[dir] \in Vnodes /\ vn[dir].mounted = 0 /\ Root \in Nodes
  BY <1>0 DEF TreeInv, TreeTypes, Tops, Nodes
<1>2. vn' = Append(more, node) /\ UNCHANGED <<mt, cwd>> /\ name \notin DOMAIN old
  BY <1>0 DEF AddChild
<1>3. /\ old \in EntryMaps /\ e \in EntryMaps /\ DOMAIN e = DOMAIN old \cup {name}
      /\ e[name] = k /\ \A n \in DOMAIN old : e[n] = old[n]
  <2>1. old \in EntryMaps
    BY <1>1 DEF Vnodes
  <2>2. DOMAIN e \subseteq MapNames /\ DOMAIN e = DOMAIN old \cup {name}
    BY <2>1, EntryMapFacts DEF MapNames
  <2>3. \A n \in DOMAIN e : e[n] \in Nat
    BY <1>1, <2>1, EntryMapFacts
  <2>4. e = [n \in DOMAIN e |-> e[n]] /\ e[name] = k
    OBVIOUS
  <2>5. \A n \in DOMAIN old : e[n] = old[n]
    BY <1>2
  <2> HIDE DEF e, old
  <2> QED BY <2>1, <2>2, <2>3, <2>4, <2>5, EntryMapFacts
<1> HIDE DEF e
<1>4. more \in Seq(Vnodes) /\ Len(more) = Len(vn) /\ node \in Vnodes
  <2>1. [vn[dir] EXCEPT !.entries = e] \in Vnodes
    BY <1>1, <1>3 DEF Vnodes
  <2>2. node \in Vnodes
    BY <1>1, NoEntriesMap DEF Vnode, Vnodes
  <2> QED BY <1>1, <2>1, <2>2
<1>5. /\ vn' \in Seq(Vnodes) /\ Len(vn') = k /\ vn'[k] = node
      /\ vn'[dir] = [vn[dir] EXCEPT !.entries = e]
      /\ \A v \in Nodes \ {dir} : vn'[v] = vn[v]
  <2> HIDE DEF node
  <2> QED BY <1>0, <1>1, <1>2, <1>4
<1>6. Nodes' = Nodes \cup {k} /\ k \notin Nodes
  BY <1>0, <1>1, <1>5 DEF Nodes
<1>7. /\ node.parent = dir /\ node.mount = vn[dir].mount /\ node.mounted = 0
      /\ node.entries = NoEntries
  BY DEF Vnode
<1> HIDE DEF node, old, more
<1>8. ASSUME NEW v \in Nodes
      PROVE  /\ vn'[v].parent = vn[v].parent /\ vn'[v].mount = vn[v].mount
             /\ vn'[v].mounted = vn[v].mounted /\ TopOf(v)' = TopOf(v)
             /\ vn'[v].entries = IF v = dir THEN e ELSE vn[v].entries
  <2>1. CASE v = dir
    BY <1>1, <1>2, <1>5, <2>1 DEF Vnodes, TopOf
  <2>2. CASE v # dir
    BY <1>2, <1>5, <2>2 DEF TopOf
  <2> QED BY <2>1, <2>2
<1>9. TopOf(k)' = TopOf(dir) /\ TopOf(dir) \in Nodes /\ vn[dir].mount \in 1 .. Len(mt)
  <2>1. vn[dir].mount \in 1 .. Len(mt)
    BY <1>1 DEF TreeInv, Placed
  <2>2. TopOf(dir) \in Nodes
    BY <2>1 DEF TreeInv, OnPoint, TopOf
  <2> QED BY <1>2, <1>5, <1>7, <2>1, <2>2 DEF TopOf
<1>10. TreeTypes'
  <2>1. cwd' \in [Users -> Nodes'] /\ Root \in Nodes'
    BY <1>1, <1>2, <1>6 DEF TreeInv, TreeTypes
  <2> QED BY <1>2, <1>5, <2>1 DEF TreeInv, TreeTypes, Root
<1>11. ASSUME NEW v \in Nodes' PROVE Placed(v)' /\ Covered(v)'
  <2>1. CASE v = k
    <3>1. Placed(v)'
      <4>1. vn'[v].parent = dir /\ vn'[v].mount = vn[dir].mount /\ mt' = mt
        BY <1>2, <1>5, <1>7, <2>1
      <4>2. DOMAIN vn'[dir].entries # {}
        BY <1>1, <1>3, <1>8
      <4> QED BY <1>1, <1>6, <1>9, <4>1, <4>2 DEF Placed
    <3>2. Covered(v)'
      BY <1>5, <1>7, <2>1 DEF Covered
    <3> QED BY <3>1, <3>2
  <2>2. CASE v # k
    <3>1. v \in Nodes /\ Placed(v) /\ Covered(v) /\ vn[v].parent \in Nodes
      BY <1>6, <2>2 DEF TreeInv, Placed
    <3>2. DOMAIN vn'[vn[v].parent].entries # {} \/ DOMAIN vn[vn[v].parent].entries = {}
      BY <1>3, <1>8, <3>1 DEF old
    <3>3. Placed(v)'
      BY <1>2, <1>6, <1>8, <3>1, <3>2 DEF Placed
    <3>4. Covered(v)'
      BY <1>1, <1>2, <1>8, <3>1 DEF Covered
    <3> QED BY <3>3, <3>4
  <2> QED BY <2>1, <2>2
<1>12. ASSUME NEW v \in Nodes', NEW n \in DOMAIN vn'[v].entries PROVE Leads(v, n)'
  <2>1. v \in Nodes
    BY <1>5, <1>6, <1>7, NoEntriesMap
  <2>2. CASE v = dir /\ n = name
    <3>1. vn'[v].entries[n] = k
      BY <1>3, <1>8, <2>1, <2>2
    <3> QED BY <1>5, <1>6, <1>7, <1>9, <2>2, <3>1 DEF Leads
  <2>3. CASE ~(v = dir /\ n = name)
    <3>1. n \in DOMAIN vn[v].entries /\ vn'[v].entries[n] = vn[v].entries[n]
      BY <1>3, <1>8, <2>1, <2>3 DEF old
    <3>2. Leads(v, n)
      BY <2>1, <3>1 DEF TreeInv
    <3> QED BY <1>6, <1>8, <3>1, <3>2 DEF Leads
  <2> QED BY <2>2, <2>3
<1>13. ASSUME NEW m \in 1 .. Len(mt') PROVE OnPoint(m)'
  <2>1. m \in 1 .. Len(mt) /\ OnPoint(m) /\ mt'[m] = mt[m]
    BY <1>2 DEF TreeInv
  <2>2. mt[m].point # 0 => mt[m].point \in Nodes
    BY <1>1, <2>1 DEF OnPoint
  <2>3. mt[m].point \in 0 .. Len(vn')
    BY <1>0, <1>1, <1>5, <2>1 DEF OnPoint
  <2> QED BY <1>6, <1>8, <2>1, <2>2, <2>3 DEF OnPoint
<1> QED BY <1>10, <1>11, <1>12, <1>13 DEF TreeInv

(* A filesystem with a root of its own on an empty directory.                *)
LEMMA MountKeeps ==
  ASSUME MountsAssumption, TreeInv, NEW t \in Users, NEW path \in Paths, NEW fs \in Filesystems,
         Over \subseteq {"empty"}, "devfs" \notin Filesystems, Mount(t, path, fs)
  PROVE  TreeInv'
<1>0. PICK p, m, k : p = Resolve(t, path).at /\ m = Len(mt) + 1 /\ k = Len(vn) + 1
  OBVIOUS
<1> DEFINE node == Vnode(fs, "dir", k, m, 0, NoEntries)
<1>1. /\ vn \in Seq(Vnodes) /\ Len(vn) \in Nat /\ k \in Nat /\ Nodes = 1 .. Len(vn)
      /\ Len(mt) \in Nat /\ m \in Nat /\ m # 0 /\ Root \in Nodes
      /\ mt \in Seq([root : Nat, point : Nat])
  BY <1>0 DEF TreeInv, TreeTypes, Nodes
<1>2. p \in Nodes /\ vn[p] \in Vnodes /\ vn[p].mounted = 0
  <2>1. p \in Tops
    BY <1>0, ResolveGood DEF GoodPlaces
  <2> QED BY <1>1, <2>1 DEF Tops
<1>3. fs \in {"tmpfs", "ramfs"}
  BY DEF MountsAssumption
<1>4. /\ vn' = [Append(vn, node) EXCEPT ![p].mounted = m]
      /\ mt' = Append(mt, [root |-> k, point |-> p]) /\ cwd' = cwd
  BY <1>0, <1>3 DEF Mount, Mounted
<1>5. TopOf(p) # p /\ DOMAIN vn[p].entries = {}
  <2>1. Situation(p) = "empty"
    BY <1>0 DEF Mount
  <2> QED BY <2>1, NoEntriesMap DEF Situation, TopOf
<1>6. node \in Vnodes
  BY <1>1, <1>3, NoEntriesMap DEF Vnode, Vnodes
<1>7. /\ node.parent = k /\ node.mount = m /\ node.mounted = 0 /\ node.entries = NoEntries
  BY DEF Vnode
<1> HIDE DEF node
<1>8. /\ vn' \in Seq(Vnodes) /\ Len(vn') = k /\ vn'[k] = node
      /\ vn'[p] = [vn[p] EXCEPT !.mounted = m]
      /\ \A v \in Nodes \ {p} : vn'[v] = vn[v]
  <2>1. Append(vn, node) \in Seq(Vnodes) /\ Len(Append(vn, node)) = k
    BY <1>0, <1>1, <1>6
  <2>2. [vn[p] EXCEPT !.mounted = m] \in Vnodes
    BY <1>1, <1>2 DEF Vnodes
  <2>3. Append(vn, node)[k] = node /\ \A v \in Nodes : Append(vn, node)[v] = vn[v]
    BY <1>0, <1>1
  <2> DEFINE longer == Append(vn, node)
  <2>4. vn' = [longer EXCEPT ![p] = [vn[p] EXCEPT !.mounted = m]]
    BY <1>2, <1>4, <2>3
  <2>5. p \in 1 .. Len(longer) /\ p # k
    BY <1>0, <1>1, <1>2, <2>1
  <2> HIDE DEF longer
  <2>6. /\ longer \in Seq(Vnodes) /\ Len(longer) = k /\ longer[k] = node
        /\ \A v \in Nodes : longer[v] = vn[v]
    BY <2>1, <2>3 DEF longer
  <2>7. /\ vn' \in Seq(Vnodes) /\ Len(vn') = k /\ vn'[p] = [vn[p] EXCEPT !.mounted = m]
        /\ \A v \in 1 .. k : v # p => vn'[v] = longer[v]
    BY <2>2, <2>4, <2>5, <2>6
  <2>8. k \in 1 .. k /\ Nodes \subseteq 1 .. k
    BY <1>0, <1>1
  <2> QED BY <2>5, <2>6, <2>7, <2>8
<1>9. Nodes' = Nodes \cup {k} /\ k \notin Nodes
  BY <1>0, <1>1, <1>8 DEF Nodes
<1>10. /\ mt' \in Seq([root : Nat, point : Nat]) /\ Len(mt') = m
       /\ mt'[m] = [root |-> k, point |-> p] /\ mt'[m].root = k /\ mt'[m].point = p
       /\ \A i \in 1 .. Len(mt) : mt'[i] = mt[i]
  BY <1>0, <1>1, <1>2, <1>4
<1>11. ASSUME NEW v \in Nodes
       PROVE  /\ vn[v].mount \in 1 .. Len(mt) /\ vn'[v].parent = vn[v].parent
              /\ vn'[v].mount = vn[v].mount
              /\ vn'[v].mounted = (IF v = p THEN m ELSE vn[v].mounted)
              /\ TopOf(v)' = TopOf(v) /\ vn'[v].entries = vn[v].entries
  <2>1. vn[v].mount \in 1 .. Len(mt)
    BY DEF TreeInv, Placed
  <2>2. CASE v = p
    <3>1. /\ vn'[v].parent = vn[v].parent /\ vn'[v].mount = vn[v].mount
          /\ vn'[v].mounted = m /\ vn'[v].entries = vn[v].entries
      BY <1>2, <1>8, <2>2 DEF Vnodes
    <3>2. mt'[vn[v].mount] = mt[vn[v].mount]
      BY <1>10, <2>1
    <3> QED BY <2>1, <2>2, <3>1, <3>2 DEF TopOf
  <2>3. CASE v # p
    <3>1. vn'[v] = vn[v] /\ mt'[vn[v].mount] = mt[vn[v].mount]
      BY <1>8, <1>10, <2>1, <2>3
    <3> QED BY <2>1, <2>3, <3>1 DEF TopOf
  <2> QED BY <2>1, <2>2, <2>3
<1>12. TopOf(k)' = k
  BY <1>7, <1>8, <1>10 DEF TopOf
<1>13. TreeTypes'
  <2>1. cwd' \in [Users -> Nodes'] /\ Root \in Nodes'
    BY <1>1, <1>4, <1>9 DEF TreeInv, TreeTypes
  <2> QED BY <1>8, <1>10, <2>1 DEF TreeTypes, Root
<1>14. ASSUME NEW v \in Nodes' PROVE Placed(v)' /\ Covered(v)'
  <2>1. CASE v = k
    <3>1. m \in 1 .. Len(mt') /\ k \in Nodes'
      BY <1>1, <1>9, <1>10
    <3>2. Placed(v)'
      BY <1>7, <1>8, <1>12, <2>1, <3>1 DEF Placed
    <3>3. Covered(v)'
      BY <1>7, <1>8, <2>1 DEF Covered
    <3> QED BY <3>2, <3>3
  <2>2. CASE v # k
    <3>1. v \in Nodes /\ Placed(v) /\ Covered(v) /\ vn[v].parent \in Nodes
      BY <1>9, <2>2 DEF TreeInv, Placed
    <3>2. m \in 1 .. Len(mt') /\ \A i \in 1 .. Len(mt) : i \in 1 .. Len(mt')
      BY <1>0, <1>1, <1>10
    <3>3. Placed(v)'
      BY <1>9, <1>11, <3>2, <3>1 DEF Placed
    <3>4. CASE v = p
      <4>1. vn'[v].mounted = m /\ mt'[m].point = v
        BY <1>10, <1>11, <3>1, <3>4
      <4>2. DOMAIN vn'[v].entries = {} /\ TopOf(v)' # v
        BY <1>5, <1>11, <3>1, <3>4
      <4> QED BY <3>2, <3>3, <4>1, <4>2 DEF Covered
    <3>5. CASE v # p
      <4>1. vn[v].mounted # 0 => mt'[vn[v].mounted] = mt[vn[v].mounted]
        BY <1>10, <3>1 DEF Covered
      <4>2. /\ vn'[v].mounted = vn[v].mounted /\ vn'[v].entries = vn[v].entries
            /\ TopOf(v)' = TopOf(v)
        BY <1>11, <3>1, <3>5
      <4> QED BY <3>2, <3>1, <3>3, <4>1, <4>2 DEF Covered
    <3> QED BY <3>3, <3>4, <3>5
  <2> QED BY <2>1, <2>2
<1>15. ASSUME NEW v \in Nodes', NEW n \in DOMAIN vn'[v].entries PROVE Leads(v, n)'
  <2>1. v \in Nodes
    BY <1>7, <1>8, <1>9, NoEntriesMap
  <2>2. n \in DOMAIN vn[v].entries /\ vn'[v].entries[n] = vn[v].entries[n]
    BY <1>11, <2>1
  <2>3. Leads(v, n)
    BY <2>1, <2>2 DEF TreeInv
  <2> QED BY <1>9, <1>11, <2>2, <2>3 DEF Leads
<1>16. ASSUME NEW i \in 1 .. Len(mt') PROVE OnPoint(i)'
  <2>1. CASE i = m
    <3>1. vn'[p].mounted = m /\ p \in 0 .. Len(vn')
      BY <1>0, <1>1, <1>2, <1>8, <1>11
    <3>2. k \in Nodes' /\ vn'[k].mount = m /\ mt'[m].root = k /\ mt'[m].point = p
      BY <1>7, <1>8, <1>9, <1>10
    <3> QED BY <2>1, <3>1, <3>2 DEF OnPoint
  <2>2. CASE i # m
    <3>1. i \in 1 .. Len(mt) /\ mt'[i] = mt[i]
      <4>1. Len(mt') = m
        BY <1>10
      <4>2. i \in 1 .. Len(mt)
        BY <1>0, <1>1, <2>2, <4>1
      <4> QED BY <1>10, <4>2
    <3>2. OnPoint(i)
      BY <3>1 DEF TreeInv
    <3>3. mt[i].point # 0 => mt[i].point \in Nodes /\ mt[i].point # p
      <4>1. mt[i].point # 0 => mt[i].point \in Nodes /\ vn[mt[i].point].mounted = i
        BY <1>1, <3>2 DEF OnPoint
      <4>2. i # 0
        BY <3>1
      <4> QED BY <1>2, <4>1, <4>2
    <3>4. mt[i].point \in 0 .. Len(vn')
      BY <1>0, <1>1, <1>8, <3>2 DEF OnPoint
    <3> QED BY <1>9, <1>11, <3>1, <3>2, <3>3, <3>4 DEF OnPoint
  <2> QED BY <2>1, <2>2
<1> QED BY <1>13, <1>14, <1>15, <1>16 DEF TreeInv

LEMMA MountsStepKeeps ==
  ASSUME MountsAssumption, TreeInv, [MountsNext]_mountVars,
         Over \subseteq {"empty"}, "devfs" \notin Filesystems
  PROVE  TreeInv'
<1>1. ASSUME NEW t \in Users, NEW path \in Paths, NEW type \in {"file", "dir"}, Make(t, path, type)
      PROVE  TreeInv'
  <2>1. ResolveParent(t, path).at \in Tops /\ Last(path.names) \in Components
    BY <1>1, ResolveParentGood DEF Make
  <2>2. AddChild(ResolveParent(t, path).at, Last(path.names), type)
    BY <1>1 DEF Make
  <2> QED BY <2>1, <2>2, AddChildKeeps
<1>2. ASSUME UNCHANGED <<vn, mt>>, cwd' \in [Users -> Nodes]
      PROVE  TreeInv'
  <2>1. vn' = vn /\ mt' = mt /\ Nodes' = Nodes
    BY <1>2 DEF Nodes
  <2>2. TreeTypes'
    BY <1>2, <2>1 DEF TreeInv, TreeTypes, Root
  <2>3. ASSUME NEW v \in Nodes'
        PROVE  Placed(v)' /\ Covered(v)' /\ \A name \in DOMAIN vn'[v].entries : Leads(v, name)'
    BY <2>1 DEF TreeInv, Placed, Covered, Leads, TopOf
  <2>4. ASSUME NEW m \in 1 .. Len(mt') PROVE OnPoint(m)'
    BY <2>1 DEF TreeInv, OnPoint
  <2> QED BY <2>2, <2>3, <2>4 DEF TreeInv
<1>3. cwd \in [Users -> Nodes]
  BY DEF TreeInv, TreeTypes
<1>4. ASSUME NEW t \in Users, NEW path \in Paths, Chdir(t, path)
      PROVE  TreeInv'
  <2>1. Resolve(t, path).at \in Nodes
    BY ResolveGood DEF GoodPlaces, Tops
  <2> QED BY <1>2, <1>3, <1>4, <2>1 DEF Chdir
<1>5. ASSUME NEW t \in Users, NEW child \in Users, Clone(t, child)
      PROVE  TreeInv'
  BY <1>2, <1>3, <1>5 DEF Clone
<1>6. CASE UNCHANGED mountVars
  BY <1>2, <1>3, <1>6 DEF mountVars
<1>7. CASE MountsNext
  <2>1. PICK t \in Users :
          \/ \E path \in Paths :
               \/ OpenCreate(t, path) \/ Mkdir(t, path) \/ Chdir(t, path)
               \/ \E fs \in Filesystems : Mount(t, path, fs)
          \/ \E child \in Users \ {t} : Clone(t, child)
    BY <1>7 DEF MountsNext
  <2>2. ASSUME NEW path \in Paths, OpenCreate(t, path) \/ Mkdir(t, path)
        PROVE  TreeInv'
    BY <1>1, <2>2 DEF OpenCreate, Mkdir
  <2> QED BY <1>4, <1>5, <2>1, <2>2, MountKeeps
<1> QED BY <1>6, <1>7

(* Entries lead back, and places have nothing on them.                       *)
LEMMA OneTree ==
  ASSUME MountsAssumption, TreeInv
  PROVE  PathsAsOneTree
<1>1. Places \subseteq Tops
  <2>1. DOMAIN cwd = Users
    BY DEF TreeInv, TreeTypes
  <2> QED BY <2>1, ResolveGood DEF Places, GoodPlaces
<1>2. ASSUME NEW v \in Places, NEW name \in PathNames \cup Known, Step(At(v), name).err = "ok"
      PROVE  Step(Step(At(v), name), "..") = At(v)
  <2> DEFINE child == vn[v].entries[name]
             u == Enter(child)
  <2>1. v \in Nodes /\ name # "." /\ name # ".."
    BY <1>1 DEF Tops, MountsAssumption
  <2>2. /\ Step(At(v), name) = At(u) /\ name \in DOMAIN vn[v].entries
    BY <1>2, <2>1 DEF Step, At, Lookup
  <2>3. child \in Nodes /\ vn[child].parent = v /\ TopOf(child) # child
    BY <2>1, <2>2 DEF TreeInv, Leads
  <2>4. Step(At(u), "..") = At(ParentOf(u))
    BY DEF Step, At
  <2>5. CASE vn[child].mounted = 0
    <3>1. u = child
      BY <2>3, <2>5, FollowTop DEF Enter
    <3> QED BY <2>2, <2>3, <2>4, <3>1 DEF ParentOf, TopOf
  <2>6. CASE vn[child].mounted # 0
    <3> DEFINE m == vn[child].mounted
    <3>1. u = mt[m].root
      BY <2>3, <2>6, FollowTop DEF Enter
    <3>2. m \in 1 .. Len(mt) /\ mt[m].point = child
      BY <2>3, <2>6 DEF TreeInv, Covered
    <3>3. vn[u].mount = m
      BY <3>1, <3>2 DEF TreeInv, OnPoint
    <3>4. child # 0
      BY <2>3 DEF Nodes
    <3>5. ParentOf(u) = v
      BY <2>3, <3>1, <3>2, <3>3, <3>4 DEF ParentOf
    <3> QED BY <2>2, <2>4, <3>5
  <2> QED BY <2>5, <2>6
<1>3. ASSUME NEW v \in Places, NEW name \in Components
      PROVE  Walk(v, <<name>>) = Step(At(v), name)
  <2>1. v \in Nodes /\ vn[v].mounted = 0
    BY <1>1 DEF Tops
  <2>2. Follow(v) = v
    BY <2>1, FollowTop
  <2>3. Len(<<name>>) = 1 /\ <<name>>[1] = name
    OBVIOUS
  <2>4. PICK to \in [0 .. 1 -> GoodPlaces] :
          /\ to[0] = At(Follow(v)) /\ Walk(v, <<name>>) = to[1]
          /\ \A n \in 1 .. 1 : to[n] = Step(to[n - 1], <<name>>[n])
    BY <2>1, <2>3, WalkPlaces
  <2>5. to[1] = Step(to[1 - 1], <<name>>[1])
    BY <2>4
  <2> QED BY <2>2, <2>3, <2>4, <2>5
<1> QED BY <1>2, <1>3 DEF PathsAsOneTree, RoundTrip, Composes

(* Paths behave as in one tree, for any number of threads, names and vnodes, *)
(* paths of any length and whatever is made and mounted by whom: ".." takes  *)
(* a name back, into a mount and out of it, and a path may be walked in      *)
(* parts; so long as users mount on empty directories only, and what they    *)
(* mount has a root of its own.                                              *)
THEOREM PathsStayOneTree ==
  ASSUME MountsAssumption, Over \subseteq {"empty"}, "devfs" \notin Filesystems
  PROVE  MountsSpec => []PathsAsOneTree
<1>1. MountsInit => TreeInv
  BY MountsStart
<1>2. TreeInv /\ [MountsNext]_mountVars => TreeInv'
  BY MountsStepKeeps
<1>3. TreeInv => PathsAsOneTree
  BY OneTree
<1> QED BY <1>1, <1>2, <1>3, PTL DEF MountsSpec
=============================================================================
