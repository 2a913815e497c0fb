------------------------------- MODULE ByteFile -------------------------------
(***************************************************************************)
(* What a regular file promises to those who have it open: it is a         *)
(* sequence of bytes, and every handle has a place in it.  The first       *)
(* Capacity bytes are kept; an empty write can make the file longer than   *)
(* that, and the bytes behind are any.                                     *)
(***************************************************************************)
EXTENDS Integers, Sequences

CONSTANTS Handles, Bytes, Zero, Capacity, Lengths, MaxSeek

VARIABLES contents, length, at, got  \* got: what the last read returned
vars == <<contents, length, at, got>>

Init == contents = <<>> /\ length = 0 /\ at = [h \in Handles |-> 0] /\ got = <<>>

Lesser(m, n) == IF m <= n THEN m ELSE n
Greater(m, n) == IF m <= n THEN n ELSE m

(* A write puts as many bytes as fit at the place of h, at least one unless  *)
(* there are none; what lies between the end of the file and that place      *)
(* reads as zeros.                                                           *)
Write(h, buf) ==
  LET n == Lesser(Len(buf), Greater(0, Capacity - at[h]))
      end == at[h] + n
  IN  /\ n > 0 \/ Len(buf) = 0
      /\ length' = Greater(end, length)
      /\ contents' = [i \in 1 .. Lesser(Greater(end, length), Capacity) |->
                        IF i \in at[h] + 1 .. end THEN buf[i - at[h]]
                        ELSE IF i <= length THEN contents[i] ELSE Zero]
      /\ at' = [at EXCEPT ![h] = end]
      /\ UNCHANGED got

(* A read returns the bytes at the place of h, up to the end of the file.    *)
Read(h, len) ==
  LET n == Lesser(len, Greater(0, length - at[h]))
  IN  /\ got' \in [1 .. n -> Bytes]
      /\ \A i \in 1 .. n : at[h] + i <= Capacity => got'[i] = contents[at[h] + i]
      /\ at' = [at EXCEPT ![h] = @ + n]
      /\ UNCHANGED <<contents, length>>

Seek(h, offset) ==
  /\ at' = [at EXCEPT ![h] = offset]
  /\ UNCHANGED <<contents, length, got>>

Next ==
  \E h \in Handles :
    \/ \E len \in Lengths :
         \/ \E buf \in [1 .. len -> Bytes] : Write(h, buf)
         \/ Read(h, len)
    \/ \E offset \in 0 .. MaxSeek : Seek(h, offset)

Spec == Init /\ [][Next]_vars
=============================================================================
