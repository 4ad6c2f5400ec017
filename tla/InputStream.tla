---------------------------- MODULE InputStream ----------------------------
(***************************************************************************)
(* What a stream over a large object promises its reader: the bytes 1 ..   *)
(* size of the object in their order, none left out and none twice, the    *)
(* end behind the last of them and nowhere else, and the way back.         *)
(***************************************************************************)
EXTENDS Integers

CONSTANTS
  Sizes,     \* how many bytes an object may have
  EndOfFile  \* the answer at the end

VARIABLES
  size, \* the bytes of the object
  pos,  \* the bytes ahead of the reader's position
  got   \* the answer to the last call

Init == size \in Sizes /\ pos = 0 /\ got = EndOfFile

\* The byte at the position, or the end.
Here == IF pos < size THEN pos + 1 ELSE EndOfFile

Peek == got' = Here /\ pos' = pos
Read == got' = Here /\ pos' = IF pos < size THEN pos + 1 ELSE pos

\* A byte back, or as far back as the stream lets its reader.
Back ==
  \/ pos > 0 /\ got' = pos /\ pos' = pos - 1
  \/ got' = EndOfFile /\ pos' = pos

\* Several bytes at once: the answer is how many there were.
ReadMany == \E n \in 0 .. size - pos : got' = n /\ pos' = pos + n

Seek == \E p \in 0 .. size : got' = p /\ pos' = p

Next == (Peek \/ Read \/ Back \/ ReadMany \/ Seek) /\ UNCHANGED size

Spec == Init /\ [][Next]_<<size, pos, got>>
=============================================================================
