------------------------------- MODULE Bytes -------------------------------
(***************************************************************************)
(* What byte_buffer promises its users: every buffer that exists holds a   *)
(* sequence of bytes of its own, changed by the calls made on it alone.    *)
(***************************************************************************)
EXTENDS Naturals, Sequences

CONSTANTS Buffers,   \* the buffer objects
          Pieces     \* the byte sequences written to buffers

VARIABLE contents    \* the bytes of each buffer that exists

\* Buffer b, new or not, now holds s; the others hold what they held.
Holds(b, s) ==
  contents' = [x \in DOMAIN contents \cup {b} |-> IF x = b THEN s ELSE contents[x]]

\* s without its elements from `first' up to, not including, `last'.
Without(s, first, last) ==
  [i \in 1..(Len(s) - (last - first)) |-> IF i <= first THEN s[i] ELSE s[i + (last - first)]]

-----------------------------------------------------------------------------
Init == contents = [b \in {} |-> << >>]

Create(b, s) == b \notin DOMAIN contents /\ Holds(b, s)
Destroy(b) == contents' = [x \in DOMAIN contents \ {b} |-> contents[x]]
Set(b, s) == b \in DOMAIN contents /\ Holds(b, s)
Insert(b, s) == b \in DOMAIN contents /\ Holds(b, contents[b] \o s)
Erase(b, first, last) ==
  /\ b \in DOMAIN contents
  /\ first < last /\ last <= Len(contents[b])
  /\ Holds(b, Without(contents[b], first, last))

\* Buffer b takes the bytes of c, which is left empty.
Take(b, c) ==
  /\ c \in DOMAIN contents
  /\ contents' = [x \in DOMAIN contents \cup {b} |->
                    IF x = c THEN << >> ELSE IF x = b THEN contents[c] ELSE contents[x]]

Next ==
  \E b \in Buffers :
    \/ \E s \in Pieces \cup {<< >>} : Create(b, s) \/ Set(b, s) \/ Insert(b, s)
    \/ Destroy(b)
    \/ \E c \in DOMAIN contents :
         \/ Create(b, contents[c]) \/ Set(b, contents[c]) \/ Take(b, c)
         \/ \E n \in 0..Len(contents[c]) : Insert(b, SubSeq(contents[c], n + 1, Len(contents[c])))
    \/ /\ b \in DOMAIN contents
       /\ \E first, last \in 0..Len(contents[b]) : Erase(b, first, last)

Spec == Init /\ [][Next]_contents
=============================================================================
