----------------------------- MODULE ByteBuffer -----------------------------
(***************************************************************************)
(* byte_buffer.hpp: growable buffers that own raw memory.  Blocks of       *)
(* memory are explicit, so that a block freed twice, shared, leaked, read  *)
(* past its end or read before it is written shows.                        *)
(***************************************************************************)
EXTENDS Integers, Sequences

CONSTANTS Buffers,       \* the buffer objects
          Blocks,        \* addresses new char[] may return
          Null,          \* nullptr
          Byte,          \* the values of a char
          Junk,          \* the value of a char nobody has written
          Pieces,        \* the byte sequences written to buffers
          DEFAULT_SIZE,  \* capacity of a buffer made without a size
          GROW_FACTOR,
          MaxSize        \* bound: bytes in a buffer

ASSUME BufferAssumption ==
  /\ Null \notin Blocks /\ Junk \notin Byte
  /\ Pieces \subseteq Seq(Byte)
  /\ DEFAULT_SIZE \in Nat \ {0} /\ GROW_FACTOR \in Nat \ {0} /\ MaxSize \in Nat

VARIABLES live,     \* the buffers that exist
          buf,      \* data_, size_ and capacity_ of each
          heap,     \* the characters at each address, none where none are allocated
          aborted   \* an assertion has failed

vars == <<live, buf, heap, aborted>>

NewCells(n) == [i \in 0..(n - 1) |-> Junk]
NoCells == NewCells(0)
NoData == [data |-> Null, size |-> 0, capacity |-> 0]

\* The bytes between begin() and end().
Contents(b) == [i \in 1..buf[b].size |-> heap[buf[b].data][i - 1]]

\* std::memcpy of s to position `at' of a block.
memcpy(cells, at, s) ==
  [i \in DOMAIN cells |-> IF at <= i /\ i < at + Len(s) THEN s[i - at + 1] ELSE cells[i]]

\* The heap once `old' is deleted, unless it is `new', and `new' holds cells.
Replaced(old, new, cells) ==
  [p \in DOMAIN heap |-> IF p = new THEN cells ELSE IF p = old THEN NoCells ELSE heap[p]]

Unused == {p \in Blocks : heap[p] = NoCells}

Init ==
  /\ live = {}
  /\ buf = [b \in Buffers |-> NoData]
  /\ heap = [p \in Blocks \cup {Null} |-> NoCells]
  /\ aborted = FALSE

-----------------------------------------------------------------------------
\* byte_buffer(size) followed, in byte_buffer(data, size), by the copy of s.
construct(b, s) ==
  LET n == IF s = << >> THEN DEFAULT_SIZE ELSE Len(s)
  IN \E p \in Unused :
       /\ b \notin live
       /\ live' = live \cup {b}
       /\ buf' = [buf EXCEPT ![b] = [data |-> p, size |-> Len(s), capacity |-> n]]
       /\ heap' = Replaced(p, p, memcpy(NewCells(n), 0, s))
       /\ UNCHANGED aborted

\* The copy constructor asserts that it is given data.
construct_copy(b, c) ==
  \/ buf[c].data # Null /\ construct(b, Contents(c))
  \/ /\ buf[c].data = Null
     /\ b \notin live
     /\ aborted' = TRUE
     /\ UNCHANGED <<live, buf, heap>>

construct_move(b, c) ==
  /\ b \notin live
  /\ live' = live \cup {b}
  /\ buf' = [buf EXCEPT ![b] = buf[c], ![c] = NoData]
  /\ UNCHANGED <<heap, aborted>>

destroy(b) ==
  /\ live' = live \ {b}
  /\ buf' = [buf EXCEPT ![b] = NoData]
  /\ heap' = [heap EXCEPT ![buf[b].data] = NoCells]
  /\ UNCHANGED aborted

\* Mutant of assign_copy: the size is only set when the block is replaced.
assign_copy_keeps_size(b, c) ==
  LET x == buf[b]
      n == buf[c].size
  IN \E p \in Unused :
       LET y == IF x.capacity < n THEN [data |-> p, size |-> n, capacity |-> n] ELSE x
           cells == IF x.capacity < n THEN NewCells(n) ELSE heap[x.data]
       IN /\ buf' = [buf EXCEPT ![b] = y]
          /\ heap' = Replaced(x.data, y.data, memcpy(cells, 0, Contents(c)))
          /\ UNCHANGED <<live, aborted>>

\* operator=(const byte_buffer&)
assign_copy(b, c) ==
  LET x == buf[b]
      n == buf[c].size
  IN \E p \in Unused :
       LET y == IF x.capacity < n THEN [data |-> p, size |-> n, capacity |-> n]
                ELSE [data |-> x.data, size |-> n, capacity |-> x.capacity]
           cells == IF x.capacity < n THEN NewCells(n) ELSE heap[x.data]
       IN /\ buf' = [buf EXCEPT ![b] = y]
          /\ heap' = Replaced(x.data, y.data, memcpy(cells, 0, Contents(c)))
          /\ UNCHANGED <<live, aborted>>

\* Mutant of assign_move: the old block is not deleted.
assign_move_leaks(b, c) ==
  /\ buf' = [buf EXCEPT ![b] = buf[c], ![c] = NoData]
  /\ UNCHANGED <<live, heap, aborted>>

\* operator=(byte_buffer&&); a buffer moved to itself is left empty.
assign_move(b, c) ==
  /\ buf' = [buf EXCEPT ![b] = buf[c], ![c] = NoData]
  /\ heap' = [heap EXCEPT ![buf[b].data] = NoCells]
  /\ UNCHANGED <<live, aborted>>

\* Mutant of grown: the size asked for is not added.
grown_twice(capacity, n) == capacity * GROW_FACTOR

\* The capacity ensure_size allocates when n more bytes do not fit.
grown(capacity, n) == capacity * GROW_FACTOR + n

\* ensure_size(n) when `new char[]' returns p: the members, and the block.
ensure_size(x, n, p) ==
  IF x.size + n <= x.capacity THEN x
  ELSE [data |-> p, size |-> x.size, capacity |-> grown(x.capacity, n)]
ensured(x, y) ==
  IF x = y THEN heap[x.data]
  ELSE [i \in 0..(y.capacity - 1) |-> IF i < x.size THEN heap[x.data][i] ELSE Junk]

\* Every operator<<: ensure_size, copy the bytes, advance size_.
append(b, s) ==
  /\ buf[b].size + Len(s) <= MaxSize
  /\ \E p \in Unused :
       LET x == buf[b]
           y == ensure_size(x, Len(s), p)
       IN /\ buf' = [buf EXCEPT ![b] = [data |-> y.data, size |-> x.size + Len(s),
                                        capacity |-> y.capacity]]
          /\ heap' = Replaced(x.data, y.data, memcpy(ensured(x, y), x.size, s))
          /\ UNCHANGED <<live, aborted>>

\* operator<<(wrapper) of wrap(c.data(pos), c.size() - pos), as the encoder
\* calls it.  The pointer is taken before ensure_size, so c must not be b.
append_rest(b, c, pos) ==
  /\ b # c
  /\ append(b, SubSeq(Contents(c), pos + 1, buf[c].size))

clear(b) ==
  /\ buf' = [buf EXCEPT ![b].size = 0]
  /\ UNCHANGED <<live, heap, aborted>>

\* Mutant of erase: size_ -= last + first.
erase_sum(b, first, last) ==
  LET x == buf[b]
  IN /\ first < last /\ last <= x.size
     /\ buf' = [buf EXCEPT ![b].size = x.size - (last + first)]
     /\ UNCHANGED <<live, heap, aborted>>

\* byte_buffer::erase; other arguments return early.
erase(b, first, last) ==
  LET x == buf[b]
  IN /\ first < last /\ last <= x.size
     /\ buf' = [buf EXCEPT ![b].size = x.size - (last - first)]
     /\ heap' = [heap EXCEPT ![x.data] =
          [i \in DOMAIN @ |-> IF first <= i /\ i < first + x.size - last
                              THEN @[i + (last - first)] ELSE @[i]]]
     /\ UNCHANGED <<live, aborted>>

Next ==
  /\ ~aborted
  /\ \/ \E b \in Buffers : \E s \in Pieces \cup {<< >>} : construct(b, s)
     \/ \E b \in Buffers, c \in live : construct_copy(b, c) \/ construct_move(b, c)
     \/ \E b, c \in live : assign_copy(b, c) \/ assign_move(b, c) \/ append(b, Contents(c))
     \/ \E b, c \in live : \E pos \in 0..MaxSize : pos <= buf[c].size /\ append_rest(b, c, pos)
     \/ \E b \in live : destroy(b) \/ clear(b)
     \/ \E b \in live, s \in Pieces : append(b, s)
     \/ \E b \in live : \E first, last \in 0..(MaxSize + 1) : erase(b, first, last)

Spec == Init /\ [][Next]_vars

-----------------------------------------------------------------------------
TypeOK ==
  /\ live \subseteq Buffers
  /\ buf \in [Buffers -> [data : Blocks \cup {Null}, size : Nat, capacity : Nat]]
  /\ DOMAIN heap = Blocks \cup {Null}
  /\ \A p \in Blocks \cup {Null} : \A i \in DOMAIN heap[p] : heap[p][i] \in Byte \cup {Junk}
  /\ aborted \in BOOLEAN

\* A block that is allocated belongs to one buffer that exists, so that it is
\* deleted once and never leaked, and is as large as that buffer's capacity_.
Ownership ==
  /\ \A b \in live : DOMAIN heap[buf[b].data] = 0..(buf[b].capacity - 1)
  /\ \A b, c \in live : b # c /\ buf[b].data = buf[c].data => buf[b].data = Null
  /\ \A p \in Blocks \cup {Null} : heap[p] # NoCells => \E b \in live : buf[b].data = p

\* What data() hands out with size() lies within the block and was written.
Initialised ==
  \A b \in live :
    /\ buf[b].size <= buf[b].capacity
    /\ \A i \in 0..(buf[b].size - 1) : heap[buf[b].data][i] \in Byte

\* Every call does to the contents of the buffers what Bytes says.
B == INSTANCE Bytes WITH contents <- [b \in live |-> Contents(b)]
KeepsBytes == B!Spec
=============================================================================
