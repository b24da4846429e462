-------------------------- MODULE ByteBufferProofs --------------------------
(***************************************************************************)
(* byte_buffer never frees, shares, leaks or overruns a block, never hands *)
(* out a character nobody wrote, and implements Bytes: proofs for any      *)
(* number of buffers and blocks, any pieces, sizes and growth factor.      *)
(***************************************************************************)
EXTENDS ByteBuffer, TLAPS

Address == Blocks \cup {Null}
Members == [data : Address, size : Nat, capacity : Nat]
Cell == Byte \cup {Junk}

\* The inductive invariant.  TypeOK, Ownership and Initialised are not
\* inductive alone: a buffer with a block of no characters would see it handed
\* out again by the next allocation, and a write through nullptr would be kept.
Sized ==
  /\ \A b \in live : buf[b].data = Null <=> buf[b].capacity = 0
  /\ heap[Null] = NoCells
  /\ heap \in [Address -> UNION {[0..(n - 1) -> Cell] : n \in Nat}]
BInv == TypeOK /\ Ownership /\ Initialised /\ Sized

-----------------------------------------------------------------------------
(* Every call but a move and the destructor gives one buffer new members    *)
(* and characters: Fits says which it may get, Rewrites what becomes of the *)
(* state.                                                                   *)

Fits(b, y, cells) ==
  /\ y \in Members
  /\ cells \in [0..(y.capacity - 1) -> Cell]
  /\ y.size <= y.capacity
  /\ \A i \in 0..(y.size - 1) : cells[i] \in Byte
  /\ y.data = Null <=> y.capacity = 0
  /\ y.data \in Unused \/ (b \in live /\ y.data = buf[b].data)

Rewrites(b, y, cells) ==
  /\ live' = live \cup {b}
  /\ buf' = [buf EXCEPT ![b] = y]
  /\ heap' = Replaced(IF b \in live THEN buf[b].data ELSE y.data, y.data, cells)
  /\ aborted' = aborted

\* A block of no characters is one function, whatever it holds.
LEMMA EmptyBlock ==
  ASSUME NEW cells \in [0..(0 - 1) -> Cell]
  PROVE  cells = NoCells
<1>1. 0..(0 - 1) = {}
  OBVIOUS
<1>2. DOMAIN cells = 0..(0 - 1) /\ cells = [i \in 0..(0 - 1) |-> cells[i]]
  OBVIOUS
<1> QED
  BY <1>1, <1>2 DEF NoCells, NewCells

\* What new char[n] returns, n > 0, is not what an unused address holds.
LEMMA BlockInUse ==
  ASSUME NEW n \in Nat, n > 0, NEW cells, DOMAIN cells = 0..(n - 1)
  PROVE  cells # NoCells
<1>1. 0 \in 0..(n - 1) /\ 0 \notin 0..(0 - 1)
  OBVIOUS
<1>2. DOMAIN NoCells = 0..(0 - 1)
  BY DEF NoCells, NewCells
<1> QED
  BY <1>1, <1>2

\* An unused address belongs to no buffer.
LEMMA UnusedIsFree ==
  ASSUME BInv, NEW p \in Unused, NEW b \in live
  PROVE  buf[b].data # p
<1>1. p \in Blocks /\ heap[p] = NoCells /\ p # Null
  BY BufferAssumption DEF Unused
<1>2. SUFFICES ASSUME buf[b].data = p PROVE FALSE
  OBVIOUS
<1>3. buf[b] \in Members /\ buf[b].capacity \in Nat /\ buf[b].capacity # 0
  BY <1>1, <1>2 DEF BInv, TypeOK, Sized, Members, Address
<1>4. DOMAIN heap[p] = 0..(buf[b].capacity - 1)
  BY <1>2 DEF BInv, Ownership
<1> QED
  BY <1>1, <1>3, <1>4, BlockInUse

\* The state after a rewrite: the buffer has its members and characters, and
\* the other buffers have theirs, in blocks that are not its own.
LEMMA RewriteState ==
  ASSUME BInv, NEW b \in Buffers, NEW y, NEW cells, Fits(b, y, cells), Rewrites(b, y, cells)
  PROVE  /\ y.data \in Address /\ buf'[b] = y /\ heap'[y.data] = cells
         /\ \A c \in live : c # b =>
              /\ buf'[c] = buf[c] /\ heap'[buf[c].data] = heap[buf[c].data]
              /\ buf[c].data = y.data => y.data = Null
<1>1. y \in Members /\ y.data \in Address
  BY DEF Fits, Members
<1>2. DOMAIN heap = Address /\ buf \in [Buffers -> Members] /\ live \subseteq Buffers
  BY DEF BInv, TypeOK, Members, Address
<1>3. buf'[b] = y /\ heap'[y.data] = cells
  BY <1>1, <1>2 DEF Rewrites, Replaced
<1>4. y.data = Null => cells = NoCells
  <2>1. y.data = Null => y.capacity = 0 /\ cells \in [0..(y.capacity - 1) -> Cell]
    BY DEF Fits
  <2> QED
    BY <2>1, EmptyBlock
<1>5. ASSUME NEW c \in live, c # b
      PROVE  /\ buf'[c] = buf[c] /\ heap'[buf[c].data] = heap[buf[c].data]
             /\ buf[c].data = y.data => y.data = Null
  <2>1. buf'[c] = buf[c] /\ buf[c].data \in Address
    BY <1>2, <1>5 DEF Rewrites, Members
  <2>2. buf[c].data = y.data => y.data = Null
    <3>1. CASE y.data \in Unused
      BY <3>1, UnusedIsFree
    <3>2. CASE b \in live /\ y.data = buf[b].data
      BY <3>2, <1>5 DEF BInv, Ownership
    <3> QED
      BY <3>1, <3>2 DEF Fits
  <2>3. heap[Null] = NoCells
    BY DEF BInv, Sized
  <2>4. CASE buf[c].data = y.data
    BY <2>4, <2>1, <2>2, <2>3, <1>3, <1>4
  <2>5. CASE buf[c].data # y.data /\ b \in live /\ buf[c].data = buf[b].data
    <3>1. buf[c].data = Null
      BY <2>5, <1>5 DEF BInv, Ownership
    <3> QED
      BY <3>1, <2>1, <2>2, <2>3, <2>5, <1>2 DEF Rewrites, Replaced
  <2>6. CASE buf[c].data # y.data /\ ~(b \in live /\ buf[c].data = buf[b].data)
    BY <2>1, <2>2, <2>6, <1>2 DEF Rewrites, Replaced
  <2> QED
    BY <2>1, <2>2, <2>4, <2>5, <2>6
<1> QED
  BY <1>1, <1>3, <1>5

\* A rewrite keeps the invariant.
LEMMA RewriteInv ==
  ASSUME BInv, NEW b \in Buffers, NEW y, NEW cells, Fits(b, y, cells), Rewrites(b, y, cells)
  PROVE  BInv'
<1>1. y \in Members /\ y.data \in Address /\ y.capacity \in Nat /\ y.size \in Nat
  BY DEF Fits, Members
<1>2. DOMAIN heap = Address /\ buf \in [Buffers -> Members] /\ live \subseteq Buffers
      /\ aborted \in BOOLEAN
  BY DEF BInv, TypeOK, Members, Address
<1>3. live' = live \cup {b} /\ live' \subseteq Buffers /\ buf' \in [Buffers -> Members]
      /\ aborted' \in BOOLEAN /\ DOMAIN heap' = Address
  BY <1>1, <1>2 DEF Rewrites, Replaced
<1>4. /\ buf'[b] = y /\ heap'[y.data] = cells
      /\ \A c \in live : c # b =>
              /\ buf'[c] = buf[c] /\ heap'[buf[c].data] = heap[buf[c].data]
              /\ buf[c].data = y.data => y.data = Null
  BY RewriteState
<1>5. cells \in [0..(y.capacity - 1) -> Cell] /\ DOMAIN cells = 0..(y.capacity - 1)
  BY DEF Fits
<1>6. ASSUME NEW p \in Address
      PROVE  /\ heap'[p] \in UNION {[0..(n - 1) -> Cell] : n \in Nat}
             /\ heap'[p] \in {cells, NoCells, heap[p]}
  <2>1. heap'[p] \in {cells, NoCells, heap[p]}
    BY <1>2 DEF Rewrites, Replaced
  <2>2. cells \in UNION {[0..(n - 1) -> Cell] : n \in Nat}
    BY <1>1, <1>5
  <2>3. NoCells \in [0..(0 - 1) -> Cell]
    BY DEF NoCells, NewCells, Cell
  <2>4. NoCells \in UNION {[0..(n - 1) -> Cell] : n \in Nat}
    BY <2>3
  <2>5. heap[p] \in UNION {[0..(n - 1) -> Cell] : n \in Nat}
    BY DEF BInv, Sized
  <2> QED
    BY <2>1, <2>2, <2>4, <2>5
<1>7. heap' \in [Address -> UNION {[0..(n - 1) -> Cell] : n \in Nat}]
  <2>1. heap' = [p \in Address |-> heap'[p]]
    BY <1>2 DEF Rewrites, Replaced
  <2> QED
    BY <2>1, <1>6
<1>8. TypeOK'
  <2>1. \A p \in Address : \A i \in DOMAIN heap'[p] : heap'[p][i] \in Cell
    BY <1>6
  <2> QED
    BY <2>1, <1>3 DEF TypeOK, Members, Address, Cell
<1>9. Ownership'
  <2>1. \A c \in live' : DOMAIN heap'[buf'[c].data] = 0..(buf'[c].capacity - 1)
    BY <1>3, <1>4, <1>5 DEF BInv, Ownership
  <2>2. \A c, d \in live' : c # d /\ buf'[c].data = buf'[d].data => buf'[c].data = Null
    BY <1>3, <1>4 DEF BInv, Ownership
  <2>3. ASSUME NEW p \in Address, heap'[p] # NoCells
        PROVE  \E c \in live' : buf'[c].data = p
    <3>1. CASE p = y.data
      BY <3>1, <1>3, <1>4
    <3>2. CASE p # y.data
      <4>1. heap'[p] = heap[p] /\ ~(b \in live /\ p = buf[b].data)
        BY <3>2, <2>3, <1>2 DEF Rewrites, Replaced
      <4>2. PICK c \in live : buf[c].data = p
        BY <4>1, <2>3 DEF BInv, Ownership, Address
      <4> QED
        BY <4>1, <4>2, <1>3, <1>4
    <3> QED
      BY <3>1, <3>2
  <2> QED
    BY <2>1, <2>2, <2>3 DEF Ownership, Address, NoCells, NewCells
<1>10. Initialised'
  <2>1. y.size <= y.capacity /\ \A i \in 0..(y.size - 1) : cells[i] \in Byte
    BY DEF Fits
  <2> QED
    BY <2>1, <1>3, <1>4 DEF BInv, Initialised
<1>11. Sized'
  <2>1. \A c \in live' : buf'[c].data = Null <=> buf'[c].capacity = 0
    BY <1>3, <1>4 DEF BInv, Sized, Fits
  <2>2. heap'[Null] = NoCells
    <3>1. CASE y.data = Null
      BY <3>1, <1>4, <1>5, EmptyBlock DEF Fits
    <3>2. CASE y.data # Null
      BY <3>2, <1>2 DEF Rewrites, Replaced, BInv, Sized, Address
    <3> QED
      BY <3>1, <3>2
  <2> QED
    BY <2>1, <2>2, <1>7 DEF Sized, NoCells, NewCells
<1> QED
  BY <1>8, <1>9, <1>10, <1>11 DEF BInv

\* What the buffers hold: the refinement mapping to Bytes.
Held == [x \in live |-> Contents(x)]

\* What a buffer holds is a sequence of bytes.
LEMMA ContentsBytes ==
  ASSUME BInv, NEW b \in live
  PROVE  /\ buf[b].size \in Nat /\ buf[b].capacity \in Nat /\ buf[b].size <= buf[b].capacity
         /\ Contents(b) \in Seq(Byte) /\ Len(Contents(b)) = buf[b].size
         /\ \A i \in 1..buf[b].size : Contents(b)[i] = heap[buf[b].data][i - 1]
<1>1. buf[b] \in Members /\ buf[b].size \in Nat /\ buf[b].capacity \in Nat
  BY DEF BInv, TypeOK, Members, Address
<1>2. buf[b].size <= buf[b].capacity
      /\ \A i \in 0..(buf[b].size - 1) : heap[buf[b].data][i] \in Byte
  BY DEF BInv, Initialised
<1>3. \A i \in 1..buf[b].size : heap[buf[b].data][i - 1] \in Byte
  BY <1>1, <1>2
<1>4. Contents(b) \in [1..buf[b].size -> Byte]
  BY <1>3 DEF Contents
<1>5. \A i \in 1..buf[b].size : Contents(b)[i] = heap[buf[b].data][i - 1]
  BY DEF Contents
<1> HIDE DEF Contents
<1> QED
  BY <1>1, <1>2, <1>4, <1>5

\* A sequence is what a block holds from its start when they agree on every
\* character; the same for a sequence written after another.
LEMMA Reindexed ==
  ASSUME NEW T, NEW s \in Seq(T), NEW f, \A i \in 0..(Len(s) - 1) : f[i] = s[i + 1]
  PROVE  s = [i \in 1..Len(s) |-> f[i - 1]]
OBVIOUS

LEMMA Joined ==
  ASSUME NEW T, NEW s \in Seq(T), NEW t \in Seq(T)
  PROVE  /\ s \o t \in Seq(T) /\ Len(s \o t) = Len(s) + Len(t)
         /\ \A i \in 1..(Len(s) + Len(t)) :
              (s \o t)[i] = IF i <= Len(s) THEN s[i] ELSE t[i - Len(s)]
OBVIOUS

-----------------------------------------------------------------------------
(* One lemma per call that rewrites a buffer: what it writes fits, and what *)
(* the buffer holds then.                                                   *)

LEMMA ConstructRewrites ==
  ASSUME BInv, NEW b \in Buffers, NEW s \in Seq(Byte), construct(b, s)
  PROVE  b \notin live /\
         \E y, cells : /\ Fits(b, y, cells) /\ Rewrites(b, y, cells)
                       /\ s = [i \in 1..y.size |-> cells[i - 1]]
<1> DEFINE n == IF s = << >> THEN DEFAULT_SIZE ELSE Len(s)
<1>1. PICK p \in Unused :
         /\ b \notin live
         /\ live' = live \cup {b}
         /\ buf' = [buf EXCEPT ![b] = [data |-> p, size |-> Len(s), capacity |-> n]]
         /\ heap' = Replaced(p, p, memcpy(NewCells(n), 0, s))
         /\ UNCHANGED aborted
  BY DEF construct
<1> DEFINE y == [data |-> p, size |-> Len(s), capacity |-> n]
           cells == memcpy(NewCells(n), 0, s)
<1>2. n \in Nat /\ n > 0 /\ Len(s) \in Nat /\ Len(s) <= n
  BY BufferAssumption
<1>3. p \in Address /\ p # Null
  BY BufferAssumption DEF Unused, Address
<1> HIDE DEF n
<1>4. cells = [i \in 0..(n - 1) |-> IF 0 <= i /\ i < Len(s) THEN s[i + 1] ELSE Junk]
  BY <1>2 DEF memcpy, NewCells
<1>5. \A i \in 0..(Len(s) - 1) : cells[i] = s[i + 1] /\ cells[i] \in Byte
  BY <1>2, <1>4
<1>6. cells \in [0..(n - 1) -> Cell]
  BY <1>2, <1>4 DEF Cell
<1> HIDE DEF cells
<1>7. Fits(b, y, cells)
  BY <1>2, <1>3, <1>5, <1>6 DEF Fits, Members
<1>8. Rewrites(b, y, cells)
  BY <1>1 DEF Rewrites, cells
<1>9. s = [i \in 1..y.size |-> cells[i - 1]]
  BY <1>2, <1>5
<1> QED
  BY <1>1, <1>7, <1>8, <1>9

\* What is known of the members and the block of a buffer that exists.
LEMMA LiveBuffer ==
  ASSUME BInv, NEW b \in live
  PROVE  /\ b \in Buffers /\ buf[b] \in Members
         /\ heap[buf[b].data] \in [0..(buf[b].capacity - 1) -> Cell]
         /\ buf[b].size \in Nat /\ buf[b].capacity \in Nat /\ buf[b].size <= buf[b].capacity
         /\ \A i \in 0..(buf[b].size - 1) : heap[buf[b].data][i] \in Byte
         /\ buf[b].data = Null <=> buf[b].capacity = 0
         /\ buf[b].data \in Address
<1>1. b \in Buffers /\ buf[b] \in Members /\ buf[b].data \in Address
  BY DEF BInv, TypeOK, Members, Address
<1>2. DOMAIN heap[buf[b].data] = 0..(buf[b].capacity - 1)
  BY DEF BInv, Ownership
<1>3. heap[buf[b].data] \in UNION {[0..(n - 1) -> Cell] : n \in Nat}
  BY <1>1 DEF BInv, Sized
<1>4. heap[buf[b].data] \in [0..(buf[b].capacity - 1) -> Cell]
  BY <1>2, <1>3
<1>5. buf[b].data = Null <=> buf[b].capacity = 0
  BY DEF BInv, Sized
<1> QED
  BY <1>1, <1>4, <1>5, ContentsBytes DEF BInv, Initialised

LEMMA AssignRewrites ==
  ASSUME BInv, NEW b \in live, NEW c \in live, assign_copy(b, c)
  PROVE  \E y, cells : /\ Fits(b, y, cells) /\ Rewrites(b, y, cells)
                       /\ Contents(c) = [i \in 1..y.size |-> cells[i - 1]]
<1> DEFINE x == buf[b]
           n == buf[c].size
           s == Contents(c)
           Y(p) == IF x.capacity < n THEN [data |-> p, size |-> n, capacity |-> n]
                   ELSE [data |-> x.data, size |-> n, capacity |-> x.capacity]
           old == IF x.capacity < n THEN NewCells(n) ELSE heap[x.data]
           cells == memcpy(old, 0, s)
<1>1. PICK p \in Unused :
        /\ buf' = [buf EXCEPT ![b] = Y(p)]
        /\ heap' = Replaced(x.data, Y(p).data, cells)
        /\ UNCHANGED <<live, aborted>>
  BY DEF assign_copy
<1> DEFINE y == Y(p)
<1>2. /\ x \in Members /\ x.capacity \in Nat /\ n \in Nat
      /\ heap[x.data] \in [0..(x.capacity - 1) -> Cell]
      /\ x.data = Null <=> x.capacity = 0
  BY LiveBuffer
<1>3. p \in Address /\ p # Null
  BY BufferAssumption DEF Unused, Address
<1>4. s \in Seq(Byte) /\ Len(s) = n
  BY ContentsBytes
<1> HIDE DEF x, n, s
<1>5. /\ y \in Members /\ y.size = n /\ y.size <= y.capacity /\ y.capacity \in Nat
      /\ y.data = Null <=> y.capacity = 0
      /\ y.data \in Unused \/ y.data = x.data
  <2>1. CASE x.capacity < n
    BY <2>1, <1>2, <1>3 DEF Members
  <2>2. CASE ~(x.capacity < n)
    BY <2>2, <1>2, <1>3 DEF Members
  <2> QED
    BY <2>1, <2>2
<1>6. old \in [0..(y.capacity - 1) -> Cell]
  BY <1>2 DEF NewCells, Cell
<1> HIDE DEF old, y
<1>7. cells = [i \in 0..(y.capacity - 1) |-> IF 0 <= i /\ i < n THEN s[i + 1] ELSE old[i]]
  BY <1>2, <1>4, <1>5, <1>6 DEF memcpy
<1>8. cells \in [0..(y.capacity - 1) -> Cell]
      /\ \A i \in 0..(n - 1) : cells[i] = s[i + 1] /\ cells[i] \in Byte
  <2>1. \A i \in 0..(n - 1) : s[i + 1] \in Byte
    BY <1>2, <1>4
  <2>2. \A i \in 0..(y.capacity - 1) : cells[i] \in Cell
    BY <2>1, <1>2, <1>5, <1>6, <1>7 DEF Cell
  <2>3. \A i \in 0..(n - 1) : cells[i] = s[i + 1]
    BY <1>2, <1>5, <1>7, SMTT(30)
  <2> HIDE DEF cells
  <2>4. cells \in [0..(y.capacity - 1) -> Cell]
    BY <2>2, <1>7
  <2> QED
    BY <2>1, <2>3, <2>4
<1> HIDE DEF cells
<1>9. Fits(b, y, cells)
  BY <1>5, <1>8 DEF Fits, x
<1>10. Rewrites(b, y, cells)
  BY <1>1 DEF Rewrites, y, x
<1>11. s = [i \in 1..y.size |-> cells[i - 1]]
  <2>1. \A i \in 0..(Len(s) - 1) : cells[i] = s[i + 1]
    BY <1>4, <1>8
  <2>2. s = [i \in 1..Len(s) |-> cells[i - 1]]
    BY <2>1, <1>4, Reindexed
  <2> QED
    BY <2>2, <1>4, <1>5
<1> QED
  BY <1>9, <1>10, <1>11 DEF s

LEMMA AppendRewrites ==
  ASSUME BInv, NEW b \in live, NEW s \in Seq(Byte), append(b, s)
  PROVE  \E y, cells : /\ Fits(b, y, cells) /\ Rewrites(b, y, cells)
                       /\ Contents(b) \o s = [i \in 1..y.size |-> cells[i - 1]]
<1> DEFINE x == buf[b]
           m == x.size
           n == Len(s)
           Z(p) == ensure_size(x, n, p)
           Y(p) == [data |-> Z(p).data, size |-> m + n, capacity |-> Z(p).capacity]
           old(p) == ensured(x, Z(p))
           cells(p) == memcpy(old(p), m, s)
<1>1. PICK p \in Unused :
        /\ buf' = [buf EXCEPT ![b] = Y(p)]
        /\ heap' = Replaced(x.data, Y(p).data, cells(p))
        /\ UNCHANGED <<live, aborted>>
  BY DEF append
<1>2. /\ x \in Members /\ x.capacity \in Nat /\ m \in Nat /\ m <= x.capacity
      /\ x = [data |-> x.data, size |-> m, capacity |-> x.capacity]
      /\ heap[x.data] \in [0..(x.capacity - 1) -> Cell]
      /\ \A i \in 0..(m - 1) : heap[x.data][i] \in Byte
      /\ x.data = Null <=> x.capacity = 0
  BY LiveBuffer DEF Members
<1>3. p \in Address /\ p # Null
  BY BufferAssumption DEF Unused, Address
<1>4. n \in Nat
  OBVIOUS
<1>5. /\ Contents(b) \in Seq(Byte) /\ Len(Contents(b)) = m
      /\ \A i \in 1..m : Contents(b)[i] = heap[x.data][i - 1]
  BY ContentsBytes
<1> HIDE DEF x, m
<1>6. /\ Y(p) \in Members /\ Y(p).size = m + n /\ m + n <= Y(p).capacity /\ Y(p).capacity \in Nat
      /\ Y(p).data = Null <=> Y(p).capacity = 0
      /\ Y(p).data \in Unused \/ Y(p).data = x.data
      /\ old(p) \in [0..(Y(p).capacity - 1) -> Cell]
      /\ \A i \in 0..(m - 1) : old(p)[i] = heap[x.data][i]
  <2>1. CASE m + n <= x.capacity
    <3>1. Z(p) = x
      BY <2>1, <1>2 DEF ensure_size, m
    <3>2. old(p) = heap[x.data]
      BY <3>1 DEF ensured
    <3> HIDE DEF Z, old
    <3> QED
      BY <3>1, <3>2, <2>1, <1>2, <1>4 DEF Members
  <2>2. CASE ~(m + n <= x.capacity)
    <3> DEFINE k == grown(x.capacity, n)
    <3>1. k \in Nat /\ m + n <= k
      <4>1. GROW_FACTOR \in Nat /\ GROW_FACTOR >= 1
        BY BufferAssumption
      <4>2. x.capacity * GROW_FACTOR \in Nat /\ x.capacity * GROW_FACTOR >= x.capacity
        BY <4>1, <1>2
      <4> QED
        BY <4>2, <1>2, <1>4 DEF grown
    <3>2. Z(p) = [data |-> p, size |-> m, capacity |-> k]
      BY <2>2 DEF ensure_size, m
    <3>3. Z(p) # x
      BY <3>2, <3>1, <2>2, <1>2, <1>4
    <3> HIDE DEF k
    <3>4. old(p) = [i \in 0..(k - 1) |-> IF i < m THEN heap[x.data][i] ELSE Junk]
      BY <3>2, <3>3 DEF ensured, m
    <3> HIDE DEF Z, old
    <3>5. old(p) \in [0..(k - 1) -> Cell] /\ \A i \in 0..(m - 1) : old(p)[i] = heap[x.data][i]
      BY <3>1, <3>4, <1>2, <1>4 DEF Cell
    <3>6. Y(p) = [data |-> p, size |-> m + n, capacity |-> k]
      BY <3>2
    <3> HIDE DEF Y
    <3> QED
      BY <3>1, <3>5, <3>6, <2>2, <1>2, <1>3, <1>4 DEF Members
  <2> QED
    BY <2>1, <2>2
<1> DEFINE y == Y(p)
           o == old(p)
           z == cells(p)
<1>7. z = memcpy(o, m, s)
  OBVIOUS
<1>8. /\ y \in Members /\ y.size = m + n /\ m + n <= y.capacity /\ y.capacity \in Nat
      /\ y.data = Null <=> y.capacity = 0
      /\ y.data \in Unused \/ y.data = x.data
      /\ o \in [0..(y.capacity - 1) -> Cell]
      /\ \A i \in 0..(m - 1) : o[i] = heap[x.data][i]
  BY <1>6
<1>9. buf' = [buf EXCEPT ![b] = y] /\ heap' = Replaced(x.data, y.data, z)
  BY <1>1
<1> HIDE DEF y, o, z, n
<1>10. z = [i \in 0..(y.capacity - 1) |-> IF m <= i /\ i < m + n THEN s[i - m + 1] ELSE o[i]]
  BY <1>7, <1>8 DEF memcpy, n
<1>11. /\ z \in [0..(y.capacity - 1) -> Cell]
       /\ \A i \in 0..(m - 1) : z[i] = heap[x.data][i]
       /\ \A i \in m..(m + n - 1) : z[i] = s[i - m + 1]
  <2>1. \A i \in 0..(y.capacity - 1) : m <= i /\ i < m + n => s[i - m + 1] \in Byte
    BY <1>2, <1>4, <1>8 DEF n
  <2> QED
    BY <2>1, <1>2, <1>4, <1>8, <1>10, SMTT(30) DEF Cell
<1>12. \A i \in 0..(y.size - 1) : z[i] \in Byte
  <2>1. \A i \in m..(m + n - 1) : s[i - m + 1] \in Byte
    BY <1>2, <1>4 DEF n
  <2>2. \A i \in 0..(m + n - 1) : i \in 0..(m - 1) \/ i \in m..(m + n - 1)
    BY <1>2, <1>4
  <2>3. \A i \in 0..(m + n - 1) : z[i] \in Byte
    BY <2>1, <2>2, <1>2, <1>11, Zenon
  <2>4. 0..(y.size - 1) = 0..(m + n - 1)
    BY <1>2, <1>4, <1>8
  <2> QED
    BY <2>3, <2>4, Zenon
<1>13. Fits(b, y, z)
  <2>1. y.size <= y.capacity
    BY <1>8
  <2>2. y.data \in Unused \/ (b \in live /\ y.data = buf[b].data)
    BY <1>8 DEF x
  <2> QED
    BY <2>1, <2>2, <1>8, <1>11, <1>12 DEF Fits
<1>14. Rewrites(b, y, z)
  BY <1>1, <1>9 DEF Rewrites, x
<1>15. Contents(b) \o s = [i \in 1..y.size |-> z[i - 1]]
  <2> DEFINE t == Contents(b) \o s
  <2>1. /\ t \in Seq(Byte) /\ Len(t) = m + n
        /\ \A i \in 1..(m + n) : t[i] = IF i <= m THEN Contents(b)[i] ELSE s[i - m]
    BY <1>5, Joined DEF n
  <2> HIDE DEF t
  <2>2. ASSUME NEW i \in 0..(m + n - 1) PROVE z[i] = t[i + 1]
    <3>1. CASE i < m
      <4>1. i + 1 \in 1..m /\ i + 1 \in 1..(m + n) /\ i \in 0..(m - 1) /\ (i + 1) - 1 = i
        BY <3>1, <1>2, <1>4
      <4>2. t[i + 1] = Contents(b)[i + 1] /\ Contents(b)[i + 1] = heap[x.data][(i + 1) - 1]
        BY <4>1, <3>1, <2>1, <1>5
      <4> QED
        BY <4>1, <4>2, <1>11
    <3>2. CASE ~(i < m)
      <4>1. i + 1 \in 1..(m + n) /\ ~(i + 1 <= m) /\ i \in m..(m + n - 1)
            /\ (i + 1) - m = i - m + 1
        BY <3>2, <1>2, <1>4
      <4> QED
        BY <4>1, <2>1, <1>11
    <3> QED
      BY <3>1, <3>2
  <2>3. \A i \in 0..(Len(t) - 1) : z[i] = t[i + 1]
    <3>1. 0..(Len(t) - 1) = 0..(m + n - 1)
      BY <2>1, <1>2, <1>4
    <3> QED
      BY <3>1, <2>2, Zenon
  <2>4. t = [i \in 1..Len(t) |-> z[i - 1]]
    BY <2>1, <2>3, Reindexed
  <2> QED
    BY <2>1, <2>4, <1>8 DEF t
<1> QED
  BY <1>13, <1>14, <1>15

\* An assignment to size_ alone.
LEMMA Resized ==
  ASSUME NEW r \in Members, NEW n
  PROVE  [r EXCEPT !.size = n] = [data |-> r.data, size |-> n, capacity |-> r.capacity]
BY DEF Members

LEMMA ClearRewrites ==
  ASSUME BInv, NEW b \in live, clear(b)
  PROVE  \E y, cells : /\ Fits(b, y, cells) /\ Rewrites(b, y, cells)
                       /\ << >> = [i \in 1..y.size |-> cells[i - 1]]
<1> DEFINE x == buf[b]
           y == [data |-> x.data, size |-> 0, capacity |-> x.capacity]
           cells == heap[x.data]
<1>1. /\ x \in Members /\ x.capacity \in Nat /\ x.data \in Address
      /\ cells \in [0..(x.capacity - 1) -> Cell]
      /\ x.data = Null <=> x.capacity = 0
  BY LiveBuffer
<1>2. Fits(b, y, cells)
  BY <1>1 DEF Fits, Members
<1>3. buf \in [Buffers -> Members] /\ b \in Buffers /\ DOMAIN heap = Address
      /\ heap = [p \in Address |-> heap[p]]
  BY DEF BInv, TypeOK, Members, Address, Sized
<1>4. buf' = [buf EXCEPT ![b] = y]
  <2>1. buf' = [buf EXCEPT ![b] = [x EXCEPT !.size = 0]]
    BY DEF clear
  <2>2. [x EXCEPT !.size = 0] = y
    BY <1>1, Resized
  <2> QED
    BY <2>1, <2>2, Zenon
<1>5. Replaced(x.data, x.data, heap[x.data]) = heap
  BY <1>3 DEF Replaced
<1>6. Rewrites(b, y, cells)
  BY <1>4, <1>5 DEF Rewrites, clear
<1>7. << >> = [i \in 1..y.size |-> cells[i - 1]]
  OBVIOUS
<1> QED
  BY <1>2, <1>6, <1>7

LEMMA EraseRewrites ==
  ASSUME BInv, NEW b \in live, NEW first \in Nat, NEW last \in Nat, erase(b, first, last)
  PROVE  \E y, cells :
           /\ Fits(b, y, cells) /\ Rewrites(b, y, cells)
           /\ B!Without(Contents(b), first, last) = [i \in 1..y.size |-> cells[i - 1]]
<1> DEFINE x == buf[b]
           d == last - first
           old == heap[x.data]
           y == [data |-> x.data, size |-> x.size - d, capacity |-> x.capacity]
           cells == [i \in DOMAIN old |-> IF first <= i /\ i < first + x.size - last
                                          THEN old[i + d] ELSE old[i]]
<1>1. /\ first < last /\ last <= x.size
      /\ buf' = [buf EXCEPT ![b].size = x.size - d]
      /\ heap' = [heap EXCEPT ![x.data] = cells]
      /\ UNCHANGED <<live, aborted>>
  BY DEF erase
<1>2. /\ x \in Members /\ x.capacity \in Nat /\ x.size \in Nat /\ x.size <= x.capacity
      /\ x.data \in Address
      /\ old \in [0..(x.capacity - 1) -> Cell]
      /\ \A i \in 0..(x.size - 1) : old[i] \in Byte
      /\ x.data = Null <=> x.capacity = 0
  BY LiveBuffer
<1>3. buf \in [Buffers -> Members] /\ b \in Buffers /\ DOMAIN heap = Address
      /\ heap = [p \in Address |-> heap[p]]
  BY DEF BInv, TypeOK, Members, Address, Sized
<1>4. buf' = [buf EXCEPT ![b] = y]
  <2>1. buf' = [buf EXCEPT ![b] = [x EXCEPT !.size = x.size - d]]
    BY <1>1
  <2>2. [x EXCEPT !.size = x.size - d] = y
    BY <1>2, Resized
  <2> QED
    BY <2>1, <2>2, Zenon
<1>5. heap' = Replaced(x.data, x.data, cells)
  <2> HIDE DEF cells
  <2> QED
    BY <1>1, <1>2, <1>3 DEF Replaced
<1>6. Rewrites(b, y, cells)
  <2> HIDE DEF cells
  <2> QED
    BY <1>1, <1>4, <1>5 DEF Rewrites
<1>7. /\ Contents(b) \in Seq(Byte) /\ Len(Contents(b)) = x.size
      /\ \A i \in 1..x.size : Contents(b)[i] = old[i - 1]
  BY ContentsBytes
<1> DEFINE k == x.size
<1> HIDE DEF x, old
<1>8. /\ \A i \in 0..(first - 1) : cells[i] = old[i] /\ i \in 0..(k - 1)
      /\ \A i \in first..(k - d - 1) : cells[i] = old[i + d] /\ i + d \in 0..(k - 1)
      /\ \A i \in 0..(x.capacity - 1) : cells[i] \in Cell
  <2>1. DOMAIN old = 0..(x.capacity - 1) /\ \A i \in 0..(x.capacity - 1) : old[i] \in Cell
    BY <1>2
  <2>2. d \in Nat /\ k \in Nat /\ first + x.size - last = k - d /\ k <= x.capacity
        /\ x.capacity \in Nat /\ first + d <= k
    <3>1. first < last /\ last <= k /\ k \in Nat /\ k <= x.capacity /\ x.capacity \in Nat
      BY <1>1, <1>2, Zenon
    <3> HIDE DEF k
    <3>2. d \in Nat /\ first + k - last = k - d /\ first + d <= k
      BY <3>1
    <3> QED
      BY <3>1, <3>2 DEF k
  <2>3. \A i \in DOMAIN old : cells[i] = IF first <= i /\ i < k - d THEN old[i + d] ELSE old[i]
    BY <2>2, Zenon
  <2> HIDE DEF cells, d, k
  <2>4. \A i \in 0..(first - 1) : cells[i] = old[i] /\ i \in 0..(k - 1)
    BY <2>1, <2>2, <2>3
  <2>5. \A i \in first..(k - d - 1) : cells[i] = old[i + d] /\ i + d \in 0..(k - 1)
    BY <2>1, <2>2, <2>3, SMTT(30)
  <2>6. \A i \in 0..(x.capacity - 1) : cells[i] \in Cell
    <3> SUFFICES ASSUME NEW i \in 0..(x.capacity - 1) PROVE cells[i] \in Cell
      OBVIOUS
    <3>1. CASE first <= i /\ i < k - d
      <4>1. i + d \in 0..(x.capacity - 1)
        BY <2>2, <3>1
      <4>2. cells[i] = old[i + d]
        BY <2>1, <2>3, <3>1, Zenon
      <4> QED
        BY <4>1, <4>2, <2>1
    <3>2. CASE ~(first <= i /\ i < k - d)
      BY <2>1, <2>3, <3>2
    <3> QED
      BY <3>1, <3>2
  <2> QED
    BY <2>4, <2>5, <2>6
<1>9. cells \in [0..(x.capacity - 1) -> Cell]
  <2>1. DOMAIN old = 0..(x.capacity - 1)
    BY <1>2
  <2>2. cells = [i \in 0..(x.capacity - 1) |-> cells[i]]
    BY <2>1
  <2> HIDE DEF cells
  <2> QED
    BY <2>2, <1>8
<1> HIDE DEF cells
<1>10. k - d \in Nat /\ k - d <= x.capacity
  BY <1>1, <1>2
<1>11. \A i \in 0..(k - d - 1) : cells[i] \in Byte
  <2>1. \A i \in 0..(k - d - 1) : i \in 0..(first - 1) \/ i \in first..(k - d - 1)
    BY <1>1, <1>2
  <2> QED
    BY <2>1, <1>2, <1>8, Zenon
<1>12. Fits(b, y, cells)
  <2>1. y \in Members /\ y.size = k - d /\ y.capacity = x.capacity /\ y.data = x.data
    BY <1>2, <1>10 DEF Members
  <2>2. b \in live /\ y.data = buf[b].data
    BY <2>1 DEF x
  <2> HIDE DEF y
  <2> QED
    BY <2>1, <2>2, <1>2, <1>9, <1>10, <1>11 DEF Fits
<1>13. B!Without(Contents(b), first, last) = [i \in 1..y.size |-> cells[i - 1]]
  <2> DEFINE s == Contents(b)
  <2>1. B!Without(s, first, last)
          = [i \in 1..(k - d) |-> IF i <= first THEN s[i] ELSE s[i + d]]
    BY <1>7 DEF B!Without
  <2>2. ASSUME NEW i \in 1..(k - d)
        PROVE  (IF i <= first THEN s[i] ELSE s[i + d]) = cells[i - 1]
    <3>1. CASE i <= first
      <4>1. i - 1 \in 0..(first - 1) /\ i \in 1..k
        BY <3>1, <1>1, <1>2
      <4> QED
        BY <4>1, <3>1, <1>7, <1>8
    <3>2. CASE ~(i <= first)
      <4>1. i - 1 \in first..(k - d - 1) /\ i + d \in 1..k /\ (i + d) - 1 = (i - 1) + d
        <5>1. first < last /\ last <= k /\ k \in Nat
          BY <1>1, <1>2, Zenon
        <5> HIDE DEF k
        <5> QED
          BY <3>2, <5>1
      <4>2. s[i + d] = old[(i + d) - 1] /\ cells[i - 1] = old[(i - 1) + d]
        BY <4>1, <1>7, <1>8
      <4> QED
        BY <4>1, <4>2, <3>2
    <3> QED
      BY <3>1, <3>2
  <2> HIDE DEF s
  <2>3. y.size = k - d
    OBVIOUS
  <2> HIDE DEF y, d, k
  <2> QED
    BY <2>1, <2>2, <2>3 DEF s
<1> QED
  BY <1>6, <1>12, <1>13

-----------------------------------------------------------------------------
(* Moves and the destructor empty a buffer and free at most one block.      *)

\* Both moves: b takes the members of c, and the block b had is deleted.
Moves(b, c) ==
  /\ live' = live \cup {b}
  /\ buf' = [buf EXCEPT ![b] = buf[c], ![c] = NoData]
  /\ heap' = [heap EXCEPT ![IF b \in live THEN buf[b].data ELSE Null] = NoCells]
  /\ aborted' = aborted

LEMMA MovesAreMoves ==
  ASSUME BInv, NEW b \in Buffers, NEW c \in live,
         construct_move(b, c) \/ (b \in live /\ assign_move(b, c))
  PROVE  Moves(b, c)
<1>1. CASE construct_move(b, c)
  <2>1. heap = [heap EXCEPT ![Null] = NoCells]
    BY DEF BInv, Sized
  <2> QED
    BY <1>1, <2>1 DEF construct_move, Moves
<1>2. CASE b \in live /\ assign_move(b, c)
  BY <1>2 DEF assign_move, Moves
<1> QED
  BY <1>1, <1>2

\* A heap with one block freed has the shape the invariant asks for.
LEMMA Freed ==
  ASSUME BInv, NEW p \in Address, heap' = [heap EXCEPT ![p] = NoCells]
  PROVE  /\ DOMAIN heap' = Address /\ heap'[Null] = NoCells
         /\ heap' \in [Address -> UNION {[0..(n - 1) -> Cell] : n \in Nat}]
         /\ \A q \in Address : \A i \in DOMAIN heap'[q] : heap'[q][i] \in Cell
<1>1. heap \in [Address -> UNION {[0..(n - 1) -> Cell] : n \in Nat}] /\ heap[Null] = NoCells
  BY DEF BInv, Sized
<1>2. NoCells \in [0..(0 - 1) -> Cell]
  BY DEF NoCells, NewCells, Cell
<1>3. NoCells \in UNION {[0..(n - 1) -> Cell] : n \in Nat}
  BY <1>2
<1>4. heap' \in [Address -> UNION {[0..(n - 1) -> Cell] : n \in Nat}]
  BY <1>1, <1>3
<1>5. \A q \in Address : \A i \in DOMAIN heap'[q] : heap'[q][i] \in Cell
  <2>1. \A q \in Address : heap'[q] \in UNION {[0..(n - 1) -> Cell] : n \in Nat}
    BY <1>4
  <2> QED
    BY <2>1
<1> QED
  BY <1>1, <1>4, <1>5 DEF Address

\* After a move b has what c had, and c, if another buffer, has no block.
LEMMA MoveState ==
  ASSUME BInv, NEW b \in Buffers, NEW c \in live, Moves(b, c)
  PROVE  /\ buf'[c] = NoData
         /\ b # c => buf'[b] = buf[c] /\ heap'[buf[c].data] = heap[buf[c].data]
         /\ \A x \in live : x # b /\ x # c =>
              buf'[x] = buf[x] /\ heap'[buf[x].data] = heap[buf[x].data]
<1>1. buf \in [Buffers -> Members] /\ live \subseteq Buffers /\ DOMAIN heap = Address
  BY DEF BInv, TypeOK, Members, Address
<1>2. buf'[c] = NoData /\ (b # c => buf'[b] = buf[c])
      /\ \A x \in live : x # b /\ x # c => buf'[x] = buf[x]
  BY <1>1 DEF Moves
<1>3. ASSUME NEW x \in live, x # b PROVE heap'[buf[x].data] = heap[buf[x].data]
  <2>1. heap[Null] = NoCells /\ buf[x].data \in Address
    BY <1>1 DEF BInv, Sized, Members
  <2>2. CASE b \in live /\ buf[b].data = buf[x].data
    <3>1. buf[x].data = Null
      BY <2>2, <1>3 DEF BInv, Ownership
    <3> QED
      BY <3>1, <2>1, <2>2, <1>1 DEF Moves
  <2>3. CASE b \in live /\ buf[b].data # buf[x].data
    BY <2>1, <2>3, <1>1 DEF Moves
  <2>4. CASE b \notin live
    BY <2>1, <2>4, <1>1 DEF Moves
  <2> QED
    BY <2>2, <2>3, <2>4
<1> QED
  BY <1>2, <1>3

\* A move keeps the invariant.
LEMMA MoveInv ==
  ASSUME BInv, NEW b \in Buffers, NEW c \in live, Moves(b, c)
  PROVE  BInv'
<1> DEFINE p == IF b \in live THEN buf[b].data ELSE Null
<1>1. buf \in [Buffers -> Members] /\ live \subseteq Buffers /\ aborted \in BOOLEAN
  BY DEF BInv, TypeOK, Members, Address
<1>2. p \in Address
  BY <1>1 DEF Members, Address
<1>3. /\ DOMAIN heap' = Address /\ heap'[Null] = NoCells
      /\ heap' \in [Address -> UNION {[0..(n - 1) -> Cell] : n \in Nat}]
      /\ \A q \in Address : \A i \in DOMAIN heap'[q] : heap'[q][i] \in Cell
  BY <1>2, Freed DEF Moves
<1>4. NoData \in Members /\ NoData.data = Null /\ NoData.size = 0 /\ NoData.capacity = 0
  BY DEF NoData, Members, Address
<1>5. /\ live' = live \cup {b} /\ buf'[c] = NoData
      /\ b # c => buf'[b] = buf[c] /\ heap'[buf[c].data] = heap[buf[c].data]
      /\ \A x \in live : x # b /\ x # c =>
              buf'[x] = buf[x] /\ heap'[buf[x].data] = heap[buf[x].data]
  BY MoveState DEF Moves
<1>6. TypeOK'
  <2>1. buf' \in [Buffers -> Members]
    BY <1>1, <1>4 DEF Moves
  <2>2. live' \subseteq Buffers /\ aborted' \in BOOLEAN
    BY <1>1 DEF Moves
  <2> QED
    BY <1>3, <2>1, <2>2 DEF TypeOK, Members, Address, Cell
<1>7. \A x \in live' : \/ buf'[x] = NoData
                       \/ x = b /\ buf'[x] = buf[c] /\ heap'[buf[c].data] = heap[buf[c].data]
                       \/ x \in live /\ x # c /\ x # b /\ buf'[x] = buf[x]
                          /\ heap'[buf[x].data] = heap[buf[x].data]
  BY <1>5
<1>8. Ownership'
  <2>1. \A x \in live' : DOMAIN heap'[buf'[x].data] = 0..(buf'[x].capacity - 1)
    <3>1. DOMAIN NoCells = 0..(0 - 1)
      BY DEF NoCells, NewCells
    <3> QED
      BY <3>1, <1>3, <1>4, <1>7 DEF BInv, Ownership
  <2>2. \A x, y \in live' : x # y /\ buf'[x].data = buf'[y].data => buf'[x].data = Null
    BY <1>4, <1>7 DEF BInv, Ownership
  <2>3. ASSUME NEW q \in Address, heap'[q] # NoCells
        PROVE  \E x \in live' : buf'[x].data = q
    <3>1. q # p /\ heap'[q] = heap[q]
      BY <2>3, <1>2 DEF Moves, BInv, Sized
    <3>2. PICK x \in live : buf[x].data = q
      BY <3>1, <2>3 DEF BInv, Ownership, Address
    <3>3. x # b
      BY <3>1, <3>2
    <3> QED
      BY <3>2, <3>3, <1>5
  <2> QED
    BY <2>1, <2>2, <2>3 DEF Ownership, Address, NoCells, NewCells
<1>9. Initialised'
  <2>1. \A i \in 0..(0 - 1) : FALSE
    OBVIOUS
  <2>2. \A x \in live' : /\ buf'[x].size <= buf'[x].capacity
                         /\ \A i \in 0..(buf'[x].size - 1) : heap'[buf'[x].data][i] \in Byte
    BY <2>1, <1>4, <1>7 DEF BInv, Initialised
  <2> QED
    BY <2>2 DEF Initialised
<1>10. Sized'
  <2>1. \A x \in live' : buf'[x].data = Null <=> buf'[x].capacity = 0
    BY <1>4, <1>7 DEF BInv, Sized
  <2> QED
    BY <2>1, <1>3 DEF Sized, NoCells, NewCells
<1> QED
  BY <1>6, <1>8, <1>9, <1>10 DEF BInv

\* The destructor keeps the invariant.
LEMMA DestroyInv ==
  ASSUME BInv, NEW b \in live, destroy(b)
  PROVE  /\ BInv'
         /\ \A x \in live' : buf'[x] = buf[x] /\ heap'[buf[x].data] = heap[buf[x].data]
<1>1. buf \in [Buffers -> Members] /\ live \subseteq Buffers /\ aborted \in BOOLEAN
      /\ DOMAIN heap = Address /\ heap[Null] = NoCells
  BY DEF BInv, TypeOK, Members, Address, Sized
<1>2. buf[b].data \in Address
  BY <1>1 DEF Members
<1>3. /\ DOMAIN heap' = Address /\ heap'[Null] = NoCells
      /\ heap' \in [Address -> UNION {[0..(n - 1) -> Cell] : n \in Nat}]
      /\ \A q \in Address : \A i \in DOMAIN heap'[q] : heap'[q][i] \in Cell
  BY <1>2, Freed DEF destroy
<1>4. ASSUME NEW x \in live'
      PROVE  x \in live /\ x # b /\ buf'[x] = buf[x] /\ heap'[buf[x].data] = heap[buf[x].data]
  <2>1. x \in live /\ x # b /\ buf'[x] = buf[x] /\ buf[x].data \in Address
    BY <1>1 DEF destroy, Members
  <2>2. buf[x].data = buf[b].data => buf[x].data = Null
    BY <2>1 DEF BInv, Ownership
  <2> QED
    BY <2>1, <2>2, <1>1 DEF destroy
<1>5. TypeOK'
  <2>1. NoData \in Members
    BY DEF NoData, Members, Address
  <2>2. buf' \in [Buffers -> Members] /\ live' \subseteq Buffers /\ aborted' \in BOOLEAN
    BY <2>1, <1>1 DEF destroy
  <2> QED
    BY <1>3, <2>2 DEF TypeOK, Members, Address, Cell
<1>6. Ownership'
  <2>1. ASSUME NEW q \in Address, heap'[q] # NoCells
        PROVE  \E x \in live' : buf'[x].data = q
    <3>1. q # buf[b].data /\ heap'[q] = heap[q]
      BY <2>1, <1>1, <1>2 DEF destroy
    <3>2. PICK x \in live : buf[x].data = q
      BY <3>1, <2>1 DEF BInv, Ownership, Address
    <3>3. x \in live'
      BY <3>1, <3>2 DEF destroy
    <3> QED
      BY <3>2, <3>3, <1>4
  <2>2. \A x \in live' : DOMAIN heap'[buf'[x].data] = 0..(buf'[x].capacity - 1)
    BY <1>4 DEF BInv, Ownership
  <2>3. \A x, y \in live' : x # y /\ buf'[x].data = buf'[y].data => buf'[x].data = Null
    BY <1>4 DEF BInv, Ownership
  <2> QED
    BY <2>1, <2>2, <2>3 DEF Ownership, Address, NoCells, NewCells
<1>7. Initialised'
  BY <1>4 DEF BInv, Initialised
<1>8. Sized'
  BY <1>3, <1>4, Zenon DEF BInv, Sized, NoCells, NewCells
<1> QED
  BY <1>4, <1>5, <1>6, <1>7, <1>8 DEF BInv

-----------------------------------------------------------------------------
(* What each call does to the buffers, in the words of Bytes.               *)

LEMMA RewriteHolds ==
  ASSUME BInv, NEW b \in Buffers, NEW s,
         \E y, cells : /\ Fits(b, y, cells) /\ Rewrites(b, y, cells)
                       /\ s = [i \in 1..y.size |-> cells[i - 1]]
  PROVE  BInv' /\ B!Holds(b, s)
<1>1. PICK y, cells : /\ Fits(b, y, cells) /\ Rewrites(b, y, cells)
                      /\ s = [i \in 1..y.size |-> cells[i - 1]]
  OBVIOUS
<1>2. BInv'
  BY <1>1, RewriteInv
<1>3. DOMAIN Held = live /\ live' = live \cup {b}
  BY <1>1 DEF Held, Rewrites
<1>4. /\ buf'[b] = y /\ heap'[y.data] = cells
      /\ \A c \in live : c # b => buf'[c] = buf[c] /\ heap'[buf[c].data] = heap[buf[c].data]
  BY <1>1, RewriteState
<1>5. Contents(b)' = s
  BY <1>1, <1>4 DEF Contents
<1>6. ASSUME NEW c \in live, c # b PROVE Contents(c)' = Held[c]
  BY <1>4, <1>6 DEF Held, Contents
<1>7. Held' = [x \in live' |-> Contents(x)']
  BY DEF Held, Contents
<1>8. \A x \in live' : Contents(x)' = IF x = b THEN s ELSE Held[x]
  BY <1>3, <1>5, <1>6
<1>9. Held' = [x \in DOMAIN Held \cup {b} |-> IF x = b THEN s ELSE Held[x]]
  BY <1>3, <1>7, <1>8
<1> QED
  BY <1>2, <1>9 DEF B!Holds, Held

LEMMA HeldIs ==
  /\ DOMAIN Held = live
  /\ \A b \in live : Held[b] = Contents(b)
BY DEF Held

LEMMA ConstructStep ==
  ASSUME BInv, NEW b \in Buffers, NEW s \in Seq(Byte), construct(b, s)
  PROVE  BInv' /\ B!Create(b, s)
<1>1. b \notin live /\ BInv' /\ B!Holds(b, s)
  BY ConstructRewrites, RewriteHolds
<1> QED
  BY <1>1, HeldIs DEF B!Create, Held

LEMMA AssignStep ==
  ASSUME BInv, NEW b \in live, NEW c \in live, assign_copy(b, c)
  PROVE  BInv' /\ B!Set(b, Contents(c))
<1>1. b \in Buffers
  BY DEF BInv, TypeOK
<1>2. BInv' /\ B!Holds(b, Contents(c))
  BY <1>1, AssignRewrites, RewriteHolds
<1> QED
  BY <1>2, HeldIs DEF B!Set, Held

LEMMA AppendStep ==
  ASSUME BInv, NEW b \in live, NEW s \in Seq(Byte), append(b, s)
  PROVE  BInv' /\ B!Insert(b, s)
<1>1. b \in Buffers
  BY DEF BInv, TypeOK
<1>2. BInv' /\ B!Holds(b, Contents(b) \o s)
  BY <1>1, AppendRewrites, RewriteHolds
<1> QED
  BY <1>2, HeldIs DEF B!Insert, Held

LEMMA ClearStep ==
  ASSUME BInv, NEW b \in live, clear(b)
  PROVE  BInv' /\ B!Set(b, << >>)
<1>1. b \in Buffers
  BY DEF BInv, TypeOK
<1>2. BInv' /\ B!Holds(b, << >>)
  BY <1>1, ClearRewrites, RewriteHolds
<1> QED
  BY <1>2, HeldIs DEF B!Set, Held

LEMMA EraseStep ==
  ASSUME BInv, NEW b \in live, NEW first \in Nat, NEW last \in Nat, erase(b, first, last)
  PROVE  /\ BInv' /\ B!Erase(b, first, last)
         /\ first \in 0..Len(Contents(b)) /\ last \in 0..Len(Contents(b))
<1>1. b \in Buffers
  BY DEF BInv, TypeOK
<1>2. BInv' /\ B!Holds(b, B!Without(Contents(b), first, last))
  BY <1>1, EraseRewrites, RewriteHolds
<1>3. buf[b].size \in Nat /\ Len(Contents(b)) = buf[b].size
  BY ContentsBytes
<1>4. first < last /\ last <= Len(Contents(b))
  BY <1>3 DEF erase
<1>5. first \in 0..Len(Contents(b)) /\ last \in 0..Len(Contents(b))
  BY <1>3, <1>4
<1>6. Held[b] = Contents(b) /\ b \in DOMAIN Held
  BY HeldIs
<1> QED
  BY <1>2, <1>4, <1>5, <1>6 DEF B!Erase, Held

LEMMA MoveStep ==
  ASSUME BInv, NEW b \in Buffers, NEW c \in live,
         construct_move(b, c) \/ (b \in live /\ assign_move(b, c))
  PROVE  BInv' /\ B!Take(b, c)
<1>1. Moves(b, c)
  BY MovesAreMoves
<1>2. BInv'
  BY <1>1, MoveInv
<1>3. /\ live' = live \cup {b} /\ buf'[c] = NoData
      /\ b # c => buf'[b] = buf[c] /\ heap'[buf[c].data] = heap[buf[c].data]
      /\ \A x \in live : x # b /\ x # c =>
              buf'[x] = buf[x] /\ heap'[buf[x].data] = heap[buf[x].data]
  BY <1>1, MoveState DEF Moves
<1>4. \A x : Contents(x)' = [i \in 1..buf'[x].size |-> heap'[buf'[x].data][i - 1]]
  BY DEF Contents
<1>5. \A x : Contents(x) = [i \in 1..buf[x].size |-> heap[buf[x].data][i - 1]]
  BY DEF Contents
<1>6. Contents(c)' = << >>
  BY <1>3, <1>4 DEF NoData
<1>7. b # c => Contents(b)' = Contents(c)
  BY <1>3, <1>4, <1>5
<1>8. \A x \in live : x # b /\ x # c => Contents(x)' = Contents(x)
  BY <1>3, <1>4, <1>5
<1>9. Held' = [x \in live' |-> Contents(x)']
  BY DEF Held, Contents
<1>10. \A x \in live' : Contents(x)'
          = IF x = c THEN << >> ELSE IF x = b THEN Held[c] ELSE Held[x]
  BY <1>3, <1>6, <1>7, <1>8, HeldIs
<1>11. Held' = [x \in DOMAIN Held \cup {b} |->
                  IF x = c THEN << >> ELSE IF x = b THEN Held[c] ELSE Held[x]]
  BY <1>3, <1>9, <1>10, HeldIs
<1> QED
  BY <1>2, <1>11, HeldIs DEF B!Take, Held

LEMMA DestroyStep ==
  ASSUME BInv, NEW b \in live, destroy(b)
  PROVE  BInv' /\ B!Destroy(b)
<1>1. BInv' /\ \A x \in live' : buf'[x] = buf[x] /\ heap'[buf[x].data] = heap[buf[x].data]
  BY DestroyInv
<1>2. live' = live \ {b}
  BY DEF destroy
<1>3. \A x \in live' : Contents(x)' = Contents(x)
  BY <1>1 DEF Contents
<1>4. Held' = [x \in live' |-> Contents(x)']
  BY DEF Held, Contents
<1>5. \A x \in live' : Contents(x)' = Held[x]
  BY <1>2, <1>3, HeldIs
<1>6. Held' = [x \in DOMAIN Held \ {b} |-> Held[x]]
  BY <1>2, <1>4, <1>5, HeldIs
<1> QED
  BY <1>1, <1>6 DEF B!Destroy, Held

-----------------------------------------------------------------------------
\* A call is a step of Bytes, and keeps the invariant; the failed assertion
\* of the copy constructor changes no buffer.
LEMMA NextStep ==
  ASSUME BInv, Next
  PROVE  BInv' /\ (B!Next \/ Held' = Held)
<1>1. DOMAIN Held = live /\ live \subseteq Buffers /\ \A b \in live : Held[b] = Contents(b)
  BY HeldIs DEF BInv, TypeOK
<1>2. \A c \in live : Contents(c) \in Seq(Byte) /\ Len(Contents(c)) = buf[c].size
                      /\ buf[c].size \in Nat
  BY ContentsBytes
<1>3. Pieces \cup {<< >>} \subseteq Seq(Byte)
  <2>1. << >> \in Seq(Byte)
    OBVIOUS
  <2> QED
    BY <2>1, BufferAssumption, Zenon
<1>4. ASSUME NEW b \in Buffers, NEW s \in Pieces \cup {<< >>}, construct(b, s)
      PROVE  BInv' /\ B!Next
  BY <1>3, <1>4, ConstructStep DEF B!Next
<1>5. ASSUME NEW b \in Buffers, NEW c \in live, construct_copy(b, c)
      PROVE  BInv' /\ (B!Next \/ Held' = Held)
  <2>1. CASE construct(b, Contents(c))
    <3>1. BInv' /\ B!Create(b, Held[c])
      BY <2>1, <1>1, <1>2, ConstructStep
    <3> QED
      BY <3>1, <1>1 DEF B!Next, Held
  <2>2. CASE aborted' = TRUE /\ UNCHANGED <<live, buf, heap>>
    <3>1. BInv'
      BY <2>2 DEF BInv, TypeOK, Ownership, Initialised, Sized
    <3>2. Held' = Held
      BY <2>2 DEF Held, Contents
    <3> QED
      BY <3>1, <3>2
  <2> QED
    BY <2>1, <2>2, <1>5 DEF construct_copy
<1>6. ASSUME NEW b \in Buffers, NEW c \in live,
             construct_move(b, c) \/ (b \in live /\ assign_move(b, c))
      PROVE  BInv' /\ B!Next
  <2>1. BInv' /\ B!Take(b, c)
    BY <1>6, MoveStep
  <2> QED
    BY <2>1, <1>1 DEF B!Next, Held
<1>7. ASSUME NEW b \in live, NEW c \in live, assign_copy(b, c)
      PROVE  BInv' /\ B!Next
  <2>1. BInv' /\ B!Set(b, Held[c])
    BY <1>1, <1>7, AssignStep
  <2> QED
    BY <2>1, <1>1 DEF B!Next, Held
<1>8. ASSUME NEW b \in live, NEW c \in live, NEW pos \in Nat, pos <= buf[c].size,
             append(b, SubSeq(Contents(c), pos + 1, buf[c].size))
      PROVE  BInv' /\ B!Next
  <2>1. SubSeq(Contents(c), pos + 1, buf[c].size) \in Seq(Byte)
    BY <1>2
  <2>2. BInv' /\ B!Insert(b, SubSeq(Held[c], pos + 1, Len(Held[c])))
    BY <2>1, <1>1, <1>2, <1>8, AppendStep
  <2>3. pos \in 0..Len(Held[c]) /\ c \in DOMAIN Held /\ b \in Buffers
    BY <1>1, <1>2, <1>8
  <2> QED
    BY <2>2, <2>3 DEF B!Next, Held
<1>9. ASSUME NEW b \in live, NEW c \in live, append(b, Contents(c))
      PROVE  BInv' /\ B!Next
  <2>1. Contents(c) = SubSeq(Contents(c), 0 + 1, buf[c].size)
    BY <1>2
  <2>2. 0 \in Nat /\ 0 <= buf[c].size
    BY <1>2
  <2> QED
    BY <2>1, <2>2, <1>8, <1>9
<1>10. ASSUME NEW b \in live, destroy(b) \/ clear(b)
       PROVE  BInv' /\ B!Next
  BY <1>1, <1>10, DestroyStep, ClearStep DEF B!Next
<1>11. ASSUME NEW b \in live, NEW s \in Pieces, append(b, s)
       PROVE  BInv' /\ B!Next
  BY <1>1, <1>3, <1>11, AppendStep DEF B!Next
<1>12. ASSUME NEW b \in live, NEW first \in 0..(MaxSize + 1), NEW last \in 0..(MaxSize + 1),
              erase(b, first, last)
       PROVE  BInv' /\ B!Next
  <2>1. first \in Nat /\ last \in Nat
    BY BufferAssumption
  <2>2. /\ BInv' /\ B!Erase(b, first, last)
        /\ first \in 0..Len(Held[b]) /\ last \in 0..Len(Held[b])
    BY <2>1, <1>1, <1>12, EraseStep
  <2> QED
    BY <2>2, <1>1 DEF B!Next, Held
<1>13. \A pos \in 0..MaxSize : pos \in Nat
  BY BufferAssumption
<1> QED
  BY <1>1, <1>4, <1>5, <1>6, <1>7, <1>8, <1>9, <1>10, <1>11, <1>12, <1>13
     DEF Next, append_rest

LEMMA BInvInit == Init => BInv
<1>1. NoCells \in [0..(0 - 1) -> Cell]
  BY DEF NoCells, NewCells, Cell
<1>2. NoCells \in UNION {[0..(n - 1) -> Cell] : n \in Nat}
  BY <1>1
<1>3. DOMAIN NoCells = {}
  BY DEF NoCells, NewCells
<1>4. SUFFICES ASSUME Init PROVE BInv
  OBVIOUS
<1>5. live = {} /\ heap = [p \in Address |-> NoCells]
  BY <1>4 DEF Init, Address
<1>6. TypeOK
  <2>1. \A p \in Address : \A i \in DOMAIN heap[p] : heap[p][i] \in Cell
    BY <1>3, <1>5
  <2>2. buf \in [Buffers -> Members]
    BY <1>4 DEF Init, NoData, Members, Address
  <2>3. aborted \in BOOLEAN
    BY <1>4, Zenon DEF Init
  <2> QED
    BY <1>5, <2>1, <2>2, <2>3 DEF TypeOK, Members, Address, Cell
<1>7. Ownership /\ Initialised
  BY <1>5 DEF Ownership, Initialised, Address
<1>8. Sized
  <2>1. heap \in [Address -> UNION {[0..(n - 1) -> Cell] : n \in Nat}]
    BY <1>2, <1>5
  <2> QED
    BY <1>5, <2>1 DEF Sized, Address
<1> QED
  BY <1>6, <1>7, <1>8 DEF BInv

LEMMA BInvNext == BInv /\ [Next]_vars => BInv'
<1>1. BInv /\ UNCHANGED vars => BInv'
  BY DEF vars, BInv, TypeOK, Ownership, Initialised, Sized, NoCells, NewCells
<1> QED
  BY <1>1, NextStep

LEMMA BInvAlways == Spec => []BInv
BY BInvInit, BInvNext, PTL DEF Spec

(* byte_buffer: an allocated block belongs to one buffer that exists and is *)
(* as large as its capacity_, through any calls: no block is deleted twice, *)
(* shared or leaked.                                                        *)
THEOREM BlocksOwned == Spec => []Ownership
BY BInvAlways, PTL DEF BInv

(* byte_buffer: data() .. data() + size() lies in the block and was written. *)
THEOREM BytesInitialised == Spec => []Initialised
BY BInvAlways, PTL DEF BInv

(* byte_buffer implements Bytes: every call changes what the buffer it is   *)
(* made on holds as the abstract call does, and no other buffer.            *)
THEOREM ImplementsBytes == Spec => KeepsBytes
<1>1. Init => B!Init
  BY DEF Init, B!Init
<1>2. BInv /\ [Next]_vars => [B!Next]_Held
  <2>1. UNCHANGED vars => Held' = Held
    BY DEF vars, Held, Contents
  <2> QED
    BY <2>1, NextStep
<1>3. BInv /\ [Next]_vars => [B!Next]_[b \in live |-> Contents(b)]
  BY <1>2 DEF Held
<1> QED
  BY <1>1, <1>3, BInvAlways, PTL DEF Spec, KeepsBytes, B!Spec
=============================================================================
