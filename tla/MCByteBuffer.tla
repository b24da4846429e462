---------------------------- MODULE MCByteBuffer ----------------------------
(* Two buffers, and pieces of one and of two bytes.                         *)
EXTENDS ByteBuffer, TLC

MCByte == {"a", "b"}
MCPieces == {<<"a">>, <<"a", "b">>}

\* Neither the objects nor the addresses are told apart.
Symmetry == Permutations(Buffers) \cup Permutations(Blocks)
=============================================================================
