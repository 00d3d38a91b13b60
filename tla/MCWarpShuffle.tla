---------------------------- MODULE MCWarpShuffle ----------------------------
(***************************************************************************)
(* Model instance of WarpShuffle.  Widths are those of the code divided by *)
(* 16, so that SegBits = 2 stands for the 32 bits of a lane-read word.     *)
(***************************************************************************)
EXTENDS WarpShuffle

\* half: 16 bits, one partial word; not isFloatTy().
MCHalf == [isFloat |-> FALSE, primBits |-> 1, bits |-> 1]
\* float: 32 bits, the fast path.
MCFloat == [isFloat |-> TRUE, primBits |-> 2, bits |-> 2]
\* i32: 32 bits through the general path.
MCInt32 == [isFloat |-> FALSE, primBits |-> 2, bits |-> 2]
\* double / i64: 64 bits, two words.
MCDouble == [isFloat |-> FALSE, primBits |-> 4, bits |-> 4]
\* x86_fp80: 80 bits, two and a half words.
MCFp80 == [isFloat |-> FALSE, primBits |-> 5, bits |-> 5]
\* complex64 lowered to the struct {float, float}: 64 bits, not primitive.
MCComplex == [isFloat |-> FALSE, primBits |-> 0, bits |-> 4]

MCPrimitiveTypes == {MCHalf, MCFloat, MCInt32, MCDouble, MCFp80}
MCAllTypes == MCPrimitiveTypes \cup {MCComplex}
=============================================================================
