----------------------------- MODULE WarpShuffle ----------------------------
(***************************************************************************)
(* EmitFullWarpShuffleDown of ir_emission_utils.cc (lines 229-276), and    *)
(* the warp that runs the code it emits.  The emitted code is straight-line *)
(* (the loop over segments is unrolled at emission time), so each step of  *)
(* this module is one emission step together with its effect on the lanes *)
(* of the warp.  Every lane holds a value of the same LLVM type; a value   *)
(* is its bit pattern, a function from bit positions (least significant    *)
(* first) to {0, 1}, so that bitcast, zext, trunc and the integer/vector   *)
(* reinterpretations are modelled by what they do to bits.                 *)
(*                                                                         *)
(* SegBits is the width of the hardware lane-read (32 in the code: the     *)
(* i32 of __ockl_readuplane_i32 and the literal 32 of lines 256-273).      *)
(* Model instances scale every width down by the same factor.              *)
(***************************************************************************)
EXTENDS Naturals, Sequences

CONSTANTS
    WarpSize,   \* lanes in the hardware group
    SegBits,    \* bits moved by one lane-read call (32 in the code)
    Types,      \* LLVM types of the shuffled value
    Offsets,    \* values of the offset operand
    NoDecl,     \* see DeviceCall
    MaxCalls    \* see DeviceCall

(* An LLVM type as EmitFullWarpShuffleDown sees it: isFloatTy(), the       *)
(* getPrimitiveSizeInBits() it reports, and the bits a value really has.  *)
LLVMType == [isFloat : BOOLEAN, primBits : Nat, bits : Nat]

ASSUME WarpSizeAssumption == WarpSize \in Nat \ {0}
ASSUME SegBitsAssumption == SegBits \in Nat \ {0}
ASSUME TypesAssumption ==
    /\ Types \subseteq LLVMType
    \* getPrimitiveSizeInBits() is the width of a primitive type, 0 otherwise
    /\ \A t \in Types : t.primBits \in {0, t.bits}
ASSUME OffsetsAssumption == Offsets \subseteq Nat

Lane == 0 .. WarpSize - 1

\* Bit patterns of width w.
Bits(w) == [0 .. w - 1 -> {0, 1}]

\* The callee and signature of every lane-read call (lines 245-247, 265-268).
ReadUpLane == "__ockl_readuplane_i32"

VARIABLES
    ty,      \* the type of value
    off,     \* the offset operand
    val,     \* lane -> bits of value
    pc,      \* "entry", "loop", "done", or "invalid"
    nseg,    \* num_segments
    i,       \* the loop index of lines 262-270
    x,       \* lane -> the <num_segments x i32> vector x
    res,     \* lane -> bits of the returned value
    decls, fnattrs, calls, irstate   \* the llvm::Module, see DeviceCall

DC == INSTANCE DeviceCall WITH DeviceCalls <- {}, PrintfArgs <- {},
                               Names <- {ReadUpLane, "vprintf"}, Attributes <- {},
                               IRTypes <- {"S32", "i8*"}

vars == <<ty, off, val, pc, nseg, i, x, res, decls, fnattrs, calls, irstate>>

(***************************************************************************)
(* The hardware lane-read on a warp: lane l receives the word of lane      *)
(* l + off.  The result for a lane whose source is outside the warp is     *)
(* unspecified, so every word is possible there.                           *)
(***************************************************************************)
LaneRead(word) ==
    {r \in [Lane -> Bits(SegBits)] :
        \A l \in Lane : l + off < WarpSize => r[l] = word[l + off]}

(* One EmitDeviceFunctionCall("__ockl_readuplane_i32", {v, offset},       *)
(* {S32, S32}, S32, {}, ...).                                              *)
EmitReadUpLane == DC!EmitDeviceFunctionCall(ReadUpLane, <<"S32", "S32">>, "S32", {})

\* Mutant: the segment count computed as (bit_width + 32) / 32.
NumSegmentsOver(bitWidth) == bitWidth \div SegBits + 1

\* Mutant: the segment count rounded down instead of up.
NumSegmentsFloor(bitWidth) == bitWidth \div SegBits

(* CeilOfRatio(bit_width, 32) of line 256, as MathUtil::CeilOfRatio        *)
(* computes it for non-negative operands.                                  *)
NumSegments(bitWidth) ==
    LET q == bitWidth \div SegBits
    IN  q + (IF q * SegBits < bitWidth THEN 1 ELSE 0)

(* CreateZExt of a w-bit integer to n bits.                                *)
ZExt(v, w, n) == [b \in 0 .. n - 1 |-> IF b < w THEN v[b] ELSE 0]

\* Mutant: the CreateTrunc of line 272 left out.
TruncMissing(v, w) == v

(* CreateTrunc to w bits.                                                  *)
Trunc(v, w) == [b \in 0 .. w - 1 |-> v[b]]

(* Bitcast of an (n * SegBits)-bit integer to <n x i32>: element j holds   *)
(* bits j * SegBits .. j * SegBits + SegBits - 1 (little-endian target).   *)
ToVector(v, n) == [j \in 0 .. n - 1 |-> [b \in 0 .. SegBits - 1 |-> v[j * SegBits + b]]]

\* Mutant: the vector reassembled with element 0 as the most significant word.
FromVectorReversed(vec, n) ==
    [b \in 0 .. n * SegBits - 1 |-> vec[n - 1 - b \div SegBits][b % SegBits]]

(* Bitcast of <n x i32> back to an (n * SegBits)-bit integer.              *)
FromVector(vec, n) == [b \in 0 .. n * SegBits - 1 |-> vec[b \div SegBits][b % SegBits]]

Init ==
    /\ ty \in Types
    /\ off \in Offsets
    /\ val \in [Lane -> Bits(ty.bits)]
    /\ pc = "entry"
    /\ nseg = 0
    /\ i = 0
    /\ x = [l \in Lane |-> <<>>]
    /\ res = [l \in Lane |-> <<>>]
    /\ DC!Init

(***************************************************************************)
(* Lines 241-251: a 32-bit float is bitcast to i32, read from lane         *)
(* l + offset with one call, and bitcast back.                             *)
(***************************************************************************)
FastPath ==
    /\ pc = "entry"
    /\ ty.isFloat /\ ty.primBits = SegBits
    /\ EmitReadUpLane
    /\ \E r \in LaneRead(val) : res' = r
    /\ pc' = "done"
    /\ UNCHANGED <<ty, off, val, nseg, i, x>>

(***************************************************************************)
(* Lines 238 and 256-261: the value is bitcast to an integer of            *)
(* getPrimitiveSizeInBits() bits, zero-extended to 32 * num_segments bits *)
(* and bitcast to a vector of num_segments i32.                            *)
(***************************************************************************)
Pack ==
    /\ pc = "entry"
    /\ ~(ty.isFloat /\ ty.primBits = SegBits)
    /\ ty.primBits > 0
    /\ nseg' = NumSegments(ty.primBits)
    /\ x' = [l \in Lane |-> ToVector(ZExt(val[l], ty.primBits, nseg' * SegBits), nseg')]
    /\ i' = 0
    /\ pc' = "loop"
    /\ UNCHANGED <<ty, off, val, res, decls, fnattrs, calls, irstate>>

(***************************************************************************)
(* Line 238 on a type that is not primitive (a struct such as the complex *)
(* {float, float}): getPrimitiveSizeInBits() is 0, and getIntNTy(0) and    *)
(* the bitcast of line 259 are invalid, so no shuffle is emitted.          *)
(***************************************************************************)
InvalidWidth ==
    /\ pc = "entry"
    /\ ~(ty.isFloat /\ ty.primBits = SegBits)
    /\ ty.primBits = 0
    /\ pc' = "invalid"
    /\ UNCHANGED <<ty, off, val, nseg, i, x, res, decls, fnattrs, calls, irstate>>

(***************************************************************************)
(* One iteration of lines 262-270: extract element i, read it from lane    *)
(* l + offset, insert the result back as element i.                        *)
(***************************************************************************)
ShuffleSegment ==
    /\ pc = "loop"
    /\ i < nseg
    /\ EmitReadUpLane
    /\ \E r \in LaneRead([l \in Lane |-> x[l][i]]) :
          x' = [l \in Lane |-> [x[l] EXCEPT ![i] = r[l]]]
    /\ i' = i + 1
    /\ UNCHANGED <<ty, off, val, pc, nseg, res>>

(***************************************************************************)
(* Lines 271-275, after the loop: bitcast the vector to a                  *)
(* (32 * num_segments)-bit integer, truncate to bit_width bits and bitcast *)
(* to the type of value.                                                   *)
(***************************************************************************)
Unpack ==
    /\ pc = "loop"
    /\ ~(i < nseg)
    /\ res' = [l \in Lane |-> Trunc(FromVector(x[l], nseg), ty.primBits)]
    /\ pc' = "done"
    /\ UNCHANGED <<ty, off, val, nseg, i, x, decls, fnattrs, calls, irstate>>

Next == FastPath \/ Pack \/ InvalidWidth \/ ShuffleSegment \/ Unpack

(* Emission is sequential code: once a step is possible it is taken.       *)
Spec == Init /\ [][Next]_vars /\ WF_vars(Next)

-----------------------------------------------------------------------------
TypeOK ==
    /\ ty \in Types
    /\ off \in Offsets
    /\ val \in [Lane -> Bits(ty.bits)]
    /\ pc \in {"entry", "loop", "done", "invalid"}
    /\ nseg \in Nat
    /\ i \in 0 .. nseg
    /\ x \in [Lane -> [0 .. nseg - 1 -> Bits(SegBits)]]
    /\ res \in [Lane -> Bits(0) \cup Bits(ty.primBits)]
    /\ calls \in Seq([callee : {ReadUpLane}, type : {DC!Signature(<<"S32", "S32">>, "S32")},
                      direct : BOOLEAN, attrs : {{}}])

(***************************************************************************)
(* The contract of EmitFullWarpShuffleDown: when the emitted code has run, *)
(* every lane whose source lane l + offset is inside the warp holds the    *)
(* exact bit pattern that the source lane held, whatever the width of the  *)
(* type and whichever of the two paths (lines 242-251 or 256-275) was      *)
(* taken.  It fails if the segment count, the zero-extension, the element  *)
(* index, the loop bound or the truncation is wrong.                       *)
(***************************************************************************)
ShuffleCorrect ==
    pc = "done" =>
        \A l \in Lane : l + off < WarpSize => res[l] = val[l + off]

(***************************************************************************)
(* The state of the segment loop of lines 262-270: in every lane, the      *)
(* elements below i already hold the word of the source lane and the ones *)
(* from i on still hold the lane's own word of the zero-extended value.   *)
(* This is what makes the reassembly of lines 271-275 exact.               *)
(***************************************************************************)
Padded(v) == ZExt(v, ty.primBits, nseg * SegBits)

SegmentLoopInv ==
    pc = "loop" =>
        /\ nseg * SegBits >= ty.primBits
        /\ \A l \in Lane, j \in 0 .. nseg - 1 :
              /\ j >= i => x[l][j] = ToVector(Padded(val[l]), nseg)[j]
              /\ (j < i /\ l + off < WarpSize) =>
                    x[l][j] = ToVector(Padded(val[l + off]), nseg)[j]

(***************************************************************************)
(* A shuffle is emitted for every type the value can have: line 238 never *)
(* reports a width the rest of the function cannot use.                    *)
(***************************************************************************)
ShuffleEmitted == pc # "invalid"

(***************************************************************************)
(* The number of lane-read calls the emitted code makes: exactly one on    *)
(* the fast path of lines 241-251, and on the general path the minimum    *)
(* number of words that covers the value (spec 4.6: N = ceil(W / 32)),     *)
(* one per loop iteration of lines 262-270: enough words for every bit,    *)
(* and not a whole word of padding more.                                   *)
(***************************************************************************)
CallsMinimal ==
    pc = "done" =>
        IF ty.isFloat /\ ty.primBits = SegBits
        THEN Len(calls) = 1
        ELSE /\ Len(calls) * SegBits >= ty.primBits
             /\ (Len(calls) - 1) * SegBits < ty.primBits

\* The contract, seen through the value, the offset and the result.
Contract == INSTANCE ShuffleDownContract WITH shuffled <- (pc = "done")

(***************************************************************************)
(* EmitFullWarpShuffleDown implements its contract (ShuffleDownContract):  *)
(* seen through the value, the offset and the result, the fast path of     *)
(* lines 241-251 and the split of lines 256-275 are one exchange of the   *)
(* whole bit pattern, taken when the result is returned, and every other   *)
(* step (packing, each segment's lane-read) changes nothing the caller can *)
(* see.  The result has the width of the value, and it is returned.        *)
(***************************************************************************)
ImplementsContract == Contract!Spec

=============================================================================
