------------------------- MODULE WarpShuffleProofs --------------------------
(***************************************************************************)
(* Proofs about EmitFullWarpShuffleDown for every warp size, segment width *)
(* and set of value types that satisfy the assumptions of WarpShuffle.     *)
(***************************************************************************)
EXTENDS WarpShuffle, SequenceTheorems, TLAPS

USE WarpSizeAssumption, SegBitsAssumption, TypesAssumption, OffsetsAssumption

-----------------------------------------------------------------------------
(* Arithmetic of the segment split: bit b of the wide integer is bit       *)
(* b % 32 of element b \div 32 of the vector, and back.                    *)

LEMMA DivMod ==
    ASSUME NEW b \in Nat
    PROVE  /\ b \div SegBits \in Nat
           /\ b % SegBits \in 0 .. SegBits - 1
           /\ b = (b \div SegBits) * SegBits + (b % SegBits)
BY SMT

LEMMA DivBelow ==
    ASSUME NEW b \in Nat, NEW n \in Nat, b < n * SegBits
    PROVE  b \div SegBits \in 0 .. n - 1
<1>1. b = (b \div SegBits) * SegBits + (b % SegBits) /\ b \div SegBits \in Nat
      /\ b % SegBits \in 0 .. SegBits - 1
  BY DivMod
<1>2. SUFFICES ASSUME b \div SegBits >= n PROVE FALSE
  BY <1>1
<1>3. (b \div SegBits) * SegBits >= n * SegBits
  BY <1>1, <1>2, SMT
<1>4. QED
  BY <1>1, <1>3, SMT

LEMMA IndexBelow ==
    ASSUME NEW n \in Nat, NEW j \in 0 .. n - 1, NEW c \in 0 .. SegBits - 1
    PROVE  j * SegBits + c \in 0 .. n * SegBits - 1
<1>1. j * SegBits <= (n - 1) * SegBits
  BY SMT
<1>2. (n - 1) * SegBits = n * SegBits - SegBits
  BY SMT
<1>3. QED
  BY <1>1, <1>2, SMT

(* The number of segments covers the width (line 256).                     *)
LEMMA SegmentsCover ==
    ASSUME NEW w \in Nat
    PROVE  /\ NumSegments(w) \in Nat
           /\ NumSegments(w) * SegBits >= w
<1> DEFINE q == w \div SegBits
<1>1. w = q * SegBits + (w % SegBits) /\ q \in Nat /\ w % SegBits \in 0 .. SegBits - 1
  BY DivMod
<1>2. CASE q * SegBits < w
  <2>1. NumSegments(w) = q + 1
    BY <1>2 DEF NumSegments
  <2>2. (q + 1) * SegBits = q * SegBits + SegBits
    BY <1>1, SMT
  <2>3. QED
    BY <1>1, <2>1, <2>2, SMT
<1>3. CASE ~(q * SegBits < w)
  <2>1. NumSegments(w) = q
    BY <1>3 DEF NumSegments
  <2>2. QED
    BY <1>1, <1>3, <2>1, SMT
<1>4. QED
  BY <1>2, <1>3
-----------------------------------------------------------------------------
(***************************************************************************)
(* The inductive invariant.  ShuffleCorrect alone is not inductive: the    *)
(* reassembly of lines 271-275 is exact only because, when the loop ends,  *)
(* every element of the vector holds the source lane's word of the        *)
(* zero-extended value (SegmentLoopInv) and the vector is wide enough for  *)
(* the value (its first conjunct).  TypeOK is needed to know that bits are *)
(* bits and indices are in range; the general path is only entered with a *)
(* non-zero primitive width, which is then the real width of the value.    *)
(***************************************************************************)
LoopWidthInv == pc = "loop" => ty.primBits > 0

IInv == TypeOK /\ LoopWidthInv /\ SegmentLoopInv /\ ShuffleCorrect

\* The lane-read call appends one well-typed call instruction, or crashes.
LEMMA EmitReadUpLaneCalls ==
    ASSUME TypeOK, EmitReadUpLane
    PROVE  calls' \in Seq([callee : {ReadUpLane},
                           type : {DC!Signature(<<"S32", "S32">>, "S32")},
                           direct : BOOLEAN, attrs : {{}}])
<1> DEFINE rec == [callee |-> ReadUpLane,
                   type |-> DC!Signature(<<"S32", "S32">>, "S32"),
                   direct |-> TRUE, attrs |-> {}]
<1>1. calls' = Append(calls, rec) \/ calls' = calls
  BY DEF EmitReadUpLane, DC!EmitDeviceFunctionCall
<1>2. rec \in [callee : {ReadUpLane},
               type : {DC!Signature(<<"S32", "S32">>, "S32")},
               direct : BOOLEAN, attrs : {{}}]
  OBVIOUS
<1> DEFINE CallRec == [callee : {ReadUpLane},
                       type : {DC!Signature(<<"S32", "S32">>, "S32")},
                       direct : BOOLEAN, attrs : {{}}]
<1>3. calls \in Seq(CallRec)
  BY DEF TypeOK
<1>4. Append(calls, rec) \in Seq(CallRec)
  BY <1>2, <1>3, AppendProperties
<1>5. QED
  BY <1>1, <1>3, <1>4

LEMMA InitIInv == Init => IInv
BY DEF Init, IInv, TypeOK, LoopWidthInv, SegmentLoopInv, ShuffleCorrect,
       DC!Init, Bits

LEMMA FastPathIInv == IInv /\ FastPath => IInv'
<1> SUFFICES ASSUME IInv, FastPath PROVE IInv'
  OBVIOUS
<1>1. ty.primBits = SegBits
  BY DEF FastPath
<1>2. PICK r \in LaneRead(val) : res' = r
  BY DEF FastPath
<1>3. res' \in [Lane -> Bits(ty.primBits)]
  BY <1>1, <1>2 DEF LaneRead, FastPath
<1>4. TypeOK'
  BY <1>3, EmitReadUpLaneCalls DEF FastPath, TypeOK, IInv
<1>5. ShuffleCorrect'
  BY <1>2 DEF FastPath, ShuffleCorrect, LaneRead
<1>6. QED
  BY <1>4, <1>5 DEF FastPath, LoopWidthInv, SegmentLoopInv, IInv
LEMMA InvalidWidthIInv == IInv /\ InvalidWidth => IInv'
BY DEF InvalidWidth, IInv, TypeOK, LoopWidthInv, SegmentLoopInv, ShuffleCorrect

\* The packed vector of one lane is a vector of words (line 257-261).
LEMMA PackedVector ==
    ASSUME NEW t \in Types, NEW v \in Bits(t.bits), t.primBits > 0
    PROVE  LET n == NumSegments(t.primBits)
           IN  ToVector(ZExt(v, t.primBits, n * SegBits), n)
                 \in [0 .. n - 1 -> Bits(SegBits)]
<1> DEFINE n == NumSegments(t.primBits)
<1>1. t.primBits = t.bits /\ t.primBits \in Nat
  BY DEF LLVMType
<1>2. n \in Nat
  BY <1>1, SegmentsCover
<1>3. ASSUME NEW j \in 0 .. n - 1, NEW c \in 0 .. SegBits - 1
      PROVE  ZExt(v, t.primBits, n * SegBits)[j * SegBits + c] \in {0, 1}
  <2>1. j * SegBits + c \in 0 .. n * SegBits - 1
    BY <1>2, IndexBelow
  <2>2. QED
    BY <1>1, <2>1 DEF ZExt, Bits
<1>4. QED
  BY <1>3 DEF ToVector, Bits

LEMMA PackIInv == IInv /\ Pack => IInv'
<1> SUFFICES ASSUME IInv, Pack PROVE IInv'
  OBVIOUS
<1>1. /\ nseg' \in Nat
      /\ nseg' * SegBits >= ty.primBits
  BY SegmentsCover DEF Pack, IInv, TypeOK, LLVMType
<1>2. x' \in [Lane -> [0 .. nseg' - 1 -> Bits(SegBits)]]
  BY PackedVector DEF Pack, IInv, TypeOK
<1>3. TypeOK'
  BY <1>1, <1>2 DEF Pack, IInv, TypeOK
<1>4. SegmentLoopInv'
  BY <1>1 DEF Pack, SegmentLoopInv, Padded
<1>5. QED
  BY <1>3, <1>4 DEF Pack, IInv, LoopWidthInv, ShuffleCorrect
LEMMA ShuffleSegmentIInv == IInv /\ ShuffleSegment => IInv'
<1> SUFFICES ASSUME IInv, ShuffleSegment PROVE IInv'
  OBVIOUS
<1>1. PICK r \in LaneRead([l \in Lane |-> x[l][i]]) :
        x' = [l \in Lane |-> [x[l] EXCEPT ![i] = r[l]]]
  BY DEF ShuffleSegment
<1>2. /\ i \in 0 .. nseg - 1
      /\ nseg \in Nat
      /\ off \in Nat
      /\ x \in [Lane -> [0 .. nseg - 1 -> Bits(SegBits)]]
      /\ r \in [Lane -> Bits(SegBits)]
  BY DEF ShuffleSegment, IInv, TypeOK, LaneRead
<1>3. TypeOK'
  <2>1. x' \in [Lane -> [0 .. nseg - 1 -> Bits(SegBits)]]
    BY <1>1, <1>2
  <2>2. QED
    BY <2>1, <1>2, EmitReadUpLaneCalls DEF ShuffleSegment, IInv, TypeOK
<1>4. SegmentLoopInv'
  <2> SUFFICES ASSUME NEW l \in Lane, NEW j \in 0 .. nseg - 1
               PROVE  /\ j >= i' => x'[l][j] = ToVector(Padded(val[l]), nseg)[j]
                      /\ (j < i' /\ l + off < WarpSize) =>
                            x'[l][j] = ToVector(Padded(val[l + off]), nseg)[j]
    BY DEF ShuffleSegment, SegmentLoopInv, IInv, Padded
  <2>1. CASE j # i
    BY <1>1, <1>2, <2>1 DEF ShuffleSegment, SegmentLoopInv, IInv
  <2>2. CASE j = i
    <3>1. x'[l][j] = r[l]
      BY <1>1, <1>2, <2>2
    <3>0. l + off < WarpSize => l + off \in Lane
      BY <1>2 DEF Lane
    <3>2. l + off < WarpSize => r[l] = x[l + off][i]
      BY <1>2, <3>0 DEF LaneRead
    <3>3. l + off < WarpSize =>
            x[l + off][i] = ToVector(Padded(val[l + off]), nseg)[i]
      BY <1>2, <3>0 DEF ShuffleSegment, SegmentLoopInv, IInv
    <3>4. i' = i + 1
      BY DEF ShuffleSegment
    <3>5. QED
      BY <1>2, <2>2, <3>1, <3>2, <3>3, <3>4
  <2>3. QED
    BY <2>1, <2>2
<1>5. QED
  BY <1>3, <1>4 DEF ShuffleSegment, IInv, LoopWidthInv, ShuffleCorrect
(***************************************************************************)
(* Bit b of the reassembled value of lane l is bit b % 32 of element       *)
(* b \div 32 of its vector; when the loop has ended that element is the    *)
(* source lane's word, so the bit is the source lane's bit b.              *)
(***************************************************************************)
LEMMA UnpackBit ==
    ASSUME IInv, pc = "loop", i = nseg,
           NEW l \in Lane, NEW b \in 0 .. ty.primBits - 1
    PROVE  /\ FromVector(x[l], nseg)[b] \in {0, 1}
           /\ l + off < WarpSize => FromVector(x[l], nseg)[b] = val[l + off][b]
<1>1. /\ nseg \in Nat
      /\ off \in Nat
      /\ ty.primBits \in Nat
      /\ nseg * SegBits >= ty.primBits
      /\ x \in [Lane -> [0 .. nseg - 1 -> Bits(SegBits)]]
  BY DEF IInv, TypeOK, SegmentLoopInv, LLVMType
<1> DEFINE j == b \div SegBits
<1> DEFINE c == b % SegBits
<1> HIDE DEF j, c
<1>2. /\ j \in 0 .. nseg - 1
      /\ c \in 0 .. SegBits - 1
      /\ b = j * SegBits + c
      /\ b \in 0 .. nseg * SegBits - 1
  <2>1. b \in Nat /\ b < nseg * SegBits
    BY <1>1
  <2>2. j \in 0 .. nseg - 1
    BY <1>1, <2>1, DivBelow DEF j
  <2>3. c \in 0 .. SegBits - 1 /\ b = j * SegBits + c
    BY <2>1, DivMod DEF j, c
  <2>4. QED
    BY <1>1, <2>1, <2>2, <2>3
<1>3. FromVector(x[l], nseg)[b] = x[l][j][c]
  BY <1>2 DEF FromVector, j, c
<1>4. x[l][j][c] \in {0, 1}
  BY <1>1, <1>2 DEF Bits
<1>5. ASSUME l + off < WarpSize
      PROVE  x[l][j][c] = val[l + off][b]
  <2>1. l + off \in Lane
    BY <1>1, <1>5 DEF Lane
  <2>2. \A ll \in Lane, jj \in 0 .. nseg - 1 :
          (jj < i /\ ll + off < WarpSize) =>
             x[ll][jj] = ToVector(Padded(val[ll + off]), nseg)[jj]
    BY DEF IInv, SegmentLoopInv
  <2>3. x[l][j] = ToVector(Padded(val[l + off]), nseg)[j]
    BY <1>1, <1>2, <1>5, <2>1, <2>2
  <2>4. ToVector(Padded(val[l + off]), nseg)[j][c]
          = Padded(val[l + off])[j * SegBits + c]
    BY <1>2 DEF ToVector
  <2>5. Padded(val[l + off])[b] = val[l + off][b]
    BY <1>1, <1>2 DEF Padded, ZExt
  <2>6. QED
    BY <1>2, <2>3, <2>4, <2>5
<1>6. QED
  BY <1>3, <1>4, <1>5

LEMMA UnpackIInv == IInv /\ Unpack => IInv'
<1> SUFFICES ASSUME IInv, Unpack PROVE IInv'
  OBVIOUS
<1>1. /\ i = nseg
      /\ ty.primBits = ty.bits
      /\ ty.primBits \in Nat
  BY DEF Unpack, IInv, TypeOK, LoopWidthInv, LLVMType
<1>2. ASSUME NEW l \in Lane
      PROVE  /\ res'[l] \in Bits(ty.primBits)
             /\ l + off < WarpSize => res'[l] = val[l + off]
  <2>1. res'[l] = [b \in 0 .. ty.primBits - 1 |-> FromVector(x[l], nseg)[b]]
    BY DEF Unpack, Trunc
  <2>2. res'[l] \in Bits(ty.primBits)
    BY <1>1, <2>1, UnpackBit DEF Unpack, Bits
  <2>3. ASSUME l + off < WarpSize PROVE res'[l] = val[l + off]
    <3>1. l + off \in Lane
      BY <2>3 DEF Lane, IInv, TypeOK
    <3>2. val[l + off] \in [0 .. ty.primBits - 1 -> {0, 1}]
      BY <1>1, <3>1 DEF IInv, TypeOK, Bits
    <3>3. QED
      BY <1>1, <2>1, <2>3, <3>2, UnpackBit DEF Unpack
  <2>4. QED
    BY <2>2, <2>3
<1>3. TypeOK'
  BY <1>2 DEF Unpack, IInv, TypeOK
<1>4. ShuffleCorrect'
  BY <1>2 DEF Unpack, ShuffleCorrect
<1>5. QED
  BY <1>3, <1>4 DEF Unpack, IInv, LoopWidthInv, SegmentLoopInv
-----------------------------------------------------------------------------
LEMMA IInvInductive == IInv /\ [Next]_vars => IInv'
<1> SUFFICES ASSUME IInv, [Next]_vars PROVE IInv'
  OBVIOUS
<1>1. CASE FastPath
  BY <1>1, FastPathIInv
<1>2. CASE Pack
  BY <1>2, PackIInv
<1>3. CASE InvalidWidth
  BY <1>3, InvalidWidthIInv
<1>4. CASE ShuffleSegment
  BY <1>4, ShuffleSegmentIInv
<1>5. CASE Unpack
  BY <1>5, UnpackIInv
<1>6. CASE UNCHANGED vars
  BY <1>6 DEF vars, IInv, TypeOK, LoopWidthInv, SegmentLoopInv, ShuffleCorrect,
               Padded
<1>7. QED
  BY <1>1, <1>2, <1>3, <1>4, <1>5, <1>6 DEF Next

THEOREM InvariantHolds == Spec => []IInv
BY InitIInv, IInvInductive, PTL DEF Spec

(***************************************************************************)
(* Type correctness of the shuffle emitter: lane values, the vector of     *)
(* segments, the result and the emitted calls keep their types.            *)
(***************************************************************************)
THEOREM TypeCorrect == Spec => []TypeOK
BY InvariantHolds, PTL DEF IInv

(***************************************************************************)
(* The contract of EmitFullWarpShuffleDown, for every warp size, every     *)
(* word width, every offset and every type whose getPrimitiveSizeInBits() *)
(* is its width: each lane whose source lane is in the warp receives the   *)
(* source lane's exact bit pattern, on the fast path and on the general    *)
(* path.                                                                   *)
(***************************************************************************)
THEOREM ShuffleAlwaysCorrect == Spec => []ShuffleCorrect
BY InvariantHolds, PTL DEF IInv

(***************************************************************************)
(* The segment loop invariant holds at every step of the loop.             *)
(***************************************************************************)
THEOREM SegmentLoopAlwaysInv == Spec => []SegmentLoopInv
BY InvariantHolds, PTL DEF IInv

-----------------------------------------------------------------------------
(***************************************************************************)
(* Refinement of the contract.  The result is empty until the function     *)
(* returns, and then has the width of the value: the fast path returns a  *)
(* word of a type whose width is the word, and the general path is taken  *)
(* only with a non-zero primitive width, which is then the value's width. *)
(* IInv alone does not say this: TypeOK allows a result of width 0.        *)
(***************************************************************************)
ResultInv ==
    /\ pc # "done" => res = [l \in Lane |-> <<>>]
    /\ pc = "done" => ty.primBits = ty.bits /\ res \in [Lane -> Bits(ty.bits)]

LEMMA ResultInvInductive ==
    IInv /\ ResultInv /\ [Next]_vars => ResultInv'
<1> SUFFICES ASSUME IInv, ResultInv, [Next]_vars PROVE ResultInv'
  OBVIOUS
<1>1. ty \in Types /\ ty \in LLVMType /\ ty.primBits \in {0, ty.bits}
  BY DEF IInv, TypeOK
<1>2. CASE FastPath
  <2>1. ty.primBits = SegBits /\ ty' = ty /\ pc' = "done"
    BY <1>2 DEF FastPath
  <2>2. ty.primBits = ty.bits
    BY <1>1, <2>1
  <2>3. PICK r \in LaneRead(val) : res' = r
    BY <1>2 DEF FastPath
  <2>4. res' \in [Lane -> Bits(ty.bits)]
    BY <2>1, <2>2, <2>3 DEF LaneRead
  <2>5. QED
    BY <2>1, <2>2, <2>4 DEF ResultInv
<1>3. CASE Unpack
  <2>1. ty.primBits > 0 /\ ty' = ty /\ pc' = "done"
    BY <1>3 DEF Unpack, IInv, LoopWidthInv
  <2>2. ty.primBits = ty.bits
    BY <1>1, <2>1
  <2>3. IInv'
    BY <1>3, UnpackIInv
  <2>4. res' \in [Lane -> Bits(0) \cup Bits(ty.primBits)]
    BY <2>1, <2>3 DEF IInv, TypeOK
  <2>5. ASSUME NEW l \in Lane PROVE res'[l] \in Bits(ty.primBits)
    <3>1. res'[l] = Trunc(FromVector(x[l], nseg), ty.primBits)
      BY <1>3 DEF Unpack
    <3>2. DOMAIN res'[l] = 0 .. ty.primBits - 1
      BY <3>1 DEF Trunc
    <3>3. QED
      BY <2>1, <2>4, <3>2 DEF Bits
  <2>6. QED
    BY <2>1, <2>2, <2>4, <2>5 DEF ResultInv
<1>4. CASE Pack \/ InvalidWidth \/ ShuffleSegment
  BY <1>4 DEF Pack, InvalidWidth, ShuffleSegment, ResultInv
<1>5. CASE UNCHANGED vars
  BY <1>5 DEF vars, ResultInv
<1>6. QED
  BY <1>2, <1>3, <1>4, <1>5 DEF Next

\* A step of the emitter is an exchange of the contract, or changes nothing it sees.
LEMMA StepRefines ==
    ASSUME IInv, ResultInv, IInv', ResultInv', [Next]_vars
    PROVE  [Contract!Exchange]_Contract!cvars
<1>1. CASE FastPath \/ Unpack
  <2>1. pc # "done" /\ pc' = "done" /\ UNCHANGED <<ty, off, val>>
    BY <1>1 DEF FastPath, Unpack
  <2>2. res' \in [Lane -> Bits(ty.bits)]
    BY <2>1 DEF ResultInv
  <2>3. \A l \in Lane : l + off < WarpSize => res'[l] = val[l + off]
    BY <2>1 DEF IInv, ShuffleCorrect
  <2>4. QED
    BY <2>1, <2>2, <2>3 DEF Contract!Exchange, Contract!Lane, Contract!Bits, Lane, Bits
<1>2. CASE Pack \/ InvalidWidth \/ ShuffleSegment \/ UNCHANGED vars
  BY <1>2 DEF Pack, InvalidWidth, ShuffleSegment, vars, Contract!cvars
<1>3. QED
  BY <1>1, <1>2 DEF Next

(***************************************************************************)
(* EmitFullWarpShuffleDown implements the safety part of its contract, for *)
(* every warp size, word width, offset and set of types: every behaviour  *)
(* of the emitted code, seen through the value, the offset and the        *)
(* result, is one exchange of the whole bit pattern preceded and followed *)
(* by steps that change nothing visible.  That the exchange does happen   *)
(* (the fairness of the contract) holds only for primitive types and is   *)
(* checked by TLC.                                                         *)
(***************************************************************************)
THEOREM ImplementsContractSafety == Spec => Contract!SafetySpec
<1>1. Init => ResultInv
  BY DEF Init, ResultInv
<1>2. Spec => [](IInv /\ ResultInv)
  BY <1>1, InitIInv, IInvInductive, ResultInvInductive, PTL DEF Spec
<1>3. Init => Contract!Init
  BY DEF Init, Contract!Init, Contract!Lane, Contract!Bits, Lane, Bits
<1>4. QED
  BY <1>2, <1>3, StepRefines, PTL DEF Spec, Contract!SafetySpec

-----------------------------------------------------------------------------
(***************************************************************************)
(* The lane-read calls.  No segment count covers a non-zero width with a  *)
(* whole word to spare (line 256 rounds up, never more).                   *)
(***************************************************************************)
LEMMA SegmentsMinimal ==
    ASSUME NEW w \in Nat, w > 0
    PROVE  (NumSegments(w) - 1) * SegBits < w
<1> DEFINE q == w \div SegBits
<1>1. w = q * SegBits + (w % SegBits) /\ q \in Nat /\ w % SegBits \in 0 .. SegBits - 1
  BY DivMod
<1>2. CASE q * SegBits < w
  <2>1. NumSegments(w) = q + 1
    BY <1>2 DEF NumSegments
  <2>2. QED
    BY <1>1, <1>2, <2>1
<1>3. CASE ~(q * SegBits < w)
  <2>1. NumSegments(w) = q /\ q * SegBits = w
    BY <1>1, <1>3 DEF NumSegments
  <2>2. (q - 1) * SegBits = q * SegBits - SegBits
    BY <1>1, SMT
  <2>3. QED
    BY <2>1, <2>2
<1>4. QED
  BY <1>2, <1>3

\* The fast path of lines 241-251.
FastCase == ty.isFloat /\ ty.primBits = SegBits

(***************************************************************************)
(* The calls made so far: none before the shuffle starts, one per loop     *)
(* iteration done, and at the end one on the fast path and num_segments on *)
(* the general path.  The module never crashes, because the only callee   *)
(* is always asked for with the same signature.                            *)
(***************************************************************************)
ReadSig == DC!Signature(<<"S32", "S32">>, "S32")

CallInv ==
    /\ irstate = "ok"
    /\ DOMAIN decls = {ReadUpLane, "vprintf"}
    /\ decls[ReadUpLane] \in {NoDecl, ReadSig}
    /\ pc \in {"entry", "invalid"} => Len(calls) = 0
    /\ pc = "loop" => /\ Len(calls) = i
                      /\ nseg = NumSegments(ty.primBits)
                      /\ ~FastCase
    /\ pc = "done" => IF FastCase THEN Len(calls) = 1
                      ELSE Len(calls) = NumSegments(ty.primBits) /\ ty.primBits > 0

\* A lane-read call in a module that has not crashed appends one call.
LEMMA EmitReadUpLaneStep ==
    ASSUME CallInv, EmitReadUpLane
    PROVE  /\ calls' = Append(calls, [callee |-> ReadUpLane, type |-> ReadSig,
                                      direct |-> TRUE, attrs |-> {}])
           /\ irstate' = "ok"
           /\ DOMAIN decls' = {ReadUpLane, "vprintf"}
           /\ decls'[ReadUpLane] = ReadSig
BY DEF CallInv, EmitReadUpLane, DC!EmitDeviceFunctionCall, ReadSig

LEMMA CallInvInductive ==
    ASSUME IInv, CallInv, [Next]_vars
    PROVE  CallInv'
<1>1. CASE FastPath
  <2>1. pc = "entry" /\ pc' = "done" /\ FastCase /\ ty' = ty
    BY <1>1 DEF FastPath, FastCase
  <2>2. Len(calls) = 0 /\ calls \in Seq([callee : {ReadUpLane}, type : {ReadSig},
                                        direct : BOOLEAN, attrs : {{}}])
    BY <2>1 DEF CallInv, IInv, TypeOK, ReadSig
  <2>3. Len(calls') = 1
    BY <1>1, <2>2, EmitReadUpLaneStep DEF FastPath
  <2>4. QED
    BY <1>1, <2>1, <2>3, EmitReadUpLaneStep DEF FastPath, CallInv, FastCase
<1>2. CASE Pack
  BY <1>2 DEF Pack, CallInv, FastCase
<1>3. CASE InvalidWidth
  BY <1>3 DEF InvalidWidth, CallInv, FastCase
<1>4. CASE ShuffleSegment
  <2>1. pc = "loop" /\ pc' = "loop" /\ i' = i + 1 /\ UNCHANGED <<ty, nseg>>
    BY <1>4 DEF ShuffleSegment
  <2>2. Len(calls) = i /\ calls \in Seq([callee : {ReadUpLane}, type : {ReadSig},
                                        direct : BOOLEAN, attrs : {{}}])
    BY <2>1 DEF CallInv, IInv, TypeOK, ReadSig
  <2>3. Len(calls') = i + 1
    BY <1>4, <2>2, EmitReadUpLaneStep DEF ShuffleSegment
  <2>4. QED
    BY <1>4, <2>1, <2>3, EmitReadUpLaneStep DEF ShuffleSegment, CallInv, FastCase
<1>5. CASE Unpack
  <2>1. pc = "loop" /\ pc' = "done" /\ ~(i < nseg) /\ UNCHANGED <<ty, calls, decls, irstate>>
    BY <1>5 DEF Unpack
  <2>2. i = nseg /\ ty.primBits > 0
    BY <2>1 DEF IInv, TypeOK, LoopWidthInv
  <2>3. QED
    BY <2>1, <2>2 DEF CallInv, FastCase
<1>6. CASE UNCHANGED vars
  BY <1>6 DEF vars, CallInv, FastCase, ReadSig
<1>7. QED
  BY <1>1, <1>2, <1>3, <1>4, <1>5, <1>6 DEF Next

(***************************************************************************)
(* CallsMinimal for every warp size, word width, offset and set of types:  *)
(* the emitted code makes one lane-read call on the fast path and, on the *)
(* general path, the least number of word reads that covers the value.    *)
(***************************************************************************)
THEOREM CallsAlwaysMinimal == Spec => []CallsMinimal
<1>1. Init => CallInv
  BY DEF Init, CallInv, DC!Init
<1>2. Spec => [](IInv /\ CallInv)
  BY <1>1, InitIInv, IInvInductive, CallInvInductive, PTL DEF Spec
<1>3. IInv /\ CallInv => CallsMinimal
  <2> SUFFICES ASSUME IInv, CallInv, pc = "done", ~FastCase
               PROVE  /\ Len(calls) * SegBits >= ty.primBits
                      /\ (Len(calls) - 1) * SegBits < ty.primBits
    BY DEF CallsMinimal, CallInv, FastCase
  <2>1. Len(calls) = NumSegments(ty.primBits) /\ ty.primBits > 0
        /\ ty.primBits \in Nat
    BY DEF CallInv, IInv, TypeOK, LLVMType
  <2>2. QED
    BY <2>1, SegmentsCover, SegmentsMinimal
<1>4. QED
  BY <1>2, <1>3, PTL

=============================================================================
