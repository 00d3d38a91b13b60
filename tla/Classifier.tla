----------------------------- MODULE Classifier -----------------------------
(***************************************************************************)
(* The dispatch classifiers of ir_emission_utils.cc (lines 41-169 and      *)
(* 278-307): ImplementedAsGemm, IsCustomCallToDnnBatchNorm,                *)
(* IsCustomCallToDnnConvolution, ImplementedAsLibraryCall,                 *)
(* IsReductionToVector and GetCudnnConvKind.  They are pure functions of   *)
(* one HLO instruction; the code generator asks them of one instruction at *)
(* a time.  The state is the instruction asked about and the answers.      *)
(*                                                                         *)
(* Shapes: dims is the sequence of extents (dimension k of the code is     *)
(* dims[k + 1]); layout is minor_to_major as a sequence of dimension       *)
(* numbers.  A CHECK failure is the value Abort.                           *)
(***************************************************************************)
EXTENDS Naturals, FiniteSets, Sequences, SequencesExt

CONSTANTS
    Nodes,      \* the HLO instructions the code generator can ask about
    Abort,      \* the process aborted on a failed CHECK
    NoAnswer    \* no query made yet

(* Lines 110-115 and 127-133: the custom-call targets of the cuDNN calls.  *)
kCudnnBatchNormForwardInferenceCallTarget == "__cudnn$batchNormalizationForwardInference"
kCudnnBatchNormForwardTrainingCallTarget == "__cudnn$batchNormalizationForwardTraining"
kCudnnBatchNormBackwardCallTarget == "__cudnn$batchNormalizationBackward"
kCudnnConvForwardCallTarget == "__cudnn$convForward"
kCudnnConvBackwardInputCallTarget == "__cudnn$convBackwardInput"
kCudnnConvBackwardFilterCallTarget == "__cudnn$convBackwardFilter"
kCudnnConvBiasActivationForwardCallTarget == "__cudnn$convBiasActivationForward"

(* Dimension d (0-based) of a shape.                                       *)
Dim(shape, d) == shape.dims[d + 1]

(* ShapeUtil::IsZeroElementArray: some dimension has extent 0.            *)
IsZeroElementArray(shape) == \E k \in DOMAIN shape.dims : shape.dims[k] = 0

(* Lines 41-44.                                                            *)
IsRank2(shape, batchDimensionsSize) == Len(shape.dims) = batchDimensionsSize + 2

(* Lines 48-64.                                                            *)
AreValidGemmShapes(lhsShape, rhsShape, outputShape, batchDimensionsSize) ==
    /\ outputShape.etype \in {"F16", "F32", "F64", "C64", "C128"}
    /\ IsRank2(lhsShape, batchDimensionsSize)
    /\ IsRank2(rhsShape, batchDimensionsSize)
    /\ IsRank2(outputShape, batchDimensionsSize)
    /\ ~IsZeroElementArray(lhsShape)
    /\ ~IsZeroElementArray(rhsShape)

\* Mutant: the CHECK reads the rhs at the lhs contracting dimension.
DotImplementedAsGemmCrossed(dot) ==
    LET dn == dot.dnums IN
    IF ~AreValidGemmShapes(dot.lhs, dot.rhs, dot.shape, Len(dn.lhsBatch))
    THEN FALSE
    ELSE IF /\ Len(dn.lhsContracting) > 0
            /\ Len(dn.rhsContracting) > 0
            /\ Dim(dot.lhs, dn.lhsContracting[1]) = Dim(dot.rhs, dn.lhsContracting[1])
         THEN TRUE
         ELSE Abort

(***************************************************************************)
(* Lines 66-84.  The CHECK_EQ of line 79 reads the first contracting       *)
(* dimension of each side; reading it when there is none (the repeated     *)
(* field is empty) fails as well.                                          *)
(***************************************************************************)
DotImplementedAsGemm(dot) ==
    LET dn == dot.dnums IN
    IF ~AreValidGemmShapes(dot.lhs, dot.rhs, dot.shape, Len(dn.lhsBatch))
    THEN FALSE
    ELSE IF /\ Len(dn.lhsContracting) > 0
            /\ Len(dn.rhsContracting) > 0
            /\ Dim(dot.lhs, dn.lhsContracting[1]) = Dim(dot.rhs, dn.rhsContracting[1])
         THEN TRUE
         ELSE Abort

\* Mutant: the search of lines 98-104 looks at operand 0 only.
ImplementedAsGemmNoFallback(hlo) ==
    IF hlo.opcode = "dot" THEN DotImplementedAsGemm(hlo)
    ELSE IF /\ hlo.opcode = "fusion"
            /\ hlo.kind = "kOutput"
            /\ hlo.root.opcode \in {"multiply", "add"}
         THEN LET dot == hlo.root.operands[1]
              IN  IF dot.opcode = "dot" THEN DotImplementedAsGemm(dot) ELSE FALSE
         ELSE FALSE

(***************************************************************************)
(* Lines 87-108: a dot, or an output fusion whose root is a multiply or an *)
(* add with a dot operand.  Operand 0 is taken when it is a dot, else     *)
(* operand 1.                                                               *)
(***************************************************************************)
ImplementedAsGemm(hlo) ==
    IF hlo.opcode = "dot" THEN DotImplementedAsGemm(hlo)
    ELSE IF /\ hlo.opcode = "fusion"
            /\ hlo.kind = "kOutput"
            /\ hlo.root.opcode \in {"multiply", "add"}
         THEN LET dot == IF hlo.root.operands[1].opcode # "dot"
                         THEN hlo.root.operands[2]
                         ELSE hlo.root.operands[1]
              IN  IF dot.opcode = "dot" THEN DotImplementedAsGemm(dot) ELSE FALSE
         ELSE FALSE

(* Lines 117-125.                                                          *)
IsCustomCallToDnnBatchNorm(hlo) ==
    /\ hlo.opcode = "custom-call"
    /\ hlo.target \in {kCudnnBatchNormForwardInferenceCallTarget,
                       kCudnnBatchNormForwardTrainingCallTarget,
                       kCudnnBatchNormBackwardCallTarget}

(* Lines 135-144.                                                          *)
IsCustomCallToDnnConvolution(hlo) ==
    /\ hlo.opcode = "custom-call"
    /\ hlo.target \in {kCudnnConvForwardCallTarget,
                       kCudnnConvBackwardInputCallTarget,
                       kCudnnConvBackwardFilterCallTarget,
                       kCudnnConvBiasActivationForwardCallTarget}

(* Lines 146-149: the || of C++, which stops at an aborting first operand. *)
ImplementedAsLibraryCall(hlo) ==
    IF ImplementedAsGemm(hlo) = Abort THEN Abort
    ELSE ImplementedAsGemm(hlo) = TRUE
         \/ IsCustomCallToDnnBatchNorm(hlo)
         \/ IsCustomCallToDnnConvolution(hlo)

\* 0, 1, ..., n - 1 as a sequence: the dim loop of lines 158-162.
Iota(n) == [k \in 1 .. n |-> k - 1]

(***************************************************************************)
(* LayoutUtil::AreDimensionsConsecutive: the positions of the dimensions   *)
(* in minor_to_major, sorted, differ by one from each to the next.         *)
(***************************************************************************)
PositionInLayout(layout, d) == CHOOSE p \in DOMAIN layout : layout[p] = d

AreDimensionsConsecutive(layout, dims) ==
    LET sorted == SetToSortSeq({PositionInLayout(layout, dims[k]) : k \in DOMAIN dims}, <)
    IN  \A k \in 1 .. Len(sorted) - 1 : sorted[k + 1] - sorted[k] = 1

(***************************************************************************)
(* ShapeUtil::FilterDimensions: the dimensions in keep, in order;         *)
(* it deletes the others one by one (ShapeUtil::DeleteDimension), which    *)
(* also removes them from minor_to_major and renumbers the rest.           *)
(***************************************************************************)
FilterDimensions(keep, shape) ==
    LET ks == SelectSeq(Iota(Len(shape.dims)), LAMBDA d : d \in keep)
        kl == SelectSeq(shape.layout, LAMBDA d : d \in keep)
        NewNumber(d) == (CHOOSE k \in DOMAIN ks : ks[k] = d) - 1
    IN  [etype |-> shape.etype,
         dims |-> [k \in DOMAIN ks |-> Dim(shape, ks[k])],
         layout |-> [p \in DOMAIN kl |-> NewNumber(kl[p])]]

\* Mutant: the dim loop of line 158 starts at 1.
DimsToKeepFromOne(reduce) ==
    SelectSeq([k \in 1 .. Len(reduce.input.dims) - 1 |-> k],
              LAMBDA d : d \notin reduce.dimensions)

(* Lines 157-162: the dimensions of the input that the reduce keeps.       *)
DimsToKeep(reduce) ==
    SelectSeq(Iota(Len(reduce.input.dims)), LAMBDA d : d \notin reduce.dimensions)

(***************************************************************************)
(* Lines 152-169.  ShapeUtil::Equal compares element types, extents and  *)
(* layouts.                                                                *)
(***************************************************************************)
IsReductionToVector(reduce) ==
    /\ reduce.opcode = "reduce"
    /\ LET keep == DimsToKeep(reduce) IN
       /\ AreDimensionsConsecutive(reduce.input.layout, keep)
       /\ reduce.shape = FilterDimensions(Range(keep), reduce.input)

(* CudnnConvKind, and the StatusOr<CudnnConvKind> of GetCudnnConvKind: a   *)
(* kind, or the "Unexpected call target" error with the target in it.     *)
ConvKinds == {"kForward", "kBackwardInput", "kBackwardFilter", "kForwardActivation"}
KindOk(kind) == [ok |-> TRUE, value |-> kind]
UnexpectedTarget(target) == [ok |-> FALSE, value |-> target]

\* Mutant: the bias-activation target added to IsCustomCallToDnnConvolution only.
GetCudnnConvKindNoActivation(target) ==
    IF target = kCudnnConvForwardCallTarget THEN KindOk("kForward")
    ELSE IF target = kCudnnConvBackwardInputCallTarget THEN KindOk("kBackwardInput")
    ELSE IF target = kCudnnConvBackwardFilterCallTarget THEN KindOk("kBackwardFilter")
    ELSE UnexpectedTarget(target)

(* Lines 278-294.                                                          *)
GetCudnnConvKind(target) ==
    IF target = kCudnnConvForwardCallTarget THEN KindOk("kForward")
    ELSE IF target = kCudnnConvBackwardInputCallTarget THEN KindOk("kBackwardInput")
    ELSE IF target = kCudnnConvBackwardFilterCallTarget THEN KindOk("kBackwardFilter")
    ELSE IF target = kCudnnConvBiasActivationForwardCallTarget THEN KindOk("kForwardActivation")
    ELSE UnexpectedTarget(target)

(* Lines 296-307.                                                          *)
CudnnConvKindToString(kind) ==
    IF kind = "kForward" THEN "forward"
    ELSE IF kind = "kBackwardFilter" THEN "backward_filter"
    ELSE IF kind = "kBackwardInput" THEN "backward_input"
    ELSE "forward with activation"

(***************************************************************************)
(* Everything the code generator can ask of one instruction.  The kind    *)
(* conversion takes an HloCustomCallInstruction, so it is asked of custom  *)
(* calls only; the label is formatted for the kinds it returns.            *)
(***************************************************************************)
Answers(hlo) ==
    [gemm              |-> ImplementedAsGemm(hlo),
     libraryCall       |-> ImplementedAsLibraryCall(hlo),
     batchNorm         |-> IsCustomCallToDnnBatchNorm(hlo),
     convolution       |-> IsCustomCallToDnnConvolution(hlo),
     reductionToVector |-> IsReductionToVector(hlo),
     convKind          |-> IF hlo.opcode = "custom-call"
                           THEN GetCudnnConvKind(hlo.target) ELSE NoAnswer,
     convLabel         |-> IF hlo.opcode = "custom-call"
                              /\ GetCudnnConvKind(hlo.target).ok
                           THEN CudnnConvKindToString(GetCudnnConvKind(hlo.target).value)
                           ELSE NoAnswer]

(***************************************************************************)
(* What XLA shape inference and the HLO verifier guarantee of the          *)
(* instructions that reach the code generator (ShapeInference, not part    *)
(* of this code).  A dot: batch and contracting dimension lists of equal   *)
(* length on both sides, distinct and in range, with equal extents; the    *)
(* result has the batch dimensions, then the free dimensions of lhs, then *)
(* those of rhs.                                                           *)
(***************************************************************************)
FreeDims(shape, batch, contracting) ==
    LET fs == SelectSeq(Iota(Len(shape.dims)),
                        LAMBDA d : d \notin Range(batch) \cup Range(contracting))
    IN  [k \in DOMAIN fs |-> Dim(shape, fs[k])]

WellFormedDot(dot) ==
    LET dn == dot.dnums
        lr == Len(dot.lhs.dims)
        rr == Len(dot.rhs.dims)
    IN
    /\ {dot.lhs.dims, dot.rhs.dims, dot.shape.dims} \subseteq Seq(Nat)
    /\ {dn.lhsBatch, dn.rhsBatch, dn.lhsContracting, dn.rhsContracting} \subseteq Seq(Nat)
    /\ Len(dn.lhsBatch) = Len(dn.rhsBatch)
    /\ Len(dn.lhsContracting) = Len(dn.rhsContracting)
    /\ IsInjective(dn.lhsBatch \o dn.lhsContracting)
    /\ IsInjective(dn.rhsBatch \o dn.rhsContracting)
    /\ Range(dn.lhsBatch \o dn.lhsContracting) \subseteq 0 .. lr - 1
    /\ Range(dn.rhsBatch \o dn.rhsContracting) \subseteq 0 .. rr - 1
    /\ \A k \in 1 .. Len(dn.lhsBatch) :
          Dim(dot.lhs, dn.lhsBatch[k]) = Dim(dot.rhs, dn.rhsBatch[k])
    /\ \A k \in 1 .. Len(dn.lhsContracting) :
          Dim(dot.lhs, dn.lhsContracting[k]) = Dim(dot.rhs, dn.rhsContracting[k])
    /\ dot.lhs.etype = dot.rhs.etype
    /\ dot.shape.etype = dot.lhs.etype
    /\ dot.shape.dims = [k \in DOMAIN dn.lhsBatch |-> Dim(dot.lhs, dn.lhsBatch[k])]
                        \o FreeDims(dot.lhs, dn.lhsBatch, dn.lhsContracting)
                        \o FreeDims(dot.rhs, dn.rhsBatch, dn.rhsContracting)
    \* the rank this gives, as shape inference states it
    /\ Len(dot.shape.dims) = lr + rr - Len(dn.lhsBatch) - 2 * Len(dn.lhsContracting)

(* A fusion: its kind and its fused root, here the binary multiply or add *)
(* (or another binary op) whose two operands lines 98-104 look at.         *)
FusionShaped(n) ==
    n = [opcode |-> n.opcode, kind |-> n.kind,
         root |-> [opcode |-> n.root.opcode,
                   operands |-> <<n.root.operands[1], n.root.operands[2]>>]]

(* The instructions that reach the code generator: dots are well formed,  *)
(* inside fusions too.                                                     *)
WellFormed(n) ==
    /\ n.opcode = "dot" => WellFormedDot(n)
    /\ n.opcode = "fusion" =>
          /\ FusionShaped(n)
          /\ \A k \in 1 .. 2 : n.root.operands[k].opcode = "dot" => WellFormedDot(n.root.operands[k])

ASSUME NodesAssumption == \A n \in Nodes : WellFormed(n)
ASSUME AbortAssumption == Abort \notin BOOLEAN

(* Layouts: minor_to_major is a permutation of the dimension numbers.      *)
Layouts(rank) == {l \in [1 .. rank -> 0 .. rank - 1] : Range(l) = 0 .. rank - 1}

VARIABLES
    hlo,     \* the instruction asked about
    answer   \* the answers given, or NoAnswer before the queries

cvars == <<hlo, answer>>

Init ==
    /\ hlo \in Nodes
    /\ answer = NoAnswer

(* The code generator queries the instruction; each query is a pure       *)
(* function of it, so one step answers them all, once.                     *)
Classify ==
    /\ answer = NoAnswer
    /\ answer' = Answers(hlo)
    /\ UNCHANGED hlo

Next == Classify

Spec == Init /\ [][Next]_cvars

-----------------------------------------------------------------------------
TypeOK ==
    /\ hlo \in Nodes
    /\ answer \in {NoAnswer} \cup
          [gemm : BOOLEAN \cup {Abort}, libraryCall : BOOLEAN \cup {Abort},
           batchNorm : BOOLEAN, convolution : BOOLEAN, reductionToVector : BOOLEAN,
           convKind : {NoAnswer} \cup [ok : {TRUE}, value : ConvKinds]
                      \cup [ok : {FALSE}, value : STRING],
           convLabel : {"forward", "backward_filter", "backward_input",
                        "forward with activation", NoAnswer}]

(***************************************************************************)
(* The CHECK_EQ of line 79 never fires, and ImplementedAsGemm and          *)
(* ImplementedAsLibraryCall always return, for every instruction shape     *)
(* inference lets through, raw dots and dots inside output fusions alike:  *)
(* a dot with eligible shapes (lines 48-64) has exactly one contracting    *)
(* dimension on each side, and their extents agree.                        *)
(***************************************************************************)
GemmCheckNeverFails ==
    answer # NoAnswer => answer.gemm # Abort /\ answer.libraryCall # Abort

(***************************************************************************)
(* The convolution predicate (lines 135-144) and the kind conversion       *)
(* (lines 278-294) agree: a custom call is a convolution exactly when its  *)
(* target converts to a kind; otherwise the conversion fails with an       *)
(* error that carries the target.                                          *)
(* No target is both a convolution and a batch normalization.              *)
(***************************************************************************)
ConvKindAgrees ==
    answer # NoAnswer /\ hlo.opcode = "custom-call" =>
        /\ answer.convolution <=> answer.convKind.ok
        /\ ~answer.convolution => answer.convKind = UnexpectedTarget(hlo.target)
        /\ ~(answer.convolution /\ answer.batchNorm)

(***************************************************************************)
(* The reduction-to-vector test of lines 152-169 says what it is meant to  *)
(* say: a reduce whose kept dimensions occupy a contiguous run of the      *)
(* input's minor_to_major, and whose result has the input's element type  *)
(* and the kept extents, in order, laid out in the order the input lays   *)
(* them out.                                                               *)
(***************************************************************************)
KeptDims(reduce) == {d \in 0 .. Len(reduce.input.dims) - 1 : d \notin reduce.dimensions}

RefReductionToVector(reduce) ==
    LET K == KeptDims(reduce)
        in == reduce.input
        out == reduce.shape
        P == {p \in DOMAIN in.layout : in.layout[p] \in K}
        KeptDim(j) == CHOOSE d \in K : Cardinality({e \in K : e < d}) = j
        Pos(layout, d) == PositionInLayout(layout, d)
        J == 0 .. Cardinality(K) - 1
    IN
    /\ reduce.opcode = "reduce"
    /\ \A p, q \in P : \A m \in p .. q : m \in P
    /\ out.etype = in.etype
    /\ Len(out.dims) = Cardinality(K)
    /\ \A j \in J : Dim(out, j) = Dim(in, KeptDim(j))
    /\ \A j1, j2 \in J :
          Pos(out.layout, j1) < Pos(out.layout, j2)
             <=> Pos(in.layout, KeptDim(j1)) < Pos(in.layout, KeptDim(j2))

ReductionToVectorCorrect ==
    answer # NoAnswer => (answer.reductionToVector <=> RefReductionToVector(hlo))

(***************************************************************************)
(* Which operand of an output fusion's root holds the dot does not change  *)
(* the answer of ImplementedAsGemm (the spec: swapping the operands yields *)
(* the same result).  Lines 98-104 look at operand 1 only when operand 0   *)
(* is not a dot.                                                           *)
(***************************************************************************)
Swapped(fusion) == [fusion EXCEPT !.root.operands = <<@[2], @[1]>>]

FusionOperandOrderIrrelevant ==
    answer # NoAnswer /\ hlo.opcode = "fusion" =>
        answer.gemm = ImplementedAsGemm(Swapped(hlo))

(***************************************************************************)
(* How far the asymmetry of lines 98-104 reaches: swapping the operands of *)
(* an output fusion's root changes the answer of ImplementedAsGemm only    *)
(* when both operands are dots (the search then stops at operand 0).  A    *)
(* fusion with one dot is classified the same whichever side it is on.     *)
(***************************************************************************)
FusionOrderMattersOnlyWithTwoDots ==
    answer # NoAnswer /\ hlo.opcode = "fusion"
        /\ answer.gemm # ImplementedAsGemm(Swapped(hlo)) =>
            \A k \in 1 .. 2 : hlo.root.operands[k].opcode = "dot"

=============================================================================
