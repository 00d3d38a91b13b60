-------------------------- MODULE ClassifierProofs --------------------------
(***************************************************************************)
(* Proofs about the classifiers of Classifier, for every set of            *)
(* instructions that shape inference lets through.                         *)
(***************************************************************************)
EXTENDS Classifier, TLAPS

USE NodesAssumption, AbortAssumption

\* The call-target strings of lines 110-115 and 127-133 are literals.
USE DEF kCudnnBatchNormForwardInferenceCallTarget, kCudnnBatchNormForwardTrainingCallTarget,
        kCudnnBatchNormBackwardCallTarget, kCudnnConvForwardCallTarget,
        kCudnnConvBackwardInputCallTarget, kCudnnConvBackwardFilterCallTarget,
        kCudnnConvBiasActivationForwardCallTarget

(* Rank arithmetic: b + 2 = (b + 2) + (b + 2) - b - 2 * c forces c = 1.   *)
LEMMA RankEquation ==
    ASSUME NEW b \in Nat, NEW c \in Nat, NEW r \in Nat,
           r = b + 2, r = r + r - b - 2 * c
    PROVE  c = 1
  OBVIOUS

(***************************************************************************)
(* The argument behind the comment at lines 76-78: a well-formed dot whose *)
(* operands and result all have rank B + 2 (B batch dimensions) has        *)
(* exactly one contracting dimension, since shape inference gives the      *)
(* result rank (B + 2) + (B + 2) - B - 2 * C; so the CHECK_EQ of line 79    *)
(* reads existing dimensions, and shape inference made them equal.         *)
(***************************************************************************)
LEMMA GemmShapesHaveOneContractingDim ==
    ASSUME NEW d, WellFormedDot(d),
           AreValidGemmShapes(d.lhs, d.rhs, d.shape, Len(d.dnums.lhsBatch))
    PROVE  DotImplementedAsGemm(d) = TRUE
<1> DEFINE dn == d.dnums
           B == Len(dn.lhsBatch)
           C == Len(dn.lhsContracting)
<1>1. /\ B \in Nat /\ C \in Nat
      /\ Len(d.lhs.dims) \in Nat /\ Len(d.rhs.dims) \in Nat /\ Len(d.shape.dims) \in Nat
  BY DEF WellFormedDot
<1>2. /\ Len(d.lhs.dims) = B + 2
      /\ Len(d.rhs.dims) = B + 2
      /\ Len(d.shape.dims) = B + 2
  BY DEF AreValidGemmShapes, IsRank2
<1>3. Len(d.shape.dims) = Len(d.lhs.dims) + Len(d.rhs.dims) - B - 2 * C
  BY DEF WellFormedDot
<1>4. C = 1
  BY <1>1, <1>2, <1>3, RankEquation
<1>5. Len(dn.rhsContracting) = 1
  BY <1>4 DEF WellFormedDot
<1>6. Dim(d.lhs, dn.lhsContracting[1]) = Dim(d.rhs, dn.rhsContracting[1])
  BY <1>4 DEF WellFormedDot
<1> QED
  BY <1>4, <1>5, <1>6 DEF DotImplementedAsGemm

(* DotImplementedAsGemm returns, TRUE or FALSE, on a well-formed dot.      *)
LEMMA DotNeverAborts ==
    ASSUME NEW d, WellFormedDot(d)
    PROVE  DotImplementedAsGemm(d) \in BOOLEAN
<1>1. CASE AreValidGemmShapes(d.lhs, d.rhs, d.shape, Len(d.dnums.lhsBatch))
  BY <1>1, GemmShapesHaveOneContractingDim
<1>2. CASE ~AreValidGemmShapes(d.lhs, d.rhs, d.shape, Len(d.dnums.lhsBatch))
  BY <1>2 DEF DotImplementedAsGemm
<1> QED
  BY <1>1, <1>2

(* ImplementedAsGemm returns on every instruction: raw dots, and the dot   *)
(* the fusion search of lines 98-104 picks, whichever operand it is.       *)
LEMMA GemmNeverAborts ==
    ASSUME NEW n \in Nodes
    PROVE  ImplementedAsGemm(n) \in BOOLEAN
<1>1. WellFormed(n)
  OBVIOUS
<1>2. CASE n.opcode = "dot"
  BY <1>1, <1>2, DotNeverAborts DEF ImplementedAsGemm, WellFormed
<1>3. CASE /\ n.opcode = "fusion"
           /\ n.kind = "kOutput"
           /\ n.root.opcode \in {"multiply", "add"}
  <2> DEFINE dot == IF n.root.operands[1].opcode # "dot"
                    THEN n.root.operands[2]
                    ELSE n.root.operands[1]
  <2>1. ImplementedAsGemm(n) = IF dot.opcode = "dot" THEN DotImplementedAsGemm(dot) ELSE FALSE
    BY <1>3 DEF ImplementedAsGemm
  <2>2. dot.opcode = "dot" => WellFormedDot(dot)
    BY <1>1, <1>3 DEF WellFormed
  <2> QED
    BY <2>1, <2>2, DotNeverAborts
<1>4. CASE /\ n.opcode # "dot"
           /\ ~(/\ n.opcode = "fusion"
                /\ n.kind = "kOutput"
                /\ n.root.opcode \in {"multiply", "add"})
  BY <1>4 DEF ImplementedAsGemm
<1> QED
  BY <1>2, <1>3, <1>4

-----------------------------------------------------------------------------
(* The answers recorded are those of the instruction asked about.          *)
IInv ==
    /\ hlo \in Nodes
    /\ answer # NoAnswer => answer = Answers(hlo)

LEMMA IInvInductive == Spec => []IInv
<1>1. Init => IInv
  BY DEF Init, IInv
<1>2. IInv /\ [Next]_cvars => IInv'
  BY DEF IInv, Next, Classify, cvars
<1> QED
  BY <1>1, <1>2, PTL DEF Spec

(***************************************************************************)
(* For every set of well-formed instructions, the CHECK_EQ of line 79      *)
(* never fires and ImplementedAsGemm and ImplementedAsLibraryCall always   *)
(* return.                                                                  *)
(***************************************************************************)
THEOREM GemmCheckAlwaysHolds == Spec => []GemmCheckNeverFails
<1>1. IInv => GemmCheckNeverFails
  <2> SUFFICES ASSUME IInv, answer # NoAnswer
               PROVE  answer.gemm # Abort /\ answer.libraryCall # Abort
    BY DEF GemmCheckNeverFails
  <2>1. ImplementedAsGemm(hlo) \in BOOLEAN
    BY GemmNeverAborts DEF IInv
  <2>2. answer.gemm = ImplementedAsGemm(hlo)
    BY DEF IInv, Answers
  <2>3. answer.libraryCall = ImplementedAsLibraryCall(hlo)
    BY DEF IInv, Answers
  <2>4. ImplementedAsLibraryCall(hlo) \in BOOLEAN
    BY <2>1 DEF ImplementedAsLibraryCall
  <2> QED
    BY <2>1, <2>2, <2>3, <2>4
<1> QED
  BY <1>1, IInvInductive, PTL

(***************************************************************************)
(* For every target string, the convolution predicate and the kind         *)
(* conversion agree, an unknown target is reported in the error, and no   *)
(* target is both a convolution and a batch normalization.                 *)
(***************************************************************************)
THEOREM ConvKindAlwaysAgrees == Spec => []ConvKindAgrees
<1>1. IInv => ConvKindAgrees
  <2> SUFFICES ASSUME IInv, answer # NoAnswer, hlo.opcode = "custom-call"
               PROVE  /\ answer.convolution <=> answer.convKind.ok
                      /\ ~answer.convolution => answer.convKind = UnexpectedTarget(hlo.target)
                      /\ ~(answer.convolution /\ answer.batchNorm)
    BY DEF ConvKindAgrees
  <2>1. answer = Answers(hlo)
    BY DEF IInv
  <2>2. CASE IsCustomCallToDnnConvolution(hlo)
    <3>1. GetCudnnConvKind(hlo.target).ok
      BY <2>2 DEF IsCustomCallToDnnConvolution, GetCudnnConvKind, KindOk
    <3>2. ~IsCustomCallToDnnBatchNorm(hlo)
      BY <2>2 DEF IsCustomCallToDnnConvolution, IsCustomCallToDnnBatchNorm
    <3> QED
      BY <2>1, <2>2, <3>1, <3>2 DEF Answers
  <2>3. CASE ~IsCustomCallToDnnConvolution(hlo)
    <3>1. GetCudnnConvKind(hlo.target) = UnexpectedTarget(hlo.target)
      BY <2>3 DEF IsCustomCallToDnnConvolution, GetCudnnConvKind
    <3>2. ~UnexpectedTarget(hlo.target).ok
      BY DEF UnexpectedTarget
    <3> QED
      BY <2>1, <2>3, <3>1, <3>2 DEF Answers
  <2> QED
    BY <2>2, <2>3
<1> QED
  BY <1>1, IInvInductive, PTL


-----------------------------------------------------------------------------
(***************************************************************************)
(* The search of lines 98-104 takes operand 0 when it is a dot and operand *)
(* 1 otherwise.  When at most one operand is a dot, both orders lead to    *)
(* that dot, or to none.                                                   *)
(***************************************************************************)
LEMMA SwapWithOneDot ==
    ASSUME NEW n \in Nodes, n.opcode = "fusion",
           ~(\A k \in 1 .. 2 : n.root.operands[k].opcode = "dot")
    PROVE  ImplementedAsGemm(Swapped(n)) = ImplementedAsGemm(n)
<1> DEFINE o1 == n.root.operands[1]
           o2 == n.root.operands[2]
           Pick(a, b) == IF a.opcode # "dot" THEN b ELSE a
           Search(a, b) == IF Pick(a, b).opcode = "dot"
                           THEN DotImplementedAsGemm(Pick(a, b)) ELSE FALSE
<1>1. n = [opcode |-> "fusion", kind |-> n.kind,
           root |-> [opcode |-> n.root.opcode, operands |-> <<o1, o2>>]]
  BY DEF WellFormed, FusionShaped
<1> DEFINE m == Swapped(n)
<1>2. /\ m.opcode = "fusion" /\ m.kind = n.kind /\ m.root.opcode = n.root.opcode
      /\ m.root.operands[1] = o2 /\ m.root.operands[2] = o1
  <2>1. m = [opcode |-> "fusion", kind |-> n.kind,
             root |-> [opcode |-> n.root.opcode, operands |-> <<o2, o1>>]]
    BY <1>1 DEF Swapped
  <2>2. QED
    BY <2>1
<1>3. o1.opcode # "dot" \/ o2.opcode # "dot"
  OBVIOUS
<1>4. CASE n.kind = "kOutput" /\ n.root.opcode \in {"multiply", "add"}
  <2>1. ImplementedAsGemm(n) = Search(o1, o2)
    BY <1>4 DEF ImplementedAsGemm
  <2>2. ImplementedAsGemm(m) = Search(m.root.operands[1], m.root.operands[2])
    BY <1>2, <1>4 DEF ImplementedAsGemm
  <2>3. Search(o2, o1) = Search(o1, o2)
    BY <1>3
  <2>4. Search(m.root.operands[1], m.root.operands[2]) = Search(o2, o1)
    BY <1>2, Zenon
  <2> HIDE DEF Search, m
  <2>5. ImplementedAsGemm(m) = ImplementedAsGemm(n)
    BY <2>1, <2>2, <2>3, <2>4
  <2>6. QED
    BY <2>5 DEF m
<1>5. CASE ~(n.kind = "kOutput" /\ n.root.opcode \in {"multiply", "add"})
  <2>1. ImplementedAsGemm(n) = FALSE
    BY <1>5 DEF ImplementedAsGemm
  <2>2. ImplementedAsGemm(m) = FALSE
    BY <1>2, <1>5 DEF ImplementedAsGemm
  <2>3. QED
    BY <2>1, <2>2, Zenon
<1>6. QED
  BY <1>4, <1>5

(***************************************************************************)
(* For every set of well-formed instructions, swapping the operands of a   *)
(* fusion's root changes the answer of ImplementedAsGemm only when both    *)
(* operands are dots: the operand-order dependence of lines 98-104 is      *)
(* confined to that case.                                                  *)
(***************************************************************************)
THEOREM FusionOrderConfined == Spec => []FusionOrderMattersOnlyWithTwoDots
<1>1. IInv => FusionOrderMattersOnlyWithTwoDots
  <2> SUFFICES ASSUME IInv, answer # NoAnswer, hlo.opcode = "fusion",
                      ~(\A k \in 1 .. 2 : hlo.root.operands[k].opcode = "dot")
               PROVE  answer.gemm = ImplementedAsGemm(Swapped(hlo))
    BY DEF FusionOrderMattersOnlyWithTwoDots
  <2>1. answer.gemm = ImplementedAsGemm(hlo)
    BY DEF IInv, Answers
  <2>2. QED
    BY <2>1, SwapWithOneDot DEF IInv
<1>2. QED
  BY <1>1, IInvInductive, PTL

=============================================================================
