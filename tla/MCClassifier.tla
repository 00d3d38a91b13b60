---------------------------- MODULE MCClassifier ----------------------------
(***************************************************************************)
(* The instructions of a model of Classifier:                             *)
(*  - every dot shape inference accepts with operands of rank 1 to 3,      *)
(*    extents in {0, 2, 3}, no batch dimension or batch dimension 0, and   *)
(*    at most one contracting dimension on each side;                      *)
(*  - output and loop fusions whose root operands are dots of one result   *)
(*    shape or a parameter, in either order;                               *)
(*  - custom calls with every known target and some near misses;           *)
(*  - every reduce of an f32 input of rank 1 to 3, under every input and   *)
(*    result layout, with an f32 or an f16 result.                         *)
(***************************************************************************)
EXTENDS Classifier

MCElementTypes == {"F32", "S32"}

\* Shapes without layout (dot operands and results): extents {0, 2, 3} up
\* to rank 2, {2, 3} at rank 3.
MCShapes ==
    UNION {[etype : MCElementTypes, dims : [1 .. r -> {0, 2, 3}]] : r \in 1 .. 2}
    \cup [etype : MCElementTypes, dims : [1 .. 3 -> {2, 3}]]

\* Dimension numbers: no batch dimension or batch dimension 0 on both sides,
\* at most one contracting dimension on each side.
MCDnums ==
    {[lhsBatch |-> b, rhsBatch |-> b, lhsContracting |-> c[1], rhsContracting |-> c[2]] :
       b \in {<<>>, <<0>>},
       c \in {<<<<>>, <<>> >>} \cup {<< <<i>>, <<j>> >> : i, j \in 0 .. 2}}

\* The result shape shape inference gives a dot (meaningless when ill-formed).
MCDotOf(l, r, dn) ==
    [opcode |-> "dot", lhs |-> l, rhs |-> r, dnums |-> dn,
     shape |-> [etype |-> l.etype,
                dims |-> [k \in DOMAIN dn.lhsBatch |-> Dim(l, dn.lhsBatch[k])]
                         \o FreeDims(l, dn.lhsBatch, dn.lhsContracting)
                         \o FreeDims(r, dn.rhsBatch, dn.rhsContracting)]]

\* The dimension numbers that are in range for operands of ranks lr and rr.
MCDnumsFor(lr, rr) ==
    {dn \in MCDnums :
       /\ Range(dn.lhsBatch \o dn.lhsContracting) \subseteq 0 .. lr - 1
       /\ Range(dn.rhsBatch \o dn.rhsContracting) \subseteq 0 .. rr - 1}

MCDotsOfType(e) ==
    LET shapes == {s \in MCShapes : s.etype = e} IN
    UNION {{d \in {MCDotOf(l, r, dn) : dn \in MCDnumsFor(Len(l.dims), Len(r.dims))} :
              WellFormedDot(d)} : l, r \in shapes}

MCDots == UNION {MCDotsOfType(e) : e \in MCElementTypes}

MCParameter == [opcode |-> "parameter"]

\* The operands of fusion roots: the dots with an f32 [2, 3] result.
MCFusionOperands ==
    {MCParameter} \cup {d \in MCDots : d.shape = [etype |-> "F32", dims |-> <<2, 3>>]
                                       /\ Len(d.lhs.dims) = 2}

MCFusions ==
    [opcode : {"fusion"}, kind : {"kOutput", "kLoop"},
     root : [opcode : {"multiply", "add", "subtract"},
             operands : MCFusionOperands \X MCFusionOperands]]

MCTargets ==
    {kCudnnBatchNormForwardInferenceCallTarget, kCudnnBatchNormForwardTrainingCallTarget,
     kCudnnBatchNormBackwardCallTarget, kCudnnConvForwardCallTarget,
     kCudnnConvBackwardInputCallTarget, kCudnnConvBackwardFilterCallTarget,
     kCudnnConvBiasActivationForwardCallTarget,
     "__cudnn$convForward ", "__cudnn$convforward", "__cublas$gemm"}

MCCustomCalls == [opcode : {"custom-call"}, target : MCTargets]

\* The reduces of one f32 input: result extents as shape inference gives
\* them, any result layout, and an f32 result or a mixed-precision f16 one.
MCReducesOf(dims, il, rd) ==
    LET kept == SelectSeq(Iota(Len(dims)), LAMBDA d : d \notin rd) IN
    {[opcode |-> "reduce", input |-> [etype |-> "F32", dims |-> dims, layout |-> il],
      dimensions |-> rd,
      shape |-> [etype |-> oe, dims |-> [k \in 1 .. Len(kept) |-> dims[kept[k] + 1]],
                 layout |-> ol]] :
        oe \in {"F32", "F16"}, ol \in Layouts(Len(kept))}

MCReducesOfRank(r) ==
    UNION {MCReducesOf(dims, il, rd) :
             dims \in [1 .. r -> {2, 3}], il \in Layouts(r), rd \in SUBSET (0 .. r - 1)}

MCReduces == UNION {MCReducesOfRank(r) : r \in 1 .. 3}

MCNodes == MCDots \cup MCFusions \cup MCCustomCalls \cup MCReduces \cup {MCParameter}

=============================================================================
