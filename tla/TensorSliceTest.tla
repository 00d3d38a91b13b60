--------------------------- MODULE TensorSliceTest ---------------------------
(***************************************************************************)
(* The iterator tests of tensor_slice_dataset_op_test.cc: the GetNext test *)
(* (lines 129-195), which drains the iterator, and the Roundtrip test      *)
(* (lines 539-623), which stops at each breakpoint, checks the iterator,   *)
(* then saves it and restores it in place.                                 *)
(*                                                                         *)
(* The iterator of TensorSliceDataset is not part of this repository.  It *)
(* is modelled by what the tests expect of it: it holds its position i;   *)
(* GetNext yields slice i and moves on while i < num_slices, and reports   *)
(* end of sequence afterwards, leaving out_tensors as they were; Save      *)
(* writes i and Restore reads it back.                                     *)
(*                                                                         *)
(* Tensors are abstracted to their identity: component c of slice s is     *)
(* <<s, c>>, and expected_outputs lists the components of each slice in    *)
(* slice order, as both test cases of lines 71-124 do.                     *)
(***************************************************************************)
EXTENDS Naturals, Sequences

CONSTANTS
    NumSlices,        \* inputs[0].tensor->dim_size(0)
    NumComponents,    \* num_tensors_per_slice
    BreakpointLists,  \* the breakpoints a test case may list
    MaxIterations,    \* bound on the GetNext calls of the loop of line 172
    None              \* no value read back yet

ASSUME NumSlicesAssumption == NumSlices \in Nat
ASSUME NumComponentsAssumption == NumComponents \in Nat \ {0}
ASSUME BreakpointListsAssumption == BreakpointLists \subseteq Seq(Nat)
ASSUME MaxIterationsAssumption == MaxIterations \in Nat

\* expected_outputs.size().
ExpectedSize == NumSlices * NumComponents

\* TestParam::expected_outputs: component c of slice s at index c + K * s.
ExpectedOutputs ==
    [k \in 0 .. ExpectedSize - 1 |->
        <<k \div NumComponents, k % NumComponents>>]

\* One slice as GetNext outputs it.
SliceTensors(s) == [c \in 0 .. NumComponents - 1 |-> <<s, c>>]

VARIABLES
    test,          \* "GetNext" or "Roundtrip": the TEST_P running
    pos,           \* the iterator's position i_
    eos,           \* end_of_sequence
    out,           \* out_tensors: a function from component index to tensor
    cur,           \* cur_slice (GetNext) or cur_iteration (Roundtrip)
    breakpoints,   \* GetParam().breakpoints
    bp,            \* index of the breakpoint of the for loop of line 587
    saved,         \* the VariantTensorData written by Save
    pc,            \* the statement of the test about to run
    failed         \* some EXPECT of the test has failed

tvars == <<test, pos, eos, out, cur, breakpoints, bp, saved, pc, failed>>

NoTensors == [c \in {} |-> None]

Init ==
    /\ test \in {"GetNext", "Roundtrip"}
    /\ pos = 0
    /\ eos = FALSE
    /\ out = NoTensors
    /\ cur = 0
    /\ breakpoints \in BreakpointLists
    /\ bp = 1
    /\ saved = None
    /\ pc = IF test = "GetNext" THEN "getnext" ELSE "next_breakpoint"
    /\ failed = FALSE

(* Iterator::GetNext on the iterator.                                      *)
IteratorGetNext ==
    IF pos < NumSlices
    THEN /\ out' = SliceTensors(pos) /\ pos' = pos + 1 /\ eos' = FALSE
    ELSE /\ eos' = TRUE /\ UNCHANGED <<out, pos>>

-----------------------------------------------------------------------------
(* The GetNext test.                                                       *)

(* Lines 172-174: while (!end_of_sequence) GetNext.                        *)
DrainGetNext ==
    /\ pc = "getnext"
    /\ ~eos
    /\ cur < MaxIterations
    /\ IteratorGetNext
    /\ pc' = "compare"
    /\ UNCHANGED <<test, cur, breakpoints, bp, saved, failed>>

(***************************************************************************)
(* Lines 175-193: each tensor of out_tensors is compared with              *)
(* expected_outputs[i + num_tensors_per_slice * cur_slice], after          *)
(* EXPECT_LT on that index; then out_tensors is cleared and cur_slice      *)
(* advances.                                                               *)
(***************************************************************************)
CompareSlice ==
    /\ pc = "compare"
    /\ failed' = \/ failed
                 \/ \E i \in DOMAIN out :
                      \/ i + NumComponents * cur >= ExpectedSize
                      \/ out[i] # ExpectedOutputs[i + NumComponents * cur]
    /\ out' = NoTensors
    /\ cur' = cur + 1
    /\ pc' = "getnext"
    /\ UNCHANGED <<test, pos, eos, breakpoints, bp, saved>>

(* Line 172 when end_of_sequence is set: the test ends.                    *)
GetNextTestEnds ==
    /\ pc = "getnext"
    /\ eos
    /\ pc' = "done"
    /\ UNCHANGED <<test, pos, eos, out, cur, breakpoints, bp, saved, failed>>

-----------------------------------------------------------------------------
(* The Roundtrip test.                                                     *)

(* Line 587: the for loop over the breakpoints.                            *)
NextBreakpoint ==
    /\ pc = "next_breakpoint"
    /\ pc' = IF bp <= Len(breakpoints) THEN "advance" ELSE "done"
    /\ UNCHANGED <<test, pos, eos, out, cur, breakpoints, bp, saved, failed>>

(* Lines 588-592: while (cur_iteration < breakpoint) GetNext.              *)
AdvanceToBreakpoint ==
    /\ pc = "advance"
    /\ cur < breakpoints[bp]
    /\ IteratorGetNext
    /\ cur' = cur + 1
    /\ UNCHANGED <<test, breakpoints, bp, saved, pc, failed>>

(***************************************************************************)
(* Lines 594-615, once cur_iteration has reached the breakpoint: at 0, not *)
(* at the end; up to num_slices, out_tensors is slice cur_iteration - 1 of *)
(* expected_outputs (an index past its end is a failure too); beyond,     *)
(* the end was reached.                                                     *)
(***************************************************************************)
CheckBreakpoint ==
    LET b == breakpoints[bp]
        ok == IF b = 0 THEN ~eos
              ELSE IF b <= NumSlices
                   THEN \A i \in DOMAIN out :
                           /\ i + NumComponents * (cur - 1) < ExpectedSize
                           /\ out[i] = ExpectedOutputs[i + NumComponents * (cur - 1)]
                   ELSE eos
    IN
    /\ pc = "advance"
    /\ ~(cur < b)
    /\ failed' = (failed \/ ~ok)
    /\ pc' = "save"
    /\ UNCHANGED <<test, pos, eos, out, cur, breakpoints, bp, saved>>

(* Lines 617-619: Save, which writes the iterator's position, then Flush.  *)
SaveIterator ==
    /\ pc = "save"
    /\ saved' = pos
    /\ pc' = "restore"
    /\ UNCHANGED <<test, pos, eos, out, cur, breakpoints, bp, failed>>

\* Mutant: Restore starts the iterator over instead of reading its position.
RestoreIteratorReset ==
    /\ pc = "restore"
    /\ pos' = 0
    /\ bp' = bp + 1
    /\ pc' = "next_breakpoint"
    /\ UNCHANGED <<test, eos, out, cur, breakpoints, saved, failed>>

(* Lines 620-621: Restore reads the position back into the same iterator; *)
(* the for loop moves to the next breakpoint.                              *)
RestoreIterator ==
    /\ pc = "restore"
    /\ pos' = saved
    /\ bp' = bp + 1
    /\ pc' = "next_breakpoint"
    /\ UNCHANGED <<test, eos, out, cur, breakpoints, saved, failed>>

Next ==
    \/ DrainGetNext \/ CompareSlice \/ GetNextTestEnds
    \/ NextBreakpoint \/ AdvanceToBreakpoint \/ CheckBreakpoint
    \/ SaveIterator \/ RestoreIterator

(* The test body is sequential code on one thread.                         *)
Spec == Init /\ [][Next]_tvars /\ WF_tvars(Next)

-----------------------------------------------------------------------------
TypeOK ==
    /\ test \in {"GetNext", "Roundtrip"}
    /\ pos \in 0 .. NumSlices
    /\ eos \in BOOLEAN
    /\ out \in {NoTensors} \cup {SliceTensors(s) : s \in 0 .. NumSlices - 1}
    /\ cur \in Nat
    /\ breakpoints \in BreakpointLists
    /\ bp \in 1 .. Len(breakpoints) + 1
    /\ saved \in {None} \cup (0 .. NumSlices)
    /\ pc \in {"getnext", "compare", "next_breakpoint", "advance", "save", "restore", "done"}
    /\ failed \in BOOLEAN

(***************************************************************************)
(* Both tests pass: no EXPECT of lines 176-190 or 595-613 fails, for every *)
(* number of slices and components and every non-decreasing list of        *)
(* breakpoints, including breakpoints past the end, where GetNext reports  *)
(* the end and leaves the last slice in out_tensors, and the saves and     *)
(* restores in between.                                                    *)
(***************************************************************************)
TestsPass == ~failed

=============================================================================
