-------------------------- MODULE MCTensorSliceTest --------------------------
(***************************************************************************)
(* Test cases for TensorSliceTest: every non-decreasing list of up to      *)
(* three breakpoints between 0 and one past the last slice, which includes *)
(* the lists {0, 1, 3} and {0, 1, 2} of the two TestCases (lines 71-124).  *)
(***************************************************************************)
EXTENDS TensorSliceTest

MCBreakpointLists ==
    {s \in UNION {[1 .. k -> 0 .. NumSlices + 1] : k \in 0 .. 3} :
        \A j \in 1 .. Len(s) - 1 : s[j] <= s[j + 1]}

=============================================================================
