------------------------ MODULE TensorSliceTestProofs ------------------------
(***************************************************************************)
(* Proof that the GetNext and Roundtrip tests pass for every number of     *)
(* slices and components and every non-decreasing list of breakpoints, as *)
(* both test cases of lines 71-124 list.                                   *)
(***************************************************************************)
EXTENDS TensorSliceTest, TLAPS

USE NumSlicesAssumption, NumComponentsAssumption, BreakpointListsAssumption,
    MaxIterationsAssumption

\* The breakpoints are listed in non-decreasing order.
Sorted(s) == \A k \in 1 .. Len(s) - 1 : s[k] <= s[k + 1]

\* The smaller of two numbers.
Lesser(a, b) == IF a <= b THEN a ELSE b

(***************************************************************************)
(* Component i of slice s is at index i + K * s of expected_outputs, and  *)
(* that index is inside it.                                                *)
(***************************************************************************)
LEMMA SliceIndex ==
    ASSUME NEW s \in 0 .. NumSlices - 1, NEW i \in 0 .. NumComponents - 1
    PROVE  /\ i + NumComponents * s \in 0 .. ExpectedSize - 1
           /\ ExpectedOutputs[i + NumComponents * s] = SliceTensors(s)[i]
<1> DEFINE K == NumComponents
           k == i + K * s
<1>1. K * s + K <= K * NumSlices
  <2>1. K * s + K = K * (s + 1)
    OBVIOUS
  <2>2. K * (s + 1) <= K * NumSlices
    OBVIOUS
  <2>3. QED
    BY <2>1, <2>2
<1>2. k \in 0 .. ExpectedSize - 1
  BY <1>1 DEF ExpectedSize
<1>3. k \div K = s /\ k % K = i
  OBVIOUS
<1>4. QED
  BY <1>2, <1>3 DEF ExpectedOutputs, SliceTensors

(***************************************************************************)
(* The state of the GetNext test.  While the loop of line 172 runs, the    *)
(* iterator is one slice ahead of cur_slice exactly when a slice waits to *)
(* be compared; once the end is reported, nothing is left to compare.     *)
(***************************************************************************)
GetNextInv ==
    /\ pc \in {"getnext", "compare", "done"}
    /\ pc = "getnext" => /\ out = NoTensors
                         /\ eos => pos = NumSlices
                         /\ ~eos => pos = cur
    /\ pc = "compare" => /\ eos => out = NoTensors /\ pos = NumSlices
                         /\ ~eos => /\ cur < NumSlices
                                    /\ pos = cur + 1
                                    /\ out = SliceTensors(cur)

\* What out_tensors holds after cur_iteration calls of GetNext.
RoundtripOut(c) ==
    IF c = 0 \/ NumSlices = 0 THEN NoTensors
    ELSE SliceTensors(Lesser(c, NumSlices) - 1)

(***************************************************************************)
(* The state of the Roundtrip test.  The iterator, end_of_sequence and     *)
(* out_tensors are functions of cur_iteration, because Restore puts back  *)
(* the position Save wrote; cur_iteration never passes the breakpoint the *)
(* loop is at, because the breakpoints do not decrease.                    *)
(***************************************************************************)
RoundtripInv ==
    /\ pc \in {"next_breakpoint", "advance", "save", "restore", "done"}
    /\ pos = Lesser(cur, NumSlices)
    /\ eos <=> cur > NumSlices
    /\ out = RoundtripOut(cur)
    /\ bp \in 1 .. Len(breakpoints) + 1
    /\ pc \in {"advance", "save", "restore"} => bp \in 1 .. Len(breakpoints)
    /\ pc \in {"next_breakpoint", "advance"} /\ bp \in 1 .. Len(breakpoints)
         => cur <= breakpoints[bp]
    /\ pc \in {"save", "restore"} => cur = breakpoints[bp]
    /\ pc = "restore" => saved = pos

IInv ==
    /\ test \in {"GetNext", "Roundtrip"}
    /\ breakpoints \in BreakpointLists
    /\ cur \in Nat
    /\ pos \in 0 .. NumSlices
    /\ eos \in BOOLEAN
    /\ test = "GetNext" => GetNextInv
    /\ test = "Roundtrip" => RoundtripInv
    /\ ~failed

LEMMA InitIInv == Init => IInv
<1> SUFFICES ASSUME Init PROVE IInv
  OBVIOUS
<1>1. breakpoints \in Seq(Nat)
  BY DEF Init
<1>2. test = "GetNext" => GetNextInv
  BY DEF Init, GetNextInv
<1>3. ASSUME test = "Roundtrip" PROVE RoundtripInv
  <2>1. pc = "next_breakpoint" /\ bp = 1 /\ cur = 0 /\ pos = 0 /\ ~eos /\ out = NoTensors
    BY <1>3 DEF Init
  <2>2. Len(breakpoints) \in Nat
    BY <1>1
  <2>3. 1 \in 1 .. Len(breakpoints) => breakpoints[1] \in Nat
    BY <1>1
  <2>4. pos = Lesser(cur, NumSlices) /\ out = RoundtripOut(cur)
    BY <2>1 DEF RoundtripOut, Lesser
  <2>5. eos <=> cur > NumSlices
    BY <2>1
  <2>6. bp \in 1 .. Len(breakpoints) => cur <= breakpoints[bp]
    BY <2>1, <2>3
  <2>7. QED
    BY <2>1, <2>2, <2>4, <2>5, <2>6 DEF RoundtripInv
<1>4. /\ test \in {"GetNext", "Roundtrip"} /\ breakpoints \in BreakpointLists
      /\ cur \in Nat /\ pos \in 0 .. NumSlices
  BY DEF Init
<1>5. eos \in BOOLEAN /\ ~failed
  BY Zenon DEF Init
<1>6. QED
  BY <1>2, <1>3, <1>4, <1>5 DEF IInv

\* The test that runs is fixed by the statement it is at.
LEMMA TestOfPc ==
    ASSUME IInv
    PROVE  /\ pc \in {"getnext", "compare"} => test = "GetNext"
           /\ pc \in {"next_breakpoint", "advance", "save", "restore"} => test = "Roundtrip"
BY DEF IInv, GetNextInv, RoundtripInv

(***************************************************************************)
(* The GetNext test: DrainGetNext takes the next slice or reports the end, *)
(* CompareSlice finds that slice at index i + K * cur_slice.               *)
(***************************************************************************)
LEMMA DrainGetNextIInv ==
    ASSUME IInv, DrainGetNext
    PROVE  IInv'
<1>1. test = "GetNext" /\ pc = "getnext" /\ ~eos /\ pos = cur /\ out = NoTensors
  BY TestOfPc DEF DrainGetNext, IInv, GetNextInv
<1>2. CASE pos < NumSlices
  <2>1. out' = SliceTensors(cur) /\ pos' = cur + 1 /\ eos' = FALSE
    BY <1>1, <1>2 DEF DrainGetNext, IteratorGetNext
  <2>2. /\ test' = "GetNext" /\ pc' = "compare" /\ cur' = cur
        /\ breakpoints' = breakpoints /\ failed' = failed
    BY <1>1 DEF DrainGetNext
  <2>3. pos' \in 0 .. NumSlices /\ cur < NumSlices
    BY <1>1, <1>2, <2>1 DEF IInv
  <2>4. GetNextInv'
    BY <2>1, <2>2, <2>3 DEF GetNextInv
  <2>5. QED
    BY <2>1, <2>2, <2>3, <2>4 DEF IInv
<1>3. CASE ~(pos < NumSlices)
  <2>1. eos' = TRUE /\ out' = out /\ pos' = pos
    BY <1>3 DEF DrainGetNext, IteratorGetNext
  <2>2. pos = NumSlices
    BY <1>3 DEF IInv
  <2>3. /\ test' = "GetNext" /\ pc' = "compare" /\ cur' = cur
        /\ breakpoints' = breakpoints /\ failed' = failed
    BY <1>1 DEF DrainGetNext
  <2>4. GetNextInv'
    BY <1>1, <2>1, <2>2, <2>3 DEF GetNextInv
  <2>5. QED
    BY <1>1, <2>1, <2>2, <2>3, <2>4 DEF IInv
<1>4. QED
  BY <1>2, <1>3

LEMMA CompareSliceIInv ==
    ASSUME IInv, CompareSlice
    PROVE  IInv'
<1>1. test = "GetNext" /\ pc = "compare"
  BY TestOfPc DEF CompareSlice
<1>2. ~\E i \in DOMAIN out :
         \/ i + NumComponents * cur >= ExpectedSize
         \/ out[i] # ExpectedOutputs[i + NumComponents * cur]
  <2>1. CASE eos
    BY <1>1, <2>1 DEF IInv, GetNextInv, NoTensors
  <2>2. CASE ~eos
    <3>1. cur \in 0 .. NumSlices - 1 /\ out = SliceTensors(cur)
      BY <1>1, <2>2 DEF IInv, GetNextInv
    <3>2. DOMAIN out = 0 .. NumComponents - 1
      BY <3>1 DEF SliceTensors
    <3>3. ASSUME NEW i \in DOMAIN out
          PROVE  /\ i + NumComponents * cur < ExpectedSize
                 /\ out[i] = ExpectedOutputs[i + NumComponents * cur]
      <4>1. i \in 0 .. NumComponents - 1
        BY <3>2
      <4>2. i + NumComponents * cur \in 0 .. ExpectedSize - 1
            /\ ExpectedOutputs[i + NumComponents * cur] = SliceTensors(cur)[i]
        BY <3>1, <4>1, SliceIndex
      <4>3. QED
        BY <3>1, <4>2 DEF ExpectedSize
    <3>4. QED
      BY <3>1, <3>2, <3>3 DEF ExpectedSize
  <2>3. QED
    BY <2>1, <2>2
<1>3. ~failed'
  BY <1>2 DEF CompareSlice, IInv
<1>4. QED
  BY <1>1, <1>3 DEF CompareSlice, IInv, GetNextInv

LEMMA GetNextTestEndsIInv ==
    ASSUME IInv, GetNextTestEnds
    PROVE  IInv'
BY TestOfPc DEF GetNextTestEnds, IInv, GetNextInv

(***************************************************************************)
(* The Roundtrip test.  GetNext moves cur_iteration and the iterator       *)
(* together; at the breakpoint, out_tensors is the slice the check reads  *)
(* or the end is reported; Save and Restore leave the position as it was.*)
(***************************************************************************)
LEMMA NextBreakpointIInv ==
    ASSUME IInv, NextBreakpoint
    PROVE  IInv'
<1>1. test = "Roundtrip" /\ RoundtripInv
  BY TestOfPc DEF NextBreakpoint, IInv
<1>2. pc' = "advance" => bp \in 1 .. Len(breakpoints)
  BY <1>1 DEF NextBreakpoint, RoundtripInv
<1>3. RoundtripInv'
  BY <1>1, <1>2 DEF NextBreakpoint, RoundtripInv, RoundtripOut, Lesser
<1>4. QED
  BY <1>1, <1>3 DEF NextBreakpoint, IInv

LEMMA AdvanceToBreakpointIInv ==
    ASSUME IInv, AdvanceToBreakpoint
    PROVE  IInv'
<1>1. /\ test = "Roundtrip" /\ RoundtripInv /\ pc = "advance"
      /\ bp \in 1 .. Len(breakpoints) /\ cur < breakpoints[bp]
  BY TestOfPc DEF AdvanceToBreakpoint, IInv, RoundtripInv
<1>2. /\ test' = test /\ breakpoints' = breakpoints /\ bp' = bp /\ pc' = pc
      /\ failed' = failed /\ saved' = saved /\ cur' = cur + 1
  BY DEF AdvanceToBreakpoint
<1>3. CASE pos < NumSlices
  <2>1. cur < NumSlices /\ pos = cur
    BY <1>1, <1>3 DEF RoundtripInv, Lesser, IInv
  <2>2. out' = SliceTensors(cur) /\ pos' = cur + 1 /\ eos' = FALSE
    BY <1>3, <2>1 DEF AdvanceToBreakpoint, IteratorGetNext
  <2>3. /\ pos' = Lesser(cur', NumSlices)
        /\ out' = RoundtripOut(cur')
    BY <1>2, <2>1, <2>2 DEF Lesser, RoundtripOut, IInv
  <2>4. eos' <=> cur' > NumSlices
    BY <1>2, <2>1, <2>2 DEF IInv
  <2>5. RoundtripInv'
    BY <1>1, <1>2, <2>3, <2>4 DEF RoundtripInv, IInv
  <2>6. eos' \in BOOLEAN /\ ~failed'
    BY <1>2, <2>2, Zenon DEF IInv
  <2>7. pos' \in 0 .. NumSlices /\ cur' \in Nat
    BY <1>2, <2>1, <2>2 DEF IInv
  <2>8. QED
    BY <1>1, <1>2, <2>5, <2>6, <2>7 DEF IInv
<1>4. CASE ~(pos < NumSlices)
  <2>1. pos = NumSlices /\ cur >= NumSlices
    BY <1>1, <1>4 DEF RoundtripInv, Lesser, IInv
  <2>2. out' = out /\ pos' = pos /\ eos' = TRUE
    BY <1>4 DEF AdvanceToBreakpoint, IteratorGetNext
  <2>3. /\ pos' = Lesser(cur', NumSlices)
        /\ out' = RoundtripOut(cur')
    BY <1>1, <1>2, <2>1, <2>2 DEF Lesser, RoundtripOut, RoundtripInv, IInv
  <2>4. eos' <=> cur' > NumSlices
    BY <1>2, <2>1, <2>2 DEF IInv
  <2>5. RoundtripInv'
    BY <1>1, <1>2, <2>3, <2>4 DEF RoundtripInv, IInv
  <2>6. eos' \in BOOLEAN /\ ~failed'
    BY <1>2, <2>2, Zenon DEF IInv
  <2>7. pos' \in 0 .. NumSlices /\ cur' \in Nat
    BY <1>2, <2>1, <2>2 DEF IInv
  <2>8. QED
    BY <1>1, <1>2, <2>5, <2>6, <2>7 DEF IInv
<1>5. QED
  BY <1>3, <1>4

LEMMA CheckBreakpointIInv ==
    ASSUME IInv, CheckBreakpoint
    PROVE  IInv'
<1> DEFINE b == breakpoints[bp]
<1>1. /\ test = "Roundtrip" /\ RoundtripInv /\ pc = "advance"
      /\ bp \in 1 .. Len(breakpoints) /\ cur = b
  BY TestOfPc DEF CheckBreakpoint, IInv, RoundtripInv
<1>2. \/ b = 0 /\ ~eos
      \/ /\ b # 0 /\ b <= NumSlices
         /\ \A i \in DOMAIN out :
               /\ i + NumComponents * (cur - 1) < ExpectedSize
               /\ out[i] = ExpectedOutputs[i + NumComponents * (cur - 1)]
      \/ b # 0 /\ ~(b <= NumSlices) /\ eos
  <2>1. CASE b = 0
    BY <1>1, <2>1 DEF RoundtripInv, IInv
  <2>2. CASE b # 0 /\ b <= NumSlices
    <3>1. cur - 1 \in 0 .. NumSlices - 1 /\ out = SliceTensors(cur - 1)
      BY <1>1, <2>2 DEF RoundtripInv, RoundtripOut, Lesser, IInv
    <3>2. ASSUME NEW i \in DOMAIN out
          PROVE  /\ i + NumComponents * (cur - 1) < ExpectedSize
                 /\ out[i] = ExpectedOutputs[i + NumComponents * (cur - 1)]
      <4>1. i \in 0 .. NumComponents - 1
        BY <3>1 DEF SliceTensors
      <4>2. /\ i + NumComponents * (cur - 1) \in 0 .. ExpectedSize - 1
            /\ ExpectedOutputs[i + NumComponents * (cur - 1)] = SliceTensors(cur - 1)[i]
        BY <3>1, <4>1, SliceIndex
      <4>3. QED
        BY <3>1, <4>2 DEF ExpectedSize
    <3>3. QED
      BY <2>2, <3>2
  <2>3. CASE b # 0 /\ ~(b <= NumSlices)
    BY <1>1, <2>3 DEF RoundtripInv, IInv
  <2>4. QED
    BY <2>1, <2>2, <2>3
<1>3. ~failed'
  BY <1>2 DEF CheckBreakpoint, IInv
<1>4. RoundtripInv'
  BY <1>1 DEF CheckBreakpoint, RoundtripInv
<1>5. QED
  BY <1>1, <1>3, <1>4 DEF CheckBreakpoint, IInv

LEMMA SaveIteratorIInv ==
    ASSUME IInv, SaveIterator
    PROVE  IInv'
<1>1. test = "Roundtrip" /\ RoundtripInv /\ pc = "save"
  BY TestOfPc DEF SaveIterator, IInv
<1>2. RoundtripInv'
  BY <1>1 DEF SaveIterator, RoundtripInv
<1>3. QED
  BY <1>1, <1>2 DEF SaveIterator, IInv

(* Restore is where the order of the breakpoints matters: cur_iteration   *)
(* is at breakpoint bp, and must not be past breakpoint bp + 1.           *)
LEMMA RestoreIteratorIInv ==
    ASSUME \A l \in BreakpointLists : Sorted(l), IInv, RestoreIterator
    PROVE  IInv'
<1>1. /\ test = "Roundtrip" /\ RoundtripInv /\ pc = "restore"
      /\ bp \in 1 .. Len(breakpoints) /\ cur = breakpoints[bp] /\ saved = pos
  BY TestOfPc DEF RestoreIterator, IInv, RoundtripInv
<1>2. /\ pos' = pos /\ bp' = bp + 1 /\ pc' = "next_breakpoint"
      /\ UNCHANGED <<test, eos, out, cur, breakpoints, saved, failed>>
  BY <1>1 DEF RestoreIterator
<1>3. bp + 1 \in 1 .. Len(breakpoints) => cur <= breakpoints[bp + 1]
  <2>1. breakpoints \in Seq(Nat) /\ Sorted(breakpoints)
    BY DEF IInv
  <2>2. QED
    BY <1>1, <2>1 DEF Sorted
<1>4. RoundtripInv'
  BY <1>1, <1>2, <1>3 DEF RoundtripInv
<1>5. QED
  BY <1>1, <1>2, <1>4 DEF IInv

(***************************************************************************)
(* TestsPass for every number of slices and of components: no EXPECT of   *)
(* the GetNext test (lines 176-190) or of the Roundtrip test (lines       *)
(* 595-613) fails, whenever the breakpoints are listed in non-decreasing  *)
(* order.  The argument is the invariant IInv: the iterator, the end flag *)
(* and out_tensors are determined by the loop counter, so the index each  *)
(* EXPECT reads is that of the slice GetNext returned.                     *)
(***************************************************************************)
THEOREM TestsAlwaysPass ==
    ASSUME \A l \in BreakpointLists : Sorted(l)
    PROVE  Spec => []TestsPass
<1>1. Init => IInv
  BY InitIInv
<1>2. IInv /\ [Next]_tvars => IInv'
  <2> SUFFICES ASSUME IInv, [Next]_tvars PROVE IInv'
    OBVIOUS
  <2>1. CASE DrainGetNext
    BY <2>1, DrainGetNextIInv
  <2>2. CASE CompareSlice
    BY <2>2, CompareSliceIInv
  <2>3. CASE GetNextTestEnds
    BY <2>3, GetNextTestEndsIInv
  <2>4. CASE NextBreakpoint
    BY <2>4, NextBreakpointIInv
  <2>5. CASE AdvanceToBreakpoint
    BY <2>5, AdvanceToBreakpointIInv
  <2>6. CASE CheckBreakpoint
    BY <2>6, CheckBreakpointIInv
  <2>7. CASE SaveIterator
    BY <2>7, SaveIteratorIInv
  <2>8. CASE RestoreIterator
    BY <2>8, RestoreIteratorIInv
  <2>9. CASE UNCHANGED tvars
    BY <2>9 DEF IInv, GetNextInv, RoundtripInv, RoundtripOut, tvars
  <2>10. QED
    BY <2>1, <2>2, <2>3, <2>4, <2>5, <2>6, <2>7, <2>8, <2>9 DEF Next
<1>3. IInv => TestsPass
  BY DEF IInv, TestsPass
<1>4. QED
  BY <1>1, <1>2, <1>3, PTL DEF Spec

=============================================================================
