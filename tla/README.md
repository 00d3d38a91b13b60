# TLA+ verification of the XLA GPU IR-emission utilities

This directory holds TLA+ models of three source files:

- `src/tensorflow/compiler/xla/service/gpu/ir_emission_utils.cc`: the GPU code generator's classifiers and IR emission helpers;
- its header companion `llvm_gpu_backend/target_machine_features.h`;
- `src/tensorflow/core/kernels/data/tensor_slice_dataset_op_test.cc`: the iterator tests of the tensor-slice dataset.

The directory also holds the TLC configurations that model-check those models on small instances, and the TLAPS proofs that establish the main properties for every value of the constants.

## 1. The system and its parts

`ir_emission_utils.cc` is a library that the XLA GPU code generator calls while it lowers HLO instructions to LLVM IR. It has no threads and no global mutable state. Its parts are:

| Part | Code | What it does |
|---|---|---|
| ShapeClassifier | `IsRank2`, `AreValidGemmShapes` (41-64) | decides whether the operand and result shapes of a dot fit a BLAS GEMM |
| OpClassifier | `DotImplementedAsGemm`, `ImplementedAsGemm`, `ImplementedAsLibraryCall` (66-108, 146-149) | decides whether a dot, or an output fusion around a dot, becomes a GEMM call; `CHECK_EQ` on the contracting extents |
| CustomCallClassifier | the seven `kCudnn*CallTarget` strings, `IsCustomCallToDnnBatchNorm`, `IsCustomCallToDnnConvolution`, `GetCudnnConvKind`, `CudnnConvKindToString` (110-144, 278-307) | recognises cuDNN custom calls and converts a target to a `CudnnConvKind` |
| ReductionValidator | `IsReductionToVector` (151-169) | decides whether a reduce keeps a contiguous run of dimensions (in layout order) with a matching result shape |
| DeviceCallBuilder | `EmitDeviceFunctionCall` (171-198) | declares a device function by name and signature in the `llvm::Module`, adds attributes and emits a call |
| DebugPrintEmitter | `EmitPrintf` (203-227) | declares `vprintf` and calls it with a stack struct of the arguments |
| CrossLaneShuffleEmitter | `EmitFullWarpShuffleDown` (229-276) | emits a warp shuffle-down of any width, as 32-bit `__ockl_readuplane_i32` calls |
| LaneIdentityPredicate | `IsBlock0Thread0` (309-319) | emits `tid.x == 0 && ctaid.x == 0` |

How the parts interact:

- The shuffle emitter calls the device-call builder once per segment, so both share the `llvm::Module` declaration table.
- `ImplementedAsLibraryCall` combines the three classifiers.
- `target_machine_features.h` declares an abstract interface with one query (`simt_intrinsic`) and no implementation.

The test file drives a `TensorSliceDataset` iterator through two tests:

- **GetNext** drains the iterator and compares every slice with `expected_outputs`.
- **Roundtrip** runs to each breakpoint, checks the iterator's state, then saves and restores it in place.

The iterator itself is not in this repository.

## 2. Modules

| Module | Models | State | Actions |
|---|---|---|---|
| `DeviceCall` | DeviceCallBuilder, DebugPrintEmitter | `decls` (name ↦ signature or `NoDecl`), `fnattrs`, `calls` (emitted call instructions), `irstate` (`"crashed"` after a null dereference) | `EmitDeviceFunctionCall`, `EmitPrintf` |
| `WarpShuffle` | CrossLaneShuffleEmitter, plus the warp that runs the emitted code | `ty`, `off`, `val` (per-lane bit patterns), `pc`, `nseg`, `i`, `x` (per-lane vector of segments), `res`, and the `DeviceCall` state through `INSTANCE` | `FastPath`, `Pack`, `InvalidWidth`, `ShuffleSegment`, `Unpack` |
| `Classifier` | the three classifiers and the reduction validator | `hlo` (the instruction asked about), `answer` (every predicate's answer) | `Classify` |
| `ShuffleDownContract` | what CrossLaneShuffleEmitter promises its caller (spec 4.6): the abstract specification `WarpShuffle` implements | `ty`, `off`, `val`, `res`, `shuffled` | `Exchange` |
| `LaneIdentity` | LaneIdentityPredicate, plus the threads of a launch that run the emitted guard | `launch` (grid and block extents), `done` (threads past the guard), `fired` (threads that took the guarded branch) | `RunThread` |
| `TensorSliceTest` | the GetNext and Roundtrip tests | iterator position `pos`, `eos`, `out`, `cur`, breakpoints, saved data, `pc`, `failed` (an `EXPECT` failed) | `DrainGetNext`, `CompareSlice`, `GetNextTestEnds`, `NextBreakpoint`, `AdvanceToBreakpoint`, `CheckBreakpoint`, `SaveIterator`, `RestoreIterator` |

The `MC*` modules give the constants their values. The `*Proofs` modules hold the theorems.

### DeviceCall

The part of the `llvm::Module` that the two functions change is modelled as a table from function name to signature. `getOrInsertFunction` behaves as follows:

- If the name is free, it declares the function.
- If the name is declared with the same type, it returns the declaration.
- If the name is declared with another type, it returns a bitcast constant.

In `EmitDeviceFunctionCall`, `dyn_cast<llvm::Function>` of that bitcast is null, and `addFnAttr` or `CreateCall` then dereferences it. The model marks this as `irstate = "crashed"`. `EmitPrintf` passes the `FunctionCallee` straight to `CreateCall`, so a mismatched type is a call through the bitcast (`direct = FALSE`), not a crash. `StructType::create` (line 210) makes a new identified struct on every call, equal to no other type even with the same elements. The model names it by the position of the call that makes it (`ArgumentsPtr`). So `vprintf` is declared with the first printf's type, and every later printf calls through a bitcast.

`addFnAttr` (line 193) adds the attributes of a call site to the one declaration that all calls of the name share, so `fnattrs` only grows. Each call record keeps the attributes its own site passed. No property is stated about them: a call running under attributes that another site asked for is what the code means to do.

### LaneIdentity

`IsBlock0Thread0` is modelled as the value it emits: `CreateAnd` of two `CreateICmpEQ` of the constant 0 with the `kTHREAD_ID_X` and `kBLOCK_ID_X` intrinsic reads. `Eval` gives what that value is on one thread. A launch is a grid of blocks and a block of threads, each with an x and a y extent; every thread runs the guard once, in any order, and a thread that finds it true performs the guarded side effect (for example the `vprintf` of `EmitPrintf`). How the launch is set up is not in this repository and is modelled from the spec (`spec_modelled`).

### WarpShuffle

A value is its bit pattern, a function from bit positions to {0,1}. The emitted `bitcast`, `zext`, `trunc` and vector reinterpretations are modelled by what they do to bits (`ZExt`, `Trunc`, `ToVector`, `FromVector`).

- **Types.** A type records `isFloatTy()`, the `getPrimitiveSizeInBits()` it reports (0 for a struct such as complex `{float, float}`), and its real width.
- **Lane reads.** `LaneRead` is the hardware lane read: lane `l` receives the word of lane `l + offset`. For a source lane outside the warp the result is unspecified, so every word is possible.
- **Scaling.** `SegBits` stands for the literal 32. The model instance uses `SegBits = 2`, so every width is divided by 16:

  | Type | Real width | Model width |
  |---|---|---|
  | half | 16 | 1 |
  | float | 32 | 2 (fast path) |
  | int32 | 32 | 2 (general path) |
  | double | 64 | 4 |
  | x86_fp80 | 80 | 5 (three segments, the last one padded) |
  | complex | reports 0 | 0 |

  The arithmetic is the same.
- **Contract.** `ShuffleDownContract` states the contract of spec 4.6 without the mechanism: in one step `Exchange`, every lane receives the whole bit pattern, of the value's width, of the lane `offset` positions ahead; a lane whose source is outside the warp receives any pattern. `WarpShuffle` instantiates it as `Contract` with the refinement mapping `shuffled <- (pc = "done")`; the value, offset and result map to themselves. `FastPath` and `Unpack` map to `Exchange`, and `Pack`, `InvalidWidth` and `ShuffleSegment` to stutters.

### Classifier

- **Instructions.** An instruction is a record. Dots carry their operand shapes, result shape and dimension numbers. Fusions carry their kind and root. Custom calls carry their target. Reduces carry the input shape with its layout, the reduced dimensions and the result shape with its layout.
- **Failed CHECK.** A failed `CHECK` is the value `Abort`.
- **External helpers.** These are not in this repository and are modelled from their documented behaviour (`spec_modelled` in the map): `LayoutUtil::AreDimensionsConsecutive` (sort the layout positions, check that consecutive ones differ by 1), `ShapeUtil::FilterDimensions` (deletes dimensions and renumbers the layout), and the shape-inference rule for dots (`WellFormedDot`).
- **Equality.** `ShapeUtil::Equal` compares element types, extents and layouts.
- **Fusions.** A fusion is a record of its kind and its root, and the root a record of its opcode and its two operands (`FusionShaped`, part of `WellFormed`).

### TensorSliceTest

The test code is translated line by line: loops, `EXPECT`s and the index arithmetic `i + num_tensors_per_slice * cur`. A tensor is abstracted to `<<slice, component>>`. The iterator is modelled from what the tests expect of it:

- `GetNext` returns slice `pos` and advances while `pos < num_slices`.
- After the last slice it reports the end of the sequence and leaves `out_tensors` unchanged.
- `Save` writes `pos`, and `Restore` reads it back.

## 3. Runs

| Run | cfg | Expect | Properties | Shows |
|---|---|---|---|---|
| warp_shuffle | `MCWarpShuffle.cfg` | pass | `TypeOK`, `ShuffleCorrect`, `SegmentLoopInv`, `CallsMinimal` | every in-range lane gets the source lane's exact bits, on both paths and for widths 1, 2, 4 and 5 (three segments); the finished code has made one lane-read call on the fast path and otherwise the fewest 32-bit reads that cover the value |
| warp_shuffle_contract | `MCWarpShuffleContract.cfg` | pass | `ImplementsContract` | on the primitive types (half, float, int32, double, 80-bit), the emitter implements `ShuffleDownContract!Spec`, its fairness included: the exchange happens, once, with the right bits |
| warp_shuffle_complex | `MCWarpShuffleComplex.cfg` | violation | `ShuffleEmitted` | a complex value reports width 0 and no shuffle can be emitted |
| device_call | `MCDeviceCall.cfg` | pass | `CallsWellFormed` | every call targets a declared function and every call of the declaration itself (not of a bitcast) has its type, over every order of device-call and printf sites, conflicting ones included |
| device_call_conflict | `MCDeviceCallConflict.cfg` | violation | `NoNullCallee` | a second call site that uses one name with another signature dereferences null |
| device_printf | `MCDevicePrintf.cfg` | violation | `PrintfCallsDirect` | two printfs with the same argument types: the second calls `vprintf` through a bitcast, while spec 4.8 describes a fixed-signature routine called with an anonymous aggregate |
| classifier | `MCClassifier.cfg` | pass | `GemmCheckNeverFails`, `ConvKindAgrees`, `ReductionToVectorCorrect`, `FusionOrderMattersOnlyWithTwoDots` | the `CHECK` of line 79 never fires; predicate and kind conversion agree; `IsReductionToVector` equals a declarative definition under every layout and for mixed-precision results; swapping a fusion root's operands changes the GEMM answer only when both are dots |
| classifier_fusion_order | `MCClassifierFusionOrder.cfg` | violation | `FusionOperandOrderIrrelevant` | `multiply(ineligible dot, eligible dot)` is not GEMM, but the swapped fusion is |
| tensor_slice_tests | `MCTensorSliceTest.cfg` | pass | `TestsPass` | both tests pass for every non-decreasing breakpoint list up to one past the end |
| lane_identity | `MCLaneIdentity.cfg` | pass | `GuardedOnce` | on one-dimensional launches of up to 3×3 threads, the guarded side effect happens on exactly one thread, in every order |
| lane_identity_count | `MCLaneIdentityCount.cfg` | pass | `FiredOncePerYPair` | on every launch with extents 1-2 in x and y, the guarded side effect fires at most, and in the end exactly, grid y × block y times: what the guard really selects |
| lane_identity_2d | `MCLaneIdentity2D.cfg` | violation | `GuardedOnce` | on a launch with a y extent of 2, threads (0,0) and (0,1) of block 0 both pass the guard: the code compares only x indices, while spec 4.7 promises one lane across the whole grid |

For each property of a passing run, `PROJECT.json` lists a mutant: a plausible bug in the modelled code that makes TLC report that property violated. The mutants are:

- truncation left out;
- segments reassembled in reverse;
- segment count rounded down;
- segment count with a spare segment when the width is a multiple of the word (`NumSegmentsOver`, caught by `CallsMinimal`);
- callee redeclared;
- `CHECK` reading the wrong contracting index;
- a convolution kind missing;
- the `dims_to_keep` loop starting at 1;
- `Restore` resetting the iterator;
- the two comparisons of `IsBlock0Thread0` joined by `CreateOr` (for `GuardedOnce` and `FiredOncePerYPair`);
- truncation left out (for `ImplementsContract`: the result has the padded width, not the value's);
- the fusion search looking at operand 0 only (for `FusionOrderMattersOnlyWithTwoDots`).

### Bounds and why they suffice

- **WarpShuffle:** the contract run uses the primitive types only, because on the complex type no exchange happens (the warp_shuffle_complex finding). All runs use 2 lanes, offsets {0, 1}, at most 3 calls. Offset 1 puts lane 1's source outside the warp, so both in-range and out-of-range lanes occur. The widths cover one segment, a partial segment, several segments, a padded last segment, the fast path and the zero width.
- **DeviceCall:** three call sites:
  - `__ockl_readuplane_i32`;
  - `__ocml_exp_f32`, in two signatures, which gives the conflict, and in one signature with two different attribute sets (`readnone`, `nounwind`);
  - two `printf` argument lists; the printf run has one list used twice, which shows that even equal argument types give two `vprintf` types.

  At most 4 calls, enough to interleave every site with every other.
- **Classifier:** every dot that shape inference accepts with:
  - operands of rank 1-3;
  - extents {0, 2, 3} (only {2, 3} at rank 3);
  - batch dimension none or 0;
  - at most one contracting dimension per side;
  - element types F32 and S32.

  Also:
  - output and loop fusions over those dots of result `f32[2,3]` (and a parameter);
  - every known target and three near misses;
  - every reduce of an f32 input of rank 1-3, under every input and result layout, with an f32 result or a mixed-precision f16 one.

  The spec's examples (the `[2,3]×[3,4]` GEMM, the `[2,3,4]` reduce keeping {0,2}) are inside these sets.
- **LaneIdentity:** one-dimensional launches of 1-3 blocks of 1-3 threads, so block 0 and thread 0 each have neighbours that differ in one index only; the 2-D and count runs use 1-2 blocks by 1-2 threads in each of x and y, so that each y extent is 1 or 2 independently and the count ranges over 1, 2 and 4. The proofs cover launches of every size.
- **TensorSliceTest:** 2 slices of 2 components (the shape of both `TestCases`). Breakpoint lists are all non-decreasing lists of length up to 3 over 0..3, which include `{0,1,3}` and `{0,1,2}`. `MaxIterations = 4` bounds the drain loop and is never reached by the real iterator.

### Fairness

`WarpShuffle` and `TensorSliceTest` assume weak fairness of `Next`. Both model sequential code on one thread, so a statement that can run does run. Only `WarpShuffle` uses it, to give the contract's fairness; the test's loops end by their bounds, which no property needs to state. `LaneIdentity` assumes weak fairness of `Next` because the hardware runs every thread of a launch to completion; no property of it needs it. `ShuffleDownContract` asks weak fairness of `Exchange`; the emitter provides it through its own weak fairness, on primitive types. No other fairness is assumed. `DeviceCall` and `Classifier` check no liveness. Their runs set `CHECK_DEADLOCK FALSE` because the modelled code legitimately stops:

- DeviceCall: after the bounded number of calls, or after a crash.
- Classifier: after the single query.
- LaneIdentity: when every thread has run.
- WarpShuffle and TensorSliceTest: when emission, or the test, is done.

## 4. What is proved

`tlapm` proves the following in five proof modules (the library's `FiniteSetTheorems` is cited for cardinalities). They hold for every value of the constants that satisfies the `ASSUME`s of the modelled module.

- `DeviceCallProofs`:
  - `TypeCorrect`;
  - `CallsAlwaysWellFormed` (`Spec => []CallsWellFormed`). The invariant is inductive together with `TypeOK`. A new call is checked against the declaration the same step makes, and older calls keep their declarations because no step changes a declaration once made. `EmitPrintfStep` shows that a printf's call is direct exactly when it makes the declaration.
- `WarpShuffleProofs`:
  - `TypeCorrect`;
  - `ShuffleAlwaysCorrect` (`Spec => []ShuffleCorrect`);
  - `SegmentLoopAlwaysInv`.

  These hold for every warp size, segment width and set of types. `ShuffleCorrect` is not inductive by itself. It is proved from `IInv == TypeOK /\ LoopWidthInv /\ SegmentLoopInv /\ ShuffleCorrect`, where:
  - `SegmentLoopInv` says which segments already hold the source lane's word;
  - `LoopWidthInv` says the loop is entered only with a positive width.

  - `ImplementsContractSafety` (`Spec => Contract!SafetySpec`): the emitter implements the safety part of `ShuffleDownContract` under the mapping `shuffled <- (pc = "done")`, for every warp size, segment width, offset and set of types. Along with `IInv`, it needs `ResultInv`: the result stays empty until the function returns, and then has the value's width (`TypeOK` alone allows width 0). `StepRefines` shows that each step, with both invariants before and after, is `Exchange` (`FastPath`, `Unpack`, where `ShuffleCorrect'` gives the bits) or a stutter of the contract's variables.

  - `CallsAlwaysMinimal` (`Spec => []CallsMinimal`), for every warp size, segment width, offset and set of types. `CallsMinimal` only speaks of finished code, so it is not inductive. It is proved with `IInv /\ CallInv`. `CallInv` says that the module never crashes, because `__ockl_readuplane_i32` is only ever declared with one signature. It also ties the number of calls to the state: none before the branch, `i` in the loop, and one or `NumSegments` at the end. `SegmentsMinimal` shows `(NumSegments(w) - 1) * SegBits < w` for `w > 0`, and `SegmentsCover` gives the other bound. TLC checked `CallInv` as an invariant of the warp_shuffle run before it was proved.

  Step lemmas cover each action. Arithmetic lemmas cover `\div` and `%`: every bit `b` lies in segment `b \div SegBits` at offset `b % SegBits`, and `NumSegments(w) * SegBits >= w`. The key step, `UnpackBit`, shows that bit `b` of the reassembled value is bit `b` of the source lane's value.
- `ClassifierProofs`:
  - `GemmCheckAlwaysHolds` (`Spec => []GemmCheckNeverFails`). Shape inference gives the result rank `lr + rr - B - 2C`. If the operands and the result all have rank `B + 2`, then `C = 1` (`RankEquation`). So the `CHECK_EQ` reads existing contracting dimensions, whose extents shape inference made equal.
  - `ConvKindAlwaysAgrees` (`Spec => []ConvKindAgrees`), for every target string.

  - `FusionOrderConfined` (`Spec => []FusionOrderMattersOnlyWithTwoDots`): `SwapWithOneDot` shows that with at most one dot among the root's operands, both operand orders lead the search of lines 98-104 to that dot or to none.

  All rest on the invariant that the recorded answers are those of the instruction asked about.
- `LaneIdentityProofs`: `GuardedOnceOneDimensional` (`Spec => []GuardedOnce` for every set of one-dimensional launches, of any size). `GuardSelectsT0` shows that in such a launch the emitted value is true on thread 0 of block 0 and on no other thread; the inductive invariant is `fired = IF T0 \in done THEN 1 ELSE 0`. The theorem's hypothesis is needed: the run lane_identity_2d shows the property fails without it. `FiredOncePerYPairAlways` (`Spec => []FiredOncePerYPair`) holds for every launch: the inductive invariant `CountInv` says `fired` is the number of threads in `done` that pass the guard, and `done` is finite. `GuardSelectsYPairs` shows the passing threads of a launch are in bijection with the pairs of y indices, so there are grid y × block y of them (`FS_Interval`, `FS_Product`, `FS_Bijection`).
- `TensorSliceTestProofs`: `TestsAlwaysPass` (`Spec => []TestsPass` for every number of slices and components, whenever every breakpoint list is non-decreasing). The inductive invariant says the test state is a function of the loop counter:
  - in the GetNext test, the iterator is one slice ahead of `cur_slice` exactly when a slice waits to be compared;
  - in the Roundtrip test, `pos = min(cur, num_slices)`, `end_of_sequence <=> cur > num_slices`, `out_tensors` is slice `min(cur, num_slices) - 1`, `Restore` reads back what `Save` wrote, and `cur_iteration` never passes the breakpoint the loop is at (this last one is where the order of the breakpoints is used).

  `SliceIndex` proves that component `i` of slice `s` is at index `i + K * s` of `expected_outputs`, inside its bounds.

### Only model-checked

- Liveness (the fairness part of `ImplementsContract`): TLAPS does not reason about fairness or `ENABLED`.
- `ReductionToVectorCorrect`: it depends on `SetToSortSeq`, `SelectSeq` and cardinalities of finite sets, whose facts would need induction over data.

## 5. Not modelled

- **`target_machine_features.h`:** an abstract interface whose one query, `simt_intrinsic`, maps an intrinsic name to a target name; the AMD subclass is only declared and no code in this repository implements or calls it, so there is no behaviour to model.
- **Metadata tests:** the dtype, shape, cardinality, name and prefix tests, and `DatasetSave`, compare constant metadata.
- **Data:** the printf argument buffer and format string, and the element values of tensors, are data that no property distinguishes.
- **Decreasing breakpoints:** breakpoint lists that decrease are outside the model's inputs. With such a list, `cur_iteration` can pass a breakpoint that is at most `num_slices`, and the expected-output index of line 602 then runs past the vector.
