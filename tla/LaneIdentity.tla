---------------------------- MODULE LaneIdentity ----------------------------
(***************************************************************************)
(* IsBlock0Thread0 of ir_emission_utils.cc (lines 309-319) emits the i1    *)
(* value  (0 == thread id x) && (0 == block id x)  that a kernel uses to   *)
(* guard a side effect meant to happen once per launch, such as the        *)
(* vprintf call of EmitPrintf.  The model runs the emitted value on every  *)
(* thread of one launch: the threads run in any order, and each one that   *)
(* finds the value true performs the guarded side effect.                  *)
(*                                                                         *)
(* The emitted value is kept as the expression the builder calls make, and *)
(* evaluated by what the LLVM instructions compute.  A launch has a grid   *)
(* of blocks and a block of threads, each given by its x and y extents.    *)
(***************************************************************************)
EXTENDS Naturals

CONSTANTS
    Launches    \* the launch dimensions: [grid : <<x, y>>, block : <<x, y>>]

ASSUME LaunchesAssumption ==
    Launches \subseteq [grid : (Nat \ {0}) \X (Nat \ {0}),
                        block : (Nat \ {0}) \X (Nat \ {0})]

\* The coordinates <<x, y>> of an extent <<x, y>>.
Coords(ext) == (0 .. ext[1] - 1) \X (0 .. ext[2] - 1)

\* The threads of a launch: a block index and a thread index within it.
Threads(launch) == [block : Coords(launch.grid), thread : Coords(launch.block)]

(* EmitCallToTargetIntrinsic on kTHREAD_ID_X and kBLOCK_ID_X: the x       *)
(* component of the thread's index in its block and of its block's index. *)
ReadIntrinsic(id, t) == IF id = "kTHREAD_ID_X" THEN t.thread[1] ELSE t.block[1]

\* CreateICmpEQ(getInt32(c), intrinsic) and CreateAnd / CreateOr of two i1s.
ICmpEQ(c, id) == [op |-> "icmp_eq", const |-> c, intrinsic |-> id]

\* Mutant: the two comparisons joined with CreateOr.
IsBlock0Thread0Or ==
    [op |-> "or", lhs |-> ICmpEQ(0, "kTHREAD_ID_X"), rhs |-> ICmpEQ(0, "kBLOCK_ID_X")]

(* Lines 309-319: the value IsBlock0Thread0 emits.                         *)
IsBlock0Thread0 ==
    [op |-> "and", lhs |-> ICmpEQ(0, "kTHREAD_ID_X"), rhs |-> ICmpEQ(0, "kBLOCK_ID_X")]

\* What the emitted i1 value is on thread t.
EvalCmp(cmp, t) == cmp.const = ReadIntrinsic(cmp.intrinsic, t)

Eval(e, t) ==
    IF e.op = "and" THEN EvalCmp(e.lhs, t) /\ EvalCmp(e.rhs, t)
                    ELSE EvalCmp(e.lhs, t) \/ EvalCmp(e.rhs, t)

VARIABLES
    launch,   \* the launch dimensions of the kernel
    done,     \* the threads that have run past the guard
    fired     \* how many threads took the guarded branch

lvars == <<launch, done, fired>>

Init ==
    /\ launch \in Launches
    /\ done = {}
    /\ fired = 0

(* One thread runs the guard: it evaluates the emitted value and, when it *)
(* is true, performs the guarded side effect.                              *)
RunThread(t) ==
    /\ t \notin done
    /\ done' = done \cup {t}
    /\ fired' = IF Eval(IsBlock0Thread0, t) THEN fired + 1 ELSE fired
    /\ UNCHANGED launch

Next == \E t \in Threads(launch) : RunThread(t)

(* The hardware runs every thread of a launch to completion.               *)
Spec == Init /\ [][Next]_lvars /\ WF_lvars(Next)

-----------------------------------------------------------------------------
(***************************************************************************)
(* The side effect that IsBlock0Thread0 guards happens once per launch:    *)
(* never on two threads, whatever the order the threads run in, and on    *)
(* exactly one once every thread of the launch has run.                    *)
(***************************************************************************)
GuardedOnce ==
    /\ fired <= 1
    /\ done = Threads(launch) => fired = 1

(***************************************************************************)
(* What the guard of lines 309-319 really selects, on every launch: it     *)
(* compares only the x indices, so each pair of a block y index and a      *)
(* thread y index has its own thread 0 of block 0.  The side effect never *)
(* happens more than grid y * block y times, and has happened exactly that *)
(* many times once every thread has run, whatever the order of threads.    *)
(***************************************************************************)
YPairs(l) == l.grid[2] * l.block[2]

FiredOncePerYPair ==
    /\ fired <= YPairs(launch)
    /\ done = Threads(launch) => fired = YPairs(launch)

=============================================================================
