------------------------- MODULE LaneIdentityProofs -------------------------
(***************************************************************************)
(* Proofs about the guard IsBlock0Thread0 emits: it lets exactly one       *)
(* thread of a one-dimensional launch through, for every size of grid and *)
(* block, and on any launch one thread per pair of y indices.              *)
(***************************************************************************)
EXTENDS LaneIdentity, FiniteSets, FiniteSetTheorems, TLAPS

USE LaunchesAssumption

\* A launch whose grid and blocks extend in x only.
OneDimensional(l) == l.grid[2] = 1 /\ l.block[2] = 1

\* Thread 0 of block 0.
T0 == [block |-> <<0, 0>>, thread |-> <<0, 0>>]

(***************************************************************************)
(* In a one-dimensional launch, the emitted value is true on thread 0 of   *)
(* block 0 and on no other thread, and that thread exists.                 *)
(***************************************************************************)
LEMMA GuardSelectsT0 ==
    ASSUME NEW l \in Launches, OneDimensional(l)
    PROVE  /\ T0 \in Threads(l)
           /\ \A t \in Threads(l) : Eval(IsBlock0Thread0, t) <=> t = T0
<1>1. l.grid \in (Nat \ {0}) \X (Nat \ {0}) /\ l.block \in (Nat \ {0}) \X (Nat \ {0})
  OBVIOUS
<1>2. T0 \in Threads(l)
  BY <1>1 DEF T0, Threads, Coords
<1>3. ASSUME NEW t \in Threads(l)
      PROVE  Eval(IsBlock0Thread0, t) <=> t = T0
  <2>1. t = [block |-> t.block, thread |-> t.thread]
    BY DEF Threads
  <2>2. /\ t.block \in Coords(l.grid) /\ t.thread \in Coords(l.block)
    BY DEF Threads
  <2>3. t.block = <<t.block[1], 0>> /\ t.thread = <<t.thread[1], 0>>
    BY <1>1, <2>2 DEF Coords, OneDimensional
  <2>4. Eval(IsBlock0Thread0, t) <=> t.thread[1] = 0 /\ t.block[1] = 0
    BY DEF Eval, EvalCmp, IsBlock0Thread0, ICmpEQ, ReadIntrinsic
  <2>5. QED
    BY <2>1, <2>3, <2>4 DEF T0
<1>4. QED
  BY <1>2, <1>3

\* The side effect has fired once if thread 0 of block 0 has run, else never.
IInv ==
    /\ launch \in Launches
    /\ done \subseteq Threads(launch)
    /\ fired = IF T0 \in done THEN 1 ELSE 0

LEMMA IInvInductive ==
    ASSUME \A l \in Launches : OneDimensional(l)
    PROVE  Spec => []IInv
<1>1. Init => IInv
  BY DEF Init, IInv
<1>2. IInv /\ [Next]_lvars => IInv'
  <2> SUFFICES ASSUME IInv, [Next]_lvars PROVE IInv'
    OBVIOUS
  <2>1. ASSUME NEW t \in Threads(launch), RunThread(t)
        PROVE  IInv'
    <3>1. Eval(IsBlock0Thread0, t) <=> t = T0
      BY GuardSelectsT0 DEF IInv
    <3>2. t \notin done /\ done' = done \cup {t} /\ launch' = launch
      BY <2>1 DEF RunThread
    <3>3. fired' = IF t = T0 THEN fired + 1 ELSE fired
      BY <2>1, <3>1 DEF RunThread
    <3>4. QED
      BY <3>2, <3>3 DEF IInv
  <2>2. CASE UNCHANGED lvars
    BY <2>2 DEF IInv, lvars
  <2>3. QED
    BY <2>1, <2>2 DEF Next
<1>3. QED
  BY <1>1, <1>2, PTL DEF Spec

(***************************************************************************)
(* GuardedOnce for every set of one-dimensional launches: the side effect *)
(* IsBlock0Thread0 guards never happens on two threads, and has happened   *)
(* once when all threads have run.                                         *)
(***************************************************************************)
THEOREM GuardedOnceOneDimensional ==
    ASSUME \A l \in Launches : OneDimensional(l)
    PROVE  Spec => []GuardedOnce
<1>1. IInv => GuardedOnce
  BY GuardSelectsT0 DEF IInv, GuardedOnce
<1>2. QED
  BY <1>1, IInvInductive, PTL

-----------------------------------------------------------------------------
\* The value IsBlock0Thread0 emits is true exactly where both x indices are 0.
LEMMA EvalGuard ==
    ASSUME NEW t
    PROVE  Eval(IsBlock0Thread0, t) <=> t.thread[1] = 0 /\ t.block[1] = 0
BY DEF Eval, EvalCmp, IsBlock0Thread0, ICmpEQ, ReadIntrinsic

\* The threads of a set that take the guarded branch.
Passed(S) == {t \in S : Eval(IsBlock0Thread0, t)}

(***************************************************************************)
(* On a launch, the threads that take the branch are thread <<0, b>> of    *)
(* block <<0, a>> for each block y index a and thread y index b: there are *)
(* grid y * block y of them.  The map from the pairs <<a, b>> is a         *)
(* bijection, and the pairs form a product of two intervals.               *)
(***************************************************************************)
LEMMA GuardSelectsYPairs ==
    ASSUME NEW l \in Launches
    PROVE  /\ IsFiniteSet(Passed(Threads(l)))
           /\ Cardinality(Passed(Threads(l))) = YPairs(l)
<1> DEFINE GridY == 0 .. l.grid[2] - 1
           BlockY == 0 .. l.block[2] - 1
           Thr(p) == [block |-> <<0, p[1]>>, thread |-> <<0, p[2]>>]
           f == [p \in GridY \X BlockY |-> Thr(p)]
<1>1. l.grid \in (Nat \ {0}) \X (Nat \ {0}) /\ l.block \in (Nat \ {0}) \X (Nat \ {0})
  OBVIOUS
<1>2. Passed(Threads(l)) = {Thr(p) : p \in GridY \X BlockY}
  <2>1. ASSUME NEW t \in Passed(Threads(l)) PROVE \E p \in GridY \X BlockY : t = Thr(p)
    <3>1. t \in Threads(l) /\ t.thread[1] = 0 /\ t.block[1] = 0
      BY EvalGuard DEF Passed
    <3>2. t.block \in Coords(l.grid) /\ t.thread \in Coords(l.block)
          /\ t = [block |-> t.block, thread |-> t.thread]
      BY <3>1 DEF Threads
    <3>3. <<t.block[2], t.thread[2]>> \in GridY \X BlockY
      BY <3>2 DEF Coords
    <3>4. t = Thr(<<t.block[2], t.thread[2]>>)
      BY <3>1, <3>2 DEF Coords
    <3>5. QED
      BY <3>3, <3>4
  <2>2. ASSUME NEW p \in GridY \X BlockY PROVE Thr(p) \in Passed(Threads(l))
    <3>1. Thr(p) \in Threads(l)
      BY <1>1 DEF Threads, Coords
    <3>2. QED
      BY <3>1, EvalGuard DEF Passed
  <2>3. QED
    BY <2>1, <2>2
<1>3. f \in Bijection(GridY \X BlockY, Passed(Threads(l)))
  <2>1. f \in [GridY \X BlockY -> Passed(Threads(l))]
    BY <1>2
  <2>2. \A p, q \in GridY \X BlockY : f[p] = f[q] => p = q
    OBVIOUS
  <2>3. \A t \in Passed(Threads(l)) : \E p \in GridY \X BlockY : f[p] = t
    BY <1>2
  <2>4. QED
    BY <2>1, <2>2, <2>3 DEF Bijection, Injection, Surjection, IsInjective
<1>4. IsFiniteSet(GridY \X BlockY) /\ Cardinality(GridY \X BlockY) = YPairs(l)
  <2>0. \A n \in Nat \ {0} : IsFiniteSet(0 .. n - 1) /\ Cardinality(0 .. n - 1) = n
    <3> SUFFICES ASSUME NEW n \in Nat \ {0}
                 PROVE  IsFiniteSet(0 .. n - 1) /\ Cardinality(0 .. n - 1) = n
      OBVIOUS
    <3>1. IsFiniteSet(0 .. n - 1)
          /\ Cardinality(0 .. n - 1) = IF 0 > n - 1 THEN 0 ELSE (n - 1) - 0 + 1
      <4>1. 0 \in Int /\ n - 1 \in Int
        OBVIOUS
      <4>2. QED
        BY <4>1, FS_Interval, Zenon
    <3>2. QED
      BY <3>1
  <2>1. IsFiniteSet(GridY) /\ Cardinality(GridY) = l.grid[2]
    BY <1>1, <2>0
  <2>2. IsFiniteSet(BlockY) /\ Cardinality(BlockY) = l.block[2]
    BY <1>1, <2>0
  <2>3. QED
    BY <2>1, <2>2, FS_Product DEF YPairs
<1>5. QED
  BY <1>3, <1>4, FS_Bijection DEF ExistsBijection

(***************************************************************************)
(* The side effect has fired once for each thread that has run and took    *)
(* the branch; the threads that have run are a finite set, because one is  *)
(* added at a time.                                                        *)
(***************************************************************************)
CountInv ==
    /\ launch \in Launches
    /\ done \subseteq Threads(launch)
    /\ IsFiniteSet(done)
    /\ fired = Cardinality(Passed(done))

LEMMA CountInvInductive == Spec => []CountInv
<1>1. Init => CountInv
  <2> SUFFICES ASSUME Init PROVE CountInv
    OBVIOUS
  <2>1. Passed(done) = {}
    BY DEF Init, Passed
  <2>2. QED
    BY <2>1, FS_EmptySet DEF Init, CountInv
<1>2. CountInv /\ [Next]_lvars => CountInv'
  <2> SUFFICES ASSUME CountInv, [Next]_lvars PROVE CountInv'
    OBVIOUS
  <2>1. ASSUME NEW t \in Threads(launch), RunThread(t)
        PROVE  CountInv'
    <3>1. t \notin done /\ done' = done \cup {t} /\ launch' = launch
      BY <2>1 DEF RunThread
    <3>2. IsFiniteSet(done') /\ done' \subseteq Threads(launch')
      BY <3>1, FS_AddElement DEF CountInv
    <3>3. IsFiniteSet(Passed(done))
      BY FS_Subset DEF CountInv, Passed
    <3>4. CASE Eval(IsBlock0Thread0, t)
      <4>1. Passed(done') = Passed(done) \cup {t} /\ t \notin Passed(done)
        BY <3>1, <3>4 DEF Passed
      <4>2. fired' = fired + 1
        BY <2>1, <3>4 DEF RunThread
      <4>3. QED
        BY <3>1, <3>2, <3>3, <4>1, <4>2, FS_AddElement DEF CountInv
    <3>5. CASE ~Eval(IsBlock0Thread0, t)
      <4>1. Passed(done') = Passed(done)
        BY <3>1, <3>5 DEF Passed
      <4>2. fired' = fired
        BY <2>1, <3>5 DEF RunThread
      <4>3. QED
        BY <3>1, <3>2, <4>1, <4>2 DEF CountInv
    <3>6. QED
      BY <3>4, <3>5
  <2>2. CASE UNCHANGED lvars
    BY <2>2 DEF CountInv, lvars
  <2>3. QED
    BY <2>1, <2>2 DEF Next
<1>3. QED
  BY <1>1, <1>2, PTL DEF Spec

(***************************************************************************)
(* FiredOncePerYPair on every launch: the guard of lines 309-319 fires     *)
(* grid y * block y times once all threads have run, and never more; so   *)
(* it fires once exactly when the launch is one-dimensional in y.          *)
(***************************************************************************)
THEOREM FiredOncePerYPairAlways == Spec => []FiredOncePerYPair
<1>1. CountInv => FiredOncePerYPair
  <2> SUFFICES ASSUME CountInv PROVE FiredOncePerYPair
    OBVIOUS
  <2>1. IsFiniteSet(Passed(Threads(launch)))
        /\ Cardinality(Passed(Threads(launch))) = YPairs(launch)
    BY GuardSelectsYPairs DEF CountInv
  <2>2. Passed(done) \subseteq Passed(Threads(launch))
    BY DEF CountInv, Passed
  <2>3. fired <= YPairs(launch)
    BY <2>1, <2>2, FS_Subset DEF CountInv
  <2>4. done = Threads(launch) => fired = YPairs(launch)
    BY <2>1 DEF CountInv
  <2>5. QED
    BY <2>3, <2>4 DEF FiredOncePerYPair
<1>2. QED
  BY <1>1, CountInvInductive, PTL

=============================================================================
