------------------------- MODULE ShuffleDownContract ------------------------
(***************************************************************************)
(* What EmitFullWarpShuffleDown (ir_emission_utils.cc, lines 229-276)      *)
(* promises its caller: in one step, every lane receives the whole bit     *)
(* pattern of the lane offset positions ahead, as if the value were moved  *)
(* at once; what a lane whose source is outside the warp receives is left *)
(* open.  The segments, the packing and the fast path of the code are not *)
(* visible here.  WarpShuffle is shown to implement this module.           *)
(***************************************************************************)
EXTENDS Naturals

CONSTANTS
    WarpSize,   \* lanes in the hardware group
    Types,      \* types of the value; bits is the width of its bit pattern
    Offsets     \* values of the offset operand

VARIABLES
    ty,        \* the type of value
    off,       \* the offset operand
    val,       \* lane -> bits of value
    res,       \* lane -> bits of the returned value
    shuffled   \* the exchange has happened

cvars == <<ty, off, val, res, shuffled>>

Lane == 0 .. WarpSize - 1

Bits(w) == [0 .. w - 1 -> {0, 1}]

Init ==
    /\ ty \in Types
    /\ off \in Offsets
    /\ val \in [Lane -> Bits(ty.bits)]
    /\ res = [l \in Lane |-> <<>>]
    /\ shuffled = FALSE

(* The lane exchange on the whole bit pattern.                             *)
Exchange ==
    /\ ~shuffled
    /\ shuffled' = TRUE
    /\ res' \in {r \in [Lane -> Bits(ty.bits)] :
                    \A l \in Lane : l + off < WarpSize => r[l] = val[l + off]}
    /\ UNCHANGED <<ty, off, val>>

SafetySpec == Init /\ [][Exchange]_cvars

(* The exchange is not put off for ever.                                   *)
Spec == SafetySpec /\ WF_cvars(Exchange)

=============================================================================
