---------------------------- MODULE MCDeviceCall -----------------------------
(***************************************************************************)
(* Model instance of DeviceCall: the lane-read call of the warp shuffle,   *)
(* the two printf argument lists, and one device function whose callers   *)
(* disagree on its primitive types or on its attributes.                 *)
(***************************************************************************)
EXTENDS DeviceCall

MCReadUpLane == [name |-> "__ockl_readuplane_i32", params |-> <<"S32", "S32">>,
                 ret |-> "S32", attrs |-> {}]
MCExpF32 == [name |-> "__ocml_exp_f32", params |-> <<"F32">>, ret |-> "F32",
             attrs |-> {"readnone"}]
MCExpF32NoUnwind == [name |-> "__ocml_exp_f32", params |-> <<"F32">>, ret |-> "F32",
                     attrs |-> {"nounwind"}]
MCExpF64 == [name |-> "__ocml_exp_f32", params |-> <<"F64">>, ret |-> "F64",
             attrs |-> {}]

MCNames == {"__ockl_readuplane_i32", "__ocml_exp_f32", VPrintf}
MCDeviceCalls == {MCReadUpLane, MCExpF32, MCExpF32NoUnwind, MCExpF64}
MCPrintfArgs == {<<"S32">>, <<"F64", "S32">>}
\* Two printf sites with one and the same argument list.
MCPrintfSameArgs == {<<"S32">>}
=============================================================================
