-------------------------- MODULE DeviceCallProofs --------------------------
(***************************************************************************)
(* Proofs about the device-call builder, for every set of call sites that *)
(* satisfies the assumptions of DeviceCall.                                *)
(***************************************************************************)
EXTENDS DeviceCall, TLAPS

USE MaxCallsAssumption, IRTypesAssumption, NamesAssumption, DeviceCallsAssumption,
    PrintfArgsAssumption, NoDeclAssumption

\* The signature every EmitDeviceFunctionCall site asks for is in Sig.
LEMMA DeviceCallSig ==
    \A c \in DeviceCalls : Signature(c.params, c.ret) \in Sig
BY DEF Signature, Sig

\* The signature an EmitPrintf site asks for, as the k-th call, is in Sig.
LEMMA PrintfSig ==
    ASSUME NEW a \in PrintfArgs, NEW k \in 1 .. MaxCalls
    PROVE  Signature(<<"i8*", ArgumentsPtr(k, a)>>, "S32") \in Sig
<1>1. <<"i8*", ArgumentsPtr(k, a)>>
        \in {<<"i8*", ArgumentsPtr(j, b)>> : j \in 1 .. MaxCalls, b \in PrintfArgs}
  OBVIOUS
<1>2. "S32" \in IRTypes
  OBVIOUS
<1>3. <<"i8*", ArgumentsPtr(k, a)>>
        \in Seq(IRTypes) \cup
             {<<"i8*", ArgumentsPtr(j, b)>> : j \in 1 .. MaxCalls, b \in PrintfArgs}
  BY <1>1
<1>4. QED
  BY <1>2, <1>3 DEF Signature, Sig

(***************************************************************************)
(* What one EmitPrintf step does: the new call instruction has the type   *)
(* of a fresh argument struct, and it calls the declaration itself exactly *)
(* when vprintf was not declared yet.                                      *)
(***************************************************************************)
LEMMA EmitPrintfStep ==
    ASSUME TypeOK, NEW a \in PrintfArgs, EmitPrintf(a)
    PROVE  LET t == Signature(<<"i8*", ArgumentsPtr(Len(calls) + 1, a)>>, "S32") IN
           /\ t \in Sig
           /\ decls' = IF decls[VPrintf] = NoDecl THEN [decls EXCEPT ![VPrintf] = t]
                                                 ELSE decls
           /\ calls' = Append(calls, [callee |-> VPrintf, type |-> t,
                                      direct |-> decls[VPrintf] \in {NoDecl, t},
                                      attrs |-> {}])
           /\ UNCHANGED <<fnattrs, irstate>>
<1>1. Len(calls) + 1 \in 1 .. MaxCalls
  BY DEF EmitPrintf, TypeOK
<1>2. QED
  BY <1>1, PrintfSig DEF EmitPrintf

(***************************************************************************)
(* What one EmitDeviceFunctionCall step does, split into its two outcomes *)
(* so that each theorem below can cite the one it needs.                   *)
(***************************************************************************)
LEMMA EmitDeviceFunctionCallCases ==
    ASSUME NEW c \in DeviceCalls,
           EmitDeviceFunctionCall(c.name, c.params, c.ret, c.attrs)
    PROVE  LET t == Signature(c.params, c.ret) IN
           /\ t \in Sig
           /\ c.name \in Names
           /\ c.attrs \subseteq Attributes
           /\ \/ /\ decls[c.name] \in {NoDecl, t}
                 /\ decls' = [decls EXCEPT ![c.name] = t]
                 /\ fnattrs' = [fnattrs EXCEPT ![c.name] = @ \cup c.attrs]
                 /\ calls' = Append(calls, [callee |-> c.name, type |-> t, direct |-> TRUE,
                                              attrs |-> c.attrs])
              \/ UNCHANGED <<decls, fnattrs, calls>>
BY DeviceCallSig DEF EmitDeviceFunctionCall

(***************************************************************************)
(* Type correctness: the declaration table, the attributes and the call   *)
(* sequence keep their types under every call site.                        *)
(***************************************************************************)
THEOREM TypeCorrect == Spec => []TypeOK
<1>1. Init => TypeOK
  BY DEF Init, TypeOK
<1>2. TypeOK /\ [Next]_dcvars => TypeOK'
  <2> SUFFICES ASSUME TypeOK, [Next]_dcvars PROVE TypeOK'
    OBVIOUS
  <2>1. ASSUME NEW c \in DeviceCalls,
               EmitDeviceFunctionCall(c.name, c.params, c.ret, c.attrs)
        PROVE TypeOK'
    <3> DEFINE t == Signature(c.params, c.ret)
    <3>1. /\ t \in Sig
          /\ c.name \in Names
          /\ c.attrs \subseteq Attributes
      BY <2>1, EmitDeviceFunctionCallCases
    <3>2. irstate' \in {"ok", "crashed"}
      BY <2>1 DEF EmitDeviceFunctionCall
    <3>3. CASE /\ decls' = [decls EXCEPT ![c.name] = t]
               /\ fnattrs' = [fnattrs EXCEPT ![c.name] = @ \cup c.attrs]
               /\ calls' = Append(calls, [callee |-> c.name, type |-> t, direct |-> TRUE,
                                           attrs |-> c.attrs])
      BY <3>1, <3>2, <3>3 DEF TypeOK, CallRecord
    <3>4. CASE UNCHANGED <<decls, fnattrs, calls>>
      BY <3>2, <3>4 DEF TypeOK
    <3>5. QED
      BY <2>1, <3>3, <3>4, EmitDeviceFunctionCallCases
  <2>2. ASSUME NEW a \in PrintfArgs, EmitPrintf(a)
        PROVE TypeOK'
    <3> DEFINE t == Signature(<<"i8*", ArgumentsPtr(Len(calls) + 1, a)>>, "S32")
               rec == [callee |-> VPrintf, type |-> t,
                       direct |-> decls[VPrintf] \in {NoDecl, t}, attrs |-> {}]
    <3>1. /\ t \in Sig
          /\ decls' = IF decls[VPrintf] = NoDecl THEN [decls EXCEPT ![VPrintf] = t]
                                                ELSE decls
          /\ calls' = Append(calls, rec)
          /\ UNCHANGED <<fnattrs, irstate>>
      BY <2>2, EmitPrintfStep
    <3>2. decls' \in [Names -> Sig \cup {NoDecl}]
      BY <3>1 DEF TypeOK
    <3>3. rec \in CallRecord
      <4>1. (decls[VPrintf] \in {NoDecl, t}) \in BOOLEAN
        OBVIOUS
      <4>2. VPrintf \in Names /\ {} \in SUBSET Attributes
        OBVIOUS
      <4>3. QED
        BY <3>1, <4>1, <4>2 DEF CallRecord
    <3>4. calls' \in Seq(CallRecord)
      BY <3>1, <3>3 DEF TypeOK
    <3>5. QED
      BY <3>1, <3>2, <3>4 DEF TypeOK
  <2>3. CASE UNCHANGED dcvars
    BY <2>3 DEF dcvars, TypeOK
  <2>4. QED
    BY <2>1, <2>2, <2>3 DEF Next
<1>3. QED
  BY <1>1, <1>2, PTL DEF Spec

(***************************************************************************)
(* CallsWellFormed for every instance: every emitted call targets a        *)
(* declared function, and a call of the declaration itself has its type.   *)
(* It is inductive together with TypeOK, because declarations are never   *)
(* changed and a new call is direct only when its type is the declared one.*)
(***************************************************************************)
THEOREM CallsAlwaysWellFormed == Spec => []CallsWellFormed
<1>1. Init => CallsWellFormed
  BY DEF Init, CallsWellFormed
<1>2. TypeOK /\ CallsWellFormed /\ [Next]_dcvars => CallsWellFormed'
  <2> SUFFICES ASSUME TypeOK, CallsWellFormed, [Next]_dcvars
               PROVE  CallsWellFormed'
    OBVIOUS
  <2>1. ASSUME NEW c \in DeviceCalls,
               EmitDeviceFunctionCall(c.name, c.params, c.ret, c.attrs)
        PROVE CallsWellFormed'
    <3> DEFINE t == Signature(c.params, c.ret)
    <3>1. t \in Sig /\ c.name \in Names
      BY <2>1, EmitDeviceFunctionCallCases
    <3>2. CASE /\ decls[c.name] \in {NoDecl, t}
               /\ decls' = [decls EXCEPT ![c.name] = t]
               /\ calls' = Append(calls, [callee |-> c.name, type |-> t, direct |-> TRUE,
                                           attrs |-> c.attrs])
      <4>1. \A n \in Names : decls[n] # NoDecl => decls'[n] = decls[n]
        BY <3>1, <3>2 DEF TypeOK
      <4>2. decls'[c.name] = t /\ t # NoDecl
        BY <3>1, <3>2 DEF TypeOK
      <4>3. ASSUME NEW k \in 1 .. Len(calls')
            PROVE  /\ decls'[calls'[k].callee] # NoDecl
                   /\ calls'[k].direct => decls'[calls'[k].callee] = calls'[k].type
        <5>1. CASE k \in 1 .. Len(calls)
          BY <3>2, <4>1, <5>1 DEF CallsWellFormed, TypeOK
        <5>2. CASE k = Len(calls) + 1
          BY <3>2, <4>2, <5>2 DEF TypeOK
        <5>3. QED
          BY <3>2, <5>1, <5>2 DEF TypeOK
      <4>4. QED
        BY <4>3 DEF CallsWellFormed
    <3>3. CASE UNCHANGED <<decls, fnattrs, calls>>
      BY <3>3 DEF CallsWellFormed
    <3>4. QED
      BY <2>1, <3>2, <3>3, EmitDeviceFunctionCallCases
  <2>2. ASSUME NEW a \in PrintfArgs, EmitPrintf(a)
        PROVE CallsWellFormed'
    <3> DEFINE t == Signature(<<"i8*", ArgumentsPtr(Len(calls) + 1, a)>>, "S32")
               rec == [callee |-> VPrintf, type |-> t,
                       direct |-> decls[VPrintf] \in {NoDecl, t}, attrs |-> {}]
    <3>1. /\ t \in Sig
          /\ decls' = IF decls[VPrintf] = NoDecl THEN [decls EXCEPT ![VPrintf] = t]
                                                ELSE decls
          /\ calls' = Append(calls, rec)
      BY <2>2, EmitPrintfStep
    <3>2. \A n \in Names : decls[n] # NoDecl => decls'[n] = decls[n]
      BY <3>1 DEF TypeOK
    <3>3. decls'[VPrintf] # NoDecl /\ (rec.direct => decls'[VPrintf] = t)
      BY <3>1 DEF TypeOK
    <3>4. ASSUME NEW k \in 1 .. Len(calls')
          PROVE  /\ decls'[calls'[k].callee] # NoDecl
                 /\ calls'[k].direct => decls'[calls'[k].callee] = calls'[k].type
      <4>1. CASE k \in 1 .. Len(calls)
        BY <3>1, <3>2, <4>1 DEF CallsWellFormed, TypeOK
      <4>2. CASE k = Len(calls) + 1
        BY <3>1, <3>3, <4>2 DEF TypeOK
      <4>3. QED
        BY <3>1, <4>1, <4>2 DEF TypeOK
    <3>5. QED
      BY <3>4 DEF CallsWellFormed
  <2>3. CASE UNCHANGED dcvars
    BY <2>3 DEF dcvars, CallsWellFormed
  <2>4. QED
    BY <2>1, <2>2, <2>3 DEF Next
<1>3. QED
  BY <1>1, <1>2, TypeCorrect, PTL DEF Spec

=============================================================================
