----------------------------- MODULE DeviceCall -----------------------------
(***************************************************************************)
(* The device-call builder of ir_emission_utils.cc: EmitDeviceFunctionCall *)
(* and EmitPrintf.  Both look a function up by name in the LLVM module     *)
(* with getOrInsertFunction and emit a call to it.  The state is the part  *)
(* of the (externally owned) llvm::Module and instruction stream these two *)
(* functions change: the declaration table, the function attributes and    *)
(* the sequence of emitted call instructions.  Types are abstracted to the *)
(* names of XLA primitive types; a signature is a record of parameter      *)
(* types and return type.  The argument struct of a printf is an           *)
(* identified struct, equal to no other type: it is named by the position  *)
(* of the call that created it.                                            *)
(***************************************************************************)
EXTENDS Naturals, Sequences

CONSTANTS
    Names,        \* function names a caller may pass as callee_name
    IRTypes,      \* the llvm::Type of each XLA primitive type, by name
    Attributes,   \* llvm::Attribute::AttrKind values
    NoDecl,       \* marks a name the module does not declare yet
    MaxCalls,     \* bound on the number of call instructions emitted
    DeviceCalls,  \* the EmitDeviceFunctionCall sites: name, types, attributes
    PrintfArgs    \* the argument type lists of the EmitPrintf sites

\* The name of the printf routine of the device runtime (EmitPrintf).
VPrintf == "vprintf"

ASSUME MaxCallsAssumption == MaxCalls \in Nat
ASSUME IRTypesAssumption == {"S32", "i8*"} \subseteq IRTypes
ASSUME NamesAssumption == VPrintf \in Names
ASSUME DeviceCallsAssumption ==
    DeviceCalls \subseteq [name : Names, params : Seq(IRTypes), ret : IRTypes,
                           attrs : SUBSET Attributes]
ASSUME PrintfArgsAssumption == PrintfArgs \subseteq Seq(IRTypes)

(* The llvm::FunctionType built from XLA primitive types: non-variadic,   *)
(* parameter types in order, then the return type.                        *)
Signature(inputTypes, outputType) == [params |-> inputTypes, ret |-> outputType]

(* The pointer to the struct StructType::create (line 210) makes for the  *)
(* k-th call instruction: a new type each time, whatever its elements.     *)
ArgumentsPtr(k, argumentTypes) == <<"struct*", k, argumentTypes>>

\* The signatures the call sites can ask for.
Sig == [params : Seq(IRTypes) \cup
                 {<<"i8*", ArgumentsPtr(k, a)>> : k \in 1 .. MaxCalls, a \in PrintfArgs},
        ret : IRTypes]

ASSUME NoDeclAssumption == NoDecl \notin Sig

VARIABLES
    decls,     \* name -> signature of the declared function, or NoDecl
    fnattrs,   \* name -> set of function attributes attached so far
    calls,     \* the call instructions emitted, in program order
    irstate    \* "ok", or "crashed" once a null callee was dereferenced

dcvars == <<decls, fnattrs, calls, irstate>>

Init ==
    /\ decls = [n \in Names |-> NoDecl]
    /\ fnattrs = [n \in Names |-> {}]
    /\ calls = <<>>
    /\ irstate = "ok"

\* Mutant: the callee declared afresh with the requested type every time.
EmitDeviceFunctionCallRedeclare(name, inputTypes, outputType, attrs) ==
    LET t == Signature(inputTypes, outputType) IN
    /\ irstate = "ok"
    /\ Len(calls) < MaxCalls
    /\ decls' = [decls EXCEPT ![name] = t]
    /\ fnattrs' = [fnattrs EXCEPT ![name] = @ \cup attrs]
    /\ calls' = Append(calls, [callee |-> name, type |-> t, direct |-> TRUE, attrs |-> attrs])
    /\ irstate' = "ok"

(***************************************************************************)
(* EmitDeviceFunctionCall (lines 171-198).  getOrInsertFunction returns    *)
(* the declaration when the name is free or declared with the same type;   *)
(* when it is declared with another type it returns a bitcast constant,    *)
(* dyn_cast<llvm::Function> of which is null, and the next use of callee   *)
(* (addFnAttr, or CreateCall when there are no attributes) dereferences    *)
(* it.                                                                     *)
(***************************************************************************)
EmitDeviceFunctionCall(name, inputTypes, outputType, attrs) ==
    LET t == Signature(inputTypes, outputType) IN
    /\ irstate = "ok"
    /\ Len(calls) < MaxCalls
    /\ \/ /\ decls[name] \in {NoDecl, t}
          /\ decls' = [decls EXCEPT ![name] = t]
          /\ fnattrs' = [fnattrs EXCEPT ![name] = @ \cup attrs]
          /\ calls' = Append(calls, [callee |-> name, type |-> t, direct |-> TRUE, attrs |-> attrs])
          /\ irstate' = "ok"
       \/ /\ decls[name] \notin {NoDecl, t}
          /\ irstate' = "crashed"
          /\ UNCHANGED <<decls, fnattrs, calls>>

(***************************************************************************)
(* EmitPrintf (lines 203-227).  The callee type is                         *)
(* "i32 vprintf(i8 ptr, arguments_type ptr)" where arguments_type is the  *)
(* new struct StructType::create makes, so no two printfs ask for the same *)
(* type, not even with the same arguments.  getOrInsertFunction declares  *)
(* vprintf with the type of the first one and gives every later one a      *)
(* bitcast of that declaration, which CreateCall calls as it is: never a   *)
(* null dereference.  The stack buffer and the stores into it are data and *)
(* are left out.                                                           *)
(***************************************************************************)
EmitPrintf(argumentTypes) ==
    LET t == Signature(<<"i8*", ArgumentsPtr(Len(calls) + 1, argumentTypes)>>, "S32") IN
    /\ irstate = "ok"
    /\ Len(calls) < MaxCalls
    /\ decls' = IF decls[VPrintf] = NoDecl
                THEN [decls EXCEPT ![VPrintf] = t]
                ELSE decls
    /\ calls' = Append(calls, [callee |-> VPrintf, type |-> t,
                               direct |-> decls[VPrintf] \in {NoDecl, t}, attrs |-> {}])
    /\ UNCHANGED <<fnattrs, irstate>>

(* The module under construction is driven by call sites of both kinds,   *)
(* in any order: the code generator emits kernels node after node.        *)
Next ==
    \/ \E c \in DeviceCalls :
          EmitDeviceFunctionCall(c.name, c.params, c.ret, c.attrs)
    \/ \E a \in PrintfArgs : EmitPrintf(a)

Spec == Init /\ [][Next]_dcvars

-----------------------------------------------------------------------------

\* A call instruction: its callee, its type, whether its callee operand is
\* the declaration itself rather than a bitcast of it, and the attributes
\* its call site passed.
CallRecord == [callee : Names, type : Sig, direct : BOOLEAN, attrs : SUBSET Attributes]

TypeOK ==
    /\ decls \in [Names -> Sig \cup {NoDecl}]
    /\ fnattrs \in [Names -> SUBSET Attributes]
    /\ calls \in Seq(CallRecord)
    /\ irstate \in {"ok", "crashed"}

(***************************************************************************)
DeclarationStable ==
    [][\A n \in Names : decls[n] # NoDecl => decls'[n] = decls[n]]_dcvars

(***************************************************************************)
(* Every call instruction emitted so far targets a declared function, and  *)
(* a call of the declaration itself has exactly the type of that           *)
(* declaration, including the calls emitted before later declarations and *)
(* later call sites changed the module.                                    *)
(***************************************************************************)
CallsWellFormed ==
    \A k \in 1 .. Len(calls) :
        /\ decls[calls[k].callee] # NoDecl
        /\ calls[k].direct => decls[calls[k].callee] = calls[k].type

(***************************************************************************)
CallAttributesKept ==
    \A k \in 1 .. Len(calls) : calls[k].attrs \subseteq fnattrs[calls[k].callee]

(***************************************************************************)
(* EmitDeviceFunctionCall never dereferences a null callee: every call     *)
(* site either finds no declaration or one with the signature it asks for.*)
(***************************************************************************)
NoNullCallee == irstate = "ok"


(***************************************************************************)
(* Spec 4.8: the device print routine has a fixed signature and is called  *)
(* with it.  Every vprintf call made by EmitPrintf calls the declaration   *)
(* itself, with the type it was declared with, not a bitcast of it.        *)
(***************************************************************************)
PrintfCallsDirect ==
    \A k \in 1 .. Len(calls) : calls[k].callee = VPrintf => calls[k].direct

=============================================================================
