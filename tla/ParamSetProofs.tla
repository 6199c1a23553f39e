--------------------------- MODULE ParamSetProofs ---------------------------
(***************************************************************************)
(* ParamSet for every number of clients, parameters and values: the values *)
(* are well typed, and a refused JS_PARAM_SET leaves no trace.             *)
(*                                                                         *)
(* RefusalLeavesNoTrace says nothing of a command that is being executed;  *)
(* the invariant adds that the copy js_param_set keeps is then what was    *)
(* agreed on last.                                                         *)
(***************************************************************************)
EXTENDS ParamSet, TLAPS

CopyIsAgreed ==
    users = Clients =>
        /\ Valid(agreed)
        /\ sender = None => para = agreed
        /\ sender # None => s_env = agreed
IInv == TypeOK /\ CopyIsAgreed

\* nbun and nshobun are parameters, so the defaults are valid.
LEMMA CheckedFields ==
    ASSUME FieldsAssumption
    PROVE  "nbun" \in Field /\ "nshobun" \in Field /\ Defaults \in Params /\ Valid(Defaults)
<1>1. "nbun" \in Field /\ "nshobun" \in Field
    BY DEF FieldsAssumption, Field
<1>2. Defaults \in Params
    BY DEF FieldsAssumption, Defaults, Params
<1>3. Valid(Defaults)
    BY <1>1 DEF Defaults, Valid
<1> QED
    BY <1>1, <1>2, <1>3

\* The invariant holds at the start.
LEMMA InitIInv ==
    ASSUME FieldsAssumption, Init
    PROVE  IInv
BY CheckedFields DEF Init, IInv, TypeOK, CopyIsAgreed, FieldsAssumption

\* One more value read from the client: a value of its own range, in its own place.
LEMMA StoredTyped ==
    ASSUME FieldsAssumption, NEW p \in Params, NEW q \in Params, NEW f \in Field
    PROVE  [p EXCEPT ![f] = q[f]] \in Params
BY DEF Params

\* Every step keeps the invariant.
LEMMA NextIInv ==
    ASSUME FieldsAssumption, IInv, [Next]_vars
    PROVE  IInv'
<1> USE DEF IInv
<1>1. ASSUME NEW c \in Clients, NEW p \in Params, js_param_set(c, p)
      PROVE  IInv'
    <2>1. TypeOK'
        BY <1>1 DEF js_param_set, TypeOK, FieldsAssumption
    <2>2. CopyIsAgreed'
        BY <1>1 DEF js_param_set, CopyIsAgreed, FieldsAssumption
    <2> QED
        BY <2>1, <2>2
<1>2. CASE get4_cur
    <2>1. Fields[got + 1] \in Field /\ got + 1 \in 0 .. Len(Fields)
        BY <1>2 DEF get4_cur, TypeOK, Field, FieldsAssumption
    <2>2. para' \in Params
        BY <1>2, <2>1, StoredTyped DEF get4_cur, TypeOK
    <2>3. TypeOK'
        BY <1>2, <2>1, <2>2 DEF get4_cur, TypeOK
    <2>4. CopyIsAgreed'
        BY <1>2 DEF get4_cur, CopyIsAgreed
    <2> QED
        BY <2>3, <2>4
<1>3. CASE refused
    <2>1. TypeOK'
        BY <1>3 DEF refused, TypeOK
    <2>2. CopyIsAgreed'
        BY <1>3 DEF refused, CopyIsAgreed
    <2> QED
        BY <2>1, <2>2
<1>4. CASE accepted
    <2>1. TypeOK'
        BY <1>4 DEF accepted, TypeOK
    <2>2. CopyIsAgreed'
        BY <1>4 DEF accepted, CopyIsAgreed
    <2> QED
        BY <2>1, <2>2
<1>5. CASE sender_dies
    <2>1. TypeOK'
        BY <1>5 DEF sender_dies, TypeOK
    \* A client less: the last property says nothing any more.
    <2>2. users' # Clients
        BY <1>5 DEF sender_dies, TypeOK
    <2> QED
        BY <2>1, <2>2 DEF CopyIsAgreed
<1>6. CASE UNCHANGED vars
    BY <1>6 DEF vars, TypeOK, CopyIsAgreed
<1> QED
    BY <1>1, <1>2, <1>3, <1>4, <1>5, <1>6 DEF Next

\* js_param_set, get4_cur, the test at the end and longjmp together.
LEMMA InvariantHolds ==
    ASSUME FieldsAssumption
    PROVE  Spec => []IInv
<1>1. Init => IInv
    BY InitIInv
<1>2. IInv /\ [Next]_vars => IInv'
    BY NextIInv
<1> QED
    BY <1>1, <1>2, PTL DEF Spec

(***************************************************************************)
(* Every parameter of the environment, of the copy and of the last set     *)
(* agreed on has a value of its range, and the sender is a client.         *)
(***************************************************************************)
THEOREM ParametersTyped ==
    ASSUME FieldsAssumption
    PROVE  Spec => []TypeOK
<1>1. IInv => TypeOK
    BY DEF IInv
<1> QED
    BY <1>1, InvariantHolds, PTL

(***************************************************************************)
(* js_param_set stores the parameters one by one and checks them at the    *)
(* end; if they are refused the environment is what it was, and between    *)
(* commands it has the parameters of the last set that was accepted, as    *)
(* long as no client died while it sent.                                   *)
(***************************************************************************)
THEOREM RefusedSetUndone ==
    ASSUME FieldsAssumption
    PROVE  Spec => []RefusalLeavesNoTrace
<1>1. IInv => RefusalLeavesNoTrace
    BY DEF IInv, CopyIsAgreed, RefusalLeavesNoTrace, ParamsWhole
<1> QED
    BY <1>1, InvariantHolds, PTL
=============================================================================
