-------------------------- MODULE CoffeeChaincode --------------------------
(***************************************************************************)
(* The guest: the coffee chaincode of coffee_chaincode_wasm.c and the      *)
(* native imports of chaincode_native_functions.c it calls.                *)
(*                                                                         *)
(*   sc     chaincode_session_ctx, the context of the TA session, which    *)
(*          the native imports read and write                              *)
(*   wasm   the module instance: the chaincode's static variables, which   *)
(*          live in the linear memory from one step to the next            *)
(*                                                                         *)
(* The guest cannot block.  A native import that needs the ledger leaves a *)
(* request in sc and returns; the guest returns from step_resume, and the  *)
(* next step_resume picks the work up again by fsm_state.                  *)
(*                                                                         *)
(* The steps below are relations between a context s and an instance w,    *)
(* the values the TA hands to the guest, and sc' and wasm', the values the *)
(* guest leaves behind.                                                    *)
(***************************************************************************)
EXTENDS ChaincodeTypes

VARIABLES sc, wasm

guestVars == <<sc, wasm>>

SessionCtx ==
    [args        : Args,
     pending     : {NONE, GET_STATE_REQUEST, PUT_STATE_REQUEST},
     key         : AnyKey,
     value       : Value,
     out         : BOOLEAN,     \* wasm_out_offset/len point at g_cur_val
     response    : Response,
     hasResponse : BOOLEAN,
     runtime     : BOOLEAN]     \* runtime # NULL

ZeroCtx ==
    [args |-> ZeroArgs, pending |-> NONE, key |-> EmptyKey, value |-> Empty,
     out |-> FALSE, response |-> Say(""), hasResponse |-> FALSE, runtime |-> FALSE]

(***************************************************************************)
(* "none" is no instance, "dead" that of a TA that has panicked.  Besides  *)
(* the coffee chaincode the proxy may be told to run any file of its       *)
(* directory: "blank" is a module whose step_resume returns the empty      *)
(* response, "oob" one whose step_resume traps out of bounds before it     *)
(* asks for anything.                                                      *)
(***************************************************************************)
GuestImage == {"coffee", "blank", "oob"}
Op         == {"NONE", "CREATE", "ADD", "QUERY"}
FsmState   == {0, 11, 12, 21, 22, 31}

Instance ==
    [image  : GuestImage \union {"none", "dead"},
     fn     : FunctionName,     \* g_function
     op     : Op,               \* current_op
     fsm    : FsmState,         \* fsm_state
     person : AnyKey,           \* g_person
     arg1   : Value,            \* g_arg1
     cur    : Value]            \* g_cur_val

Instantiate(image) ==
    [image |-> image, fn |-> "", op |-> "NONE", fsm |-> 0,
     person |-> EmptyKey, arg1 |-> Empty, cur |-> Empty]

NoInstance == Instantiate("none")

-----------------------------------------------------------------------------
(***************************************************************************)
(* The native imports, as functions of the session context.                *)
(***************************************************************************)
CcGetState(s, k) ==
    [s EXCEPT !.key = k, !.pending = GET_STATE_REQUEST, !.out = TRUE]

\* What cc_get_state returns is the length of the key, which only its sign
\* matters for: it is positive for every key but the empty one.
CcGetStateIsPositive(k) == k # EmptyKey

CcPutState(s, k, v) ==
    [s EXCEPT !.key = k, !.value = v, !.pending = PUT_STATE_REQUEST, !.out = FALSE]

CcReturnResponse(s, r) == [s EXCEPT !.response = r, !.hasResponse = TRUE]

-----------------------------------------------------------------------------
(***************************************************************************)
(* s_atoul reads a string without leading digits as 0; s_ultoa prints the  *)
(* sum of two unsigned longs, which wraps around.                          *)
(***************************************************************************)
Atoul(v)      == IF v >= 0 THEN v ELSE 0

\* Mutant: the sum in a type wide enough to hold it.
AddWidens(a, b) == Atoul(a) + Atoul(b)

AddWraps(a, b) == (Atoul(a) + Atoul(b)) % Modulus

\* Mutant: fsm_state is reset, current_op is not.
FinishKeepsOp(w) == [w EXCEPT !.fsm = 0]

\* fsm_state = 0; current_op = OP_NONE
Finish(w) == [w EXCEPT !.fsm = 0, !.op = "NONE"]

DoCreateInit(s, w) ==
    /\ sc'   = CcGetState(s, s.args.key)
    /\ wasm' = [w EXCEPT !.op = "CREATE", !.person = s.args.key,
                         !.arg1 = s.args.val, !.cur = Empty,
                         !.fsm = IF CcGetStateIsPositive(s.args.key) THEN 11 ELSE @]

\* Mutant: create does not look at what it has read.
DoCreateResumeBlindly(s, w) ==
    \/ /\ w.fsm = 11
       /\ sc'   = CcPutState(s, w.person, w.arg1)
       /\ wasm' = [w EXCEPT !.fsm = 12]
    \/ /\ w.fsm = 12
       /\ sc'   = CcReturnResponse(s, Say("OK"))
       /\ wasm' = Finish(w)
    \/ /\ w.fsm = 0
       /\ sc' = s /\ wasm' = w

DoCreateResume(s, w) ==
    \/ /\ w.fsm = 11 /\ w.cur # Empty
       /\ sc'   = CcReturnResponse(s, Say("EXIST"))
       /\ wasm' = Finish(w)
    \/ /\ w.fsm = 11 /\ w.cur = Empty
       /\ sc'   = CcPutState(s, w.person, w.arg1)
       /\ wasm' = [w EXCEPT !.fsm = 12]
    \/ /\ w.fsm = 12
       /\ sc'   = CcReturnResponse(s, Say("OK"))
       /\ wasm' = Finish(w)
    \/ /\ w.fsm = 0             \* neither test of fsm_state applies
       /\ sc' = s /\ wasm' = w

\* Mutant: g_cur_val is not cleared.
DoAddInitDirty(s, w) ==
    /\ sc'   = CcGetState(s, s.args.key)
    /\ wasm' = [w EXCEPT !.op = "ADD", !.person = s.args.key,
                         !.arg1 = s.args.val, !.fsm = 21]

DoAddInit(s, w) ==
    /\ sc'   = CcGetState(s, s.args.key)
    /\ wasm' = [w EXCEPT !.op = "ADD", !.person = s.args.key,
                         !.arg1 = s.args.val, !.cur = Empty, !.fsm = 21]

DoAddResume(s, w) ==
    \/ /\ w.fsm = 21 /\ w.cur = Empty
       /\ sc'   = CcReturnResponse(s, Say("EMPTY"))
       /\ wasm' = Finish(w)
    \/ /\ w.fsm = 21 /\ w.cur # Empty
       /\ sc'   = CcPutState(s, w.person, AddWraps(w.cur, w.arg1))
       /\ wasm' = [w EXCEPT !.fsm = 22]
    \/ /\ w.fsm = 22
       /\ sc'   = CcReturnResponse(s, Say("OK"))
       /\ wasm' = Finish(w)

\* Mutant: g_cur_val is not cleared.
DoQueryInitDirty(s, w) ==
    /\ sc'   = CcGetState(s, s.args.key)
    /\ wasm' = [w EXCEPT !.op = "QUERY", !.person = s.args.key, !.fsm = 31]

DoQueryInit(s, w) ==
    /\ sc'   = CcGetState(s, s.args.key)
    /\ wasm' = [w EXCEPT !.op = "QUERY", !.person = s.args.key,
                         !.cur = Empty, !.fsm = 31]

DoQueryResume(s, w) ==
    /\ w.fsm = 31
    /\ sc'   = CcReturnResponse(s, IF w.cur = Empty THEN Say("NOTFOUND")
                                                    ELSE SayValue(w.cur))
    /\ wasm' = Finish(w)

\* cc_get_function is called only while no operation runs and g_function is
\* still empty: the first name the instance reads stays for its lifetime.
FetchFunction(s, w) ==
    IF w.op = "NONE" /\ w.fn = "" THEN [w EXCEPT !.fn = s.args.fn] ELSE w

CoffeeStep(s, w) ==
    \/ w.op = "NONE" /\ w.fn = "create" /\ DoCreateInit(s, w)
    \/ w.op = "NONE" /\ w.fn = "add"    /\ DoAddInit(s, w)
    \/ w.op = "NONE" /\ w.fn = "query"  /\ DoQueryInit(s, w)
    \/ /\ w.op = "NONE" /\ w.fn \in {"other", ""}
       /\ sc' = CcReturnResponse(s, Say("ERROR"))
       /\ wasm' = w
    \/ w.op = "CREATE" /\ DoCreateResume(s, w)
    \/ w.op = "ADD"    /\ DoAddResume(s, w)
    \/ w.op = "QUERY"  /\ DoQueryResume(s, w)

(***************************************************************************)
(* step_resume of the instance w: the coffee chaincode's, or that of       *)
(* another module.                                                         *)
(***************************************************************************)
StepResume(s, w) ==
    \/ w.image = "coffee" /\ CoffeeStep(s, FetchFunction(s, w))
    \/ w.image = "blank"  /\ sc' = CcReturnResponse(s, Say("")) /\ wasm' = w
    \/ w.image = "oob"    /\ sc' = s /\ wasm' = w
=============================================================================
