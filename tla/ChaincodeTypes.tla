--------------------------- MODULE ChaincodeTypes ---------------------------
(***************************************************************************)
(* The data that crosses the borders of the system: the structures of      *)
(* chaincode_tee_ree_communication.h, which the proxy (normal world) and   *)
(* the TA (secure world) share, and the strings they carry.                *)
(*                                                                         *)
(* Strings are abstracted to what the program tells apart.  A ledger value *)
(* is an integer: Empty is the empty string (a key that is absent from the *)
(* ledger reads as the empty string), n >= 0 is the decimal numeral that   *)
(* s_ultoa prints for the unsigned long n, and Word is a non-empty string  *)
(* that does not begin with a digit (s_atoul reads it as 0).               *)
(***************************************************************************)
EXTENDS Integers

CONSTANTS
    Caller,     \* the invocations; each has its own thread in the proxy
    Key,        \* the non-empty ledger keys
    EmptyKey,   \* the empty string where a key is expected
    Modulus     \* unsigned long is 32 bits wide in wasm32: Modulus = 2^32

ASSUME KeyAssumption     == EmptyKey \notin Key
ASSUME ModulusAssumption == Modulus \in Nat \ {0}

Empty == -1
Word  == -2

AnyKey == Key \union {EmptyKey}
Value  == {Empty, Word} \union 0 .. (Modulus - 1)

(***************************************************************************)
(* The type word of params[1] and pending_type of the session context.     *)
(* NONE is pending_type 0, no host request pending.                        *)
(***************************************************************************)
NONE                == "NONE"
INVOCATION_RESPONSE == "INVOCATION_RESPONSE"
GET_STATE_REQUEST   == "GET_STATE_REQUEST"
PUT_STATE_REQUEST   == "PUT_STATE_REQUEST"

(***************************************************************************)
(* arguments[0] is the function, arguments[1] and arguments[2] the two     *)
(* arguments the coffee chaincode reads.  "other" is any name that is not  *)
(* a function of the chaincode, "" the empty name.                         *)
(***************************************************************************)
FunctionName == {"create", "add", "query", "other", ""}
Args         == [fn : FunctionName, key : AnyKey, val : Value]
ZeroArgs     == [fn |-> "", key |-> EmptyKey, val |-> Empty]

(***************************************************************************)
(* An execution response: a fixed word of the chaincode or of the TA, or   *)
(* the text of a ledger value (tag "VALUE").                               *)
(***************************************************************************)
ResponseTag == {"", "EXIST", "OK", "EMPTY", "NOTFOUND", "ERROR", "VALUE",
                "NO_RESPONSE", "EMPTY_RESPONSE", "RUNTIME_ERROR",
                "STEP_INIT_FAILED"}
Response    == [tag : ResponseTag, val : Value]
Say(tag)    == [tag |-> tag, val |-> Empty]
SayValue(v) == [tag |-> "VALUE", val |-> v]

(***************************************************************************)
(* The buffer params[2] points to, as the TA leaves it.  The structures    *)
(* overlay one another and every writer clears the buffer first, so at     *)
(* most one of them is non-zero.  What the proxy puts into the buffer      *)
(* before a command (the arguments, or the value of an answer; an          *)
(* acknowledgement lies over the key field and leaves the value field      *)
(* zero) is a parameter of the command instead.                            *)
(***************************************************************************)
Buffer  == [key : AnyKey, value : Value, resp : Response]
ZeroBuf == [key |-> EmptyKey, value |-> Empty, resp |-> Say("")]

KeyBuf(k)         == [ZeroBuf EXCEPT !.key = k]
KeyValueBuf(k, v) == [ZeroBuf EXCEPT !.key = k, !.value = v]
ResponseBuf(r)    == [ZeroBuf EXCEPT !.resp = r]

(***************************************************************************)
(* A TEEC_Operation as the calling thread sees it after TEEC_InvokeCommand *)
(* returned: the result code, the type word params[1] (INVOCATION_RESPONSE *)
(* is the number 0, the value of a zeroed type word) and the buffer.       *)
(***************************************************************************)
SUCCESS       == "TEE_SUCCESS"
GENERIC       == "TEE_ERROR_GENERIC"
OUT_OF_MEMORY == "TEE_ERROR_OUT_OF_MEMORY"
TARGET_DEAD   == "TEE_ERROR_TARGET_DEAD"
\* Any error of the client library or the driver: the TA got no command.
COMMUNICATION == "TEEC_ERROR_COMMUNICATION"

ResultCode  == {SUCCESS, GENERIC, OUT_OF_MEMORY, TARGET_DEAD, COMMUNICATION}
RequestType == {INVOCATION_RESPONSE, GET_STATE_REQUEST, PUT_STATE_REQUEST}
Operation   == [res : ResultCode, type : RequestType, buf : Buffer]
ZeroOp      == [res |-> SUCCESS, type |-> INVOCATION_RESPONSE, buf |-> ZeroBuf]
=============================================================================
