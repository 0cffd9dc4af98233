----------------------------- MODULE WrapperTA -----------------------------
(***************************************************************************)
(* The trusted application wrapper_ta (ta/main.c, ta/wasm.c): the command  *)
(* handlers of TA_InvokeCommandEntryPoint around the guest.                *)
(*                                                                         *)
(* The TA is not single-instance (TA_FLAGS), so every session runs in an   *)
(* instance of its own, with its own globals and its own TA_DATA_SIZE of   *)
(* memory.  The variables describe the instance of the session that is     *)
(* open; a handler runs to its end before the next one starts, because     *)
(* OP-TEE serialises the commands of a session.                            *)
(*                                                                         *)
(*   heapSize   the global heap_size, 0 until COMMAND_CONFIGURE_HEAP       *)
(*   heapUsed   how much of TA_DATA_SIZE the session's TEE_Mallocs hold;   *)
(*              no handler frees anything                                  *)
(*   op         for each calling thread, its TEEC_Operation                *)
(***************************************************************************)
EXTENDS CoffeeChaincode

CONSTANTS
    TaDataSize,     \* TA_DATA_SIZE
    HeapSize,       \* the heap the proxy configures
    ImageSize       \* the size of each module file the proxy can load

Image == GuestImage \union {"corrupt", "huge"}

ASSUME SizeAssumption ==
    /\ TaDataSize \in Nat
    /\ HeapSize   \in 1 .. TaDataSize
    /\ ImageSize  \in [Image -> Nat \ {0}]

\* A heap of which the TA's memory has no room for a second one.
LargeHeap(size) == 2 * size > TaDataSize

\* The proxy's heap is 10 MB in 12 MB of TA data.
ASSUME OneRuntimeFits == LargeHeap(HeapSize)

VARIABLES heapSize, heapUsed, op

taVars == <<sc, wasm, heapSize, heapUsed, op>>

TaTypeOK ==
    /\ sc       \in SessionCtx
    /\ wasm     \in Instance
    /\ heapSize \in Nat
    /\ heapUsed \in 0 .. TaDataSize
    /\ op       \in [Caller -> Operation]

\* A fresh instance of the TA: TA_OpenSessionEntryPoint has allocated and
\* zeroed the session context.
FreshSession ==
    /\ sc' = ZeroCtx /\ wasm' = NoInstance
    /\ heapSize' = 0 /\ heapUsed' = 0

TaInit ==
    /\ sc = ZeroCtx /\ wasm = NoInstance
    /\ heapSize = 0 /\ heapUsed = 0
    /\ op = [c \in Caller |-> ZeroOp]

-----------------------------------------------------------------------------
\* The command returns to its caller.  The buffer of a failed command still
\* holds what the caller put there; nobody reads it again, so it is zero here.
Return(c, res, type, buf) == op' = [op EXCEPT ![c] = [res |-> res, type |-> type, buf |-> buf]]

(***************************************************************************)
(* What the handler hands back after a step of the guest: the request the  *)
(* guest has left, else its response.                                      *)
(***************************************************************************)
FinalResponse(s) ==
    IF ~s.hasResponse               THEN Say("NO_RESPONSE")
    ELSE IF s.response = Say("")    THEN Say("EMPTY_RESPONSE")
    ELSE                                 s.response

ReturnRequest(c, s) ==
    \/ /\ s.pending = GET_STATE_REQUEST
       /\ Return(c, SUCCESS, GET_STATE_REQUEST, KeyBuf(s.key))
    \/ /\ s.pending = PUT_STATE_REQUEST
       /\ Return(c, SUCCESS, PUT_STATE_REQUEST, KeyValueBuf(s.key, s.value))
    \/ /\ s.pending = NONE
       /\ Return(c, SUCCESS, INVOCATION_RESPONSE, ResponseBuf(FinalResponse(s)))

(***************************************************************************)
(* process_hostcall_flow.  call_step fails when the function is missing,   *)
(* no exec_env can be created (each step creates one and destroys it), or  *)
(* the guest traps.  A trap out of bounds or on a null pointer counts as   *)
(* success: image "oob".  A failure is reported as an ordinary invocation  *)
(* response, with TEE_SUCCESS.                                             *)
(***************************************************************************)
StepFails(c, s, w) ==
    /\ sc' = s /\ wasm' = w
    /\ Return(c, SUCCESS, INVOCATION_RESPONSE, ResponseBuf(Say("RUNTIME_ERROR")))

ProcessHostcallFlow(c, s, w) ==
    \/ StepFails(c, s, w)
    \/ StepResume(s, w) /\ ReturnRequest(c, sc')

-----------------------------------------------------------------------------
\* The TA has panicked: OP-TEE answers for it, until the session is closed.
Panicked == wasm.image = "dead"

TargetDead(c) == Return(c, TARGET_DEAD, op[c].type, ZeroBuf)

\* COMMAND_CONFIGURE_HEAP stores whatever size the host sends.
ConfigureHeap(size) ==
    /\ ~Panicked
    /\ heapSize' = size
    /\ UNCHANGED <<sc, wasm, heapUsed, op>>

(***************************************************************************)
(* COMMAND_RUN_WASM of thread c with a module file and the arguments a of  *)
(* its buffer, which replace the session's before anything can fail.       *)
(* Both blocks are allocated before either is tested, and stay allocated   *)
(* when the command fails.                                                 *)
(***************************************************************************)
Malloc(used, size)      == IF used + size <= TaDataSize THEN used + size ELSE used
MallocFails(used, size) == used + size > TaDataSize

RunAllocates(img) == heapUsed' = Malloc(Malloc(heapUsed, heapSize), ImageSize[img])

\* Mutant: only the second block is tested.
RunOutOfImageMemory(img) == MallocFails(Malloc(heapUsed, heapSize), ImageSize[img])

RunOutOfMemory(img) ==
    \/ MallocFails(heapUsed, heapSize)
    \/ MallocFails(Malloc(heapUsed, heapSize), ImageSize[img])

WithArgs(a) == [sc EXCEPT !.args = a]

\* Mutant: runtime_ctx is zeroed before the two blocks are tested.
RunZeroesFirst(c, img, a) ==
    /\ RunOutOfMemory(img)
    /\ sc' = WithArgs(a) /\ wasm' = NoInstance
    /\ Return(c, OUT_OF_MEMORY, INVOCATION_RESPONSE, ZeroBuf)

RunFailsMalloc(c, img, a) ==
    /\ RunOutOfMemory(img)
    /\ sc' = WithArgs(a) /\ wasm' = wasm
    /\ Return(c, OUT_OF_MEMORY, INVOCATION_RESPONSE, ZeroBuf)

\* TA_InitializeWamrRuntime fails: a pool that is too small for the module
\* (the proxy's is not), or a file that does not load.  The one static
\* runtime_ctx has been zeroed already, whoever was using it.
RunFailsInit(c, img, a) ==
    /\ ~RunOutOfMemory(img)
    /\ heapSize < HeapSize \/ img \notin GuestImage
    /\ sc' = WithArgs(a) /\ wasm' = NoInstance
    /\ Return(c, GENERIC, INVOCATION_RESPONSE, ZeroBuf)

RunInitialised(img) == ~RunOutOfMemory(img) /\ heapSize > 0 /\ img \in GuestImage

Initialised(a) == [WithArgs(a) EXCEPT !.runtime = TRUE]

\* step_init fails (missing, or it traps): an error response is written, but
\* the command returns an error too.
RunFailsStepInit(c, img, a) ==
    /\ RunInitialised(img)
    /\ sc' = Initialised(a) /\ wasm' = Instantiate(img)
    /\ Return(c, GENERIC, INVOCATION_RESPONSE, ResponseBuf(Say("STEP_INIT_FAILED")))

RunStarts(c, img, a) ==
    /\ RunInitialised(img)
    /\ ProcessHostcallFlow(c, Initialised(a), Instantiate(img))

RunWasm(c, img, a) ==
    /\ \/ /\ ~Panicked
          /\ \/ RunFailsMalloc(c, img, a)
             \/ RunFailsInit(c, img, a)
             \/ RunFailsStepInit(c, img, a)
             \/ RunStarts(c, img, a)
          /\ RunAllocates(img)
       \/ Panicked /\ TargetDead(c) /\ UNCHANGED <<sc, wasm, heapUsed>>
    /\ UNCHANGED heapSize

(***************************************************************************)
(* COMMAND_RESUME_WASM of thread c with the answer v in the value field of *)
(* its buffer.  Only an answer to a pending GET is looked at: its value is *)
(* copied into the guest's buffer, unless it is empty.                     *)
(***************************************************************************)
CopyAnswer(v) ==
    IF sc.pending = GET_STATE_REQUEST /\ sc.out /\ v # Empty
    THEN [wasm EXCEPT !.cur = v] ELSE wasm

ClearPending == IF sc.pending = GET_STATE_REQUEST
                THEN [sc EXCEPT !.pending = NONE, !.out = FALSE]
                ELSE [sc EXCEPT !.pending = NONE]

ResumeWithoutRuntime(c) ==
    /\ ~sc.runtime
    /\ Return(c, GENERIC, op[c].type, ZeroBuf)
    /\ UNCHANGED guestVars

\* A step of a zeroed runtime_ctx dereferences a null module_inst.
ResumePanics(c) ==
    /\ sc.runtime /\ wasm.image \notin GuestImage
    /\ wasm' = Instantiate("dead") /\ UNCHANGED sc
    /\ TargetDead(c)

ResumeWasm(c, v) ==
    /\ \/ ResumeWithoutRuntime(c)
       \/ ResumePanics(c)
       \/ /\ sc.runtime /\ wasm.image \in GuestImage
          /\ ProcessHostcallFlow(c, ClearPending, CopyAnswer(v))
    /\ UNCHANGED <<heapSize, heapUsed>>
=============================================================================
