----------------------------- MODULE TaSession -----------------------------
(***************************************************************************)
(* The TA under a host that keeps no protocol: any thread of the normal    *)
(* world may open a new session, configure a heap of any size, run any     *)
(* module with any arguments and resume with any answer, in any order and  *)
(* at any time.  This is what the TA has to live with when several gRPC    *)
(* handlers of the proxy share one session.                                *)
(*                                                                         *)
(* What the TA promises depends on one thing the host decides: in a        *)
(* session that was given a heap of at most half of the TA's memory, a     *)
(* second COMMAND_RUN_WASM succeeds and zeroes the runtime_ctx of the      *)
(* first.  The proxy never configures such a heap.                         *)
(*                                                                         *)
(*   asked    history: the key of the session's last GET_STATE request     *)
(*   got      history: the value of the answer to it (Empty before one)    *)
(*   small    history: the session has been given a heap that leaves room  *)
(*            for a second one                                             *)
(***************************************************************************)
EXTENDS WrapperTA

CONSTANTS
    HostArgs,       \* the argument structures the host may pass
    HostHeap        \* the heap sizes the host may configure

ASSUME HostArgsAssumption == HostArgs \subseteq Args
ASSUME HostHeapAssumption == HostHeap \subseteq Nat

VARIABLES asked, got, small

vars == <<sc, wasm, heapSize, heapUsed, op, asked, got, small>>

Init == TaInit /\ asked = EmptyKey /\ got = Empty /\ small = FALSE

(***************************************************************************)
(* The history follows the border of the TA: what it asked for, and what   *)
(* it was told in return.                                                  *)
(***************************************************************************)
RecordRequest(c) ==
    asked' = IF op'[c].res = SUCCESS /\ op'[c].type = GET_STATE_REQUEST
             THEN op'[c].buf.key ELSE asked

HostOpens ==
    /\ FreshSession /\ UNCHANGED op
    /\ asked' = EmptyKey /\ got' = Empty /\ small' = FALSE

HostConfigures(size) ==
    /\ ConfigureHeap(size)
    /\ small' = (small \/ ~LargeHeap(size))
    /\ UNCHANGED <<asked, got>>

HostRuns(c, img, a) == RunWasm(c, img, a) /\ RecordRequest(c) /\ UNCHANGED <<got, small>>

HostResumes(c, v) ==
    /\ ResumeWasm(c, v)
    /\ RecordRequest(c)
    /\ got' = IF sc.runtime /\ sc.pending = GET_STATE_REQUEST THEN v ELSE got
    /\ UNCHANGED small

Next ==
    \/ HostOpens
    \/ \E size \in HostHeap : HostConfigures(size)
    \/ \E c \in Caller, img \in Image, a \in HostArgs : HostRuns(c, img, a)
    \/ \E c \in Caller, v \in Value : HostResumes(c, v)

Spec == Init /\ [][Next]_vars

-----------------------------------------------------------------------------
(***************************************************************************)
(* Type correctness of the TA's globals, the session context, the guest's  *)
(* statics and the callers' operations.                                    *)
(***************************************************************************)
TypeOK == TaTypeOK /\ asked \in AnyKey /\ got \in Value /\ small \in BOOLEAN

(***************************************************************************)
(* Once a session has a runtime, its module instance exists: as long as    *)
(* every heap the host configures is larger than half of the TA's memory,  *)
(* no command of any caller leaves sc->runtime pointing at the static      *)
(* runtime_ctx after TEE_MemFill has zeroed it, so COMMAND_RESUME_WASM     *)
(* never steps a runtime without an instance.  (A smaller heap, before or  *)
(* after the runtime was started, is enough to make the TA panic.)         *)
(***************************************************************************)
RuntimeHasInstance == ~small /\ sc.runtime => wasm.image \in GuestImage

\* A create of the empty key waits for the ledger in fsm_state 0.
StuckCreate == wasm.op = "CREATE" /\ wasm.fsm = 0 /\ wasm.person = EmptyKey

(***************************************************************************)
(* Whatever request is pending, the guest knows how to go on from it: the  *)
(* pending_type the native import left, the out buffer registered with it, *)
(* and the guest's current_op and fsm_state agree.  The one operation that *)
(* cannot go on is a create of the empty key, which waits in fsm_state 0.  *)
(* (After a small heap a request of the replaced guest may be pending.)    *)
(***************************************************************************)
Continuation ==
    ~small =>
        /\ sc.out <=> sc.pending = GET_STATE_REQUEST
        /\ sc.pending = GET_STATE_REQUEST => wasm.fsm \in {11, 21, 31} \/ StuckCreate
        /\ sc.pending = PUT_STATE_REQUEST => wasm.fsm \in {12, 22}
        /\ wasm.op = "NONE"   => wasm.fsm = 0
        /\ wasm.op = "CREATE" => wasm.fsm \in {11, 12} \/ StuckCreate
        /\ wasm.op = "ADD"    => wasm.fsm \in {21, 22}
        /\ wasm.op = "QUERY"  => wasm.fsm = 31

(***************************************************************************)
(* A write leaves the TA only on the strength of a read of the same key:   *)
(* the pending PUT_STATE request is for the key the guest last asked for,  *)
(* a create writes only if the host answered with the empty value, and an  *)
(* add writes the answer plus its argument, modulo the word size.  Holds   *)
(* for any order of commands, failed steps and repeated resumes included,  *)
(* in a session without a small heap.                                      *)
(***************************************************************************)
PutFollowsGet ==
    ~small /\ sc.pending = PUT_STATE_REQUEST =>
        /\ sc.key = asked
        /\ \/ wasm.op = "CREATE" /\ got = Empty /\ sc.value = wasm.arg1
           \/ wasm.op = "ADD" /\ got # Empty /\ sc.value = AddWraps(got, wasm.arg1)

\* Within a session, only COMMAND_RUN_WASM allocates or replaces the arguments.
IsRun == heapUsed' > heapUsed \/ (sc'.runtime /\ sc'.args # sc.args)

(***************************************************************************)
(* A session runs one module: COMMAND_RUN_WASM in a session that already   *)
(* has a runtime changes neither the instance nor the pending request,     *)
(* only the arguments.  No check in the handler says so; it holds because  *)
(* a second heap does not fit into TA_DATA_SIZE, and so only as long as    *)
(* the host has configured no heap that would.                             *)
(***************************************************************************)
RunKeepsRuntime ==
    [][~small /\ sc.runtime /\ IsRun =>
          wasm' = wasm /\ sc' = [sc EXCEPT !.args = sc'.args]]_vars

(***************************************************************************)
(* What the caller is told follows from the host's answer to the read that *)
(* the operation made last, although the response and has_response are     *)
(* never reset, steps may fail and be repeated, and a finished operation   *)
(* starts again when it is resumed: a query returns that answer, the       *)
(* refusals EXIST, EMPTY and NOTFOUND are right about it, and OK means a   *)
(* create of an absent or an add to a present key.  The exception is the   *)
(* create of the empty key: it ends without a response of its own, and the *)
(* TA hands out the one before.  In a session without a small heap.        *)
(***************************************************************************)
AnswersFollowReads ==
    [][\A c \in Caller :
          LET r == op'[c].buf.resp
          IN  ~small /\ op'[c] # op[c] /\ ~StuckCreate' =>
                  /\ r.tag = "VALUE" => r.val = got' /\ sc'.key = asked'
                  /\ r.tag \in {"NOTFOUND", "EMPTY"} => got' = Empty
                  /\ r.tag = "EXIST" => got' # Empty
                  /\ r.tag = "OK" => (got' = Empty <=> wasm'.fn = "create")]_vars
=============================================================================
