-------------------------- MODULE WrapperTAProofs --------------------------
(***************************************************************************)
(* What the commands of the TA and the steps of its guest keep true,       *)
(* whoever calls them: the lemmas that the proofs about TaSession and      *)
(* about InvocationSystem share.                                           *)
(***************************************************************************)
EXTENDS WrapperTA, TLAPS

USE DEF NONE, GET_STATE_REQUEST, PUT_STATE_REQUEST, INVOCATION_RESPONSE

\* Numerals of sums are values again: the unsigned long addition wraps.
LEMMA AddWrapsType ==
    ASSUME NEW a \in Value, NEW b \in Value
    PROVE  AddWraps(a, b) \in Value
  BY ModulusAssumption DEF AddWraps, Atoul, Value, Empty, Word

\* Every native import returns a session context.
LEMMA NativeTypes ==
    ASSUME NEW s \in SessionCtx, NEW k \in AnyKey, NEW v \in Value, NEW r \in Response
    PROVE  /\ CcGetState(s, k) \in SessionCtx
           /\ CcPutState(s, k, v) \in SessionCtx
           /\ CcReturnResponse(s, r) \in SessionCtx
  BY DEF SessionCtx, CcGetState, CcPutState, CcReturnResponse

\* The words and values the chaincode and the TA answer with are responses.
LEMMA SayTypes ==
    /\ \A t \in ResponseTag : Say(t) \in Response
    /\ \A v \in Value : SayValue(v) \in Response
  BY DEF Say, SayValue, Response, ResponseTag, Value, Empty

\* What the TA writes into params[2] is a buffer.
LEMMA ZeroBufType == ZeroBuf \in Buffer /\ ZeroBuf.resp = Say("") /\ Say("").tag = ""
  BY SayTypes DEF ZeroBuf, Buffer, AnyKey, Value, Empty, ResponseTag, Say

LEMMA KeyBufType ==
    ASSUME NEW k \in AnyKey
    PROVE  KeyBuf(k) \in Buffer /\ KeyBuf(k).key = k /\ KeyBuf(k).resp.tag = ""
  BY ZeroBufType DEF Buffer, KeyBuf

LEMMA KeyValueBufType ==
    ASSUME NEW k \in AnyKey, NEW v \in Value
    PROVE  /\ KeyValueBuf(k, v) \in Buffer /\ KeyValueBuf(k, v).key = k
           /\ KeyValueBuf(k, v).value = v /\ KeyValueBuf(k, v).resp.tag = ""
  BY ZeroBufType DEF Buffer, KeyValueBuf

LEMMA ResponseBufType ==
    ASSUME NEW r \in Response
    PROVE  ResponseBuf(r) \in Buffer /\ ResponseBuf(r).resp = r
  BY ZeroBufType DEF Buffer, ResponseBuf

LEMMA RuntimeErrorBuf == ResponseBuf(Say("RUNTIME_ERROR")).resp.tag = "RUNTIME_ERROR"
  <1>1. Say("RUNTIME_ERROR") \in Response
    BY SayTypes DEF ResponseTag
  <1>2. Say("RUNTIME_ERROR").tag = "RUNTIME_ERROR"
    BY DEF Say
  <1> QED BY <1>1, <1>2, ResponseBufType

\* The final response of a session context is a response.
LEMMA FinalResponseType ==
    ASSUME NEW s \in SessionCtx PROVE FinalResponse(s) \in Response
  BY SayTypes DEF FinalResponse, SessionCtx, ResponseTag

\* A command that returns to c fills c's operation and no other.
LEMMA ReturnType ==
    ASSUME NEW c \in Caller, op \in [Caller -> Operation],
           NEW res \in ResultCode, NEW type \in RequestType, NEW buf \in Buffer,
           Return(c, res, type, buf)
    PROVE  /\ op' \in [Caller -> Operation] /\ \A d \in Caller \ {c} : op'[d] = op[d]
           /\ op'[c].res = res /\ op'[c].type = type /\ op'[c].buf = buf
  BY DEF Return, Operation

\* A fresh session satisfies the invariant, whoever opens it.
LEMMA FreshValues ==
    /\ ZeroCtx \in SessionCtx /\ NoInstance \in Instance
    /\ \A img \in GuestImage \union {"dead"} : Instantiate(img) \in Instance
    /\ EmptyKey \in AnyKey /\ Empty \in Value
  BY SayTypes DEF ZeroCtx, SessionCtx, NoInstance, Instantiate, Instance, ZeroArgs, Args,
     FunctionName, AnyKey, Value, Empty, ResponseTag, Op, FsmState, GuestImage

\* Memory that holds a large heap has no room for a second one.
LEMMA SecondHeapFails ==
    ASSUME heapUsed \in 0 .. TaDataSize, LargeHeap(heapUsed),
           heapSize \in Nat, LargeHeap(heapSize)
    PROVE  \A img \in Image : RunOutOfMemory(img)
  BY SizeAssumption DEF LargeHeap, RunOutOfMemory, MallocFails

LEMMA LargerHeap ==
    ASSUME NEW m \in Nat, NEW n \in Nat, n >= m, LargeHeap(m) PROVE LargeHeap(n)
  BY SizeAssumption DEF LargeHeap

\* TEE_Malloc never hands out more than TA_DATA_SIZE, and takes nothing back.
LEMMA MallocBounds ==
    ASSUME NEW u \in 0 .. TaDataSize, NEW n \in Nat
    PROVE  Malloc(u, n) \in 0 .. TaDataSize /\ Malloc(u, n) >= u
  BY SizeAssumption DEF Malloc

-----------------------------------------------------------------------------
\* The native imports leave the arguments and the runtime alone.
LEMMA NativeFrame ==
    ASSUME NEW s \in SessionCtx, NEW k, NEW v, NEW r
    PROVE  /\ CcGetState(s, k).args = s.args /\ CcGetState(s, k).runtime = s.runtime
           /\ CcPutState(s, k, v).args = s.args /\ CcPutState(s, k, v).runtime = s.runtime
           /\ CcReturnResponse(s, r).args = s.args
           /\ CcReturnResponse(s, r).runtime = s.runtime
  BY DEF SessionCtx, CcGetState, CcPutState, CcReturnResponse

(***************************************************************************)
(* A step of the coffee chaincode leaves a context and an instance, with   *)
(* the arguments, the runtime and the module as they were.                 *)
(***************************************************************************)
LEMMA CoffeeStepTypes ==
    ASSUME NEW s \in SessionCtx, NEW w \in Instance, CoffeeStep(s, w)
    PROVE  /\ sc' \in SessionCtx /\ wasm' \in Instance
           /\ sc'.runtime = s.runtime /\ sc'.args = s.args /\ wasm'.image = w.image
  <1> USE DEF Finish, Op, FsmState
  <1>s. s.args \in Args /\ s.args.key \in AnyKey /\ s.args.val \in Value
    BY DEF SessionCtx, Args
  <1>w. w.person \in AnyKey /\ w.arg1 \in Value /\ w.cur \in Value
    BY DEF Instance
  <1>r. /\ Say("ERROR") \in Response /\ Say("OK") \in Response /\ Say("EXIST") \in Response
        /\ Say("EMPTY") \in Response /\ Say("NOTFOUND") \in Response
        /\ SayValue(w.cur) \in Response /\ AddWraps(w.cur, w.arg1) \in Value
    BY <1>w, SayTypes, AddWrapsType DEF ResponseTag
  <1>1. \/ \E k \in AnyKey : sc' = CcGetState(s, k)
        \/ \E k \in AnyKey, v \in Value : sc' = CcPutState(s, k, v)
        \/ \E r \in Response : sc' = CcReturnResponse(s, r)
        \/ sc' = s
    BY <1>s, <1>w, <1>r DEF CoffeeStep, DoCreateInit, DoCreateResume, DoAddInit, DoAddResume,
                            DoQueryInit, DoQueryResume
  <1>2. sc' \in SessionCtx /\ sc'.runtime = s.runtime /\ sc'.args = s.args
    <2>1. CASE \E k \in AnyKey : sc' = CcGetState(s, k)
      BY <1>r, <2>1, NativeTypes, NativeFrame
    <2>2. CASE \E k \in AnyKey, v \in Value : sc' = CcPutState(s, k, v)
      BY <1>r, <2>2, NativeTypes, NativeFrame
    <2>3. CASE \E r \in Response : sc' = CcReturnResponse(s, r)
      BY <1>s, <1>w, <2>3, NativeTypes, NativeFrame
    <2> QED BY <1>1, <2>1, <2>2, <2>3
  <1>3. wasm' \in Instance /\ wasm'.image = w.image
    <2>1. CASE DoCreateInit(s, w) \/ DoAddInit(s, w) \/ DoQueryInit(s, w)
      BY <1>s, <2>1 DEF DoCreateInit, DoAddInit, DoQueryInit, Instance, Value, Empty
    <2>2. CASE DoCreateResume(s, w) \/ DoAddResume(s, w) \/ DoQueryResume(s, w)
      BY <2>2 DEF DoCreateResume, DoAddResume, DoQueryResume, Instance
    <2> QED BY <2>1, <2>2 DEF CoffeeStep
  <1> QED BY <1>2, <1>3

\* cc_get_function sets g_function and nothing else.
LEMMA FetchTypes ==
    ASSUME NEW s \in SessionCtx, NEW w \in Instance
    PROVE  LET f == FetchFunction(s, w)
           IN  /\ f \in Instance /\ f.image = w.image /\ f.op = w.op /\ f.fsm = w.fsm
               /\ f.person = w.person /\ f.arg1 = w.arg1 /\ f.cur = w.cur
  BY DEF FetchFunction, Instance, SessionCtx, Args

\* The same for step_resume of any module.
LEMMA StepTypes ==
    ASSUME NEW s \in SessionCtx, NEW w \in Instance, StepResume(s, w)
    PROVE  /\ sc' \in SessionCtx /\ wasm' \in Instance
           /\ sc'.runtime = s.runtime /\ sc'.args = s.args /\ wasm'.image = w.image
  <1>1. CASE w.image = "coffee" /\ CoffeeStep(s, FetchFunction(s, w))
    <2> DEFINE f == FetchFunction(s, w)
    <2>1. f \in Instance /\ f.image = w.image
      BY FetchTypes
    <2> HIDE DEF f
    <2> QED BY <1>1, <2>1, CoffeeStepTypes DEF f
  <1>2. CASE w.image = "blank" /\ sc' = CcReturnResponse(s, Say("")) /\ wasm' = w
    BY <1>2, SayTypes, NativeTypes, NativeFrame, FreshValues DEF ResponseTag
  <1>3. CASE w.image = "oob" /\ sc' = s /\ wasm' = w
    BY <1>3
  <1> QED BY <1>1, <1>2, <1>3 DEF StepResume

(***************************************************************************)
(* process_hostcall_flow returns TEE_SUCCESS and one of three types, which *)
(* says what is pending unless the step has failed.                        *)
(***************************************************************************)
LEMMA FlowTypes ==
    ASSUME NEW c \in Caller, op \in [Caller -> Operation],
           NEW s \in SessionCtx, NEW w \in Instance, ProcessHostcallFlow(c, s, w)
    PROVE  /\ sc' \in SessionCtx /\ wasm' \in Instance
           /\ sc'.runtime = s.runtime /\ sc'.args = s.args /\ wasm'.image = w.image
           /\ op' \in [Caller -> Operation] /\ \A d \in Caller \ {c} : op'[d] = op[d]
           /\ op'[c].res = SUCCESS
           /\ \/ /\ sc'.pending = GET_STATE_REQUEST /\ op'[c].type = GET_STATE_REQUEST
                 /\ op'[c].buf = KeyBuf(sc'.key) /\ StepResume(s, w)
              \/ /\ sc'.pending = PUT_STATE_REQUEST /\ op'[c].type = PUT_STATE_REQUEST
                 /\ op'[c].buf = KeyValueBuf(sc'.key, sc'.value) /\ StepResume(s, w)
              \/ /\ sc'.pending = NONE /\ op'[c].type = INVOCATION_RESPONSE
                 /\ op'[c].buf = ResponseBuf(FinalResponse(sc')) /\ StepResume(s, w)
              \/ /\ sc' = s /\ wasm' = w /\ op'[c].type = INVOCATION_RESPONSE
                 /\ op'[c].buf = ResponseBuf(Say("RUNTIME_ERROR"))
  <1> USE DEF ResultCode, RequestType
  <1>1. CASE StepFails(c, s, w)
    <2>1. ResponseBuf(Say("RUNTIME_ERROR")) \in Buffer
      BY SayTypes, ResponseBufType DEF ResponseTag
    <2> QED BY <1>1, <2>1, ReturnType DEF StepFails
  <1>2. CASE StepResume(s, w) /\ ReturnRequest(c, sc')
    <2>1. /\ sc' \in SessionCtx /\ wasm' \in Instance
          /\ sc'.runtime = s.runtime /\ sc'.args = s.args /\ wasm'.image = w.image
      BY <1>2, StepTypes
    <2>2. sc'.key \in AnyKey /\ sc'.value \in Value /\ FinalResponse(sc') \in Response
      BY <2>1, FinalResponseType DEF SessionCtx
    <2>3. CASE /\ sc'.pending = GET_STATE_REQUEST
               /\ Return(c, SUCCESS, GET_STATE_REQUEST, KeyBuf(sc'.key))
      BY <1>2, <2>1, <2>2, <2>3, KeyBufType, ReturnType
    <2>4. CASE /\ sc'.pending = PUT_STATE_REQUEST
               /\ Return(c, SUCCESS, PUT_STATE_REQUEST, KeyValueBuf(sc'.key, sc'.value))
      BY <1>2, <2>1, <2>2, <2>4, KeyValueBufType, ReturnType
    <2>5. CASE /\ sc'.pending = NONE
               /\ Return(c, SUCCESS, INVOCATION_RESPONSE, ResponseBuf(FinalResponse(sc')))
      BY <1>2, <2>1, <2>2, <2>5, ResponseBufType, ReturnType
    <2> QED BY <1>2, <2>3, <2>4, <2>5 DEF ReturnRequest
  <1> QED BY <1>1, <1>2 DEF ProcessHostcallFlow

-----------------------------------------------------------------------------
(***************************************************************************)
(* What the guest knows between two commands, as a predicate of a context  *)
(* s, an instance w and a history: k is the key last asked for and g the   *)
(* answer.  Where the guest is in the middle of an operation, its g_person *)
(* is that key, and its g_cur_val is empty while the answer is outstanding *)
(* and the answer itself afterwards.                                       *)
(***************************************************************************)
StuckAt(w) == w.op = "CREATE" /\ w.fsm = 0 /\ w.person = EmptyKey

GuestOK(s, w, k, g) ==
    /\ s.out <=> s.pending = GET_STATE_REQUEST
    /\ s.pending = GET_STATE_REQUEST =>
          /\ w.fsm \in {11, 21, 31} \/ StuckAt(w)
          /\ w.cur = Empty /\ w.person = k
    /\ s.pending = PUT_STATE_REQUEST =>
          \/ w.fsm = 12 /\ s.value = w.arg1
          \/ w.fsm = 22 /\ s.value = AddWraps(g, w.arg1)
    /\ w.op = "NONE"   => w.fsm = 0
    /\ w.op = "CREATE" => w.fn = "create" /\ (w.fsm \in {11, 12} \/ StuckAt(w))
    /\ w.op = "ADD"    => w.fn = "add" /\ w.fsm \in {21, 22}
    /\ w.op = "QUERY"  => w.fn = "query" /\ w.fsm = 31
    /\ w.fsm # 0 => w.person = k /\ s.key = k
    /\ w.fsm \in {11, 21, 31} /\ s.pending = NONE => w.cur = g
    /\ w.fsm = 12 => g = Empty
    /\ w.fsm = 22 => g # Empty
    /\ w.image # "coffee" => w.op = "NONE"
    /\ w.image \in {"oob", "none"} => ~s.hasResponse

\* What the response r of the TA says about the read before it.
AnswerOK(r, s, w, k, g) ==
    ~StuckAt(w) =>
        /\ r.tag = "VALUE" => r.val = g /\ s.key = k
        /\ r.tag \in {"NOTFOUND", "EMPTY"} => g = Empty
        /\ r.tag = "EXIST" => g # Empty
        /\ r.tag = "OK" => (g = Empty <=> w.fn = "create")

\* The key the last GET request is for, after a step that leaves s behind.
AskedAfter(s, k) == IF s.pending = GET_STATE_REQUEST THEN s.key ELSE k

\* A response other than the empty string is handed out as it is.
LEMMA FinalReturn ==
    ASSUME NEW s \in SessionCtx, NEW r \in Response, r.tag # ""
    PROVE  FinalResponse(CcReturnResponse(s, r)) = r
  <1>1. r # Say("")
    BY ZeroBufType
  <1>2. CcReturnResponse(s, r).response = r /\ CcReturnResponse(s, r).hasResponse = TRUE
    BY DEF CcReturnResponse, SessionCtx
  <1> QED BY <1>1, <1>2 DEF FinalResponse

(***************************************************************************)
(* A step of the coffee chaincode that starts with no request pending      *)
(* keeps GuestOK; if it ends the operation, its answer follows from the    *)
(* read before.                                                            *)
(***************************************************************************)
LEMMA CoffeeStepOK ==
    ASSUME NEW s \in SessionCtx, NEW w \in Instance, NEW k, NEW g \in Value,
           GuestOK(s, w, k, g), s.pending = NONE, w.image = "coffee",
           CoffeeStep(s, w)
    PROVE  /\ GuestOK(sc', wasm', AskedAfter(sc', k), g)
           /\ sc'.pending = NONE => AnswerOK(FinalResponse(sc'), sc', wasm', k, g)
  <1> USE DEF Finish, AskedAfter, Op, FsmState
  <1>s. s.args \in Args /\ s.args.key \in AnyKey /\ s.args.val \in Value
    BY DEF SessionCtx, Args
  <1>w. w.person \in AnyKey /\ w.arg1 \in Value /\ w.cur \in Value
    BY DEF Instance
  <1>t. sc' \in SessionCtx /\ wasm' \in Instance /\ wasm'.image = "coffee"
    BY CoffeeStepTypes
  <1>r. ASSUME NEW r \in Response, r.tag # "", sc' = CcReturnResponse(s, r)
        PROVE  /\ FinalResponse(sc') = r /\ sc'.pending = NONE /\ sc'.out = s.out
               /\ sc'.key = s.key
    BY <1>r, FinalReturn DEF CcReturnResponse, SessionCtx
  <1>1. CASE \/ w.op = "NONE" /\ w.fn = "create" /\ DoCreateInit(s, w)
             \/ w.op = "NONE" /\ w.fn = "add" /\ DoAddInit(s, w)
             \/ w.op = "NONE" /\ w.fn = "query" /\ DoQueryInit(s, w)
    <2>1. /\ sc'.pending = GET_STATE_REQUEST /\ sc'.out = TRUE /\ sc'.key = s.args.key
      BY <1>1 DEF DoCreateInit, DoAddInit, DoQueryInit, CcGetState, SessionCtx
    <2>2. /\ wasm'.person = s.args.key /\ wasm'.cur = Empty /\ wasm'.fn = w.fn
          /\ \/ w.fn = "create" /\ wasm'.op = "CREATE" /\ wasm'.fsm = 11
             \/ w.fn = "create" /\ wasm'.op = "CREATE" /\ wasm'.fsm = 0 /\ s.args.key = EmptyKey
             \/ w.fn = "add" /\ wasm'.op = "ADD" /\ wasm'.fsm = 21
             \/ w.fn = "query" /\ wasm'.op = "QUERY" /\ wasm'.fsm = 31
      <3>1. w.op = "NONE" => w.fsm = 0
        BY DEF GuestOK
      <3> QED BY <1>1, <1>s, <3>1 DEF DoCreateInit, DoAddInit, DoQueryInit, CcGetStateIsPositive, Instance
    <2> QED BY <1>t, <2>1, <2>2 DEF GuestOK, StuckAt
  <1>2. CASE /\ w.op = "NONE" /\ w.fn \in {"other", ""}
             /\ sc' = CcReturnResponse(s, Say("ERROR"))
             /\ wasm' = w
    <2>1. Say("ERROR") \in Response /\ Say("ERROR").tag = "ERROR"
      BY SayTypes DEF ResponseTag, Say
    <2>2. /\ FinalResponse(sc') = Say("ERROR") /\ sc'.pending = NONE /\ sc'.out = s.out
          /\ sc'.key = s.key
      BY <1>2, <1>r, <2>1
    <2> QED BY <1>2, <1>t, <2>1, <2>2 DEF GuestOK, AnswerOK
  \* The operation ends with the response r.
  <1>3. ASSUME NEW r \in Response, r.tag # "", sc' = CcReturnResponse(s, r), wasm' = Finish(w),
               r.tag = "VALUE" => r.val = g /\ s.key = k,
               r.tag \in {"NOTFOUND", "EMPTY"} => g = Empty,
               r.tag = "EXIST" => g # Empty,
               r.tag = "OK" => (g = Empty <=> w.fn = "create")
        PROVE  /\ GuestOK(sc', wasm', AskedAfter(sc', k), g)
               /\ AnswerOK(FinalResponse(sc'), sc', wasm', k, g)
    <2>1. wasm'.fsm = 0 /\ wasm'.op = "NONE" /\ wasm'.fn = w.fn
      BY <1>3 DEF Instance
    <2>2. /\ FinalResponse(sc') = r /\ sc'.pending = NONE /\ sc'.out = s.out
          /\ sc'.key = s.key
      BY <1>3, <1>r
    <2>3. GuestOK(sc', wasm', AskedAfter(sc', k), g)
      BY <1>t, <2>1, <2>2 DEF GuestOK
    <2>4. AnswerOK(r, sc', wasm', k, g)
      BY <1>3, <2>1, <2>2 DEF AnswerOK
    <2> QED BY <2>2, <2>3, <2>4
  <1>5. CASE w.op = "CREATE" /\ DoCreateResume(s, w)
    <2>0. w.fn = "create" /\ (w.fsm = 11 => w.cur = g) /\ (w.fsm = 12 => g = Empty)
      BY <1>5 DEF GuestOK
    <2>1. CASE w.fsm = 11 /\ w.cur = Empty
      <3>1. /\ sc'.pending = PUT_STATE_REQUEST /\ sc'.out = FALSE
            /\ sc'.key = w.person /\ sc'.value = w.arg1
            /\ wasm'.fsm = 12 /\ wasm'.op = "CREATE" /\ wasm'.person = w.person
            /\ wasm'.arg1 = w.arg1 /\ wasm'.fn = w.fn
        <4>1. sc' = CcPutState(s, w.person, w.arg1) /\ wasm' = [w EXCEPT !.fsm = 12]
          BY <1>5, <2>1 DEF DoCreateResume
        <4> QED BY <1>5, <4>1 DEF CcPutState, SessionCtx, Instance
      <3>2. w.person = k
        BY <2>1 DEF GuestOK
      <3> QED BY <1>t, <2>0, <2>1, <3>1, <3>2 DEF GuestOK
    <2>2. CASE w.fsm = 11 /\ w.cur # Empty
      <3>1. Say("EXIST") \in Response /\ Say("EXIST").tag = "EXIST"
        BY SayTypes DEF ResponseTag, Say
      <3>2. sc' = CcReturnResponse(s, Say("EXIST")) /\ wasm' = Finish(w)
        BY <1>5, <2>2 DEF DoCreateResume
      <3> QED BY <1>3, <2>0, <2>2, <3>1, <3>2
    <2>3. CASE w.fsm = 12
      <3>1. Say("OK") \in Response /\ Say("OK").tag = "OK"
        BY SayTypes DEF ResponseTag, Say
      <3>2. sc' = CcReturnResponse(s, Say("OK")) /\ wasm' = Finish(w)
        BY <1>5, <2>3 DEF DoCreateResume
      <3> QED BY <1>3, <2>0, <2>3, <3>1, <3>2
    <2>4. CASE w.fsm = 0
      <3>1. sc' = s /\ wasm' = w
        BY <1>5, <2>4 DEF DoCreateResume
      <3>2. StuckAt(w)
        BY <1>5, <2>4 DEF GuestOK
      <3> QED BY <3>1, <3>2 DEF AnswerOK
    <2> QED BY <1>5, <2>1, <2>2, <2>3, <2>4 DEF DoCreateResume
  <1>6. CASE w.op = "ADD" /\ DoAddResume(s, w)
    <2>0. w.fn = "add" /\ (w.fsm = 21 => w.cur = g) /\ (w.fsm = 22 => g # Empty)
      BY <1>6 DEF GuestOK
    <2>1. CASE w.fsm = 21 /\ w.cur # Empty
      <3>1. /\ sc'.pending = PUT_STATE_REQUEST /\ sc'.out = FALSE
            /\ sc'.key = w.person /\ sc'.value = AddWraps(w.cur, w.arg1)
            /\ wasm'.fsm = 22 /\ wasm'.op = "ADD" /\ wasm'.person = w.person
            /\ wasm'.arg1 = w.arg1 /\ wasm'.fn = w.fn
        <4>1. /\ sc' = CcPutState(s, w.person, AddWraps(w.cur, w.arg1))
              /\ wasm' = [w EXCEPT !.fsm = 22]
          BY <1>6, <2>1 DEF DoAddResume
        <4> QED BY <1>6, <4>1 DEF CcPutState, SessionCtx, Instance
      <3>2. w.person = k
        BY <2>1 DEF GuestOK
      <3> QED BY <1>t, <2>0, <2>1, <3>1, <3>2 DEF GuestOK
    <2>2. CASE w.fsm = 21 /\ w.cur = Empty
      <3>1. Say("EMPTY") \in Response /\ Say("EMPTY").tag = "EMPTY"
        BY SayTypes DEF ResponseTag, Say
      <3>2. sc' = CcReturnResponse(s, Say("EMPTY")) /\ wasm' = Finish(w)
        BY <1>6, <2>2 DEF DoAddResume
      <3> QED BY <1>3, <2>0, <2>2, <3>1, <3>2
    <2>3. CASE w.fsm = 22
      <3>1. Say("OK") \in Response /\ Say("OK").tag = "OK"
        BY SayTypes DEF ResponseTag, Say
      <3>2. sc' = CcReturnResponse(s, Say("OK")) /\ wasm' = Finish(w)
        BY <1>6, <2>3 DEF DoAddResume
      <3> QED BY <1>3, <2>0, <2>3, <3>1, <3>2
    <2> QED BY <1>6, <2>1, <2>2, <2>3 DEF DoAddResume
  <1>7. CASE w.op = "QUERY" /\ DoQueryResume(s, w)
    <2>0. w.fsm = 31 /\ w.cur = g /\ s.key = k
      BY <1>7 DEF GuestOK
    <2> DEFINE r == IF w.cur = Empty THEN Say("NOTFOUND") ELSE SayValue(w.cur)
    <2>1. /\ r \in Response /\ r.tag # ""
          /\ (r.tag = "VALUE" /\ r.val = g) \/ (r.tag = "NOTFOUND" /\ g = Empty)
      <3>1. /\ Say("NOTFOUND") \in Response /\ Say("NOTFOUND").tag = "NOTFOUND"
            /\ SayValue(w.cur).tag = "VALUE" /\ SayValue(w.cur).val = w.cur
        BY SayTypes DEF ResponseTag, Say, SayValue
      <3>2. SayValue(w.cur) \in Response
        BY <1>w, SayTypes
      <3>3. CASE w.cur = Empty
        BY <2>0, <3>1, <3>3
      <3>4. CASE w.cur # Empty
        BY <2>0, <3>1, <3>2, <3>4
      <3> QED BY <3>3, <3>4
    <2>2. sc' = CcReturnResponse(s, r) /\ wasm' = Finish(w)
      BY <1>7 DEF DoQueryResume
    <2> HIDE DEF r
    <2> QED BY <1>3, <2>0, <2>1, <2>2
  <1> QED BY <1>1, <1>2, <1>5, <1>6, <1>7 DEF CoffeeStep

(***************************************************************************)
(* The same for step_resume of any module.                                 *)
(***************************************************************************)
LEMMA StepResumeOK ==
    ASSUME NEW s \in SessionCtx, NEW w \in Instance, NEW k, NEW g \in Value,
           GuestOK(s, w, k, g), s.pending = NONE,
           StepResume(s, w)
    PROVE  /\ GuestOK(sc', wasm', AskedAfter(sc', k), g)
           /\ sc'.pending = NONE => AnswerOK(FinalResponse(sc'), sc', wasm', k, g)
  <1>1. CASE w.image = "coffee" /\ CoffeeStep(s, FetchFunction(s, w))
    <2> DEFINE f == FetchFunction(s, w)
    <2>1. /\ f \in Instance /\ f.image = w.image /\ f.op = w.op /\ f.fsm = w.fsm
          /\ f.person = w.person /\ f.arg1 = w.arg1 /\ f.cur = w.cur
          /\ f.op # "NONE" => f.fn = w.fn
      BY FetchTypes DEF FetchFunction
    <2>2. GuestOK(s, f, k, g)
      BY <1>1, <2>1 DEF GuestOK, StuckAt
    <2> HIDE DEF f
    <2> QED BY <1>1, <2>1, <2>2, CoffeeStepOK DEF f
  <1>2. CASE w.image = "blank" /\ sc' = CcReturnResponse(s, Say("")) /\ wasm' = w
    <2>1. /\ sc' \in SessionCtx /\ sc'.out = s.out /\ sc'.key = s.key
          /\ sc'.pending = s.pending /\ FinalResponse(sc') = Say("EMPTY_RESPONSE")
      BY <1>2, SayTypes DEF CcReturnResponse, SessionCtx, ResponseTag, FinalResponse
    <2>2. Say("EMPTY_RESPONSE").tag = "EMPTY_RESPONSE"
      BY DEF Say
    <2> QED BY <1>2, <2>1, <2>2 DEF GuestOK, AskedAfter, AnswerOK
  <1>3. CASE w.image = "oob" /\ sc' = s /\ wasm' = w
    <2>1. FinalResponse(s) = Say("NO_RESPONSE") /\ Say("NO_RESPONSE").tag = "NO_RESPONSE"
      BY <1>3 DEF GuestOK, FinalResponse, Say
    <2> QED BY <1>3, <2>1 DEF AskedAfter, AnswerOK
  <1> QED BY <1>1, <1>2, <1>3 DEF StepResume

\* The key the last GET request was for, after a command returned o.
AskedBy(o, k) == IF o.res = SUCCESS /\ o.type = GET_STATE_REQUEST THEN o.buf.key ELSE k

(***************************************************************************)
(* process_hostcall_flow keeps GuestOK, and shows what the guest asks for  *)
(* and answers at the border of the TA.                                    *)
(***************************************************************************)
LEMMA FlowOK ==
    ASSUME NEW c \in Caller, NEW s \in SessionCtx, NEW w \in Instance,
           NEW k \in AnyKey, NEW g \in Value,
           op \in [Caller -> Operation],
           GuestOK(s, w, k, g), s.pending = NONE,
           ProcessHostcallFlow(c, s, w)
    PROVE  /\ AskedBy(op'[c], k) \in AnyKey
           /\ GuestOK(sc', wasm', AskedBy(op'[c], k), g)
           /\ AnswerOK(op'[c].buf.resp, sc', wasm', AskedBy(op'[c], k), g)
  <1>1. sc' \in SessionCtx /\ sc'.key \in AnyKey /\ sc'.value \in Value
    BY FlowTypes DEF SessionCtx
  <1>2. AskedAfter(sc', k) = AskedBy(op'[c], k) /\ AskedAfter(sc', k) \in AnyKey
    <2>1. KeyBuf(sc'.key).key = sc'.key
      BY <1>1, KeyBufType
    <2>2. op'[c].res = SUCCESS
      BY FlowTypes
    <2> QED BY <1>1, <2>1, <2>2, FlowTypes DEF AskedAfter, AskedBy
  <1>3. CASE StepResume(s, w)
    <2>1. /\ GuestOK(sc', wasm', AskedAfter(sc', k), g)
          /\ sc'.pending = NONE => AnswerOK(FinalResponse(sc'), sc', wasm', k, g)
      BY <1>3, StepResumeOK
    <2>2. FinalResponse(sc') \in Response
      BY <1>1, FinalResponseType
    <2>3. CASE sc'.pending = NONE /\ op'[c].buf = ResponseBuf(FinalResponse(sc'))
      <3>1. op'[c].buf.resp = FinalResponse(sc') /\ AskedAfter(sc', k) = k
        BY <2>2, <2>3, ResponseBufType DEF AskedAfter
      <3> QED BY <1>2, <2>1, <2>3, <3>1
    <2>4. CASE op'[c].buf = KeyBuf(sc'.key) \/ op'[c].buf = KeyValueBuf(sc'.key, sc'.value)
      <3>1. op'[c].buf.resp.tag = ""
        <4>1. KeyBuf(sc'.key).resp.tag = ""
          BY <1>1, KeyBufType
        <4>2. KeyValueBuf(sc'.key, sc'.value).resp.tag = ""
          BY <1>1, KeyValueBufType
        <4> QED BY <2>4, <4>1, <4>2
      <3> QED BY <1>2, <2>1, <3>1 DEF AnswerOK
    <2>5. CASE op'[c].buf = ResponseBuf(Say("RUNTIME_ERROR"))
      <3>1. op'[c].buf.resp.tag = "RUNTIME_ERROR"
        BY <2>5, RuntimeErrorBuf
      <3> QED BY <1>2, <2>1, <3>1 DEF AnswerOK
    <2> QED BY <2>3, <2>4, <2>5, FlowTypes
  <1>4. CASE sc' = s /\ wasm' = w /\ op'[c].buf = ResponseBuf(Say("RUNTIME_ERROR"))
    <2>1. op'[c].buf.resp.tag = "RUNTIME_ERROR"
      BY <1>4, RuntimeErrorBuf
    <2> QED BY <1>2, <1>4, <2>1 DEF AskedAfter, AnswerOK
  <1> QED BY <1>3, <1>4, FlowTypes

\* The guest of a new instance, which has asked for nothing, can go on.
LEMMA FreshGuestOK ==
    ASSUME NEW s \in SessionCtx, s.pending = NONE, s.out = FALSE, s.hasResponse = FALSE,
           NEW img, NEW k, NEW g
    PROVE  GuestOK(s, Instantiate(img), k, g)
  BY DEF GuestOK, Instantiate

-----------------------------------------------------------------------------
(***************************************************************************)
(* COMMAND_RUN_WASM keeps the types in any session.                        *)
(***************************************************************************)
LEMMA RunTypes ==
    ASSUME TaTypeOK, NEW c \in Caller, NEW img \in Image, NEW a \in Args, RunWasm(c, img, a)
    PROVE  /\ TaTypeOK' /\ heapSize' = heapSize /\ heapUsed' >= heapUsed
           /\ \A d \in Caller \ {c} : op'[d] = op[d]
           /\ op'[c] \in Operation
           /\ heapSize > 0 /\ ~RunOutOfMemory(img) /\ ~Panicked => heapUsed' >= heapSize
  <1> USE DEF ResultCode, RequestType
  <1>1. /\ sc \in SessionCtx /\ wasm \in Instance /\ heapSize \in Nat
        /\ heapUsed \in 0 .. TaDataSize /\ op \in [Caller -> Operation]
    BY DEF TaTypeOK
  <1>2. heapSize' = heapSize
    BY DEF RunWasm
  <1>3. WithArgs(a) \in SessionCtx /\ Initialised(a) \in SessionCtx
    BY <1>1 DEF WithArgs, Initialised, SessionCtx
  <1>4. ASSUME op' \in [Caller -> Operation], sc' \in SessionCtx, wasm' \in Instance,
               heapUsed' \in 0 .. TaDataSize
        PROVE  TaTypeOK' /\ op'[c] \in Operation
    BY <1>1, <1>2, <1>4 DEF TaTypeOK
  <1>5. CASE Panicked /\ TargetDead(c) /\ UNCHANGED <<sc, wasm, heapUsed>>
    <2>1. op[c].type \in RequestType
      BY <1>1 DEF Operation
    <2>2. Return(c, TARGET_DEAD, op[c].type, ZeroBuf)
      BY <1>5 DEF TargetDead
    <2>3. op' \in [Caller -> Operation] /\ \A d \in Caller \ {c} : op'[d] = op[d]
      <3> HIDE DEF RequestType
      <3> QED BY <1>1, <2>1, <2>2, ZeroBufType, ReturnType
    <2>4. heapUsed' >= heapUsed
      BY <1>1, <1>5, SizeAssumption
    <2> QED BY <1>1, <1>2, <1>4, <1>5, <2>3, <2>4
  <1>6. CASE ~Panicked /\ RunAllocates(img)
    <2> DEFINE u == Malloc(heapUsed, heapSize)
    <2>1. u \in 0 .. TaDataSize /\ u >= heapUsed
      BY <1>1, MallocBounds
    <2>2. heapUsed' \in 0 .. TaDataSize /\ heapUsed' >= u
      <3>1. ImageSize[img] \in Nat /\ heapUsed' = Malloc(u, ImageSize[img])
        BY <1>6, SizeAssumption DEF RunAllocates
      <3> HIDE DEF u
      <3> QED BY <2>1, <3>1, MallocBounds
    <2>3. ~RunOutOfMemory(img) => u >= heapSize
      BY <1>1, SizeAssumption DEF RunOutOfMemory, MallocFails, Malloc
    <2> HIDE DEF u
    <2>4. heapUsed' >= heapUsed /\ (~RunOutOfMemory(img) => heapUsed' >= heapSize)
      BY <1>1, <2>1, <2>2, <2>3, SizeAssumption
    <2>5. CASE RunFailsMalloc(c, img, a) \/ RunFailsInit(c, img, a)
      <3>1. PICK res \in {OUT_OF_MEMORY, GENERIC} : Return(c, res, INVOCATION_RESPONSE, ZeroBuf)
        BY <2>5 DEF RunFailsMalloc, RunFailsInit
      <3>2. sc' \in SessionCtx /\ wasm' \in Instance
        BY <1>1, <1>3, <2>5, FreshValues DEF RunFailsMalloc, RunFailsInit
      <3>3. op' \in [Caller -> Operation] /\ \A d \in Caller \ {c} : op'[d] = op[d]
        <4>1. res \in ResultCode /\ INVOCATION_RESPONSE \in RequestType
          OBVIOUS
        <4> HIDE DEF ResultCode, RequestType
        <4> QED BY <1>1, <3>1, <4>1, ZeroBufType, ReturnType
      <3> QED BY <1>2, <1>4, <2>2, <2>4, <3>2, <3>3
    <2>6. CASE RunFailsStepInit(c, img, a)
      <3>1. ResponseBuf(Say("STEP_INIT_FAILED")) \in Buffer
        BY SayTypes, ResponseBufType DEF ResponseTag
      <3>2. sc' \in SessionCtx /\ wasm' \in Instance
        BY <1>3, <2>6, FreshValues DEF RunFailsStepInit, RunInitialised
      <3>3. op' \in [Caller -> Operation] /\ \A d \in Caller \ {c} : op'[d] = op[d]
        BY <1>1, <2>6, <3>1, ReturnType DEF RunFailsStepInit
      <3> QED BY <1>2, <1>4, <2>2, <2>4, <3>2, <3>3
    <2>7. CASE RunStarts(c, img, a)
      <3>1. Instantiate(img) \in Instance /\ ProcessHostcallFlow(c, Initialised(a), Instantiate(img))
        BY <2>7, FreshValues DEF RunStarts, RunInitialised
      <3>2. /\ sc' \in SessionCtx /\ wasm' \in Instance
            /\ op' \in [Caller -> Operation] /\ \A d \in Caller \ {c} : op'[d] = op[d]
        BY <1>1, <1>3, <3>1, FlowTypes
      <3> QED BY <1>2, <1>4, <2>2, <2>4, <3>2
    <2> QED BY <1>6, <2>5, <2>6, <2>7 DEF RunWasm, Panicked
  <1> QED BY <1>5, <1>6 DEF RunWasm

(***************************************************************************)
(* COMMAND_RESUME_WASM keeps the types in any session, and the arguments.  *)
(***************************************************************************)
LEMMA ResumeTypes ==
    ASSUME TaTypeOK, NEW c \in Caller, NEW v \in Value, ResumeWasm(c, v)
    PROVE  /\ TaTypeOK' /\ heapSize' = heapSize /\ heapUsed' = heapUsed
           /\ \A d \in Caller \ {c} : op'[d] = op[d]
           /\ op'[c] \in Operation
           /\ sc'.args = sc.args
  <1> USE DEF ResultCode, RequestType
  <1>1. /\ sc \in SessionCtx /\ wasm \in Instance /\ heapSize \in Nat
        /\ heapUsed \in 0 .. TaDataSize /\ op \in [Caller -> Operation]
    BY DEF TaTypeOK
  <1>2. heapSize' = heapSize /\ heapUsed' = heapUsed
    BY DEF ResumeWasm
  <1>3. SUFFICES /\ sc' \in SessionCtx /\ wasm' \in Instance /\ sc'.args = sc.args
                 /\ op' \in [Caller -> Operation] /\ \A d \in Caller \ {c} : op'[d] = op[d]
    BY <1>1, <1>2 DEF TaTypeOK
  <1>4. CASE ResumeWithoutRuntime(c) \/ ResumePanics(c)
    <2>1. op[c].type \in RequestType
      BY <1>1 DEF Operation
    <2>2. PICK res \in {GENERIC, TARGET_DEAD} : Return(c, res, op[c].type, ZeroBuf)
      BY <1>4 DEF ResumeWithoutRuntime, ResumePanics, TargetDead
    <2>3. op' \in [Caller -> Operation] /\ \A d \in Caller \ {c} : op'[d] = op[d]
      <3>1. res \in ResultCode
        OBVIOUS
      <3> HIDE DEF RequestType, ResultCode
      <3> QED BY <1>1, <2>1, <2>2, <3>1, ZeroBufType, ReturnType
    <2>4. sc' = sc /\ wasm' \in Instance
      BY <1>1, <1>4, FreshValues DEF ResumeWithoutRuntime, ResumePanics, guestVars
    <2> QED BY <1>1, <2>3, <2>4
  <1>5. CASE ProcessHostcallFlow(c, ClearPending, CopyAnswer(v))
    <2>1. ClearPending \in SessionCtx /\ ClearPending.args = sc.args
      BY <1>1 DEF ClearPending, SessionCtx
    <2>2. CopyAnswer(v) \in Instance
      BY <1>1 DEF CopyAnswer, Instance
    <2> QED BY <1>1, <1>5, <2>1, <2>2, FlowTypes
  <1> QED BY <1>4, <1>5 DEF ResumeWasm

(***************************************************************************)
(* A session that has been given large heaps only.  With a runtime there   *)
(* is an instance and a heap is in use; without one the session is idle.   *)
(***************************************************************************)
SessionOK ==
    /\ heapSize # 0 => LargeHeap(heapSize)
    /\ sc.runtime  => /\ wasm.image \in GuestImage
                      /\ heapSize # 0 /\ LargeHeap(heapUsed)
    /\ ~sc.runtime => wasm = NoInstance /\ sc.pending = NONE

(***************************************************************************)
(* COMMAND_RUN_WASM: with a runtime there is no memory, and only the       *)
(* arguments change; without one the session is idle.                      *)
(***************************************************************************)
LEMMA RunOK ==
    ASSUME TaTypeOK, SessionOK, NEW k \in AnyKey, NEW g \in Value, GuestOK(sc, wasm, k, g),
           NEW c \in Caller, NEW img \in Image, NEW a \in Args, RunWasm(c, img, a)
    PROVE  /\ TaTypeOK' /\ SessionOK' /\ heapSize' = heapSize
           /\ \A d \in Caller \ {c} : op'[d] = op[d]
           /\ AskedBy(op'[c], k) \in AnyKey
           /\ GuestOK(sc', wasm', AskedBy(op'[c], k), g)
           /\ AnswerOK(op'[c].buf.resp, sc', wasm', AskedBy(op'[c], k), g)
           /\ sc.runtime => wasm' = wasm /\ sc' = [sc EXCEPT !.args = a]
           /\ op'[c].res = SUCCESS =>
                 /\ ~sc.runtime /\ sc'.runtime
                 /\ ProcessHostcallFlow(c, Initialised(a), Instantiate(img))
  <1> USE DEF ResultCode, RequestType
  <1>1. /\ sc \in SessionCtx /\ wasm \in Instance /\ heapSize \in Nat
        /\ heapUsed \in 0 .. TaDataSize /\ op \in [Caller -> Operation]
    BY DEF TaTypeOK
  <1>2. /\ TaTypeOK' /\ heapSize' = heapSize /\ heapUsed' >= heapUsed
        /\ heapUsed' \in 0 .. TaDataSize
        /\ \A d \in Caller \ {c} : op'[d] = op[d]
    BY RunTypes DEF TaTypeOK
  <1>p. ~Panicked
    <2>1. NoInstance.image # "dead"
      BY DEF NoInstance, Instantiate
    <2> QED BY <1>1, <2>1 DEF SessionOK, SessionCtx, Panicked, GuestImage
  <1> DEFINE s == WithArgs(a)
  <1>3. /\ s \in SessionCtx /\ s.pending = sc.pending /\ s.out = sc.out
        /\ s.key = sc.key /\ s.value = sc.value /\ s.runtime = sc.runtime
        /\ s.hasResponse = sc.hasResponse /\ s.args = a /\ s = [sc EXCEPT !.args = a]
    BY <1>1 DEF WithArgs, SessionCtx
  <1>4. heapSize > 0 /\ ~RunOutOfMemory(img) => LargeHeap(heapSize) /\ LargeHeap(heapUsed')
    <2>1. heapSize > 0 /\ ~RunOutOfMemory(img) => LargeHeap(heapSize) /\ heapUsed' >= heapSize
      BY <1>1, <1>p, RunTypes DEF SessionOK
    <2>2. heapUsed' \in Nat
      BY <1>2, SizeAssumption
    <2> QED BY <1>1, <2>1, <2>2, LargerHeap
  <1>5. ~RunOutOfMemory(img) => /\ sc.runtime = FALSE /\ wasm = NoInstance
                               /\ sc.pending = NONE /\ sc.out = FALSE
                               /\ sc.hasResponse = FALSE
    <2>1. sc.runtime => RunOutOfMemory(img)
      BY <1>1, SecondHeapFails DEF SessionOK
    <2>2. sc.runtime \in BOOLEAN /\ sc.out \in BOOLEAN /\ sc.hasResponse \in BOOLEAN
      BY <1>1 DEF SessionCtx
    <2>3. ~sc.runtime => sc.pending = NONE /\ ~sc.out /\ wasm = NoInstance /\ ~sc.hasResponse
      <3>1. NoInstance.image = "none"
        BY DEF NoInstance, Instantiate
      <3> QED BY <1>1, <3>1 DEF SessionOK, GuestOK
    <2> QED BY <2>1, <2>2, <2>3
  \* A command that fails shows no request and no answer.
  <1>6. ASSUME op'[c].res \in {OUT_OF_MEMORY, GENERIC},
               op'[c].buf.resp.tag \in {"", "STEP_INIT_FAILED"}
        PROVE  /\ AskedBy(op'[c], k) = k /\ op'[c].res # SUCCESS
               /\ AnswerOK(op'[c].buf.resp, sc', wasm', k, g)
    BY <1>6 DEF AskedBy, AnswerOK, SUCCESS, OUT_OF_MEMORY, GENERIC
  <1>7. CASE RunFailsMalloc(c, img, a) \/ RunFailsInit(c, img, a)
    <2>1. /\ sc' = s /\ wasm' = wasm
          /\ op' \in [Caller -> Operation] /\ \A d \in Caller \ {c} : op'[d] = op[d]
          /\ op'[c].res \in {OUT_OF_MEMORY, GENERIC} /\ op'[c].buf = ZeroBuf
      <3>1. sc' = s /\ wasm' = wasm
        BY <1>5, <1>7 DEF RunFailsMalloc, RunFailsInit
      <3>2. PICK res \in {OUT_OF_MEMORY, GENERIC} : Return(c, res, INVOCATION_RESPONSE, ZeroBuf)
        BY <1>7 DEF RunFailsMalloc, RunFailsInit
      <3> QED BY <1>1, <3>1, <3>2, ZeroBufType, ReturnType
    <2>2. /\ AskedBy(op'[c], k) = k /\ op'[c].res # SUCCESS
          /\ AnswerOK(op'[c].buf.resp, sc', wasm', k, g)
      BY <1>6, <2>1, ZeroBufType
    <2>3. GuestOK(sc', wasm', k, g)
      BY <1>3, <2>1 DEF GuestOK
    <2>4. LargeHeap(heapUsed) => LargeHeap(heapUsed')
      <3>1. heapUsed \in Nat /\ heapUsed' \in Nat
        BY <1>1, <1>2, SizeAssumption
      <3> QED BY <1>2, <3>1, LargerHeap
    <2>5. SessionOK'
      BY <1>2, <1>3, <2>1, <2>4 DEF SessionOK, LargeHeap
    <2> QED BY <1>2, <1>3, <2>1, <2>2, <2>3, <2>5
  <1> DEFINE t == Initialised(a)
  <1>8. ASSUME RunInitialised(img)
        PROVE  /\ sc.runtime = FALSE /\ heapSize # 0 /\ LargeHeap(heapSize) /\ LargeHeap(heapUsed')
               /\ t \in SessionCtx /\ t.pending = NONE /\ t.out = FALSE /\ t.runtime = TRUE
               /\ img \in GuestImage /\ Instantiate(img) \in Instance
               /\ GuestOK(t, Instantiate(img), k, g)
    <2>1. /\ sc.runtime = FALSE /\ heapSize # 0 /\ LargeHeap(heapSize) /\ LargeHeap(heapUsed')
          /\ img \in GuestImage /\ Instantiate(img) \in Instance
      BY <1>1, <1>4, <1>5, <1>8, FreshValues DEF RunInitialised
    <2>2. /\ t \in SessionCtx /\ t.pending = NONE /\ t.out = FALSE
          /\ t.hasResponse = FALSE /\ t.runtime = TRUE
      BY <1>3, <1>5, <1>8 DEF RunInitialised, Initialised, SessionCtx
    <2> QED BY <2>1, <2>2, FreshGuestOK
  <1>9. CASE RunFailsStepInit(c, img, a)
    <2>0. RunInitialised(img)
      BY <1>9 DEF RunFailsStepInit
    <2>1. /\ ResponseBuf(Say("STEP_INIT_FAILED")) \in Buffer
          /\ ResponseBuf(Say("STEP_INIT_FAILED")).resp.tag = "STEP_INIT_FAILED"
      <3>1. Say("STEP_INIT_FAILED") \in Response
        BY SayTypes DEF ResponseTag
      <3>2. Say("STEP_INIT_FAILED").tag = "STEP_INIT_FAILED"
        BY DEF Say
      <3> QED BY <3>1, <3>2, ResponseBufType
    <2>2. /\ sc' = t /\ wasm' = Instantiate(img)
          /\ op' \in [Caller -> Operation] /\ \A d \in Caller \ {c} : op'[d] = op[d]
          /\ op'[c].res = GENERIC /\ op'[c].buf = ResponseBuf(Say("STEP_INIT_FAILED"))
      BY <1>1, <1>9, <2>1, ReturnType DEF RunFailsStepInit
    <2>3. /\ AskedBy(op'[c], k) = k /\ op'[c].res # SUCCESS
          /\ AnswerOK(op'[c].buf.resp, sc', wasm', k, g)
      BY <1>6, <2>1, <2>2
    <2>4. wasm'.image = img
      BY <2>2 DEF Instantiate
    <2> HIDE DEF t
    <2>5. SessionOK'
      BY <1>2, <1>8, <2>0, <2>2, <2>4 DEF SessionOK, LargeHeap
    <2> QED BY <1>2, <1>8, <2>0, <2>2, <2>3, <2>5
  <1>10. CASE RunStarts(c, img, a)
    <2>0. RunInitialised(img) /\ ProcessHostcallFlow(c, t, Instantiate(img))
      BY <1>10 DEF RunStarts
    <2> HIDE DEF t
    <2>1. /\ sc' \in SessionCtx /\ wasm' \in Instance
          /\ op' \in [Caller -> Operation] /\ \A d \in Caller \ {c} : op'[d] = op[d]
          /\ sc'.runtime = TRUE /\ wasm'.image = Instantiate(img).image
      BY <1>1, <1>8, <2>0, FlowTypes
    <2>2. wasm'.image = img
      BY <2>1 DEF Instantiate
    <2>3. SessionOK'
      BY <1>2, <1>8, <2>0, <2>1, <2>2 DEF SessionOK, LargeHeap
    <2>4. /\ AskedBy(op'[c], k) \in AnyKey
          /\ GuestOK(sc', wasm', AskedBy(op'[c], k), g)
          /\ AnswerOK(op'[c].buf.resp, sc', wasm', AskedBy(op'[c], k), g)
      BY <1>1, <1>8, <2>0, FlowOK
    <2> QED BY <1>2, <1>8, <2>0, <2>1, <2>3, <2>4 DEF t
  <1> QED BY <1>p, <1>7, <1>9, <1>10 DEF RunWasm

(***************************************************************************)
(* COMMAND_RESUME_WASM: the answer reaches the guest before its step.      *)
(***************************************************************************)
LEMMA ResumeOK ==
    ASSUME TaTypeOK, SessionOK, NEW k \in AnyKey, NEW g \in Value, GuestOK(sc, wasm, k, g),
           NEW c \in Caller, NEW v \in Value, ResumeWasm(c, v)
    PROVE  LET h == IF sc.runtime /\ sc.pending = GET_STATE_REQUEST THEN v ELSE g
           IN  /\ TaTypeOK' /\ SessionOK' /\ h \in Value
               /\ \A d \in Caller \ {c} : op'[d] = op[d]
               /\ AskedBy(op'[c], k) \in AnyKey
               /\ GuestOK(sc', wasm', AskedBy(op'[c], k), h)
               /\ AnswerOK(op'[c].buf.resp, sc', wasm', AskedBy(op'[c], k), h)
               /\ sc'.runtime = sc.runtime /\ sc'.args = sc.args /\ wasm'.image = wasm.image
               /\ op'[c].res = SUCCESS <=> sc.runtime
  <1> USE DEF ResultCode, RequestType
  <1>1. /\ sc \in SessionCtx /\ wasm \in Instance /\ heapSize \in Nat
        /\ heapUsed \in 0 .. TaDataSize /\ op \in [Caller -> Operation]
    BY DEF TaTypeOK
  <1>2. TaTypeOK' /\ heapSize' = heapSize /\ heapUsed' = heapUsed
    BY ResumeTypes
  <1>p. ~ResumePanics(c)
    BY DEF SessionOK, ResumePanics
  <1> DEFINE h == IF sc.runtime /\ sc.pending = GET_STATE_REQUEST THEN v ELSE g
  <1>h. h \in Value
    OBVIOUS
  <1>3. CASE ResumeWithoutRuntime(c)
    <2>1. op[c].type \in RequestType
      BY <1>1 DEF Operation
    <2>2. /\ op' \in [Caller -> Operation] /\ \A d \in Caller \ {c} : op'[d] = op[d]
          /\ op'[c].res = GENERIC /\ op'[c].buf = ZeroBuf
      <3>1. Return(c, GENERIC, op[c].type, ZeroBuf)
        BY <1>3 DEF ResumeWithoutRuntime
      <3>2. ZeroBuf \in Buffer
        BY ZeroBufType
      <3> HIDE DEF RequestType
      <3> QED BY <1>1, <2>1, <3>1, <3>2, ReturnType
    <2>3. sc' = sc /\ wasm' = wasm /\ ~sc.runtime /\ h = g
      BY <1>3 DEF ResumeWithoutRuntime, guestVars
    <2>4. /\ AskedBy(op'[c], k) = k /\ op'[c].res # SUCCESS
          /\ AnswerOK(op'[c].buf.resp, sc', wasm', k, g)
      BY <2>2, ZeroBufType DEF AskedBy, AnswerOK, SUCCESS, GENERIC
    <2>5. SessionOK'
      BY <1>2, <2>3 DEF SessionOK, LargeHeap
    <2> QED BY <1>2, <1>h, <2>2, <2>3, <2>4, <2>5
  <1>4. CASE /\ sc.runtime /\ wasm.image \in GuestImage
             /\ ProcessHostcallFlow(c, ClearPending, CopyAnswer(v))
    <2> DEFINE s == ClearPending
               w == CopyAnswer(v)
    <2>1. /\ s \in SessionCtx /\ s.pending = NONE /\ s.out = FALSE /\ s.runtime = sc.runtime
          /\ s.key = sc.key /\ s.hasResponse = sc.hasResponse /\ s.args = sc.args
      <3>1. sc.out \in BOOLEAN /\ (sc.out <=> sc.pending = GET_STATE_REQUEST)
        BY <1>1 DEF SessionCtx, GuestOK
      <3> QED BY <1>1, <3>1 DEF ClearPending, SessionCtx
    <2>2. /\ w \in Instance /\ w.image = wasm.image /\ w.fn = wasm.fn
          /\ w.op = wasm.op /\ w.fsm = wasm.fsm /\ w.person = wasm.person
          /\ w.arg1 = wasm.arg1
          /\ w.cur = IF sc.pending = GET_STATE_REQUEST /\ v # Empty THEN v ELSE wasm.cur
      <3>1. sc.out <=> sc.pending = GET_STATE_REQUEST
        BY <1>1 DEF GuestOK
      <3> QED BY <1>1, <3>1 DEF CopyAnswer, Instance
    <2>4. ProcessHostcallFlow(c, s, w)
      BY <1>4
    <2>5. h = IF sc.pending = GET_STATE_REQUEST THEN v ELSE g
      BY <1>4
    <2> HIDE DEF s, w, h
    <2>3. GuestOK(s, w, k, h)
      <3>1. w.fsm \in {11, 21, 31} => w.cur = h
        <4>1. CASE sc.pending = GET_STATE_REQUEST
          BY <2>2, <2>5, <4>1 DEF GuestOK
        <4>2. CASE sc.pending # GET_STATE_REQUEST
          <5>1. sc.pending \in {NONE, PUT_STATE_REQUEST}
            BY <1>1, <4>2 DEF SessionCtx
          <5> QED BY <2>2, <2>5, <4>2, <5>1 DEF GuestOK
        <4> QED BY <4>1, <4>2
      <3>2. (w.fsm = 12 => h = Empty) /\ (w.fsm = 22 => h # Empty)
        BY <2>2, <2>5 DEF GuestOK, StuckAt
      <3> QED BY <2>1, <2>2, <3>1, <3>2 DEF GuestOK, StuckAt
    <2>6. /\ sc' \in SessionCtx /\ wasm' \in Instance
          /\ op' \in [Caller -> Operation] /\ \A d \in Caller \ {c} : op'[d] = op[d]
          /\ sc'.runtime = s.runtime /\ sc'.args = s.args /\ wasm'.image = w.image
          /\ op'[c].res = SUCCESS
      BY <1>1, <2>1, <2>2, <2>4, FlowTypes
    <2>7. SessionOK'
      BY <1>1, <1>2, <1>4, <2>1, <2>2, <2>6 DEF SessionOK, LargeHeap
    <2>8. /\ AskedBy(op'[c], k) \in AnyKey
          /\ GuestOK(sc', wasm', AskedBy(op'[c], k), h)
          /\ AnswerOK(op'[c].buf.resp, sc', wasm', AskedBy(op'[c], k), h)
      BY <1>1, <1>h, <2>1, <2>2, <2>3, <2>4, FlowOK
    <2> QED BY <1>2, <1>4, <1>h, <2>1, <2>2, <2>6, <2>7, <2>8 DEF h
  <1> QED BY <1>p, <1>3, <1>4 DEF ResumeWasm
=============================================================================
