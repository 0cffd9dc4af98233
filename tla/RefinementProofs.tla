-------------------------- MODULE RefinementProofs --------------------------
(***************************************************************************)
(* While handlers do not overlap the system implements CoffeeLedger: the    *)
(* proof that every step of InvocationSystem is a step of the promise or   *)
(* leaves it alone.  What carries it is that a response which is on its    *)
(* way to the client fits what the transaction has read and written.       *)
(***************************************************************************)
EXTENDS ExclusiveProofs

USE DEF NONE, GET_STATE_REQUEST, PUT_STATE_REQUEST, INVOCATION_RESPONSE

-----------------------------------------------------------------------------
\* What Fabric keeps of the transaction of i, and the ledger it reads.
Tx(i) == [reads |-> rset[i], writes |-> wset[i], stale |-> stale[i], now |-> ledger]

(***************************************************************************)
(* The transaction x has read the value g of the key k, and Fabric will    *)
(* notice if that is no longer what the ledger holds.                      *)
(***************************************************************************)
Read(x, k, g) == IF k \in Key THEN k \in x.reads /\ (~x.stale => x.now[k] = g)
                              ELSE g = Empty

NoWrites    == [k \in Key |-> NoWrite]
Wrote(k, v) == [NoWrites EXCEPT ![k] = v]

\* What a guest of the given image may answer before it has read anything.
AnswersUnread(q, r) ==
    \/ q.image \in GuestImage /\ r = Say("RUNTIME_ERROR")
    \/ q.image = "blank" /\ r = Say("EMPTY_RESPONSE")
    \/ q.image = "oob"   /\ r = Say("NO_RESPONSE")
    \/ q.image = "coffee" /\ q.args.fn \in {"other", ""} /\ r = Say("ERROR")

\* What the coffee chaincode answers without a write when it has read g.
AnswersRead(a, g, r) ==
    \/ a.fn = "create" /\ a.key \in Key /\ g # Empty /\ r = Say("EXIST")
    \/ a.fn = "create" /\ a.key = EmptyKey           /\ r = Say("NO_RESPONSE")
    \/ a.fn = "add"    /\ g = Empty                  /\ r = Say("EMPTY")
    \/ a.fn = "query"  /\ g = Empty                  /\ r = Say("NOTFOUND")
    \/ a.fn = "query"  /\ g # Empty                  /\ r = SayValue(g)

\* What it writes.
Writes(a, g, v) ==
    /\ a.key \in Key
    /\ \/ a.fn = "create" /\ g = Empty /\ v = a.val
       \/ a.fn = "add"    /\ g # Empty /\ v = AddWraps(g, a.val)

\* The response r to the request q fits the transaction x.
Justified(q, x, r) ==
    \/ AnswersUnread(q, r) /\ x.writes = NoWrites
    \/ /\ q.image = "coffee"
       /\ \E g \in Value :
            /\ Read(x, q.args.key, g)
            /\ \/ AnswersRead(q.args, g, r) /\ x.writes = NoWrites
               \/ \E v \in Value : /\ Writes(q.args, g, v)
                                   /\ x.writes = Wrote(q.args.key, v)
                                   /\ r \in {Say("OK"), Say("RUNTIME_ERROR")}

(***************************************************************************)
(* The guest of an invocation with the arguments a has asked for the value *)
(* of its key; or it has been told g and asked for the write.              *)
(***************************************************************************)
AtGet(s, w, a) ==
    /\ s.pending = GET_STATE_REQUEST /\ s.out = TRUE /\ s.key = a.key
    /\ s.hasResponse = FALSE /\ s.runtime = TRUE
    /\ w.image = "coffee" /\ w.person = a.key /\ w.cur = Empty
    /\ \/ /\ a.fn = "create" /\ w.op = "CREATE" /\ w.arg1 = a.val
          /\ w.fsm = IF a.key = EmptyKey THEN 0 ELSE 11
       \/ a.fn = "add"   /\ w.op = "ADD"   /\ w.fsm = 21 /\ w.arg1 = a.val
       \/ a.fn = "query" /\ w.op = "QUERY" /\ w.fsm = 31

AtPut(s, w, a, g) ==
    /\ s.pending = PUT_STATE_REQUEST /\ s.runtime = TRUE /\ s.key = a.key
    /\ Writes(a, g, s.value)
    /\ w.image = "coffee"
    /\ \/ w.op = "CREATE" /\ w.fsm = 12
       \/ w.op = "ADD"    /\ w.fsm = 22

(***************************************************************************)
(* The handler of the request q is in its loop, with the operation o, the  *)
(* streams p and w, the session s and the instance m.                      *)
(***************************************************************************)
AsksGet(q, x, o, p, w, s, m) ==
    /\ q.image = "coffee" /\ AtGet(s, m, q.args)
    /\ o.buf.key = q.args.key /\ x.writes = NoWrites
    /\ w # <<>> => Head(w) = GetStateRequest(q.args.key)
    /\ p # <<>> => Read(x, q.args.key, Head(p).value)

AsksPut(q, x, o, p, w, s, m) ==
    /\ q.image = "coffee"
    /\ \E g \in Value : AtPut(s, m, q.args, g) /\ Read(x, q.args.key, g)
    /\ o.buf.key = q.args.key /\ o.buf.value = s.value
    /\ w # <<>> => Head(w) = PutStateRequest(q.args.key, s.value)
    /\ x.writes = IF p # <<>> THEN Wrote(q.args.key, s.value) ELSE NoWrites

LoopOK(q, x, o, p, w, s, m) ==
    /\ o.type = INVOCATION_RESPONSE => Justified(q, x, o.buf.resp)
    /\ o.type = GET_STATE_REQUEST => AsksGet(q, x, o, p, w, s, m)
    /\ o.type = PUT_STATE_REQUEST => AsksPut(q, x, o, p, w, s, m)

\* The invocation of the request q on its way from the call to the answer:
\* its handler is at h and works on j.
PhaseOK(q, x, h, p, w, j, o, s, m) ==
    /\ h = "none" /\ p # <<>> => Head(p) = InvocationRequest(q.image, q.args)
    /\ h \in {"load", "run"} => j = q
    /\ h \in {"none", "load", "run"} => x.writes = NoWrites
    /\ h \in {"dispatch", "read"} => LoopOK(q, x, o, p, w, s, m)
    /\ h \notin Executing /\ w # <<>> /\ Head(w).type = INVOCATION_RESPONSE
         => Justified(q, x, Head(w).resp)
    /\ w # <<>> /\ Head(w).type \in {GET_STATE_REQUEST, PUT_STATE_REQUEST}
         => Head(w).key = q.args.key

CallOK(i) ==
    /\ fate[i] # "open" => wpc[i] = "success"
    /\ wpc[i] = "idle" => req[i] = ZeroReq /\ wset[i] = NoWrites
    /\ wpc[i] = "recv" =>
          /\ req[i] \in Request
          /\ PhaseOK(req[i], Tx(i), hpc[i], toProxy[i], toWrapper[i], job[i], op[i], sc, wasm)
    /\ wpc[i] = "success" /\ fate[i] = "open" => Justified(req[i], Tx(i), result[i])
    /\ rset[i] \union Written(i) \subseteq {req[i].args.key}

RInv == \A i \in Caller : CallOK(i)

-----------------------------------------------------------------------------
(***************************************************************************)
(* The guest, step by step.                                                *)
(***************************************************************************)
\* The first step of an invocation asks for the key, or answers at once.
LEMMA GuestStarts ==
    ASSUME NEW s \in SessionCtx, s.pending = NONE, s.hasResponse = FALSE, s.runtime = TRUE,
           NEW img \in GuestImage, NEW q, q.image = img, q.args = s.args,
           StepResume(s, Instantiate(img))
    PROVE  \/ img = "coffee" /\ AtGet(sc', wasm', s.args)
           \/ sc'.pending = NONE /\ AnswersUnread(q, FinalResponse(sc'))
  <1> DEFINE w == FetchFunction(s, Instantiate(img))
             a == s.args
  <1>0. /\ a \in Args /\ a.fn \in FunctionName /\ a.key \in AnyKey /\ a.val \in Value
    BY DEF SessionCtx, Args
  <1>1. /\ w = [image |-> img, fn |-> a.fn, op |-> "NONE", fsm |-> 0,
                person |-> EmptyKey, arg1 |-> Empty, cur |-> Empty]
    BY DEF FetchFunction, Instantiate
  <1>2. CASE img = "coffee" /\ CoffeeStep(s, w)
    <2>1. w.op = "NONE" /\ w.fn = a.fn /\ w.image = "coffee" /\ w.fsm = 0
      BY <1>1, <1>2
    <2>2. CASE a.fn = "create" /\ DoCreateInit(s, w)
      <3>1. /\ sc' = [s EXCEPT !.key = a.key, !.pending = GET_STATE_REQUEST, !.out = TRUE]
            /\ wasm' = [w EXCEPT !.op = "CREATE", !.person = a.key, !.arg1 = a.val, !.cur = Empty,
                                 !.fsm = IF a.key # EmptyKey THEN 11 ELSE 0]
        BY <2>1, <2>2 DEF DoCreateInit, CcGetState, CcGetStateIsPositive
      <3> QED BY <1>1, <1>2, <2>2, <3>1 DEF AtGet, SessionCtx
    <2>3. CASE a.fn = "add" /\ DoAddInit(s, w)
      <3>1. /\ sc' = [s EXCEPT !.key = a.key, !.pending = GET_STATE_REQUEST, !.out = TRUE]
            /\ wasm' = [w EXCEPT !.op = "ADD", !.person = a.key, !.arg1 = a.val, !.cur = Empty,
                                 !.fsm = 21]
        BY <2>3 DEF DoAddInit, CcGetState
      <3> QED BY <1>1, <1>2, <2>3, <3>1 DEF AtGet, SessionCtx
    <2>4. CASE a.fn = "query" /\ DoQueryInit(s, w)
      <3>1. /\ sc' = [s EXCEPT !.key = a.key, !.pending = GET_STATE_REQUEST, !.out = TRUE]
            /\ wasm' = [w EXCEPT !.op = "QUERY", !.person = a.key, !.cur = Empty, !.fsm = 31]
        BY <2>4 DEF DoQueryInit, CcGetState
      <3> QED BY <1>1, <1>2, <2>4, <3>1 DEF AtGet, SessionCtx
    <2>5. CASE a.fn \in {"other", ""} /\ sc' = CcReturnResponse(s, Say("ERROR"))
      <3>1. Say("ERROR") \in Response /\ Say("ERROR").tag # ""
        BY SayTypes DEF ResponseTag, Say
      <3>2. FinalResponse(sc') = Say("ERROR") /\ sc'.pending = NONE
        BY <2>5, <3>1, FinalReturn DEF CcReturnResponse, SessionCtx
      <3> QED BY <1>2, <2>5, <3>2 DEF AnswersUnread
    <2> QED BY <1>2, <2>1, <2>2, <2>3, <2>4, <2>5 DEF CoffeeStep
  <1>3. CASE img = "blank" /\ sc' = CcReturnResponse(s, Say(""))
    <2>1. sc'.response = Say("") /\ sc'.hasResponse = TRUE /\ sc'.pending = NONE
      BY <1>3 DEF CcReturnResponse, SessionCtx
    <2> QED BY <1>3, <2>1 DEF FinalResponse, AnswersUnread
  <1>4. CASE img = "oob" /\ sc' = s
    BY <1>4 DEF FinalResponse, AnswersUnread
  <1>5. Instantiate(img).image = img
    BY DEF Instantiate
  <1> QED BY <1>2, <1>3, <1>4, <1>5 DEF StepResume

\* A step with a response other than the empty string ends the invocation.
LEMMA Responded ==
    ASSUME NEW s \in SessionCtx, s.pending = NONE, NEW r \in Response, r.tag # "",
           sc' = CcReturnResponse(s, r)
    PROVE  sc'.pending = NONE /\ FinalResponse(sc') = r
  BY FinalReturn DEF CcReturnResponse, SessionCtx

\* The words of the chaincode are not the empty string.
LEMMA Words ==
    /\ \A t \in {"OK", "EXIST", "EMPTY", "NOTFOUND"} : Say(t) \in Response /\ Say(t).tag # ""
    /\ \A v \in Value : SayValue(v) \in Response /\ SayValue(v).tag # ""
  BY SayTypes DEF ResponseTag, Say, SayValue

\* The step that is told the value v of the key asks for the write, or answers.
LEMMA GuestTold ==
    ASSUME NEW s \in SessionCtx, NEW w \in Instance, NEW a \in Args, NEW v \in Value,
           AtGet(s, w, a), a.key \notin Key => v = Empty,
           NEW t \in SessionCtx, t = [s EXCEPT !.pending = NONE, !.out = FALSE],
           NEW u \in Instance, u = [w EXCEPT !.cur = v],
           StepResume(t, u)
    PROVE  \/ AtPut(sc', wasm', a, v)
           \/ sc'.pending = NONE /\ AnswersRead(a, v, FinalResponse(sc'))
  <1>1. /\ t.pending = NONE /\ t.hasResponse = FALSE /\ t.runtime = TRUE /\ t.key = a.key
        /\ u.image = "coffee" /\ u.person = a.key /\ u.cur = v /\ u.op = w.op /\ u.fsm = w.fsm
        /\ u.arg1 = w.arg1 /\ u.op # "NONE"
    BY DEF AtGet, SessionCtx, Instance
  <1>2. CoffeeStep(t, u)
    BY <1>1 DEF StepResume, FetchFunction
  <1>3. a.key \in Key \union {EmptyKey} /\ a.val \in Value
    BY DEF Args, AnyKey
  <1>4. CASE a.fn = "create"
    <2>1. u.op = "CREATE" /\ u.arg1 = a.val /\ u.fsm = IF a.key = EmptyKey THEN 0 ELSE 11
      BY <1>1, <1>4 DEF AtGet
    <2>2. DoCreateResume(t, u)
      BY <1>2, <2>1 DEF CoffeeStep
    <2>3. CASE a.key = EmptyKey
      <3>1. sc' = t
        BY <2>1, <2>2, <2>3 DEF DoCreateResume
      <3> QED BY <1>1, <1>4, <2>3, <3>1 DEF FinalResponse, AnswersRead
    <2>4. CASE a.key # EmptyKey /\ v # Empty
      <3>1. sc' = CcReturnResponse(t, Say("EXIST"))
        BY <1>1, <2>1, <2>2, <2>4 DEF DoCreateResume
      <3>2. sc'.pending = NONE /\ FinalResponse(sc') = Say("EXIST")
        BY <1>1, <3>1, Responded, Words
      <3> QED BY <1>3, <1>4, <2>4, <3>2 DEF AnswersRead
    <2>5. CASE a.key # EmptyKey /\ v = Empty
      <3>1. sc' = CcPutState(t, a.key, a.val) /\ wasm' = [u EXCEPT !.fsm = 12]
        BY <1>1, <2>1, <2>2, <2>5 DEF DoCreateResume
      <3>2. /\ sc'.pending = PUT_STATE_REQUEST /\ sc'.key = a.key /\ sc'.value = a.val
            /\ sc'.runtime = TRUE
        BY <1>1, <3>1 DEF CcPutState, SessionCtx
      <3>3. wasm'.image = "coffee" /\ wasm'.op = "CREATE" /\ wasm'.fsm = 12
        BY <1>1, <2>1, <3>1 DEF Instance
      <3> QED BY <1>3, <1>4, <2>5, <3>2, <3>3 DEF AtPut, Writes
    <2> QED BY <2>3, <2>4, <2>5
  <1>5. CASE a.fn = "add"
    <2>1. u.op = "ADD" /\ u.arg1 = a.val /\ u.fsm = 21
      BY <1>1, <1>5 DEF AtGet
    <2>2. DoAddResume(t, u)
      BY <1>2, <2>1 DEF CoffeeStep
    <2>3. CASE v = Empty
      <3>1. sc' = CcReturnResponse(t, Say("EMPTY"))
        BY <1>1, <2>1, <2>2, <2>3 DEF DoAddResume
      <3>2. sc'.pending = NONE /\ FinalResponse(sc') = Say("EMPTY")
        BY <1>1, <3>1, Responded, Words
      <3> QED BY <1>5, <2>3, <3>2 DEF AnswersRead
    <2>4. CASE v # Empty
      <3>1. sc' = CcPutState(t, a.key, AddWraps(v, a.val)) /\ wasm' = [u EXCEPT !.fsm = 22]
        BY <1>1, <2>1, <2>2, <2>4 DEF DoAddResume
      <3>2. /\ sc'.pending = PUT_STATE_REQUEST /\ sc'.key = a.key
            /\ sc'.value = AddWraps(v, a.val) /\ sc'.runtime = TRUE
        BY <1>1, <3>1 DEF CcPutState, SessionCtx
      <3>3. wasm'.image = "coffee" /\ wasm'.op = "ADD" /\ wasm'.fsm = 22
        BY <1>1, <2>1, <3>1 DEF Instance
      <3> QED BY <1>5, <2>4, <3>2, <3>3 DEF AtPut, Writes
    <2> QED BY <2>3, <2>4
  <1>6. CASE a.fn = "query"
    <2>1. u.op = "QUERY" /\ u.fsm = 31
      BY <1>1, <1>6 DEF AtGet
    <2>2. sc' = CcReturnResponse(t, IF v = Empty THEN Say("NOTFOUND") ELSE SayValue(v))
      BY <1>1, <1>2, <2>1 DEF CoffeeStep, DoQueryResume
    <2>3. CASE v = Empty
      <3>1. sc'.pending = NONE /\ FinalResponse(sc') = Say("NOTFOUND")
        BY <1>1, <2>2, <2>3, Responded, Words
      <3> QED BY <1>6, <2>3, <3>1 DEF AnswersRead
    <2>4. CASE v # Empty
      <3>1. sc'.pending = NONE /\ FinalResponse(sc') = SayValue(v)
        BY <1>1, <2>2, <2>4, Responded, Words
      <3> QED BY <1>6, <2>4, <3>1 DEF AnswersRead
    <2> QED BY <2>3, <2>4
  <1> QED BY <1>4, <1>5, <1>6 DEF AtGet

\* The step after the write says OK.
LEMMA GuestWrote ==
    ASSUME NEW s \in SessionCtx, NEW w \in Instance, NEW a, NEW g, AtPut(s, w, a, g),
           NEW t \in SessionCtx, t = [s EXCEPT !.pending = NONE],
           StepResume(t, w)
    PROVE  sc'.pending = NONE /\ FinalResponse(sc') = Say("OK")
  <1>1. t.pending = NONE
    BY DEF SessionCtx
  <1>2. w.image = "coffee" /\ ((w.op = "CREATE" /\ w.fsm = 12) \/ (w.op = "ADD" /\ w.fsm = 22))
    BY DEF AtPut
  <1>3. CoffeeStep(t, w)
    BY <1>2 DEF StepResume, FetchFunction
  <1>4. sc' = CcReturnResponse(t, Say("OK"))
    <2>1. CASE w.op = "CREATE" /\ w.fsm = 12
      <3>1. DoCreateResume(t, w)
        BY <1>3, <2>1 DEF CoffeeStep
      <3> QED BY <2>1, <3>1 DEF DoCreateResume
    <2>2. CASE w.op = "ADD" /\ w.fsm = 22
      <3>1. DoAddResume(t, w)
        BY <1>3, <2>2 DEF CoffeeStep
      <3> QED BY <2>2, <3>1 DEF DoAddResume
    <2> QED BY <1>2, <2>1, <2>2
  <1> QED BY <1>1, <1>4, Responded, Words

-----------------------------------------------------------------------------
(***************************************************************************)
(* The two commands.  RUN_WASM on a clean session leaves the first request *)
(* of the guest, or an answer that needs no read.                          *)
(***************************************************************************)
LEMMA RunLeaves ==
    ASSUME IInv, NEW i \in Caller, NEW q \in Request, q.image # "missing",
           NEW x, x.writes = NoWrites,
           RunWasm(i, q.image, q.args), op'[i].res = SUCCESS
    PROVE  LoopOK(q, x, op'[i], <<>>, <<>>, sc', wasm')
  <1>1. PICK k \in AnyKey, g \in Value : GuestOK(sc, wasm, k, g) /\ SessionOK /\ TaTypeOK
    BY DEF IInv, TypeInv, TaInv
  <1>2. q.image \in Image /\ q.args \in Args
    BY RequestAssumption
  <1> DEFINE s == Initialised(q.args)
             w == Instantiate(q.image)
  <1>3. /\ ~sc.runtime /\ sc'.runtime /\ SessionOK' /\ ProcessHostcallFlow(i, s, w)
    BY <1>1, <1>2, RunOK
  <1>4. /\ sc \in SessionCtx /\ sc.pending = NONE /\ sc.hasResponse = FALSE
        /\ op \in [Caller -> Operation]
    <2>1. /\ sc \in SessionCtx /\ sc.pending = NONE /\ wasm = NoInstance
          /\ op \in [Caller -> Operation]
      BY <1>1, <1>3 DEF TaTypeOK, SessionOK
    <2>3. wasm.image = "none"
      BY <2>1 DEF NoInstance, Instantiate
    <2>2. ~sc.hasResponse /\ sc.hasResponse \in BOOLEAN
      BY <1>1, <2>1, <2>3 DEF GuestOK, SessionCtx
    <2> QED BY <2>1, <2>2
  <1>5. /\ s \in SessionCtx /\ s.pending = NONE /\ s.hasResponse = FALSE /\ s.runtime = TRUE
        /\ s.args = q.args
    BY <1>2, <1>4 DEF Initialised, WithArgs, SessionCtx
  <1>6. w.image = q.image
    BY DEF Instantiate
  <1>7. q.image \in GuestImage
    <2>1. CASE StepFails(i, s, w)
      BY <1>3, <1>6, <2>1 DEF StepFails, SessionOK
    <2>2. CASE StepResume(s, w)
      BY <1>6, <2>2 DEF StepResume, GuestImage
    <2> QED BY <1>3, <2>1, <2>2 DEF ProcessHostcallFlow
  <1>8. w \in Instance
    BY <1>7, FreshValues
  <1>9. ASSUME StepResume(s, w)
        PROVE  \/ q.image = "coffee" /\ AtGet(sc', wasm', q.args)
               \/ sc'.pending = NONE /\ AnswersUnread(q, FinalResponse(sc'))
    <2> HIDE DEF s
    <2> QED BY <1>5, <1>7, <1>9, GuestStarts DEF w
  <1> HIDE DEF s, w
  <1>10. sc' \in SessionCtx /\ sc'.key \in AnyKey
    BY <1>3, <1>4, <1>5, <1>8, FlowTypes DEF SessionCtx
  <1>11. CASE /\ sc'.pending = GET_STATE_REQUEST /\ op'[i].type = GET_STATE_REQUEST
              /\ op'[i].buf = KeyBuf(sc'.key) /\ StepResume(s, w)
    <2>1. q.image = "coffee" /\ AtGet(sc', wasm', q.args)
      BY <1>9, <1>11
    <2>2. op'[i].buf.key = q.args.key
      BY <1>10, <1>11, <2>1, KeyBufType DEF AtGet
    <2> QED BY <1>11, <2>1, <2>2 DEF LoopOK, AsksGet
  <1>12. CASE /\ sc'.pending = PUT_STATE_REQUEST /\ StepResume(s, w)
    BY <1>9, <1>12 DEF AtGet
  <1>13. CASE /\ sc'.pending = NONE /\ op'[i].type = INVOCATION_RESPONSE
              /\ op'[i].buf = ResponseBuf(FinalResponse(sc')) /\ StepResume(s, w)
    <2>1. AnswersUnread(q, FinalResponse(sc'))
      BY <1>9, <1>13 DEF AtGet
    <2>2. op'[i].buf.resp = FinalResponse(sc')
      BY <1>10, <1>13, FinalResponseType, ResponseBufType
    <2> QED BY <1>13, <2>1, <2>2 DEF LoopOK, Justified
  <1>14. CASE /\ op'[i].type = INVOCATION_RESPONSE
              /\ op'[i].buf = ResponseBuf(Say("RUNTIME_ERROR"))
    <2>1. op'[i].buf.resp = Say("RUNTIME_ERROR")
      BY <1>14, SayTypes, ResponseBufType DEF ResponseTag
    <2> QED BY <1>7, <1>14, <2>1 DEF LoopOK, Justified, AnswersUnread
  <1> QED BY <1>3, <1>4, <1>5, <1>8, <1>11, <1>12, <1>13, <1>14, FlowTypes

\* RESUME_WASM with the value that was read.
LEMMA ResumeTold ==
    ASSUME IInv, NEW i \in Caller, NEW q \in Request, NEW x, NEW o, NEW p, NEW w,
           AsksGet(q, x, o, p, w, sc, wasm), NEW v \in Value, Read(x, q.args.key, v),
           ResumeWasm(i, v)
    PROVE  LoopOK(q, x, op'[i], <<>>, <<>>, sc', wasm')
  <1> DEFINE a == q.args
  <1>1. /\ q.image = "coffee" /\ x.writes = NoWrites /\ AtGet(sc, wasm, a)
    BY DEF AsksGet
  <1>2. /\ sc \in SessionCtx /\ wasm \in Instance /\ op \in [Caller -> Operation]
        /\ a \in Args
    BY RequestAssumption DEF IInv, TypeInv, TaTypeOK
  <1>3. /\ sc.pending = GET_STATE_REQUEST /\ sc.out = TRUE /\ sc.runtime = TRUE
        /\ wasm.cur = Empty /\ wasm.image \in GuestImage
    BY <1>1 DEF AtGet, GuestImage
  <1> DEFINE t == ClearPending
             u == CopyAnswer(v)
  <1>4. /\ t = [sc EXCEPT !.pending = NONE, !.out = FALSE] /\ t \in SessionCtx
    BY <1>2, <1>3 DEF ClearPending, SessionCtx
  <1>5. u = [wasm EXCEPT !.cur = v] /\ u \in Instance
    <2>1. CASE v # Empty
      BY <1>2, <1>3, <2>1 DEF CopyAnswer, Instance
    <2>2. CASE v = Empty
      <3>1. wasm = [wasm EXCEPT !.cur = Empty]
        BY <1>2, <1>3 DEF Instance
      <3> QED BY <1>2, <2>2, <3>1 DEF CopyAnswer
    <2> QED BY <2>1, <2>2
  <1>6. ProcessHostcallFlow(i, t, u)
    BY <1>3 DEF ResumeWasm, ResumeWithoutRuntime, ResumePanics
  <1>7. a.key \notin Key => v = Empty
    BY DEF Read
  <1> HIDE DEF t, u, a
  <1>8. ASSUME StepResume(t, u)
        PROVE  \/ AtPut(sc', wasm', a, v)
               \/ sc'.pending = NONE /\ AnswersRead(a, v, FinalResponse(sc'))
    BY <1>1, <1>2, <1>4, <1>5, <1>7, <1>8, GuestTold
  <1>9. sc' \in SessionCtx /\ sc'.key \in AnyKey /\ sc'.value \in Value
    BY <1>2, <1>4, <1>5, <1>6, FlowTypes DEF SessionCtx
  <1>10. CASE sc'.pending = GET_STATE_REQUEST /\ StepResume(t, u)
    BY <1>8, <1>10 DEF AtPut
  <1>11. CASE /\ sc'.pending = PUT_STATE_REQUEST /\ op'[i].type = PUT_STATE_REQUEST
              /\ op'[i].buf = KeyValueBuf(sc'.key, sc'.value) /\ StepResume(t, u)
    <2>1. AtPut(sc', wasm', a, v)
      BY <1>8, <1>11
    <2>2. op'[i].buf.key = a.key /\ op'[i].buf.value = sc'.value
      <3>1. sc'.key = a.key
        BY <2>1 DEF AtPut
      <3>2. /\ KeyValueBuf(sc'.key, sc'.value).key = sc'.key
            /\ KeyValueBuf(sc'.key, sc'.value).value = sc'.value
        BY <1>9, KeyValueBufType
      <3> QED BY <1>11, <3>1, <3>2
    <2> QED BY <1>1, <1>11, <2>1, <2>2 DEF LoopOK, AsksPut, a
  <1>12. CASE /\ sc'.pending = NONE /\ op'[i].type = INVOCATION_RESPONSE
              /\ op'[i].buf = ResponseBuf(FinalResponse(sc')) /\ StepResume(t, u)
    <2>1. AnswersRead(a, v, FinalResponse(sc'))
      BY <1>8, <1>12 DEF AtPut
    <2>2. op'[i].buf.resp = FinalResponse(sc')
      BY <1>9, <1>12, FinalResponseType, ResponseBufType
    <2> QED BY <1>1, <1>12, <2>1, <2>2 DEF LoopOK, Justified, a
  <1>13. CASE /\ op'[i].type = INVOCATION_RESPONSE
              /\ op'[i].buf = ResponseBuf(Say("RUNTIME_ERROR"))
    <2>1. op'[i].buf.resp = Say("RUNTIME_ERROR")
      BY <1>13, SayTypes, ResponseBufType DEF ResponseTag
    <2> QED BY <1>1, <1>13, <2>1 DEF LoopOK, Justified, AnswersUnread, GuestImage
  <1> QED BY <1>2, <1>4, <1>5, <1>6, <1>10, <1>11, <1>12, <1>13, FlowTypes

\* RESUME_WASM after the write.
LEMMA ResumeWrote ==
    ASSUME IInv, NEW i \in Caller, NEW q \in Request, NEW x, NEW o, NEW p, NEW w,
           AsksPut(q, x, o, p, w, sc, wasm), p # <<>>, NEW v \in Value, ResumeWasm(i, v)
    PROVE  LoopOK(q, x, op'[i], <<>>, <<>>, sc', wasm')
  <1> DEFINE a == q.args
  <1>1. /\ q.image = "coffee" /\ x.writes = Wrote(a.key, sc.value)
    BY DEF AsksPut
  <1>2. PICK g \in Value : AtPut(sc, wasm, a, g) /\ Read(x, a.key, g)
    BY DEF AsksPut
  <1>3. /\ sc \in SessionCtx /\ wasm \in Instance /\ op \in [Caller -> Operation]
        /\ sc.value \in Value
    BY DEF IInv, TypeInv, TaTypeOK, SessionCtx
  <1>4. /\ sc.pending = PUT_STATE_REQUEST /\ sc.runtime = TRUE /\ Writes(a, g, sc.value)
        /\ wasm.image \in GuestImage
    BY <1>2 DEF AtPut, GuestImage
  <1> DEFINE t == ClearPending
  <1>5. t = [sc EXCEPT !.pending = NONE] /\ t \in SessionCtx /\ CopyAnswer(v) = wasm
    BY <1>3, <1>4 DEF ClearPending, CopyAnswer, SessionCtx
  <1>6. ProcessHostcallFlow(i, t, wasm)
    BY <1>4, <1>5 DEF ResumeWasm, ResumeWithoutRuntime, ResumePanics
  <1> HIDE DEF t
  <1>7. ASSUME StepResume(t, wasm)
        PROVE  sc'.pending = NONE /\ FinalResponse(sc') = Say("OK")
    BY <1>2, <1>3, <1>5, <1>7, GuestWrote
  <1>8. op'[i].type = INVOCATION_RESPONSE /\ op'[i].buf.resp \in {Say("OK"), Say("RUNTIME_ERROR")}
    <2>1. /\ Say("OK") \in Response /\ Say("RUNTIME_ERROR") \in Response
      BY SayTypes DEF ResponseTag
    <2> QED BY <1>3, <1>5, <1>6, <1>7, <2>1, FlowTypes, ResponseBufType
  <1>9. Justified(q, x, op'[i].buf.resp)
    <2> HIDE DEF a
    <2> QED BY <1>1, <1>2, <1>3, <1>4, <1>8 DEF Justified, a
  <1> QED BY <1>8, <1>9 DEF LoopOK

-----------------------------------------------------------------------------
(***************************************************************************)
(* Steps of the server.  They leave the transactions alone.                *)
(***************************************************************************)
LEMMA ServerFrame ==
    ASSUME UNCHANGED wrapperVars, NEW j \in Caller, CallOK(j),
           wpc[j] = "recv" => PhaseOK(req[j], Tx(j), hpc'[j], toProxy'[j], toWrapper'[j],
                                      job'[j], op'[j], sc', wasm')
    PROVE  CallOK(j)'
  <1>1. UNCHANGED <<wpc, req, result, ledger, rset, wset, stale, fate>>
    BY DEF wrapperVars
  <1>2. Tx(j)' = Tx(j) /\ Written(j)' = Written(j)
    BY <1>1 DEF Tx, Written
  <1> QED BY <1>1, <1>2 DEF CallOK

\* Whose handler is not at work does not depend on the session.
LEMMA PhaseAside ==
    ASSUME NEW q, NEW x, NEW h, NEW p, NEW w, NEW j, NEW o, NEW s, NEW m,
           PhaseOK(q, x, h, p, w, j, o, s, m), h \notin Executing,
           NEW j2, NEW o2, NEW s2, NEW m2
    PROVE  PhaseOK(q, x, h, p, w, j2, o2, s2, m2)
  BY DEF PhaseOK, Executing

\* Nor does an invocation whose handler leaves the loop without an answer.
LEMMA PhaseLeft ==
    ASSUME NEW q, NEW x, NEW h, NEW p, NEW w, NEW j, NEW o, NEW s, NEW m,
           PhaseOK(q, x, h, p, w, j, o, s, m), ChannelOK(p, w, h, o.type),
           h = "read" => o.type \in {GET_STATE_REQUEST, PUT_STATE_REQUEST},
           NEW b \in Restarting \union {"done", "dead"},
           NEW p2, NEW j2, NEW o2, NEW s2, NEW m2
    PROVE  PhaseOK(q, x, b, p2, w, j2, o2, s2, m2)
  <1>1. b \notin Executing /\ b # "none"
    BY DEF Restarting, Executing
  <1>2. w # <<>> /\ Head(w).type = INVOCATION_RESPONSE => h \notin Executing
    BY DEF ChannelOK, Executing
  <1> QED BY <1>1, <1>2 DEF PhaseOK, Executing

\* A step of the handler that is alone, or of the first one, concerns no other.
LEMMA CallStep ==
    ASSUME IInv, EInv, RInv, UNCHANGED wrapperVars,
           NEW i \in Caller, i \in Active \/ Active = {}, NEW b, Goto(i, b),
           \A j \in Caller \ {i} : toProxy'[j] = toProxy[j] /\ toWrapper'[j] = toWrapper[j],
           wpc[i] = "recv" => PhaseOK(req[i], Tx(i), b, toProxy'[i], toWrapper'[i],
                                      job'[i], op'[i], sc', wasm')
    PROVE  RInv'
  <1>1. hpc'[i] = b /\ \A j \in Caller \ {i} : hpc'[j] = hpc[j]
    BY DEF IInv, TypeInv, HandlerType, Goto
  <1>2. ASSUME NEW j \in Caller PROVE CallOK(j)'
    <2>1. CallOK(j)
      BY DEF RInv
    <2>2. CASE j = i
      BY <1>1, <2>1, <2>2, ServerFrame
    <2>3. CASE j # i
      <3>1. hpc[j] \notin Executing
        BY <2>3 DEF EInv, Alone, Active
      <3>2. wpc[j] = "recv" => PhaseOK(req[j], Tx(j), hpc[j], toProxy[j], toWrapper[j],
                                       job'[j], op'[j], sc', wasm')
        BY <2>1, <3>1, PhaseAside DEF CallOK
      <3> QED BY <1>1, <2>1, <2>3, <3>2, ServerFrame
    <2> QED BY <2>2, <2>3
  <1> QED BY <1>2 DEF RInv

\* What the invariants say of an invocation that waits for its answer.
LEMMA Phase ==
    ASSUME IInv, RInv, NEW i \in Caller, wpc[i] = "recv"
    PROVE  /\ PhaseOK(req[i], Tx(i), hpc[i], toProxy[i], toWrapper[i], job[i], op[i], sc, wasm)
           /\ ChannelOK(toProxy[i], toWrapper[i], hpc[i], op[i].type)
           /\ PartiesOK("recv", client[i], toProxy[i], hpc[i], job[i], op[i].type)
           /\ req[i] \in Request /\ client[i] = "open"
  <1>1. CallOK(i)
    BY DEF RInv
  <1>2. /\ ChannelOK(toProxy[i], toWrapper[i], hpc[i], op[i].type)
        /\ PartiesOK("recv", client[i], toProxy[i], hpc[i], job[i], op[i].type)
    BY DEF IInv, StreamInv
  <1> QED BY <1>1, <1>2 DEF CallOK, PartiesOK

\* A handler leaves the loop without an answer, or goes on with its restart.
LEMMA CallLeft ==
    ASSUME IInv, EInv, RInv, UNCHANGED wrapperVars,
           NEW i \in Caller, hpc[i] \in Executing \union Restarting,
           NEW b \in Restarting \union {"done", "dead"}, Goto(i, b),
           \A j \in Caller \ {i} : toProxy'[j] = toProxy[j], toWrapper' = toWrapper
    PROVE  RInv'
  <1>1. wpc[i] = "recv" => PhaseOK(req[i], Tx(i), b, toProxy'[i], toWrapper[i],
                                   job'[i], op'[i], sc', wasm')
    BY Phase, PhaseLeft DEF PartiesOK
  <1>2. i \in Active
    BY DEF Active
  <1> QED BY <1>1, <1>2, CallStep

\* The end of the process cuts every call.
LEMMA CallDies ==
    ASSUME IInv, RInv, ServerDies, UNCHANGED wrapperVars
    PROVE  RInv'
  <1>1. /\ hpc' = [j \in Caller |-> IF client[j] # "none" /\ hpc[j] # "done" THEN "dead" ELSE hpc[j]]
        /\ UNCHANGED <<toProxy, toWrapper>>
    BY DEF ServerDies, ServerEnds
  <1>2. ASSUME NEW j \in Caller PROVE CallOK(j)'
    <2>1. CallOK(j)
      BY DEF RInv
    <2>2. CASE wpc[j] = "recv"
      <3>1. hpc'[j] \in {"done", "dead"}
        BY <1>1, <2>2, Phase
      <3>2. PhaseOK(req[j], Tx(j), hpc'[j], toProxy'[j], toWrapper'[j], job'[j], op'[j], sc', wasm')
        BY <1>1, <2>2, <3>1, Phase, PhaseLeft DEF PartiesOK
      <3> QED BY <2>1, <3>2, ServerFrame
    <2>3. CASE wpc[j] # "recv"
      BY <2>1, <2>3, ServerFrame
    <2> QED BY <2>2, <2>3
  <1> QED BY <1>2 DEF RInv

\* The start of the process finds no handler at work.
LEMMA CallStarts ==
    ASSUME IInv, RInv, StartServer, UNCHANGED wrapperVars
    PROVE  RInv'
  <1>1. ~up /\ hpc' = hpc /\ toProxy' = toProxy /\ toWrapper' = toWrapper
    BY DEF StartServer, streamVars
  <1>2. ASSUME NEW j \in Caller PROVE CallOK(j)'
    <2>1. CallOK(j)
      BY DEF RInv
    <2>2. hpc[j] \notin Executing
      BY <1>1 DEF IInv, RepairInv, At
    <2>3. wpc[j] = "recv" => PhaseOK(req[j], Tx(j), hpc[j], toProxy[j], toWrapper[j],
                                     job'[j], op'[j], sc', wasm')
      BY <2>1, <2>2, PhaseAside DEF CallOK
    <2> QED BY <1>1, <2>1, <2>3, ServerFrame
  <1> QED BY <1>2 DEF RInv

\* The server takes the call: the handler works on what the client asked for.
LEMMA CallAccepted ==
    ASSUME IInv, EInv, RInv, Alone', NEW i \in Caller, AcceptStep(i)
    PROVE  RInv'
  <1>0. UNCHANGED wrapperVars
    BY DEF AcceptStep
  <1>1. CASE ReadInvocation(i)
    <2>1. Active = {}
      BY <1>1, TakenAlone
    <2>2. /\ hpc[i] = "none" /\ toProxy[i] # <<>> /\ Goto(i, "load")
          /\ toProxy' = [toProxy EXCEPT ![i] = Tail(@)] /\ toWrapper' = toWrapper
          /\ job' = [job EXCEPT ![i] = [image |-> Head(toProxy[i]).image,
                                        args |-> Head(toProxy[i]).args]]
      BY <1>1 DEF ReadInvocation, ServerReads
    <2>3. \A j \in Caller \ {i} : toProxy'[j] = toProxy[j] /\ toWrapper'[j] = toWrapper[j]
      BY <2>2 DEF IInv, TypeInv, StreamType
    <2>4. ASSUME wpc[i] = "recv"
          PROVE  PhaseOK(req[i], Tx(i), "load", toProxy'[i], toWrapper'[i],
                         job'[i], op'[i], sc', wasm')
      <3>1. /\ PhaseOK(req[i], Tx(i), "none", toProxy[i], toWrapper[i], job[i], op[i], sc, wasm)
            /\ toWrapper[i] = <<>> /\ req[i] \in Request
        BY <2>2, <2>4, Phase DEF ChannelOK
      <3>2. /\ Head(toProxy[i]) = InvocationRequest(req[i].image, req[i].args)
            /\ Tx(i).writes = NoWrites
        BY <2>2, <3>1 DEF PhaseOK
      <3>3. job'[i] = [image |-> req[i].image, args |-> req[i].args]
        BY <2>2, <3>2 DEF IInv, TypeInv, HandlerType, InvocationRequest
      <3>4. job'[i] = req[i]
        BY <3>1, <3>3, RequestAssumption
      <3> QED BY <2>2, <3>1, <3>2, <3>4 DEF PhaseOK, Executing
    <2> QED BY <1>0, <2>1, <2>2, <2>3, <2>4, CallStep
  <1>2. CASE ReadInvocationFails(i)
    <2>1. /\ Goto(i, "done") /\ client[i] = "gone" /\ UNCHANGED <<toProxy, toWrapper, job>>
          /\ UNCHANGED taVars
      BY <1>2 DEF ReadInvocationFails, ServerEnds
    <2>2. \A j \in Caller \ {i} : hpc'[j] = hpc[j]
      BY <2>1 DEF Goto, IInv, TypeInv, HandlerType
    <2>3. wpc[i] # "recv"
      BY <2>1, Phase
    <2>4. ASSUME NEW j \in Caller PROVE CallOK(j)'
      <3>1. CallOK(j)
        BY DEF RInv
      <3>2. CASE j = i
        BY <1>0, <2>3, <3>1, <3>2, ServerFrame
      <3>3. CASE j # i
        <4>1. hpc'[j] = hpc[j] /\ op' = op /\ sc' = sc /\ wasm' = wasm
          BY <2>1, <2>2, <3>3 DEF taVars
        <4>2. wpc[j] = "recv" => PhaseOK(req[j], Tx(j), hpc'[j], toProxy'[j], toWrapper'[j],
                                         job'[j], op'[j], sc', wasm')
          BY <2>1, <3>1, <4>1 DEF CallOK
        <4> QED BY <1>0, <3>1, <4>2, ServerFrame
      <3> QED BY <3>2, <3>3
    <2> QED BY <2>4 DEF RInv
  <1> QED BY <1>1, <1>2 DEF AcceptStep

LEMMA CallLoads ==
    ASSUME IInv, EInv, RInv, NEW i \in Caller, LoadFile(i), UNCHANGED wrapperVars
    PROVE  RInv'
  <1>1. /\ hpc[i] = "load" /\ Goto(i, "run")
        /\ UNCHANGED <<toProxy, toWrapper, job, op, sc, wasm>>
    BY DEF LoadFile, taVars, streamVars
  <1>2. wpc[i] = "recv" => PhaseOK(req[i], Tx(i), "run", toProxy[i], toWrapper[i],
                                   job[i], op[i], sc, wasm)
    <2>1. ASSUME wpc[i] = "recv"
          PROVE  PhaseOK(req[i], Tx(i), "load", toProxy[i], toWrapper[i], job[i], op[i], sc, wasm)
      BY <1>1, <2>1, Phase
    <2> QED BY <2>1 DEF PhaseOK, Executing
  <1>3. i \in Active
    BY <1>1 DEF Active, Executing
  <1> QED BY <1>1, <1>2, <1>3, CallStep

\* In the loop the streams are empty when the handler has the turn.
LEMMA LoopPhase ==
    ASSUME NEW q, NEW x, NEW j, NEW o, NEW s, NEW m, LoopOK(q, x, o, <<>>, <<>>, s, m)
    PROVE  PhaseOK(q, x, "dispatch", <<>>, <<>>, j, o, s, m)
  BY DEF PhaseOK, Executing

LEMMA CallRuns ==
    ASSUME IInv, EInv, RInv, NEW i \in Caller, InvokeRun(i), UNCHANGED wrapperVars
    PROVE  RInv'
  <1>1. /\ hpc[i] = "run" /\ AfterCommand(i) /\ UNCHANGED <<toProxy, toWrapper>>
    BY DEF InvokeRun, streamVars
  <1>2. i \in Active /\ SoleOK("run", i)
    BY <1>1 DEF Active, Executing, EInv
  <1>3. op'[i].res = SUCCESS => RunWasm(i, job[i].image, job[i].args)
    BY NotDeliveredOK DEF InvokeRun
  <1>4. CASE op'[i].res = SUCCESS
    <2>1. Goto(i, "dispatch")
      BY <1>1, <1>4 DEF AfterCommand
    <2>2. ASSUME wpc[i] = "recv"
          PROVE  PhaseOK(req[i], Tx(i), "dispatch", toProxy'[i], toWrapper'[i],
                         job'[i], op'[i], sc', wasm')
      <3>1. /\ PhaseOK(req[i], Tx(i), "run", toProxy[i], toWrapper[i], job[i], op[i], sc, wasm)
            /\ toProxy[i] = <<>> /\ toWrapper[i] = <<>> /\ req[i] \in Request
            /\ job[i].image # "missing"
        BY <1>1, <2>2, Phase DEF ChannelOK, PartiesOK
      <3>2. job[i] = req[i] /\ Tx(i).writes = NoWrites
        BY <3>1 DEF PhaseOK
      <3>3. LoopOK(req[i], Tx(i), op'[i], <<>>, <<>>, sc', wasm')
        BY <1>3, <1>4, <3>1, <3>2, RunLeaves
      <3> QED BY <1>1, <3>1, <3>3, LoopPhase
    <2> QED BY <1>1, <1>2, <2>1, <2>2, CallStep
  <1>5. CASE op'[i].res # SUCCESS
    <2>1. Goto(i, "close")
      BY <1>1, <1>5 DEF AfterCommand
    <2> QED BY <1>1, <2>1, CallLeft DEF Executing, Restarting
  <1> QED BY <1>4, <1>5

\* The proxy forwards the request of the guest as it is.
LEMMA CallForwards ==
    ASSUME IInv, EInv, RInv, NEW i \in Caller, ForwardRequest(i), UNCHANGED wrapperVars
    PROVE  RInv'
  <1>1. /\ hpc[i] = "dispatch" /\ Goto(i, "read") /\ UNCHANGED <<job, op, sc, wasm>>
    BY DEF ForwardRequest, taVars
  <1>2. PICK m : /\ toWrapper' = [toWrapper EXCEPT ![i] = Append(@, m)] /\ toProxy' = toProxy
                 /\ \/ /\ op[i].type = GET_STATE_REQUEST
                       /\ m = GetStateRequest(op[i].buf.key)
                    \/ /\ op[i].type = PUT_STATE_REQUEST
                       /\ m = PutStateRequest(op[i].buf.key, op[i].buf.value)
    BY DEF ForwardRequest, ServerWrites
  <1>3. toWrapper \in [Caller -> Queue(ToWrapperMsg)]
    BY DEF IInv, TypeInv, StreamType
  <1>4. \A j \in Caller \ {i} : toProxy'[j] = toProxy[j] /\ toWrapper'[j] = toWrapper[j]
    BY <1>2, <1>3
  <1>5. i \in Active
    BY <1>1 DEF Active, Executing
  <1>6. ASSUME wpc[i] = "recv"
        PROVE  PhaseOK(req[i], Tx(i), "read", toProxy'[i], toWrapper'[i],
                       job'[i], op'[i], sc', wasm')
    <2>1. /\ PhaseOK(req[i], Tx(i), "dispatch", toProxy[i], toWrapper[i], job[i], op[i], sc, wasm)
          /\ toProxy[i] = <<>> /\ toWrapper[i] = <<>>
      BY <1>1, <1>6, Phase DEF ChannelOK
    <2>2. LoopOK(req[i], Tx(i), op[i], <<>>, <<>>, sc, wasm)
      BY <2>1 DEF PhaseOK
    <2>3. toWrapper'[i] = Append(<<>>, m) /\ Head(Append(<<>>, m)) = m
      BY <1>2, <1>3, <2>1
    <2> DEFINE w == Append(<<>>, m)
    <2>4. /\ LoopOK(req[i], Tx(i), op[i], <<>>, w, sc, wasm)
          /\ Head(w).key = req[i].args.key
      <3>1. CASE op[i].type = GET_STATE_REQUEST
        <4>1. AsksGet(req[i], Tx(i), op[i], <<>>, <<>>, sc, wasm)
          BY <2>2, <3>1 DEF LoopOK
        <4>2. m = GetStateRequest(req[i].args.key)
          BY <1>2, <3>1, <4>1 DEF AsksGet
        <4>3. AsksGet(req[i], Tx(i), op[i], <<>>, w, sc, wasm)
          BY <2>3, <4>1, <4>2 DEF AsksGet
        <4> QED BY <2>3, <3>1, <4>2, <4>3 DEF LoopOK, GetStateRequest
      <3>2. CASE op[i].type = PUT_STATE_REQUEST
        <4>1. AsksPut(req[i], Tx(i), op[i], <<>>, <<>>, sc, wasm)
          BY <2>2, <3>2 DEF LoopOK
        <4>2. m = PutStateRequest(req[i].args.key, sc.value)
          BY <1>2, <3>2, <4>1 DEF AsksPut
        <4>3. AsksPut(req[i], Tx(i), op[i], <<>>, w, sc, wasm)
          BY <2>3, <4>1, <4>2 DEF AsksPut
        <4> QED BY <2>3, <3>2, <4>2, <4>3 DEF LoopOK, PutStateRequest
      <3> QED BY <1>2, <3>1, <3>2
    <2> HIDE DEF w
    <2>5. PhaseOK(req[i], Tx(i), "read", <<>>, w, job[i], op[i], sc, wasm)
      BY <2>4 DEF PhaseOK, Executing
    <2> QED BY <1>1, <1>2, <2>1, <2>3, <2>5 DEF w
  <1> QED BY <1>1, <1>4, <1>5, <1>6, CallStep

\* The final response is the one the TA has left.
LEMMA CallAnswers ==
    ASSUME IInv, EInv, RInv, NEW i \in Caller, SendFinalResponse(i), UNCHANGED wrapperVars
    PROVE  RInv'
  <1>1. /\ hpc[i] = "dispatch" /\ Goto(i, "close") /\ op[i].type = INVOCATION_RESPONSE
        /\ toProxy' = toProxy /\ UNCHANGED <<job, op, sc, wasm>>
    BY DEF SendFinalResponse, ServerWrites, streamVars, taVars
  <1>2. CASE UNCHANGED streamVars
    BY <1>1, <1>2, CallLeft DEF streamVars, Executing, Restarting
  <1>3. CASE ServerWrites(i, InvocationResponse(op[i].buf.resp))
    <2> DEFINE m == InvocationResponse(op[i].buf.resp)
    <2>1. /\ toWrapper' = [toWrapper EXCEPT ![i] = Append(@, m)]
          /\ toWrapper \in [Caller -> Queue(ToWrapperMsg)]
      BY <1>3 DEF ServerWrites, IInv, TypeInv, StreamType
    <2>2. m.type = INVOCATION_RESPONSE /\ m.resp = op[i].buf.resp
      BY DEF InvocationResponse
    <2> HIDE DEF m
    <2>3. \A j \in Caller \ {i} : toProxy'[j] = toProxy[j] /\ toWrapper'[j] = toWrapper[j]
      BY <1>1, <2>1
    <2>4. i \in Active
      BY <1>1 DEF Active, Executing
    <2>5. ASSUME wpc[i] = "recv"
          PROVE  PhaseOK(req[i], Tx(i), "close", toProxy'[i], toWrapper'[i],
                         job'[i], op'[i], sc', wasm')
      <3>1. /\ PhaseOK(req[i], Tx(i), "dispatch", toProxy[i], toWrapper[i], job[i], op[i], sc, wasm)
            /\ toWrapper[i] = <<>>
        BY <1>1, <2>5, Phase DEF ChannelOK
      <3>2. Justified(req[i], Tx(i), m.resp)
        BY <1>1, <2>2, <3>1 DEF PhaseOK, LoopOK
      <3>3. toWrapper'[i] = Append(<<>>, m) /\ Head(Append(<<>>, m)) = m
        BY <2>1, <3>1
      <3> QED BY <2>2, <3>2, <3>3 DEF PhaseOK, Executing
    <2> QED BY <1>1, <2>3, <2>4, <2>5, CallStep
  <1> QED BY <1>2, <1>3 DEF SendFinalResponse

\* The guest goes on with the answer of the ledger.
LEMMA CallResumes ==
    ASSUME IInv, EInv, RInv, NEW i \in Caller, InvokeResume(i), UNCHANGED wrapperVars
    PROVE  RInv'
  <1>1. /\ hpc[i] = "read" /\ toProxy[i] # <<>> /\ AfterCommand(i) /\ toWrapper' = toWrapper
        /\ toProxy' = [toProxy EXCEPT ![i] = Tail(@)]
    BY DEF InvokeResume, ServerReads
  <1>2. i \in Active /\ SoleOK("read", i)
    BY <1>1 DEF Active, Executing, EInv
  <1> DEFINE v == AnswerValue(i, Head(toProxy[i]))
  <1>3. op'[i].res = SUCCESS => ResumeWasm(i, v)
    BY NotDeliveredOK DEF InvokeResume
  <1>4. Head(toProxy[i]) \in ToProxyMsg /\ Tail(toProxy[i]) = <<>>
    BY <1>1, QueueFacts DEF IInv, TypeInv, StreamType
  <1>5. v \in Value
    BY <1>4, AnswerValueType
  <1>6. /\ toProxy'[i] = <<>>
        /\ \A j \in Caller \ {i} : toProxy'[j] = toProxy[j] /\ toWrapper'[j] = toWrapper[j]
    BY <1>1, <1>4 DEF IInv, TypeInv, StreamType
  <1>7. CASE op'[i].res # SUCCESS
    <2>1. Goto(i, "close")
      BY <1>1, <1>7 DEF AfterCommand
    <2> QED BY <1>1, <1>6, <2>1, CallLeft DEF Executing, Restarting
  <1>8. CASE op'[i].res = SUCCESS
    <2>1. Goto(i, "dispatch")
      BY <1>1, <1>8 DEF AfterCommand
    <2>2. ASSUME wpc[i] = "recv"
          PROVE  PhaseOK(req[i], Tx(i), "dispatch", toProxy'[i], toWrapper'[i],
                         job'[i], op'[i], sc', wasm')
      <3>1. /\ PhaseOK(req[i], Tx(i), "read", toProxy[i], toWrapper[i], job[i], op[i], sc, wasm)
            /\ ChannelOK(toProxy[i], toWrapper[i], "read", op[i].type)
            /\ op[i].type \in {GET_STATE_REQUEST, PUT_STATE_REQUEST} /\ req[i] \in Request
        BY <1>1, <2>2, Phase DEF PartiesOK
      <3>2. LoopOK(req[i], Tx(i), op[i], toProxy[i], toWrapper[i], sc, wasm)
        BY <3>1 DEF PhaseOK
      <3>3. toProxy'[i] = <<>> /\ toWrapper'[i] = <<>>
        BY <1>1, <1>6, <3>1 DEF ChannelOK
      <3>4. CASE op[i].type = GET_STATE_REQUEST
        <4>1. /\ AsksGet(req[i], Tx(i), op[i], toProxy[i], toWrapper[i], sc, wasm)
              /\ Head(toProxy[i]).type = "GetStateResponse"
          BY <1>1, <3>1, <3>2, <3>4 DEF LoopOK, ChannelOK
        <4>2. v = Head(toProxy[i]).value
          BY <3>4, <4>1 DEF AnswerValue
        <4>3. Read(Tx(i), req[i].args.key, v)
          BY <1>1, <4>1, <4>2 DEF AsksGet
        <4> HIDE DEF v
        <4>4. LoopOK(req[i], Tx(i), op'[i], <<>>, <<>>, sc', wasm')
          BY <1>3, <1>5, <1>8, <3>1, <4>1, <4>3, ResumeTold
        <4> QED BY <3>3, <4>4, LoopPhase
      <3>5. CASE op[i].type = PUT_STATE_REQUEST
        <4>1. AsksPut(req[i], Tx(i), op[i], toProxy[i], toWrapper[i], sc, wasm)
          BY <3>2, <3>5 DEF LoopOK
        <4> HIDE DEF v
        <4>2. LoopOK(req[i], Tx(i), op'[i], <<>>, <<>>, sc', wasm')
          BY <1>1, <1>3, <1>5, <1>8, <3>1, <4>1, ResumeWrote
        <4> QED BY <3>3, <4>2, LoopPhase
      <3> QED BY <3>1, <3>4, <3>5
    <2> QED BY <1>2, <1>6, <2>1, <2>2, CallStep
  <1> QED BY <1>7, <1>8

\* Every step of a handler.
LEMMA CallHandled ==
    ASSUME IInv, EInv, RInv, NEW i \in Caller, HandlerNext(i), UNCHANGED wrapperVars
    PROVE  RInv'
  <1>1. CASE LoadFileFails(i) \/ ForwardFails(i) \/ ReadAnswerFails(i)
    BY <1>1, CallLeft DEF LoadFileFails, ForwardFails, ReadAnswerFails, streamVars,
                          Executing, Restarting
  <1>2. CASE CloseSession(i) \/ FinalizeContext(i) \/ FreeBuffers(i) \/ DoubleFree(i)
             \/ AllocateBuffers(i) \/ InitializeContext(i) \/ OpenSession(i)
             \/ SessionOpened(i) \/ ConfigureHeapSize(i)
    <2>1. PICK b \in Restarting \union {"done"} :
             hpc[i] \in Restarting /\ Goto(i, b) /\ UNCHANGED <<toProxy, toWrapper>>
      BY <1>2 DEF CloseSession, FinalizeContext, FreeBuffers, DoubleFree, AllocateBuffers,
                  InitializeContext, OpenSession, SessionOpened, ConfigureHeapSize,
                  ServerEnds, streamVars, Restarting
    <2> QED BY <2>1, CallLeft
  <1>3. CASE PrepareFails(i) \/ DoubleFreeAborts(i)
    BY <1>3, CallDies DEF PrepareFails, DoubleFreeAborts
  <1> QED BY <1>1, <1>2, <1>3, CallLoads, CallRuns, CallForwards, CallAnswers, CallResumes
          DEF HandlerNext

-----------------------------------------------------------------------------
(***************************************************************************)
(* Steps of the wrapper and of Fabric.  They leave the server alone, and   *)
(* all but a commit leave the other transactions alone too.                *)
(***************************************************************************)
LEMMA ClientFrame ==
    ASSUME RInv, UNCHANGED taVars, UNCHANGED proxyVars, ledger' = ledger, NEW i \in Caller,
           \A j \in Caller \ {i} :
               /\ wpc'[j] = wpc[j] /\ req'[j] = req[j] /\ result'[j] = result[j]
               /\ rset'[j] = rset[j] /\ wset'[j] = wset[j] /\ stale'[j] = stale[j]
               /\ fate'[j] = fate[j]
               /\ toProxy'[j] = toProxy[j] /\ toWrapper'[j] = toWrapper[j],
           CallOK(i)'
    PROVE  RInv'
  <1>1. ASSUME NEW j \in Caller, j # i PROVE CallOK(j)'
    <2>1. CallOK(j)
      BY DEF RInv
    <2>2. Tx(j)' = Tx(j) /\ Written(j)' = Written(j)
      BY <1>1 DEF Tx, Written
    <2>3. hpc' = hpc /\ job' = job /\ op' = op /\ sc' = sc /\ wasm' = wasm
      BY DEF taVars, proxyVars
    <2> QED BY <1>1, <2>1, <2>2, <2>3 DEF CallOK
  <1> QED BY <1>1 DEF RInv

\* The client asks.
LEMMA CallInvoked ==
    ASSUME IInv, RInv, NEW i \in Caller, NEW r \in Request, Invoke(i, r),
           UNCHANGED taVars, UNCHANGED proxyVars
    PROVE  RInv'
  <1> DEFINE m == InvocationRequest(r.image, r.args)
  <1>1. /\ wpc[i] = "idle" /\ wpc' = [wpc EXCEPT ![i] = "recv"] /\ req' = [req EXCEPT ![i] = r]
        /\ toProxy' = [toProxy EXCEPT ![i] = Append(@, m)]
        /\ UNCHANGED <<toWrapper, result, ledger, rset, wset, stale, fate>>
    BY DEF Invoke, ClientCalls
  <1> HIDE DEF m
  <1>2. WrapperType /\ StreamType /\ StreamInv /\ CallOK(i)
    BY DEF IInv, TypeInv, RInv
  <1>3. toProxy[i] = <<>> /\ hpc[i] = "none" /\ toWrapper[i] = <<>>
    BY <1>1, <1>2 DEF StreamInv, PartiesOK, ChannelOK
  <1>4. /\ toProxy'[i] = Append(<<>>, m) /\ Head(Append(<<>>, m)) = m
        /\ wpc'[i] = "recv" /\ req'[i] = r
    BY <1>1, <1>2, <1>3 DEF StreamType, WrapperType
  <1>5. /\ wset[i] = NoWrites /\ fate[i] = "open" /\ req[i] = ZeroReq
        /\ rset[i] \union Written(i) \subseteq {req[i].args.key}
    BY <1>1, <1>2 DEF CallOK
  <1>6. rset[i] = {} /\ Written(i) = {}
    <2>1. req[i].args.key = EmptyKey
      <3>1. ZeroReq.args = ZeroArgs /\ ZeroArgs.key = EmptyKey
        BY DEF ZeroReq, ZeroArgs
      <3> QED BY <1>5, <3>1
    <2>2. rset[i] \subseteq Key /\ Written(i) \subseteq Key
      BY <1>2 DEF WrapperType, Written
    <2> QED BY <1>5, <2>1, <2>2, KeyAssumption
  <1>7. Tx(i)' = Tx(i) /\ Written(i)' = Written(i) /\ Tx(i).writes = NoWrites
    BY <1>1, <1>5 DEF Tx, Written
  <1>8. hpc' = hpc /\ job' = job /\ op' = op /\ sc' = sc /\ wasm' = wasm
    BY DEF taVars, proxyVars
  <1>9. PhaseOK(r, Tx(i), "none", Append(<<>>, m), <<>>, job[i], op[i], sc, wasm)
    BY <1>4, <1>7 DEF PhaseOK, Executing, m
  <1>10. CallOK(i)'
    BY <1>1, <1>3, <1>4, <1>5, <1>6, <1>7, <1>8, <1>9 DEF CallOK
  <1>11. \A j \in Caller \ {i} : /\ wpc'[j] = wpc[j] /\ req'[j] = req[j]
                                 /\ toProxy'[j] = toProxy[j]
    BY <1>1, <1>2 DEF WrapperType, StreamType
  <1> QED BY <1>1, <1>10, <1>11, ClientFrame

\* The call ends with an error.
LEMMA CallFails ==
    ASSUME IInv, RInv, NEW i \in Caller,
           InvokeFails(i) \/ StubFails(i) \/ RecvFails(i) \/ DeadlineExpires(i),
           UNCHANGED taVars, UNCHANGED proxyVars
    PROVE  RInv'
  <1>1. /\ wpc[i] \in {"idle", "recv"} /\ wpc' = [wpc EXCEPT ![i] = "error"]
        /\ UNCHANGED <<req, result, ledger, rset, wset, stale, fate, toProxy, toWrapper>>
    BY DEF InvokeFails, StubFails, RecvFails, DeadlineExpires, ReturnError, Receives,
           ClientEnds, fabricVars
  <1>2. WrapperType /\ CallOK(i)
    BY DEF IInv, TypeInv, RInv
  <1>3. wpc'[i] = "error" /\ \A j \in Caller \ {i} : wpc'[j] = wpc[j]
    BY <1>1, <1>2 DEF WrapperType
  <1>4. Written(i)' = Written(i)
    BY <1>1 DEF Written
  <1>5. CallOK(i)'
    BY <1>1, <1>2, <1>3, <1>4 DEF CallOK
  <1> QED BY <1>1, <1>3, <1>5, ClientFrame

\* The client gets its answer.
LEMMA CallReturns ==
    ASSUME IInv, RInv, NEW i \in Caller, RecvInvocationResponse(i),
           UNCHANGED taVars, UNCHANGED proxyVars
    PROVE  RInv'
  <1> DEFINE r == Head(toWrapper[i]).resp
  <1>1. /\ wpc[i] = "recv" /\ toWrapper[i] # <<>> /\ Head(toWrapper[i]).type = INVOCATION_RESPONSE
        /\ wpc' = [wpc EXCEPT ![i] = "success"] /\ result' = [result EXCEPT ![i] = r]
        /\ UNCHANGED <<req, ledger, rset, wset, stale, fate, toProxy, toWrapper>>
    BY DEF RecvInvocationResponse, Receives, ClientEnds
  <1>2. WrapperType /\ CallOK(i)
    BY DEF IInv, TypeInv, RInv
  <1>3. /\ PhaseOK(req[i], Tx(i), hpc[i], toProxy[i], toWrapper[i], job[i], op[i], sc, wasm)
        /\ hpc[i] \notin Executing
    BY <1>1, Phase DEF ChannelOK, PartiesOK, Executing
  <1>4. Justified(req[i], Tx(i), r)
    BY <1>1, <1>3 DEF PhaseOK
  <1> HIDE DEF r
  <1>5. /\ wpc'[i] = "success" /\ result'[i] = r
        /\ \A j \in Caller \ {i} : wpc'[j] = wpc[j] /\ result'[j] = result[j]
    BY <1>1, <1>2 DEF WrapperType
  <1>6. Tx(i)' = Tx(i) /\ Written(i)' = Written(i)
    BY <1>1 DEF Tx, Written
  <1>7. CallOK(i)'
    BY <1>1, <1>2, <1>4, <1>5, <1>6 DEF CallOK
  <1> QED BY <1>1, <1>5, <1>7, ClientFrame

\* The transaction reads the key, and the handler gets its value.
LEMMA CallReads ==
    ASSUME IInv, RInv, NEW i \in Caller, RecvGetStateRequest(i),
           UNCHANGED taVars, UNCHANGED proxyVars
    PROVE  RInv'
  <1> DEFINE k == Head(toWrapper[i]).key
             m == GetStateResponse(StubGetState(k))
  <1>1. /\ wpc[i] = "recv" /\ toWrapper[i] # <<>> /\ Head(toWrapper[i]).type = GET_STATE_REQUEST
        /\ rset' = [rset EXCEPT ![i] = @ \union ({k} \intersect Key)]
        /\ toWrapper' = [toWrapper EXCEPT ![i] = Tail(@)]
        /\ toProxy'   = [toProxy EXCEPT ![i] = Append(@, m)]
        /\ UNCHANGED <<wpc, req, result, ledger, wset, stale, fate>>
    BY DEF RecvGetStateRequest, Receives, ClientAnswers
  <1>2. WrapperType /\ StreamType /\ CallOK(i)
    BY DEF IInv, TypeInv, RInv
  <1>3. /\ PhaseOK(req[i], Tx(i), hpc[i], toProxy[i], toWrapper[i], job[i], op[i], sc, wasm)
        /\ ChannelOK(toProxy[i], toWrapper[i], hpc[i], op[i].type) /\ req[i] \in Request
    BY <1>1, Phase
  <1>4. /\ toProxy[i] = <<>> /\ Tail(toWrapper[i]) = <<>>
        /\ hpc[i] \notin {"none", "load", "run", "dispatch"}
        /\ hpc[i] = "read" => op[i].type = GET_STATE_REQUEST
    BY <1>1, <1>2, <1>3, QueueFacts DEF ChannelOK, StreamType
  <1>5. k = req[i].args.key
    BY <1>1, <1>3 DEF PhaseOK
  <1>6. m.value = StubGetState(k)
    BY DEF GetStateResponse
  <1> HIDE DEF k, m
  <1>7. /\ toWrapper'[i] = <<>> /\ toProxy'[i] = Append(<<>>, m) /\ Head(Append(<<>>, m)) = m
        /\ rset'[i] = rset[i] \union ({k} \intersect Key)
    BY <1>1, <1>2, <1>4 DEF StreamType, WrapperType
  <1>8. hpc' = hpc /\ job' = job /\ op' = op /\ sc' = sc /\ wasm' = wasm
    BY DEF taVars, proxyVars
  <1>9. /\ Tx(i)'.writes = Tx(i).writes /\ Tx(i)'.reads = rset'[i] /\ Tx(i)'.now = ledger
    BY <1>1 DEF Tx
  <1>10. Read(Tx(i)', k, StubGetState(k))
    BY <1>7, <1>9 DEF Read, StubGetState
  <1> DEFINE p == Append(<<>>, m)
  <1>11. hpc[i] = "read" => AsksGet(req[i], Tx(i)', op[i], p, <<>>, sc, wasm)
    <2> SUFFICES ASSUME hpc[i] = "read" PROVE AsksGet(req[i], Tx(i)', op[i], p, <<>>, sc, wasm)
      OBVIOUS
    <2>1. AsksGet(req[i], Tx(i), op[i], toProxy[i], toWrapper[i], sc, wasm)
      BY <1>3, <1>4 DEF PhaseOK, LoopOK
    <2>2. Read(Tx(i)', req[i].args.key, Head(p).value)
      BY <1>5, <1>6, <1>7, <1>10
    <2> QED BY <1>9, <2>1, <2>2 DEF AsksGet
  <1> HIDE DEF p
  <1>12. PhaseOK(req[i], Tx(i)', hpc[i], p, <<>>, job[i], op[i], sc, wasm)
    BY <1>4, <1>11 DEF PhaseOK, LoopOK
  <1>13. Written(i)' = Written(i)
    BY <1>1 DEF Written
  <1>14. CallOK(i)'
    BY <1>1, <1>2, <1>5, <1>7, <1>8, <1>12, <1>13 DEF CallOK, p
  <1>15. \A j \in Caller \ {i} : /\ toProxy'[j] = toProxy[j] /\ toWrapper'[j] = toWrapper[j]
                                 /\ rset'[j] = rset[j]
    BY <1>1, <1>2 DEF WrapperType, StreamType
  <1> QED BY <1>1, <1>14, <1>15, ClientFrame

\* The transaction writes the value the guest has computed.
LEMMA CallWrites ==
    ASSUME IInv, RInv, NEW i \in Caller, RecvPutStateRequest(i),
           UNCHANGED taVars, UNCHANGED proxyVars
    PROVE  RInv'
  <1> DEFINE k == Head(toWrapper[i]).key
             v == Head(toWrapper[i]).value
  <1>1. /\ wpc[i] = "recv" /\ toWrapper[i] # <<>> /\ Head(toWrapper[i]).type = PUT_STATE_REQUEST
        /\ k \in Key /\ wset' = [wset EXCEPT ![i][k] = v]
        /\ toWrapper' = [toWrapper EXCEPT ![i] = Tail(@)]
        /\ toProxy'   = [toProxy EXCEPT ![i] = Append(@, PutStateResponse)]
        /\ UNCHANGED <<wpc, req, result, ledger, rset, stale, fate>>
    BY DEF RecvPutStateRequest, Receives, ClientAnswers
  <1>2. WrapperType /\ StreamType /\ CallOK(i)
    BY DEF IInv, TypeInv, RInv
  <1>3. /\ PhaseOK(req[i], Tx(i), hpc[i], toProxy[i], toWrapper[i], job[i], op[i], sc, wasm)
        /\ ChannelOK(toProxy[i], toWrapper[i], hpc[i], op[i].type) /\ req[i] \in Request
    BY <1>1, Phase
  <1>4. /\ toProxy[i] = <<>> /\ Tail(toWrapper[i]) = <<>>
        /\ hpc[i] \notin {"none", "load", "run", "dispatch"}
        /\ hpc[i] = "read" => op[i].type = PUT_STATE_REQUEST
    BY <1>1, <1>2, <1>3, QueueFacts DEF ChannelOK, StreamType
  <1>5. k = req[i].args.key
    BY <1>1, <1>3 DEF PhaseOK
  <1> DEFINE p == Append(<<>>, PutStateResponse)
  <1>6. hpc[i] = "read" =>
            /\ AsksPut(req[i], Tx(i), op[i], <<>>, toWrapper[i], sc, wasm) /\ v = sc.value
    <2>1. hpc[i] = "read" => AsksPut(req[i], Tx(i), op[i], <<>>, toWrapper[i], sc, wasm)
      BY <1>3, <1>4 DEF PhaseOK, LoopOK
    <2> QED BY <1>1, <2>1 DEF AsksPut, PutStateRequest
  <1> HIDE DEF k, v
  <1>7. /\ toWrapper'[i] = <<>> /\ toProxy'[i] = p /\ p # <<>>
        /\ wset'[i] = [wset[i] EXCEPT ![k] = v] /\ wset[i] \in [Key -> Value \union {NoWrite}]
    BY <1>1, <1>2, <1>4 DEF StreamType, WrapperType
  <1>8. hpc' = hpc /\ job' = job /\ op' = op /\ sc' = sc /\ wasm' = wasm
    BY DEF taVars, proxyVars
  <1>9. /\ Tx(i)'.writes = wset'[i] /\ Tx(i)'.reads = Tx(i).reads /\ Tx(i)'.now = Tx(i).now
        /\ Tx(i)'.stale = Tx(i).stale /\ Tx(i).writes = wset[i]
    BY <1>1 DEF Tx
  <1>10. hpc[i] = "read" => AsksPut(req[i], Tx(i)', op[i], p, <<>>, sc, wasm)
    <2> SUFFICES ASSUME hpc[i] = "read" PROVE AsksPut(req[i], Tx(i)', op[i], p, <<>>, sc, wasm)
      OBVIOUS
    <2>1. Tx(i)'.writes = Wrote(req[i].args.key, sc.value)
      BY <1>5, <1>6, <1>7, <1>9 DEF AsksPut, Wrote
    <2>2. \A g : Read(Tx(i), req[i].args.key, g) => Read(Tx(i)', req[i].args.key, g)
      BY <1>9 DEF Read
    <2> QED BY <1>6, <1>7, <2>1, <2>2 DEF AsksPut
  <1> HIDE DEF p
  <1>11. PhaseOK(req[i], Tx(i)', hpc[i], p, <<>>, job[i], op[i], sc, wasm)
    BY <1>4, <1>10 DEF PhaseOK, LoopOK
  <1>12. Written(i)' \subseteq Written(i) \union {k}
    BY <1>7 DEF Written
  <1>13. CallOK(i)'
    BY <1>1, <1>2, <1>5, <1>7, <1>8, <1>11, <1>12 DEF CallOK
  <1>14. \A j \in Caller \ {i} : /\ toProxy'[j] = toProxy[j] /\ toWrapper'[j] = toWrapper[j]
                                 /\ wset'[j] = wset[j]
    BY <1>1, <1>2 DEF WrapperType, StreamType
  <1> QED BY <1>1, <1>13, <1>14, ClientFrame

\* What a transaction has read stays read when another one commits, or it is
\* stale; what rests on the read stays justified.
LEMMA StillJustified ==
    ASSUME NEW x, NEW y, y.writes = x.writes, \A k, g : Read(x, k, g) => Read(y, k, g),
           NEW q
    PROVE  /\ \A r : Justified(q, x, r) => Justified(q, y, r)
           /\ \A h, p, w, j, o, s, m :
                 PhaseOK(q, x, h, p, w, j, o, s, m) => PhaseOK(q, y, h, p, w, j, o, s, m)
  <1>1. ASSUME NEW r, Justified(q, x, r) PROVE Justified(q, y, r)
    BY <1>1 DEF Justified
  <1>2. ASSUME NEW h, NEW p, NEW w, NEW j, NEW o, NEW s, NEW m,
               PhaseOK(q, x, h, p, w, j, o, s, m)
        PROVE  PhaseOK(q, y, h, p, w, j, o, s, m)
    <2>1. AsksGet(q, x, o, p, w, s, m) => AsksGet(q, y, o, p, w, s, m)
      BY DEF AsksGet
    <2>2. AsksPut(q, x, o, p, w, s, m) => AsksPut(q, y, o, p, w, s, m)
      BY DEF AsksPut
    <2>3. LoopOK(q, x, o, p, w, s, m) => LoopOK(q, y, o, p, w, s, m)
      BY <1>1, <2>1, <2>2 DEF LoopOK
    <2> QED BY <1>1, <1>2, <2>3 DEF PhaseOK
  <1> QED BY <1>1, <1>2

\* Fabric decides.
LEMMA CallDecided ==
    ASSUME IInv, RInv, NEW i \in Caller, Commit(i) \/ Invalidate(i),
           UNCHANGED taVars, UNCHANGED proxyVars
    PROVE  RInv'
  <1>1. /\ wpc[i] = "success" /\ UNCHANGED <<wpc, req, result, rset, wset, toProxy, toWrapper>>
        /\ hpc' = hpc /\ job' = job /\ op' = op /\ sc' = sc /\ wasm' = wasm
    BY DEF Commit, Invalidate, taVars, proxyVars, streamVars
  <1>2. WrapperType
    BY DEF IInv, TypeInv
  <1>3. /\ fate'[i] # "open" /\ \A j \in Caller \ {i} : fate'[j] = fate[j]
    BY <1>2 DEF WrapperType, Commit, Invalidate
  <1>4. ASSUME NEW j \in Caller PROVE CallOK(j)'
    <2>1. CallOK(j) /\ Written(j)' = Written(j)
      BY <1>1 DEF RInv, Written
    <2>2. CASE j = i
      BY <1>1, <1>3, <2>1, <2>2 DEF CallOK
    <2>3. CASE j # i
      <3>1. \A k, g : Read(Tx(j), k, g) => Read(Tx(j)', k, g)
        <4>1. CASE Commit(i)
          <5>1. /\ ~stale'[j] => ~stale[j] /\ rset[j] \intersect Written(i) = {}
                /\ \A k \in Key : k \notin Written(i) => ledger'[k] = ledger[k]
            BY <2>3, <4>1 DEF Commit
          <5> QED BY <1>1, <5>1 DEF Read, Tx
        <4>2. CASE Invalidate(i)
          BY <1>1, <4>2 DEF Invalidate, Tx
        <4> QED BY <4>1, <4>2
      <3>2. Tx(j)'.writes = Tx(j).writes
        BY <1>1 DEF Tx
      <3>3. /\ \A r : Justified(req[j], Tx(j), r) => Justified(req[j], Tx(j)', r)
            /\ \A h, p, w, b, o, s, m : PhaseOK(req[j], Tx(j), h, p, w, b, o, s, m)
                                           => PhaseOK(req[j], Tx(j)', h, p, w, b, o, s, m)
        BY <3>1, <3>2, StillJustified
      <3> QED BY <1>1, <1>3, <2>1, <2>3, <3>3 DEF CallOK
    <2> QED BY <2>2, <2>3
  <1> QED BY <1>4 DEF RInv

-----------------------------------------------------------------------------
LEMMA CallInit == Init => RInv
  <1> SUFFICES ASSUME Init, NEW i \in Caller PROVE CallOK(i)
    BY DEF RInv
  <1>1. /\ wpc[i] = "idle" /\ req[i] = ZeroReq /\ rset[i] = {} /\ fate[i] = "open"
        /\ wset[i] = NoWrites
    BY DEF Init, WrapperInit, NoWrites
  <1>2. Written(i) = {}
    BY <1>1 DEF Written, NoWrites
  <1> QED BY <1>1, <1>2 DEF CallOK

\* While handlers do not overlap, every step keeps the answers justified.
LEMMA CallNext == IInv /\ EInv /\ RInv /\ Alone' /\ [Next]_vars => RInv'
  <1> SUFFICES ASSUME IInv, EInv, RInv, Alone', [Next]_vars PROVE RInv'
    OBVIOUS
  <1>1. ASSUME NEW i \in Caller, InvokeStep(i) PROVE RInv'
    BY <1>1, CallInvoked, CallFails DEF InvokeStep
  <1>2. ASSUME NEW i \in Caller, RecvStep(i) PROVE RInv'
    BY <1>2, CallReturns, CallReads, CallWrites, CallFails DEF RecvStep, RecvNext
  <1>3. ASSUME NEW i \in Caller, OutsideStep(i) PROVE RInv'
    BY <1>3, CallFails, CallDecided DEF OutsideStep
  <1>4. ASSUME NEW i \in Caller, AcceptStep(i) PROVE RInv'
    BY <1>4, CallAccepted
  <1>5. ASSUME NEW i \in Caller, HandlerStep(i) PROVE RInv'
    BY <1>5, CallHandled DEF HandlerStep
  <1>6. CASE SigintStep
    BY <1>6, CallDies DEF SigintStep, Cleanup
  <1>7. CASE RestartStep
    BY <1>7, CallStarts DEF RestartStep
  <1>8. CASE UNCHANGED vars
    BY <1>8 DEF vars, RInv, CallOK, Tx, Written
  <1> QED BY <1>1, <1>2, <1>3, <1>4, <1>5, <1>6, <1>7, <1>8 DEF Next, AllDone

\* A response on its way fits what was read and written.
THEOREM JustifiedInvariance == Spec /\ []Alone => []RInv
  BY CallInit, CallNext, Invariance, AloneInvariance, PTL DEF Spec

(***************************************************************************)
(* README.md's isolation: while handlers never overlap a transaction reads *)
(* and writes no key but its own: see CompleteIsolation.                   *)
(***************************************************************************)
THEOREM Isolated == Spec /\ []Alone => []CompleteIsolation
  <1>1. RInv => CompleteIsolation
    BY DEF RInv, CallOK, CompleteIsolation
  <1> QED BY <1>1, JustifiedInvariance, PTL

-----------------------------------------------------------------------------
(***************************************************************************)
(* The steps of the promise.  The words of the two modules are the same.   *)
(***************************************************************************)
LEMMA PromiseWords ==
    /\ Promise!Open = Say("") /\ Promise!Aborted = Say("ABORTED") /\ Promise!NoReq = ZeroReq
    /\ \A t : Promise!Say(t) = Say(t)
    /\ \A v : Promise!SayValue(v) = SayValue(v)
    /\ Promise!Empty = Empty
    /\ \A a, b : (Promise!Number(a) + Promise!Number(b)) % Modulus = AddWraps(a, b)
  BY DEF Promise!Open, Promise!Aborted, Promise!NoReq, Promise!Say, Promise!SayValue,
         Promise!Empty, Promise!Number, Promise!ZeroArgs, Say, SayValue, Empty, ZeroReq,
         ZeroArgs, AddWraps, Atoul

Outcomes == [i \in Caller |-> Outcome(i)]

\* A step that decides one transaction.
LEMMA OneDecided ==
    ASSUME NEW i \in Caller, NEW x, Outcome(i)' = x,
           \A j \in Caller \ {i} : Outcome(j)' = Outcome(j)
    PROVE  Outcomes' = [Outcomes EXCEPT ![i] = x]
  BY DEF Outcomes

\* A step that decides none.
LEMMA NoneDecided ==
    ASSUME UNCHANGED <<ledger, req>>, \A j \in Caller : Outcome(j)' = Outcome(j)
    PROVE  UNCHANGED Promise!vars
  <1>1. Outcomes' = Outcomes
    BY DEF Outcomes
  <1> QED BY <1>1 DEF Promise!vars, Outcomes

LEMMA OutcomeFrame ==
    ASSUME NEW j, wpc'[j] = wpc[j], fate'[j] = fate[j], result'[j] = result[j]
    PROVE  Outcome(j)' = Outcome(j)
  BY DEF Outcome

\* The server does not decide anything.
LEMMA ServerStutters ==
    ASSUME UNCHANGED wrapperVars
    PROVE  UNCHANGED Promise!vars
  BY OutcomeFrame, NoneDecided DEF wrapperVars

LEMMA SubmitStep ==
    ASSUME IInv, RInv, NEW i \in Caller, NEW r \in Request, Invoke(i, r)
    PROVE  Promise!Next
  <1>1. /\ wpc[i] = "idle" /\ wpc' = [wpc EXCEPT ![i] = "recv"]
        /\ req' = [req EXCEPT ![i] = r] /\ UNCHANGED <<result, ledger, fate>>
    BY DEF Invoke
  <1>2. WrapperType /\ CallOK(i)
    BY DEF IInv, TypeInv, RInv
  <1>3. req[i] = ZeroReq /\ fate[i] = "open"
    BY <1>1, <1>2 DEF CallOK
  <1>4. Outcome(i) = Say("") /\ Outcome(i)' = Say("")
    BY <1>1, <1>2, <1>3 DEF Outcome, WrapperType
  <1>5. \A j \in Caller \ {i} : Outcome(j)' = Outcome(j)
    BY <1>1, <1>2, OutcomeFrame DEF WrapperType
  <1>6. Outcomes' = Outcomes /\ Outcomes[i] = Say("")
    BY <1>4, <1>5 DEF Outcomes
  <1>7. Promise!Submit(i, r)
    BY <1>1, <1>3, <1>6, PromiseWords DEF Promise!Submit, Outcomes
  <1> QED BY <1>7 DEF Promise!Next

LEMMA AbortStep ==
    ASSUME IInv, RInv, NEW i \in Caller, UNCHANGED <<ledger, req, result>>,
           \/ /\ wpc[i] \in {"idle", "recv"} /\ wpc' = [wpc EXCEPT ![i] = "error"]
              /\ fate' = fate
           \/ Invalidate(i)
    PROVE  Promise!Next
  <1>1. WrapperType /\ CallOK(i)
    BY DEF IInv, TypeInv, RInv
  <1>2. fate[i] = "open" /\ wpc[i] # "error"
    BY <1>1 DEF CallOK, Invalidate
  <1>3. Outcome(i) = Say("") /\ Outcome(i)' = Say("ABORTED")
    BY <1>1, <1>2 DEF Outcome, WrapperType, Invalidate
  <1>4. \A j \in Caller \ {i} : Outcome(j)' = Outcome(j)
    <2>1. \A j \in Caller \ {i} : wpc'[j] = wpc[j] /\ fate'[j] = fate[j] /\ result'[j] = result[j]
      BY <1>1 DEF WrapperType, Invalidate
    <2> QED BY <2>1, OutcomeFrame
  <1>5. Outcomes' = [Outcomes EXCEPT ![i] = Say("ABORTED")]
    BY <1>3, <1>4, OneDecided
  <1>6. Outcomes[i] = Say("")
    BY <1>3 DEF Outcomes
  <1>7. Promise!Abort(i)
    BY <1>5, <1>6, PromiseWords DEF Promise!Abort, Outcomes
  <1> QED BY <1>7 DEF Promise!Next

\* The answer alone decides nothing yet.
LEMMA ReturnStutters ==
    ASSUME IInv, RInv, NEW i \in Caller, RecvInvocationResponse(i)
    PROVE  UNCHANGED Promise!vars
  <1>1. /\ wpc[i] = "recv" /\ wpc' = [wpc EXCEPT ![i] = "success"]
        /\ UNCHANGED <<req, ledger, fate>>
        /\ result' = [result EXCEPT ![i] = Head(toWrapper[i]).resp]
    BY DEF RecvInvocationResponse, Receives
  <1>2. WrapperType /\ CallOK(i)
    BY DEF IInv, TypeInv, RInv
  <1>3. Outcome(i)' = Outcome(i)
    <2>1. fate[i] = "open" /\ wpc'[i] = "success"
      BY <1>1, <1>2 DEF CallOK, WrapperType
    <2> QED BY <1>1, <2>1 DEF Outcome
  <1>4. \A j \in Caller \ {i} : wpc'[j] = wpc[j] /\ result'[j] = result[j]
    BY <1>1, <1>2 DEF WrapperType
  <1>5. \A j \in Caller : Outcome(j)' = Outcome(j)
    BY <1>1, <1>3, <1>4, OutcomeFrame
  <1> QED BY <1>1, <1>5, NoneDecided

(***************************************************************************)
(* A commit is a step of the promise: nothing the transaction has read has *)
(* changed, so its answer and its write are those the ledger of this       *)
(* moment calls for.                                                       *)
(***************************************************************************)
LEMMA CommitStep ==
    ASSUME IInv, RInv, NEW i \in Caller, Commit(i)
    PROVE  Promise!Next
  <1> DEFINE q == req[i]
             a == req[i].args
             r == result[i]
  <1>1. /\ wpc[i] = "success" /\ fate[i] = "open" /\ ~stale[i]
        /\ fate' = [fate EXCEPT ![i] = "committed"]
        /\ ledger' = [k \in Key |-> IF k \in Written(i) THEN wset[i][k] ELSE ledger[k]]
        /\ UNCHANGED <<wpc, req, result>>
    BY DEF Commit
  <1>2. WrapperType /\ CallOK(i)
    BY DEF IInv, TypeInv, RInv
  <1>3. Justified(q, Tx(i), r)
    BY <1>1, <1>2 DEF CallOK
  <1>4. Tx(i).writes = wset[i] /\ Tx(i).stale = stale[i] /\ Tx(i).now = ledger
    BY DEF Tx
  <1>5. Outcomes[i] = Say("") /\ Outcomes' = [Outcomes EXCEPT ![i] = r]
    <2>1. Outcome(i) = Say("") /\ Outcome(i)' = r
      BY <1>1, <1>2 DEF Outcome, WrapperType
    <2>2. \A j \in Caller \ {i} : Outcome(j)' = Outcome(j)
      BY <1>1, <1>2, OutcomeFrame DEF WrapperType
    <2>3. Outcomes[i] = Say("")
      BY <2>1 DEF Outcomes
    <2> HIDE DEF r
    <2> QED BY <2>1, <2>2, <2>3, OneDecided
  <1>6. ASSUME NEW resp, r = resp \/ r = Say("RUNTIME_ERROR")
        PROVE  Promise!Answers(i, resp)
    BY <1>1, <1>5, <1>6, PromiseWords DEF Promise!Answers, Outcomes
  <1>7. wset[i] = NoWrites => Promise!Same
    <2> SUFFICES ASSUME wset[i] = NoWrites PROVE ledger' = ledger
      BY DEF Promise!Same
    <2>1. Written(i) = {}
      BY DEF Written, NoWrites
    <2> QED BY <1>1, <1>2, <2>1 DEF WrapperType
  <1>8. CASE AnswersUnread(q, r) /\ wset[i] = NoWrites
    <2> HIDE DEF r
    <2>1. CASE q.image = "coffee" /\ r = Say("RUNTIME_ERROR")
      <3>1. Promise!Fails(i)
        BY <1>6, <1>7, <1>8, <2>1, PromiseWords DEF Promise!Fails
      <3> QED BY <3>1 DEF Promise!Next
    <2>2. CASE q.image = "blank" /\ r \in {Say("RUNTIME_ERROR"), Say("EMPTY_RESPONSE")}
      <3>1. Promise!Foreign(i)
        BY <1>6, <1>7, <1>8, <2>2, PromiseWords DEF Promise!Foreign
      <3> QED BY <3>1 DEF Promise!Next
    <2>3. CASE q.image = "oob" /\ r \in {Say("RUNTIME_ERROR"), Say("NO_RESPONSE")}
      <3>1. Promise!Foreign(i)
        BY <1>6, <1>7, <1>8, <2>3, PromiseWords DEF Promise!Foreign
      <3> QED BY <3>1 DEF Promise!Next
    <2>4. CASE q.image = "coffee" /\ a.fn \in {"other", ""} /\ r = Say("ERROR")
      <3>1. Promise!Unknown(i)
        BY <1>6, <1>7, <1>8, <2>4, PromiseWords DEF Promise!Unknown
      <3> QED BY <2>4, <3>1 DEF Promise!Next
    <2> QED BY <1>8, <2>1, <2>2, <2>3, <2>4 DEF AnswersUnread, GuestImage
  <1>9. ASSUME q.image = "coffee", NEW g \in Value, Read(Tx(i), a.key, g),
               \/ AnswersRead(a, g, r) /\ wset[i] = NoWrites
               \/ \E v \in Value : /\ Writes(a, g, v) /\ wset[i] = Wrote(a.key, v)
                                   /\ r \in {Say("OK"), Say("RUNTIME_ERROR")}
        PROVE  Promise!Next
    <2>1. Promise!Balance(a) = g
      BY <1>1, <1>4, <1>9, PromiseWords DEF Promise!Balance, Read
    <2> HIDE DEF r
    <2>2. CASE AnswersRead(a, g, r) /\ wset[i] = NoWrites
      <3>1. CASE a.fn = "create"
        <4>1. Promise!Create(i)
          BY <1>6, <1>7, <2>1, <2>2, <3>1, PromiseWords DEF Promise!Create, AnswersRead
        <4> QED BY <1>9, <4>1 DEF Promise!Next
      <3>2. CASE a.fn = "add"
        <4>1. Promise!Add(i)
          BY <1>6, <1>7, <2>1, <2>2, <3>2, PromiseWords DEF Promise!Add, AnswersRead
        <4> QED BY <1>9, <4>1 DEF Promise!Next
      <3>3. CASE a.fn = "query"
        <4>1. Promise!Query(i)
          BY <1>6, <1>7, <2>1, <2>2, <3>3, PromiseWords DEF Promise!Query, AnswersRead
        <4> QED BY <1>9, <4>1 DEF Promise!Next
      <3> QED BY <2>2, <3>1, <3>2, <3>3 DEF AnswersRead
    <2>3. CASE \E v \in Value : /\ Writes(a, g, v) /\ wset[i] = Wrote(a.key, v)
                                /\ r \in {Say("OK"), Say("RUNTIME_ERROR")}
      <3>1. PICK v \in Value : /\ Writes(a, g, v) /\ wset[i] = Wrote(a.key, v)
                               /\ r \in {Say("OK"), Say("RUNTIME_ERROR")}
        BY <2>3
      <3>2. a.key \in Key
        BY <3>1 DEF Writes
      <3>3. Promise!Becomes(a, v)
        <4>1. v # NoWrite
          BY ModulusAssumption DEF Value, Empty, Word, NoWrite
        <4>2. Written(i) = {a.key} /\ wset[i][a.key] = v
          BY <3>1, <3>2, <4>1 DEF Written, Wrote, NoWrites
        <4> QED BY <1>1, <1>2, <3>2, <4>2 DEF Promise!Becomes, WrapperType
      <3>4. Promise!Answers(i, Say("OK"))
        BY <1>6, <3>1
      <3>5. CASE a.fn = "create"
        <4>1. Promise!Create(i)
          BY <2>1, <3>1, <3>2, <3>3, <3>4, <3>5, PromiseWords DEF Promise!Create, Writes
        <4> QED BY <1>9, <4>1 DEF Promise!Next
      <3>6. CASE a.fn = "add"
        <4>1. g # Empty /\ v = (Promise!Number(g) + Promise!Number(a.val)) % Modulus
          BY <3>1, <3>6, PromiseWords DEF Writes
        <4>2. Promise!Add(i)
          BY <2>1, <3>3, <3>4, <3>6, <4>1, PromiseWords DEF Promise!Add
        <4> QED BY <1>9, <4>2 DEF Promise!Next
      <3> QED BY <3>1, <3>5, <3>6 DEF Writes
    <2> QED BY <1>9, <2>2, <2>3
  <1> QED BY <1>3, <1>4, <1>8, <1>9 DEF Justified

LEMMA PromiseInit == Init => Promise!Init
  <1> SUFFICES ASSUME Init PROVE Promise!Init
    OBVIOUS
  <1>1. /\ ledger = [k \in Key |-> Empty] /\ req = [i \in Caller |-> ZeroReq]
        /\ \A i \in Caller : wpc[i] = "idle" /\ fate[i] = "open"
    BY DEF Init, WrapperInit
  <1>2. \A i \in Caller : Outcome(i) = Say("")
    BY <1>1 DEF Outcome
  <1> QED BY <1>1, <1>2, PromiseWords DEF Promise!Init

\* Every step of the system is a step of the promise or leaves it alone.
LEMMA PromiseNext ==
    IInv /\ RInv /\ [Next]_vars => [Promise!Next]_(Promise!vars)
  <1> SUFFICES ASSUME IInv, RInv, [Next]_vars
               PROVE  Promise!Next \/ UNCHANGED Promise!vars
    OBVIOUS
  <1>1. ASSUME NEW i \in Caller,
               InvokeFails(i) \/ StubFails(i) \/ RecvFails(i) \/ DeadlineExpires(i)
        PROVE  Promise!Next
    <2>1. /\ wpc[i] \in {"idle", "recv"} /\ wpc' = [wpc EXCEPT ![i] = "error"]
          /\ fate' = fate /\ UNCHANGED <<ledger, req, result>>
      BY <1>1 DEF InvokeFails, StubFails, RecvFails, DeadlineExpires, ReturnError, Receives,
                  fabricVars
    <2> QED BY <2>1, AbortStep
  <1>2. ASSUME NEW i \in Caller, InvokeStep(i) PROVE Promise!Next
    BY <1>1, <1>2, SubmitStep DEF InvokeStep
  <1>3. ASSUME NEW i \in Caller, RecvStep(i) PROVE Promise!Next \/ UNCHANGED Promise!vars
    <2>1. CASE RecvGetStateRequest(i) \/ RecvPutStateRequest(i)
      <3>1. UNCHANGED <<wpc, req, result, ledger, fate>>
        BY <2>1 DEF RecvGetStateRequest, RecvPutStateRequest
      <3> QED BY <3>1, OutcomeFrame, NoneDecided
    <2> QED BY <1>1, <1>3, <2>1, ReturnStutters DEF RecvStep, RecvNext
  <1>4. ASSUME NEW i \in Caller, OutsideStep(i) PROVE Promise!Next
    <2>1. CASE Invalidate(i)
      BY <2>1, AbortStep DEF Invalidate
    <2> QED BY <1>1, <1>4, <2>1, CommitStep DEF OutsideStep
  <1>5. ASSUME NEW i \in Caller, AcceptStep(i) \/ HandlerStep(i) PROVE UNCHANGED Promise!vars
    BY <1>5, ServerStutters DEF AcceptStep, HandlerStep
  <1>6. CASE SigintStep \/ RestartStep \/ AllDone \/ UNCHANGED vars
    BY <1>6, ServerStutters DEF SigintStep, RestartStep, AllDone, vars, wrapperVars
  <1> QED BY <1>2, <1>3, <1>4, <1>5, <1>6 DEF Next

(***************************************************************************)
(* While handlers never overlap, every transaction that Fabric commits     *)
(* takes effect at its commit, in one step and with the answer the client  *)
(* got: see ImplementsCoffeeLedger.                                        *)
(***************************************************************************)
THEOREM Implements == Spec /\ []Alone => ImplementsCoffeeLedger
  BY PromiseInit, PromiseNext, Invariance, JustifiedInvariance, PTL
     DEF Spec, ImplementsCoffeeLedger, Promise!Spec
=============================================================================
