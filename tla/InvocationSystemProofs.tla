----------------------- MODULE InvocationSystemProofs -----------------------
(***************************************************************************)
(* Proofs about the whole system with any number of invocations and of     *)
(* handlers at work at once: what holds however the handlers disturb one   *)
(* another.                                                                *)
(***************************************************************************)
EXTENDS InvocationSystem, WrapperTAProofs, FiniteSetTheorems

USE DEF NONE, GET_STATE_REQUEST, PUT_STATE_REQUEST, INVOCATION_RESPONSE

-----------------------------------------------------------------------------
\* The messages of the two directions, and a stream with at most one of them.
ToProxyMsg ==
    {InvocationRequest(r.image, r.args) : r \in Request}
    \union {GetStateResponse(v) : v \in Value}
    \union {PutStateResponse}

ToWrapperMsg ==
    {InvocationResponse(r) : r \in Response}
    \union {GetStateRequest(k) : k \in AnyKey}
    \union {PutStateRequest(x[1], x[2]) : x \in AnyKey \X Value}

Queue(M) == {<<>>} \union {<<m>> : m \in M}

\* TypeOK without its bounds on sets and counters, and with the streams.
WrapperType ==
    /\ wpc    \in [Caller -> {"idle", "recv", "success", "error"}]
    /\ req    \in [Caller -> Request \union {ZeroReq}]
    /\ result \in [Caller -> Response]
    /\ ledger \in [Key -> Value]
    /\ rset   \in [Caller -> SUBSET Key]
    /\ wset   \in [Caller -> [Key -> Value \union {NoWrite}]]
    /\ stale  \in [Caller -> BOOLEAN]
    /\ fate   \in [Caller -> {"open", "committed", "invalid"}]

StreamType ==
    /\ client    \in [Caller -> {"none", "open", "gone"}]
    /\ server    \in [Caller -> {"open", "gone"}]
    /\ toProxy   \in [Caller -> Queue(ToProxyMsg)]
    /\ toWrapper \in [Caller -> Queue(ToWrapperMsg)]

HandlerType ==
    /\ hpc    \in [Caller -> Executing \union Restarting \union {"none", "done", "dead"}]
    /\ job    \in [Caller -> Request \union {ZeroReq}]
    /\ opBuf  \in [Caller -> {"none", "current", "other", "freed"}]

SharedType ==
    /\ up \in BOOLEAN /\ ctxOpen \in BOOLEAN /\ sessOpen \in BOOLEAN /\ late \in BOOLEAN
    /\ opening \in [Caller -> {"none", "current", "overwritten", "closed"}]
    /\ outBuf \in {"live", "freed"}
    /\ owner \in {{}} \union {{i} : i \in Caller}
    /\ orphans \in Nat /\ leaked \in Nat
    /\ faults \subseteq {"double_free", "use_after_free", "double_close"}

TypeInv == TaTypeOK /\ WrapperType /\ StreamType /\ HandlerType /\ SharedType

(***************************************************************************)
(* The streams p and w of an invocation whose handler is at h with a       *)
(* request of type t: both are empty while the handler computes, and at    *)
(* the two places where it reads, the other end holds the turn or has sent *)
(* what is expected.                                                       *)
(***************************************************************************)
ChannelOK(p, w, h, t) ==
    /\ p = <<>> \/ w = <<>>
    /\ h \in {"load", "run", "dispatch"} => p = <<>> /\ w = <<>>
    /\ h = "none" => w = <<>>
    /\ h = "none" /\ p # <<>> => Head(p).type = "InvocationRequest"
    /\ h = "read" /\ w # <<>> => Head(w).type = t
    /\ h = "read" /\ p # <<>> =>
           /\ t = GET_STATE_REQUEST => Head(p).type = "GetStateResponse"
           /\ t = PUT_STATE_REQUEST => Head(p).type = "PutStateResponse"

\* What the wrapper of an invocation, its call and its handler know of each
\* other: c is the client's end, j the request the handler works on.
PartiesOK(wp, c, p, h, j, t) ==
    /\ wp = "idle" => c = "none"
    /\ wp = "recv" => c = "open"
    /\ wp \in {"success", "error"} => c = "gone"
    /\ c = "none" => h = "none" /\ p = <<>>
    /\ h \in {"load", "run"} => j \in Request
    /\ h = "run" => j.image # "missing"
    /\ h = "read" => t \in {GET_STATE_REQUEST, PUT_STATE_REQUEST}

StreamInv ==
    \A i \in Caller :
        /\ ChannelOK(toProxy[i], toWrapper[i], hpc[i], op[i].type)
        /\ PartiesOK(wpc[i], client[i], toProxy[i], hpc[i], job[i], op[i].type)

\* The heap is the proxy's or none.  The guest has asked for some key and
\* been told some value.
TaInv ==
    /\ SessionOK /\ heapSize \in {0, HeapSize}
    /\ \E k \in AnyKey, g \in Value : GuestOK(sc, wasm, k, g)

\* Some handler is at one of the steps S.
At(S) == \E i \in Caller : hpc[i] \in S

\* The steps of restart_session between closing and storing a session.
ToSession == {"finalize", "free", "allocate", "initialize", "open", "opening"}

(***************************************************************************)
(* Whatever is missing from the shared tee_ctx, some handler is on its way *)
(* to supply it (ctx.sess may be late instead); and who has used the TA's  *)
(* memory has yet to return it.                                            *)
(***************************************************************************)
RepairInv ==
    /\ ~up => ~At(Executing \union Restarting)
    /\ up =>
        /\ outBuf = "freed" => At({"allocate"})
        /\ ~ctxOpen  => At({"free", "allocate", "initialize"})
        /\ ~sessOpen /\ ~late => At(ToSession)
        /\ heapUsed # 0 \/ sc.runtime => At({"dispatch", "read", "close"})

IInv == TypeInv /\ StreamInv /\ TaInv /\ RepairInv

-----------------------------------------------------------------------------
\* A stream that holds a message holds one.
LEMMA QueueFacts ==
    ASSUME NEW M, NEW q \in Queue(M)
    PROVE  /\ Len(q) \in 0 .. 1 /\ (Len(q) = 0 <=> q = <<>>)
           /\ q # <<>> => Head(q) \in M /\ q = <<Head(q)>> /\ Tail(q) = <<>>
  <1>1. CASE q = <<>>
    BY <1>1
  <1>2. CASE \E m \in M : q = <<m>>
    BY <1>2
  <1> QED BY <1>1, <1>2 DEF Queue

\* A message that is sent on an empty stream is the one in it.
LEMMA QueueAppend ==
    ASSUME NEW M, NEW m \in M
    PROVE  /\ Append(<<>>, m) \in Queue(M) /\ Append(<<>>, m) # <<>>
           /\ Head(Append(<<>>, m)) = m /\ <<>> \in Queue(M)
  <1>1. Append(<<>>, m) = <<m>>
    OBVIOUS
  <1> QED BY <1>1 DEF Queue

\* The fields a message has are those of its case of the oneof.
LEMMA ToProxyFields ==
    ASSUME NEW m \in ToProxyMsg
    PROVE  /\ m.type = "InvocationRequest" => [image |-> m.image, args |-> m.args] \in Request
           /\ m.type = "GetStateResponse" => m.value \in Value
  <1>1. CASE \E r \in Request : m = InvocationRequest(r.image, r.args)
    BY <1>1, RequestAssumption DEF InvocationRequest
  <1>2. CASE \E v \in Value : m = GetStateResponse(v)
    BY <1>2 DEF GetStateResponse
  <1>3. CASE m = PutStateResponse
    BY <1>3 DEF PutStateResponse
  <1> QED BY <1>1, <1>2, <1>3 DEF ToProxyMsg

LEMMA ToWrapperFields ==
    ASSUME NEW m \in ToWrapperMsg
    PROVE  /\ m.type = INVOCATION_RESPONSE => m.resp \in Response
           /\ m.type = GET_STATE_REQUEST => m.key \in AnyKey
           /\ m.type = PUT_STATE_REQUEST => m.key \in AnyKey /\ m.value \in Value
  <1>1. CASE \E r \in Response : m = InvocationResponse(r)
    BY <1>1 DEF InvocationResponse
  <1>2. CASE \E k \in AnyKey : m = GetStateRequest(k)
    BY <1>2 DEF GetStateRequest
  <1>3. CASE \E x \in AnyKey \X Value : m = PutStateRequest(x[1], x[2])
    BY <1>3 DEF PutStateRequest
  <1> QED BY <1>1, <1>2, <1>3 DEF ToWrapperMsg

\* The messages that are sent have the types of their cases.
LEMMA SentTypes ==
    /\ \A r \in Request : /\ InvocationRequest(r.image, r.args) \in ToProxyMsg
                          /\ InvocationRequest(r.image, r.args).type = "InvocationRequest"
    /\ \A v \in Value : /\ GetStateResponse(v) \in ToProxyMsg
                        /\ GetStateResponse(v).type = "GetStateResponse"
    /\ PutStateResponse \in ToProxyMsg /\ PutStateResponse.type = "PutStateResponse"
    /\ \A r \in Response : /\ InvocationResponse(r) \in ToWrapperMsg
                           /\ InvocationResponse(r).type = INVOCATION_RESPONSE
    /\ \A k \in AnyKey : /\ GetStateRequest(k) \in ToWrapperMsg
                         /\ GetStateRequest(k).type = GET_STATE_REQUEST
    /\ \A k \in AnyKey, v \in Value : /\ PutStateRequest(k, v) \in ToWrapperMsg
                                      /\ PutStateRequest(k, v).type = PUT_STATE_REQUEST
  <1>1. ASSUME NEW k \in AnyKey, NEW v \in Value
        PROVE  PutStateRequest(k, v) \in ToWrapperMsg
    <2>1. <<k, v>> \in AnyKey \X Value /\ <<k, v>>[1] = k /\ <<k, v>>[2] = v
      OBVIOUS
    <2> QED BY <2>1 DEF ToWrapperMsg
  <1>2. /\ \A r \in Request : InvocationRequest(r.image, r.args) \in ToProxyMsg
        /\ \A v \in Value : GetStateResponse(v) \in ToProxyMsg
        /\ PutStateResponse \in ToProxyMsg
        /\ \A r \in Response : InvocationResponse(r) \in ToWrapperMsg
        /\ \A k \in AnyKey : GetStateRequest(k) \in ToWrapperMsg
    BY DEF ToProxyMsg, ToWrapperMsg
  <1>3. /\ \A x, y : InvocationRequest(x, y).type = "InvocationRequest"
        /\ \A x : GetStateResponse(x).type = "GetStateResponse"
        /\ PutStateResponse.type = "PutStateResponse"
        /\ \A x : InvocationResponse(x).type = INVOCATION_RESPONSE
        /\ \A x : GetStateRequest(x).type = GET_STATE_REQUEST
        /\ \A x, y : PutStateRequest(x, y).type = PUT_STATE_REQUEST
    BY DEF InvocationRequest, GetStateResponse, PutStateResponse, InvocationResponse,
           GetStateRequest, PutStateRequest
  <1> QED BY <1>1, <1>2, <1>3

-----------------------------------------------------------------------------
\* Steps of the wrapper and of Fabric leave the server as it is.
LEMMA WrapperFrame ==
    ASSUME IInv, UNCHANGED taVars, UNCHANGED proxyVars,
           WrapperType', StreamType', StreamInv'
    PROVE  IInv'
  <1>1. TaTypeOK' /\ TaInv'
    BY DEF IInv, TypeInv, taVars, TaTypeOK, TaInv, SessionOK, LargeHeap
  <1>2. HandlerType' /\ SharedType' /\ RepairInv'
    BY DEF IInv, TypeInv, taVars, proxyVars, HandlerType, SharedType, RepairInv, At, ToSession
  <1> QED BY <1>1, <1>2 DEF IInv, TypeInv

\* The invariant of the streams, one invocation at a time.
LEMMA StreamFrame ==
    ASSUME StreamInv, NEW i \in Caller,
           \A j \in Caller \ {i} :
               /\ toProxy'[j] = toProxy[j] /\ toWrapper'[j] = toWrapper[j]
               /\ client'[j] = client[j] /\ wpc'[j] = wpc[j]
               /\ hpc'[j] = hpc[j] /\ job'[j] = job[j] /\ op'[j] = op[j],
           ChannelOK(toProxy'[i], toWrapper'[i], hpc'[i], op'[i].type),
           PartiesOK(wpc'[i], client'[i], toProxy'[i], hpc'[i], job'[i], op'[i].type)
    PROVE  StreamInv'
  <1>1. ASSUME NEW j \in Caller
        PROVE  /\ ChannelOK(toProxy'[j], toWrapper'[j], hpc'[j], op'[j].type)
               /\ PartiesOK(wpc'[j], client'[j], toProxy'[j], hpc'[j], job'[j], op'[j].type)
    <2>1. CASE j = i
      BY <2>1
    <2>2. CASE j # i
      BY <2>2 DEF StreamInv
    <2> QED BY <2>1, <2>2
  <1> QED BY <1>1 DEF StreamInv

\* The peer calls the wrapper, which sends the request.
LEMMA InvokeOK ==
    ASSUME IInv, NEW i \in Caller, NEW r \in Request, Invoke(i, r),
           UNCHANGED taVars, UNCHANGED proxyVars
    PROVE  IInv'
  <1> DEFINE m == InvocationRequest(r.image, r.args)
  <1>1. /\ wpc[i] = "idle" /\ wpc' = [wpc EXCEPT ![i] = "recv"] /\ req' = [req EXCEPT ![i] = r]
        /\ client' = [client EXCEPT ![i] = "open"]
        /\ toProxy' = [toProxy EXCEPT ![i] = Append(@, m)]
        /\ UNCHANGED <<toWrapper, server, result, ledger, rset, wset, stale, fate>>
        /\ hpc' = hpc /\ job' = job /\ op' = op
    BY DEF Invoke, ClientCalls, proxyVars, taVars
  <1>2. m \in ToProxyMsg /\ m.type = "InvocationRequest"
    BY SentTypes
  <1> HIDE DEF m
  <1>3. WrapperType /\ StreamType /\ StreamInv
    BY DEF IInv, TypeInv
  <1>4. /\ client[i] = "none" /\ toProxy[i] = <<>> /\ hpc[i] = "none" /\ toWrapper[i] = <<>>
    BY <1>1, <1>3 DEF StreamInv, PartiesOK, ChannelOK
  <1>5. /\ toProxy'[i] = Append(<<>>, m) /\ toProxy'[i] \in Queue(ToProxyMsg)
        /\ toProxy'[i] # <<>> /\ Head(toProxy'[i]).type = "InvocationRequest"
    BY <1>1, <1>2, <1>3, <1>4, QueueAppend DEF StreamType
  <1>6. WrapperType'
    BY <1>1, <1>3 DEF WrapperType
  <1>7. StreamType'
    BY <1>1, <1>3, <1>5 DEF StreamType
  <1>8. StreamInv'
    <2>1. ChannelOK(toProxy'[i], toWrapper'[i], hpc'[i], op'[i].type)
      BY <1>1, <1>4, <1>5 DEF ChannelOK
    <2>2. wpc'[i] = "recv" /\ client'[i] = "open"
      BY <1>1, <1>3 DEF WrapperType, StreamType
    <2>3. PartiesOK(wpc'[i], client'[i], toProxy'[i], hpc'[i], job'[i], op'[i].type)
      BY <1>1, <1>4, <2>2 DEF PartiesOK
    <2>4. \A j \in Caller \ {i} :
               /\ toProxy'[j] = toProxy[j] /\ toWrapper'[j] = toWrapper[j]
               /\ client'[j] = client[j] /\ wpc'[j] = wpc[j]
      BY <1>1, <1>3 DEF WrapperType, StreamType
    <2> QED BY <1>1, <1>3, <2>1, <2>3, <2>4, StreamFrame
  <1> QED BY <1>6, <1>7, <1>8, WrapperFrame

\* The wrapper's call returns.
LEMMA WrapperReturnsOK ==
    ASSUME IInv, NEW i \in Caller, NEW w \in {"success", "error"},
           wpc' = [wpc EXCEPT ![i] = w], ClientEnds(i),
           result' \in [Caller -> Response], UNCHANGED <<req, ledger, rset, wset, stale, fate>>,
           UNCHANGED taVars, UNCHANGED proxyVars
    PROVE  IInv'
  <1>1. /\ client' = [client EXCEPT ![i] = "gone"] /\ UNCHANGED <<toProxy, toWrapper, server>>
        /\ hpc' = hpc /\ job' = job /\ op' = op
    BY DEF ClientEnds, proxyVars, taVars
  <1>2. WrapperType /\ StreamType /\ StreamInv
    BY DEF IInv, TypeInv
  <1>3. WrapperType' /\ StreamType'
    BY <1>1, <1>2 DEF WrapperType, StreamType
  <1>4. StreamInv'
    <2>1. /\ wpc'[i] = w /\ client'[i] = "gone"
          /\ \A j \in Caller \ {i} : wpc'[j] = wpc[j] /\ client'[j] = client[j]
      BY <1>1, <1>2 DEF WrapperType, StreamType
    <2>2. ChannelOK(toProxy'[i], toWrapper'[i], hpc'[i], op'[i].type)
      BY <1>1, <1>2 DEF StreamInv
    <2>3. PartiesOK(wpc'[i], client'[i], toProxy'[i], hpc'[i], job'[i], op'[i].type)
      BY <1>1, <1>2, <2>1 DEF StreamInv, PartiesOK
    <2> QED BY <1>1, <1>2, <2>1, <2>2, <2>3, StreamFrame
  <1> QED BY <1>3, <1>4, WrapperFrame

\* The wrapper answers the request it has received with the message m.
LEMMA WrapperAnswersOK ==
    ASSUME IInv, NEW i \in Caller, NEW type \in {GET_STATE_REQUEST, PUT_STATE_REQUEST},
           Receives(i, type), NEW m \in ToProxyMsg, ClientAnswers(i, m),
           m.type = IF type = GET_STATE_REQUEST THEN "GetStateResponse" ELSE "PutStateResponse",
           wpc' = wpc, WrapperType', UNCHANGED taVars, UNCHANGED proxyVars
    PROVE  IInv'
  <1>1. /\ wpc[i] = "recv" /\ toWrapper[i] # <<>> /\ Head(toWrapper[i]).type = type
        /\ toWrapper' = [toWrapper EXCEPT ![i] = Tail(@)]
        /\ toProxy'   = [toProxy EXCEPT ![i] = Append(@, m)]
        /\ UNCHANGED <<client, server>>
        /\ hpc' = hpc /\ job' = job /\ op' = op
    BY DEF Receives, ClientAnswers, proxyVars, taVars
  <1>2. StreamType /\ StreamInv
    BY DEF IInv, TypeInv
  <1>3. /\ ChannelOK(toProxy[i], toWrapper[i], hpc[i], op[i].type)
        /\ PartiesOK(wpc[i], client[i], toProxy[i], hpc[i], job[i], op[i].type)
    BY <1>2 DEF StreamInv
  <1>4. toProxy[i] = <<>> /\ toWrapper[i] \in Queue(ToWrapperMsg)
    BY <1>1, <1>2, <1>3 DEF ChannelOK, StreamType
  <1>5. Tail(toWrapper[i]) = <<>>
    BY <1>1, <1>4, QueueFacts
  <1>6. /\ toProxy'[i] \in Queue(ToProxyMsg) /\ toProxy'[i] # <<>> /\ Head(toProxy'[i]) = m
        /\ toWrapper'[i] = <<>> /\ toWrapper'[i] \in Queue(ToWrapperMsg)
    BY <1>1, <1>2, <1>4, <1>5, QueueAppend DEF StreamType, Queue
  <1>7. StreamType'
    BY <1>1, <1>2, <1>6 DEF StreamType
  <1>8. StreamInv'
    <2>1. ChannelOK(toProxy'[i], toWrapper'[i], hpc'[i], op'[i].type)
      BY <1>1, <1>3, <1>6 DEF ChannelOK
    <2>2. PartiesOK(wpc'[i], client'[i], toProxy'[i], hpc'[i], job'[i], op'[i].type)
      BY <1>1, <1>3 DEF PartiesOK
    <2>3. \A j \in Caller \ {i} : toProxy'[j] = toProxy[j] /\ toWrapper'[j] = toWrapper[j]
      BY <1>1, <1>2 DEF StreamType
    <2> QED BY <1>1, <1>2, <2>1, <2>2, <2>3, StreamFrame
  <1> QED BY <1>7, <1>8, WrapperFrame

\* What the wrapper receives keeps its fields typed.
LEMMA Received ==
    ASSUME IInv, NEW i \in Caller, NEW type, Receives(i, type)
    PROVE  Head(toWrapper[i]) \in ToWrapperMsg /\ Head(toWrapper[i]).type = type
  BY QueueFacts DEF IInv, TypeInv, StreamType, Receives

LEMMA RecvResponseOK ==
    ASSUME IInv, NEW i \in Caller, RecvInvocationResponse(i),
           UNCHANGED taVars, UNCHANGED proxyVars
    PROVE  IInv'
  <1>1. Head(toWrapper[i]).resp \in Response
    BY Received, ToWrapperFields DEF RecvInvocationResponse
  <1>2. result' \in [Caller -> Response]
    BY <1>1 DEF RecvInvocationResponse, IInv, TypeInv, WrapperType
  <1> QED BY <1>2, WrapperReturnsOK DEF RecvInvocationResponse

LEMMA RecvGetOK ==
    ASSUME IInv, NEW i \in Caller, RecvGetStateRequest(i),
           UNCHANGED taVars, UNCHANGED proxyVars
    PROVE  IInv'
  <1> DEFINE k == Head(toWrapper[i]).key
  <1>1. /\ Receives(i, GET_STATE_REQUEST)
        /\ rset' = [rset EXCEPT ![i] = @ \union ({k} \intersect Key)]
        /\ ClientAnswers(i, GetStateResponse(StubGetState(k)))
        /\ UNCHANGED <<wpc, req, result, ledger, wset, stale, fate>>
    BY DEF RecvGetStateRequest
  <1>2. WrapperType
    BY DEF IInv, TypeInv
  <1>3. StubGetState(k) \in Value
    BY <1>2 DEF StubGetState, WrapperType, Value
  <1>4. WrapperType'
    BY <1>1, <1>2 DEF WrapperType
  <1>5. /\ GetStateResponse(StubGetState(k)) \in ToProxyMsg
        /\ GetStateResponse(StubGetState(k)).type = "GetStateResponse"
    BY <1>3, SentTypes
  <1> HIDE DEF k
  <1> QED BY <1>1, <1>4, <1>5, WrapperAnswersOK

LEMMA RecvPutOK ==
    ASSUME IInv, NEW i \in Caller, RecvPutStateRequest(i),
           UNCHANGED taVars, UNCHANGED proxyVars
    PROVE  IInv'
  <1> DEFINE m == Head(toWrapper[i])
  <1>1. /\ Receives(i, PUT_STATE_REQUEST) /\ m.key \in Key
        /\ wset' = [wset EXCEPT ![i][m.key] = m.value]
        /\ ClientAnswers(i, PutStateResponse)
        /\ UNCHANGED <<wpc, req, result, ledger, rset, stale, fate>>
    BY DEF RecvPutStateRequest
  <1>2. WrapperType
    BY DEF IInv, TypeInv
  <1>3. m.value \in Value
    BY <1>1, Received, ToWrapperFields
  <1> HIDE DEF m
  <1>4. WrapperType'
    BY <1>1, <1>2, <1>3 DEF WrapperType
  <1> QED BY <1>1, <1>4, SentTypes, WrapperAnswersOK

LEMMA WrapperFailsOK ==
    ASSUME IInv, NEW i \in Caller,
           InvokeFails(i) \/ StubFails(i) \/ RecvFails(i) \/ DeadlineExpires(i),
           UNCHANGED taVars, UNCHANGED proxyVars
    PROVE  IInv'
  <1>1. /\ wpc' = [wpc EXCEPT ![i] = "error"] /\ ClientEnds(i) /\ result' = result
        /\ UNCHANGED <<req, ledger, rset, wset, stale, fate>>
    BY DEF InvokeFails, StubFails, RecvFails, DeadlineExpires, ReturnError, fabricVars
  <1>2. result' \in [Caller -> Response]
    BY <1>1 DEF IInv, TypeInv, WrapperType
  <1> QED BY <1>1, <1>2, WrapperReturnsOK

LEMMA DecideOK ==
    ASSUME IInv, NEW i \in Caller, Commit(i) \/ Invalidate(i),
           UNCHANGED taVars, UNCHANGED proxyVars
    PROVE  IInv'
  <1>1. WrapperType /\ StreamType /\ StreamInv
    BY DEF IInv, TypeInv
  <1>2. /\ UNCHANGED <<wpc, req, result, rset, wset>> /\ UNCHANGED streamVars
        /\ hpc' = hpc /\ job' = job /\ op' = op
    BY DEF Commit, Invalidate, proxyVars, taVars
  <1>3. WrapperType'
    <2>1. CASE Commit(i)
      <3>1. ASSUME NEW k \in Key PROVE wset[i][k] # NoWrite => wset[i][k] \in Value
        BY <1>1 DEF WrapperType
      <3>2. ledger' \in [Key -> Value]
        BY <1>1, <2>1, <3>1 DEF Commit, Written, WrapperType
      <3>3. stale' \in [Caller -> BOOLEAN] /\ fate' \in [Caller -> {"open", "committed", "invalid"}]
        BY <1>1, <2>1 DEF Commit, WrapperType
      <3> QED BY <1>1, <1>2, <3>2, <3>3 DEF WrapperType
    <2>2. CASE Invalidate(i)
      BY <1>1, <2>2 DEF Invalidate, WrapperType
    <2> QED BY <2>1, <2>2
  <1>4. StreamType' /\ StreamInv'
    BY <1>1, <1>2 DEF streamVars, StreamType, StreamInv
  <1> QED BY <1>3, <1>4, WrapperFrame

-----------------------------------------------------------------------------
\* A handler that goes from step a to step b is at b; the others stay.
LEMMA AtStep ==
    ASSUME HandlerType, NEW i \in Caller, NEW b, Goto(i, b), NEW S,
           b \in S \/ (At(S) /\ hpc[i] \notin S)
    PROVE  At(S)'
  <1>1. hpc'[i] = b /\ \A j \in Caller \ {i} : hpc'[j] = hpc[j]
    BY DEF Goto, HandlerType
  <1>2. CASE b \in S
    BY <1>1, <1>2 DEF At
  <1>3. CASE At(S) /\ hpc[i] \notin S
    BY <1>1, <1>3 DEF At
  <1> QED BY <1>2, <1>3

\* What a step from a to b has to see to for the repair of tee_ctx.
LEMMA RepairStep ==
    ASSUME HandlerType, RepairInv, NEW i \in Caller,
           hpc[i] \in Executing \union Restarting, NEW b, Goto(i, b), up' = up,
           outBuf' = "freed" => b = "allocate" \/ (outBuf = "freed" /\ hpc[i] # "allocate"),
           ~ctxOpen' => \/ b \in {"free", "allocate", "initialize"}
                        \/ ~ctxOpen /\ hpc[i] \notin {"free", "allocate", "initialize"},
           ~sessOpen' /\ ~late' =>
               b \in ToSession \/ (~sessOpen /\ ~late /\ hpc[i] \notin ToSession),
           heapUsed' # 0 \/ sc'.runtime =>
               \/ b \in {"dispatch", "read", "close"}
               \/ /\ heapUsed # 0 \/ sc.runtime
                  /\ hpc[i] \notin {"dispatch", "read", "close"}
    PROVE  RepairInv'
  <1>1. up
    BY DEF RepairInv, At
  <1>2. outBuf' = "freed" => At({"allocate"})'
    BY <1>1, AtStep DEF RepairInv
  <1>3. ~ctxOpen' => At({"free", "allocate", "initialize"})'
    BY <1>1, AtStep DEF RepairInv
  <1>4. ~sessOpen' /\ ~late' => At(ToSession)'
    <2>1. ~sessOpen' /\ ~late' =>
              b \in ToSession \/ (At(ToSession) /\ hpc[i] \notin ToSession)
      BY <1>1 DEF RepairInv
    <2>2. ASSUME b \in ToSession \/ (At(ToSession) /\ hpc[i] \notin ToSession)
          PROVE  At(ToSession)'
      BY <2>2, AtStep
    <2> QED BY <2>1, <2>2
  <1>5. heapUsed' # 0 \/ sc'.runtime => At({"dispatch", "read", "close"})'
    BY <1>1, AtStep DEF RepairInv
  <1> QED BY <1>1, <1>2, <1>3, <1>4, <1>5 DEF RepairInv, ToSession

\* A step of the handler of i leaves the wrappers and the other handlers.
LEMMA HandlerFrame ==
    ASSUME IInv, NEW i \in Caller, NEW b \in Executing \union Restarting \union {"done"},
           Goto(i, b), UNCHANGED wrapperVars, client' = client, client[i] # "none",
           \A j \in Caller \ {i} :
               /\ toProxy'[j] = toProxy[j] /\ toWrapper'[j] = toWrapper[j]
               /\ job'[j] = job[j] /\ op'[j] = op[j],
           ChannelOK(toProxy'[i], toWrapper'[i], b, op'[i].type),
           b \in {"load", "run"} => job'[i] \in Request,
           b = "run" => job'[i].image # "missing",
           b = "read" => op'[i].type \in {GET_STATE_REQUEST, PUT_STATE_REQUEST},
           TaTypeOK', TaInv', StreamType', SharedType', RepairInv',
           job' \in [Caller -> Request \union {ZeroReq}],
           opBuf' \in [Caller -> {"none", "current", "other", "freed"}]
    PROVE  IInv'
  <1>1. HandlerType /\ WrapperType /\ StreamInv
    BY DEF IInv, TypeInv
  <1>2. /\ hpc'[i] = b /\ \A j \in Caller \ {i} : hpc'[j] = hpc[j]
        /\ HandlerType'
    BY <1>1 DEF Goto, HandlerType
  <1>3. wpc' = wpc /\ WrapperType'
    BY <1>1 DEF wrapperVars, WrapperType
  <1>4. PartiesOK(wpc[i], client[i], toProxy[i], hpc[i], job[i], op[i].type)
    BY <1>1 DEF StreamInv
  <1>5. PartiesOK(wpc'[i], client'[i], toProxy'[i], hpc'[i], job'[i], op'[i].type)
    BY <1>2, <1>3, <1>4 DEF PartiesOK
  <1>6. StreamInv'
    BY <1>1, <1>2, <1>3, <1>5, StreamFrame
  <1> QED BY <1>2, <1>3, <1>6 DEF IInv, TypeInv

\* A handler that is at work has a client that has called.
LEMMA Called ==
    ASSUME IInv, NEW i \in Caller, hpc[i] # "none"
    PROVE  client[i] # "none"
  BY DEF IInv, StreamInv, PartiesOK

\* Whatever the streams hold when the handler leaves the loop may stay there.
LEMMA ChannelLeft ==
    ASSUME NEW p, NEW w, NEW h, NEW t, ChannelOK(p, w, h, t),
           NEW b \in Restarting \union {"done", "dead"}, NEW u
    PROVE  ChannelOK(p, w, b, u)
  BY DEF ChannelOK, Restarting

\* A step to b, on the way out or in the restart, that leaves the streams.
LEMMA RestartFrame ==
    ASSUME IInv, NEW i \in Caller, NEW b \in Restarting \union {"done"},
           Goto(i, b), hpc[i] # "none",
           UNCHANGED wrapperVars, UNCHANGED <<toProxy, toWrapper, client>>,
           server' \in [Caller -> {"open", "gone"}],
           \A j \in Caller \ {i} : job'[j] = job[j] /\ op'[j] = op[j],
           TaTypeOK', TaInv', SharedType', RepairInv',
           job' \in [Caller -> Request \union {ZeroReq}],
           opBuf' \in [Caller -> {"none", "current", "other", "freed"}]
    PROVE  IInv'
  <1>1. ChannelOK(toProxy'[i], toWrapper'[i], b, op'[i].type)
    BY ChannelLeft DEF IInv, StreamInv
  <1>2. client[i] # "none"
    BY Called
  <1>3. StreamType'
    BY DEF IInv, TypeInv, StreamType
  <1>4. b \notin {"load", "run", "read"}
    BY DEF Restarting
  <1> QED BY <1>1, <1>2, <1>3, <1>4, HandlerFrame

\* A session that has just been opened, or closed, has nothing in it.
LEMMA FreshOK ==
    ASSUME FreshSession, op' \in [Caller -> Operation]
    PROVE  /\ TaTypeOK' /\ TaInv' /\ heapUsed' = 0 /\ sc'.runtime = FALSE
  <1>1. sc' = ZeroCtx /\ wasm' = NoInstance /\ heapSize' = 0 /\ heapUsed' = 0
    BY DEF FreshSession
  <1>2. TaTypeOK'
    BY <1>1, FreshValues, SizeAssumption DEF TaTypeOK
  <1>3. /\ sc' \in SessionCtx /\ sc'.pending = NONE /\ sc'.out = FALSE
        /\ sc'.hasResponse = FALSE /\ sc'.runtime = FALSE
    BY <1>1, FreshValues DEF ZeroCtx
  <1>4. EmptyKey \in AnyKey /\ Empty \in Value /\ GuestOK(sc', wasm', EmptyKey, Empty)
    BY <1>1, <1>3, FreshValues, FreshGuestOK DEF NoInstance
  <1>5. SessionOK'
    BY <1>1, <1>3 DEF SessionOK
  <1> QED BY <1>1, <1>2, <1>3, <1>4, <1>5 DEF TaInv

\* The operation of a handler after its locals are gone.
LEMMA DropLocalsOK ==
    ASSUME IInv, NEW H, DropLocals(H)
    PROVE  /\ op' \in [Caller -> Operation]
           /\ job' \in [Caller -> Request \union {ZeroReq}]
           /\ opBuf' \in [Caller -> {"none", "current", "other", "freed"}]
           /\ \A j \in Caller : j \notin H => job'[j] = job[j] /\ op'[j] = op[j]
  <1>1. HandlerType /\ op \in [Caller -> Operation]
    BY DEF IInv, TypeInv, TaTypeOK
  <1>2. ZeroOp \in Operation
    BY ZeroBufType DEF ZeroOp, Operation, ResultCode, RequestType
  <1>3. NoJob = ZeroReq
    BY DEF NoJob, ZeroReq
  <1> QED BY <1>1, <1>2, <1>3 DEF DropLocals, HandlerType

-----------------------------------------------------------------------------
\* Steps that leave the TA and everything the handlers share as they are.
LEMMA QuietOK ==
    ASSUME IInv, UNCHANGED taVars,
           UNCHANGED <<up, ctxOpen, sessOpen, outBuf, owner, faults, orphans, leaked, opening, late>>
    PROVE  TaTypeOK' /\ TaInv' /\ SharedType'
  BY DEF IInv, TypeInv, taVars, TaTypeOK, TaInv, SessionOK, LargeHeap, SharedType

\* A handler gives up, or has sent the final response: it goes to the restart.
LEMMA GivesUpOK ==
    ASSUME IInv, NEW i \in Caller,
           \/ LoadFileFails(i) \/ ForwardFails(i) \/ ReadAnswerFails(i)
           \/ SendFinalResponse(i) /\ UNCHANGED streamVars,
           UNCHANGED wrapperVars
    PROVE  IInv'
  <1>1. /\ hpc[i] \in {"load", "dispatch", "read"} /\ Goto(i, "close")
        /\ UNCHANGED <<up, ctxOpen, sessOpen, outBuf, job, opBuf, owner, faults, orphans, leaked, opening, late>>
        /\ UNCHANGED taVars /\ UNCHANGED streamVars
    BY DEF LoadFileFails, ForwardFails, ReadAnswerFails, SendFinalResponse
  <1>2. HandlerType /\ RepairInv /\ StreamType
    BY DEF IInv, TypeInv
  <1>3. RepairInv'
    BY <1>1, <1>2, RepairStep DEF Executing, ToSession, taVars
  <1>4. TaTypeOK' /\ TaInv' /\ SharedType'
    BY <1>1, QuietOK
  <1>5. /\ server' \in [Caller -> {"open", "gone"}] /\ UNCHANGED <<toProxy, toWrapper, client>>
        /\ op' = op /\ job' = job /\ job' \in [Caller -> Request \union {ZeroReq}]
        /\ opBuf' \in [Caller -> {"none", "current", "other", "freed"}]
        /\ hpc[i] # "none"
    BY <1>1, <1>2 DEF streamVars, taVars, StreamType, HandlerType
  <1> QED BY <1>1, <1>3, <1>4, <1>5, RestartFrame DEF Restarting

\* The server takes up a call, or finds it cancelled.
LEMMA ReadInvocationOK ==
    ASSUME IInv, NEW i \in Caller, ReadInvocation(i), UNCHANGED wrapperVars
    PROVE  IInv'
  <1>1. /\ up /\ hpc[i] = "none" /\ toProxy[i] # <<>> /\ Goto(i, "load")
        /\ toProxy' = [toProxy EXCEPT ![i] = Tail(@)] /\ UNCHANGED <<toWrapper, client, server>>
        /\ job' = [job EXCEPT ![i] = [image |-> Head(toProxy[i]).image, args |-> Head(toProxy[i]).args]]
        /\ UNCHANGED <<up, ctxOpen, sessOpen, outBuf, opBuf, owner, faults, orphans, leaked, opening, late>>
        /\ UNCHANGED taVars
    BY DEF ReadInvocation, ServerReads
  <1>2. HandlerType /\ StreamType /\ RepairInv /\ StreamInv
    BY DEF IInv, TypeInv
  <1>3. /\ ChannelOK(toProxy[i], toWrapper[i], hpc[i], op[i].type)
        /\ PartiesOK(wpc[i], client[i], toProxy[i], hpc[i], job[i], op[i].type)
    BY <1>2 DEF StreamInv
  <1>4. /\ Head(toProxy[i]) \in ToProxyMsg /\ Tail(toProxy[i]) = <<>>
    BY <1>1, <1>2, QueueFacts DEF StreamType
  <1>5. [image |-> Head(toProxy[i]).image, args |-> Head(toProxy[i]).args] \in Request
    BY <1>1, <1>3, <1>4, ToProxyFields DEF ChannelOK
  <1>6. /\ toProxy'[i] = <<>> /\ toWrapper'[i] = <<>> /\ client[i] # "none"
        /\ \A j \in Caller \ {i} : toProxy'[j] = toProxy[j] /\ job'[j] = job[j]
        /\ job'[i] \in Request /\ job' \in [Caller -> Request \union {ZeroReq}]
    BY <1>1, <1>2, <1>3, <1>4, <1>5 DEF StreamType, HandlerType, ChannelOK, PartiesOK
  <1>7. StreamType'
    BY <1>1, <1>2, <1>4, <1>6 DEF StreamType, Queue
  <1>8. RepairInv'
    <2>1. ASSUME NEW S, At(S), "none" \notin S PROVE At(S)'
      BY <1>1, <1>2, <2>1, AtStep
    <2>2. "none" \notin ToSession
      BY DEF ToSession
    <2> QED BY <1>1, <1>2, <2>1, <2>2 DEF RepairInv, taVars
  <1>9. TaTypeOK' /\ TaInv' /\ SharedType'
    BY <1>1, QuietOK
  <1>10. /\ opBuf' \in [Caller -> {"none", "current", "other", "freed"}] /\ op' = op
    BY <1>1, <1>2 DEF HandlerType, taVars
  <1>11. ChannelOK(toProxy'[i], toWrapper'[i], "load", op'[i].type)
    BY <1>6 DEF ChannelOK
  <1> QED BY <1>1, <1>6, <1>7, <1>8, <1>9, <1>10, <1>11, HandlerFrame DEF Executing

LEMMA ReadInvocationFailsOK ==
    ASSUME IInv, NEW i \in Caller, ReadInvocationFails(i), UNCHANGED wrapperVars
    PROVE  IInv'
  <1>1. /\ up /\ hpc[i] = "none" /\ client[i] = "gone" /\ Goto(i, "done")
        /\ UNCHANGED <<toProxy, toWrapper, client>>
        /\ UNCHANGED <<up, ctxOpen, sessOpen, outBuf, job, opBuf, owner, faults, orphans, leaked, opening, late>>
        /\ UNCHANGED taVars
    BY DEF ReadInvocationFails, ServerEnds
  <1>2. HandlerType /\ StreamType /\ RepairInv /\ StreamInv
    BY DEF IInv, TypeInv
  <1>3. StreamType'
    BY <1>1, <1>2 DEF ReadInvocationFails, ServerEnds, StreamType
  <1>4. RepairInv'
    <2>1. ASSUME NEW S, At(S), "none" \notin S PROVE At(S)'
      BY <1>1, <1>2, <2>1, AtStep
    <2>2. "none" \notin ToSession
      BY DEF ToSession
    <2> QED BY <1>1, <1>2, <2>1, <2>2 DEF RepairInv, taVars
  <1>5. TaTypeOK' /\ TaInv' /\ SharedType'
    BY <1>1, QuietOK
  <1>6. ChannelOK(toProxy'[i], toWrapper'[i], "done", op'[i].type)
    BY <1>1, <1>2, ChannelLeft DEF StreamInv
  <1>7. /\ opBuf' \in [Caller -> {"none", "current", "other", "freed"}] /\ op' = op
        /\ job' \in [Caller -> Request \union {ZeroReq}]
    BY <1>1, <1>2 DEF HandlerType, taVars
  <1> QED BY <1>1, <1>3, <1>4, <1>5, <1>6, <1>7, HandlerFrame

-----------------------------------------------------------------------------
\* The file is loaded and the operation set up.
LEMMA LoadFileOK ==
    ASSUME IInv, NEW i \in Caller, LoadFile(i), UNCHANGED wrapperVars
    PROVE  IInv'
  <1>1. /\ hpc[i] = "load" /\ job[i].image # "missing" /\ Goto(i, "run")
        /\ opBuf' = [opBuf EXCEPT ![i] = IF outBuf = "live" THEN "current" ELSE "freed"]
        /\ UNCHANGED <<up, ctxOpen, sessOpen, outBuf, job, owner, faults, orphans, leaked, opening, late>>
        /\ UNCHANGED taVars /\ UNCHANGED streamVars
    BY DEF LoadFile
  <1>2. HandlerType /\ RepairInv /\ StreamType /\ StreamInv
    BY DEF IInv, TypeInv
  <1>3. /\ ChannelOK(toProxy[i], toWrapper[i], "load", op[i].type)
        /\ PartiesOK(wpc[i], client[i], toProxy[i], "load", job[i], op[i].type)
    BY <1>1, <1>2 DEF StreamInv
  <1>4. RepairInv'
    BY <1>1, <1>2, RepairStep DEF Executing, ToSession, taVars
  <1>5. TaTypeOK' /\ TaInv' /\ SharedType'
    BY <1>1, QuietOK
  <1>6. UNCHANGED <<toProxy, toWrapper, client, server, op, job>> /\ StreamType'
    BY <1>1, <1>2 DEF streamVars, taVars, StreamType
  <1>7. ChannelOK(toProxy'[i], toWrapper'[i], "run", op'[i].type)
    BY <1>3, <1>6 DEF ChannelOK
  <1>8. job'[i] \in Request /\ job'[i].image # "missing" /\ client[i] # "none"
    BY <1>1, <1>3, <1>6 DEF PartiesOK
  <1>9. /\ opBuf' \in [Caller -> {"none", "current", "other", "freed"}]
        /\ job' \in [Caller -> Request \union {ZeroReq}]
    BY <1>1, <1>2 DEF HandlerType
  <1> QED BY <1>1, <1>4, <1>5, <1>6, <1>7, <1>8, <1>9, HandlerFrame DEF Executing

\* The final response is sent to a client that waits for it.
LEMMA SendFinalOK ==
    ASSUME IInv, NEW i \in Caller, SendFinalResponse(i), UNCHANGED wrapperVars
    PROVE  IInv'
  <1> DEFINE m == InvocationResponse(op[i].buf.resp)
  <1>1. CASE UNCHANGED streamVars
    BY <1>1, GivesUpOK
  <1>2. CASE client[i] = "open" /\ ServerWrites(i, m)
    <2>1. /\ hpc[i] = "dispatch" /\ Goto(i, "close")
          /\ toWrapper' = [toWrapper EXCEPT ![i] = Append(@, m)]
          /\ UNCHANGED <<toProxy, client, server>>
          /\ UNCHANGED <<up, ctxOpen, sessOpen, outBuf, job, opBuf, owner, faults, orphans, leaked, opening, late>>
          /\ UNCHANGED taVars
      BY <1>2 DEF SendFinalResponse, ServerWrites
    <2>2. HandlerType /\ RepairInv /\ StreamType /\ StreamInv /\ op \in [Caller -> Operation]
      BY DEF IInv, TypeInv, TaTypeOK
    <2>3. m \in ToWrapperMsg
      BY <2>2, SentTypes DEF Operation, Buffer
    <2> HIDE DEF m
    <2>4. toProxy[i] = <<>> /\ toWrapper[i] = <<>>
      BY <2>1, <2>2 DEF StreamInv, ChannelOK
    <2>5. /\ toWrapper'[i] \in Queue(ToWrapperMsg)
          /\ \A j \in Caller \ {i} : toWrapper'[j] = toWrapper[j]
      BY <2>1, <2>2, <2>3, <2>4, QueueAppend DEF StreamType
    <2>6. StreamType'
      BY <2>1, <2>2, <2>5 DEF StreamType
    <2>7. RepairInv'
      BY <2>1, <2>2, RepairStep DEF Executing, ToSession, taVars
    <2>8. TaTypeOK' /\ TaInv' /\ SharedType'
      BY <2>1, QuietOK
    <2>9. ChannelOK(toProxy'[i], toWrapper'[i], "close", op'[i].type)
      BY <2>1, <2>4 DEF ChannelOK
    <2>10. /\ opBuf' \in [Caller -> {"none", "current", "other", "freed"}] /\ op' = op
           /\ job' \in [Caller -> Request \union {ZeroReq}] /\ job' = job
      BY <2>1, <2>2 DEF HandlerType, taVars
    <2> QED BY <1>2, <2>1, <2>5, <2>6, <2>7, <2>8, <2>9, <2>10, HandlerFrame DEF Restarting
  <1> QED BY <1>1, <1>2 DEF SendFinalResponse

\* A request of the guest is forwarded; the handler waits for the answer.
LEMMA ForwardRequestOK ==
    ASSUME IInv, NEW i \in Caller, ForwardRequest(i), UNCHANGED wrapperVars
    PROVE  IInv'
  <1>1. /\ hpc[i] = "dispatch" /\ client[i] = "open" /\ Goto(i, "read")
        /\ UNCHANGED <<up, ctxOpen, sessOpen, outBuf, job, opBuf, owner, faults, orphans, leaked, opening, late>>
        /\ UNCHANGED taVars
    BY DEF ForwardRequest
  <1>2. HandlerType /\ RepairInv /\ StreamType /\ StreamInv /\ op \in [Caller -> Operation]
    BY DEF IInv, TypeInv, TaTypeOK
  <1>3. op[i].buf.key \in AnyKey /\ op[i].buf.value \in Value
    BY <1>2 DEF Operation, Buffer
  <1>4. PICK m \in ToWrapperMsg : /\ m.type = op[i].type
                                  /\ op[i].type \in {GET_STATE_REQUEST, PUT_STATE_REQUEST}
                                  /\ toWrapper' = [toWrapper EXCEPT ![i] = Append(@, m)]
                                  /\ UNCHANGED <<toProxy, client, server>>
    <2>1. CASE /\ op[i].type = GET_STATE_REQUEST
               /\ ServerWrites(i, GetStateRequest(op[i].buf.key))
      BY <1>3, <2>1, SentTypes DEF ServerWrites
    <2>2. CASE /\ op[i].type = PUT_STATE_REQUEST
               /\ ServerWrites(i, PutStateRequest(op[i].buf.key, op[i].buf.value))
      BY <1>3, <2>2, SentTypes DEF ServerWrites
    <2> QED BY <2>1, <2>2 DEF ForwardRequest
  <1>5. toProxy[i] = <<>> /\ toWrapper[i] = <<>>
    BY <1>1, <1>2 DEF StreamInv, ChannelOK
  <1>6. /\ toWrapper'[i] \in Queue(ToWrapperMsg) /\ Head(toWrapper'[i]) = m
        /\ \A j \in Caller \ {i} : toWrapper'[j] = toWrapper[j]
    BY <1>2, <1>4, <1>5, QueueAppend DEF StreamType
  <1>7. StreamType'
    BY <1>2, <1>4, <1>6 DEF StreamType
  <1>8. RepairInv'
    BY <1>1, <1>2, RepairStep DEF Executing, ToSession, taVars
  <1>9. TaTypeOK' /\ TaInv' /\ SharedType'
    BY <1>1, QuietOK
  <1>10. /\ opBuf' \in [Caller -> {"none", "current", "other", "freed"}] /\ op' = op
         /\ job' \in [Caller -> Request \union {ZeroReq}] /\ job' = job
    BY <1>1, <1>2 DEF HandlerType, taVars
  <1>11. ChannelOK(toProxy'[i], toWrapper'[i], "read", op'[i].type)
    BY <1>4, <1>5, <1>6, <1>10 DEF ChannelOK
  <1> QED BY <1>1, <1>4, <1>6, <1>7, <1>8, <1>9, <1>10, <1>11, HandlerFrame DEF Executing

-----------------------------------------------------------------------------
\* A command that is not delivered fails.
LEMMA NotDeliveredOK ==
    ASSUME IInv, NEW i \in Caller, NotDelivered(i)
    PROVE  /\ TaTypeOK' /\ TaInv' /\ op'[i].res # SUCCESS
           /\ UNCHANGED <<sc, wasm, heapSize, heapUsed>> /\ \A j \in Caller \ {i} : op'[j] = op[j]
  <1>1. TaTypeOK /\ op \in [Caller -> Operation] /\ op[i].type \in RequestType
    BY DEF IInv, TypeInv, TaTypeOK, Operation
  <1>2. /\ op' \in [Caller -> Operation] /\ \A j \in Caller \ {i} : op'[j] = op[j]
        /\ op'[i].res = COMMUNICATION
    BY <1>1, ReturnType, ZeroBufType DEF NotDelivered, ResultCode
  <1>3. UNCHANGED <<sc, wasm, heapSize, heapUsed>>
    BY DEF NotDelivered
  <1>4. TaTypeOK'
    BY <1>1, <1>2, <1>3 DEF TaTypeOK
  <1>5. TaInv'
    BY <1>3 DEF IInv, TaInv, SessionOK, LargeHeap
  <1> QED BY <1>2, <1>3, <1>4, <1>5 DEF COMMUNICATION, SUCCESS

\* After a command on the TA the handler goes to the loop or to the restart.
LEMMA CommandOK ==
    ASSUME IInv, NEW i \in Caller, hpc[i] \in {"run", "read"}, UNCHANGED wrapperVars,
           TouchesOutputBuffer(i), AfterCommand(i),
           UNCHANGED <<up, ctxOpen, sessOpen, outBuf, job, opBuf, orphans, leaked, opening, late>>,
           TaTypeOK', TaInv', heapSize' = heapSize, owner' \in {{}} \union {{j} : j \in Caller},
           \A j \in Caller \ {i} : op'[j] = op[j],
           UNCHANGED <<toWrapper, client, server>>,
           toProxy' \in [Caller -> Queue(ToProxyMsg)], toProxy'[i] = <<>>,
           \A j \in Caller \ {i} : toProxy'[j] = toProxy[j],
           toWrapper[i] = <<>>
    PROVE  IInv'
  <1>1. PICK b \in {"dispatch", "close"} : Goto(i, b)
    BY DEF AfterCommand
  <1>2. HandlerType /\ RepairInv /\ StreamType /\ SharedType
    BY DEF IInv, TypeInv
  <1>3. RepairInv'
    BY <1>1, <1>2, RepairStep DEF Executing, ToSession
  <1>4. SharedType'
    BY <1>2 DEF SharedType, TouchesOutputBuffer
  <1>5. StreamType'
    BY <1>2 DEF StreamType
  <1>6. /\ opBuf' \in [Caller -> {"none", "current", "other", "freed"}]
        /\ job' \in [Caller -> Request \union {ZeroReq}]
    BY <1>2 DEF HandlerType
  <1>7. ChannelOK(toProxy'[i], toWrapper'[i], b, op'[i].type)
    BY DEF ChannelOK
  <1>8. client[i] # "none"
    BY Called
  <1>9. /\ b \in Executing \union Restarting \union {"done"} /\ b \notin {"load", "run", "read"}
    BY <1>1 DEF Executing, Restarting
  <1> QED BY <1>1, <1>3, <1>4, <1>5, <1>6, <1>7, <1>8, <1>9, HandlerFrame

\* COMMAND_RUN_WASM.
LEMMA InvokeRunOK ==
    ASSUME IInv, NEW i \in Caller, InvokeRun(i), UNCHANGED wrapperVars
    PROVE  IInv'
  <1>1. /\ hpc[i] = "run" /\ TouchesOutputBuffer(i) /\ AfterCommand(i)
        /\ UNCHANGED <<up, ctxOpen, sessOpen, outBuf, job, opBuf, orphans, leaked, opening, late>>
        /\ UNCHANGED streamVars
    BY DEF InvokeRun
  <1>2. StreamType /\ StreamInv /\ SharedType /\ TaTypeOK /\ TaInv
    BY DEF IInv, TypeInv
  <1>3. /\ toProxy[i] = <<>> /\ toWrapper[i] = <<>>
        /\ job[i] \in Request /\ job[i].image # "missing"
    BY <1>1, <1>2 DEF StreamInv, ChannelOK, PartiesOK
  <1>4. /\ UNCHANGED <<toProxy, toWrapper, client, server>>
        /\ toProxy \in [Caller -> Queue(ToProxyMsg)]
    BY <1>1, <1>2 DEF streamVars, StreamType
  <1>5. /\ TaTypeOK' /\ TaInv' /\ heapSize' = heapSize
        /\ \A j \in Caller \ {i} : op'[j] = op[j]
        /\ owner' \in {{}} \union {{j} : j \in Caller}
    <2>1. CASE NotDelivered(i) /\ UNCHANGED owner
      BY <1>2, <2>1, NotDeliveredOK DEF SharedType
    <2>2. CASE /\ RunWasm(i, job[i].image, job[i].args)
               /\ owner' = IF sc'.runtime /\ ~sc.runtime THEN {i} ELSE owner
      <3>1. job[i].image \in Image /\ job[i].args \in Args
        BY <1>3, RequestAssumption
      <3>2. PICK k \in AnyKey, g \in Value : GuestOK(sc, wasm, k, g) /\ SessionOK
        BY <1>2 DEF TaInv
      <3>3. /\ TaTypeOK' /\ SessionOK' /\ heapSize' = heapSize
            /\ \A d \in Caller \ {i} : op'[d] = op[d]
            /\ AskedBy(op'[i], k) \in AnyKey
            /\ GuestOK(sc', wasm', AskedBy(op'[i], k), g)
        BY <1>2, <2>2, <3>1, <3>2, RunOK
      <3>4. TaInv'
        BY <1>2, <3>3 DEF TaInv
      <3>5. owner' \in {{}} \union {{j} : j \in Caller}
        BY <1>2, <2>2 DEF SharedType
      <3> QED BY <3>3, <3>4, <3>5
    <2> QED BY <2>1, <2>2 DEF InvokeRun
  <1> QED BY <1>1, <1>3, <1>4, <1>5, CommandOK

\* The value of an answer is a value, whatever the message is.
LEMMA AnswerValueType ==
    ASSUME NEW i, NEW m \in ToProxyMsg PROVE AnswerValue(i, m) \in Value
  BY ToProxyFields, FreshValues DEF AnswerValue

\* COMMAND_RESUME_WASM.
LEMMA InvokeResumeOK ==
    ASSUME IInv, NEW i \in Caller, InvokeResume(i), UNCHANGED wrapperVars
    PROVE  IInv'
  <1>1. /\ hpc[i] = "read" /\ toProxy[i] # <<>>
        /\ TouchesOutputBuffer(i) /\ AfterCommand(i)
        /\ UNCHANGED <<up, ctxOpen, sessOpen, outBuf, job, opBuf, owner, orphans, leaked, opening, late>>
        /\ toProxy' = [toProxy EXCEPT ![i] = Tail(@)] /\ UNCHANGED <<toWrapper, client, server>>
    BY DEF InvokeResume, ServerReads
  <1>2. StreamType /\ StreamInv /\ SharedType /\ TaTypeOK /\ TaInv
    BY DEF IInv, TypeInv
  <1>3. toWrapper[i] = <<>>
    BY <1>1, <1>2 DEF StreamInv, ChannelOK
  <1>4. Head(toProxy[i]) \in ToProxyMsg /\ Tail(toProxy[i]) = <<>>
    BY <1>1, <1>2, QueueFacts DEF StreamType
  <1>5. /\ toProxy'[i] = <<>> /\ toProxy' \in [Caller -> Queue(ToProxyMsg)]
        /\ \A j \in Caller \ {i} : toProxy'[j] = toProxy[j]
    BY <1>1, <1>2, <1>4 DEF StreamType, Queue
  <1>6. /\ TaTypeOK' /\ TaInv' /\ heapSize' = heapSize
        /\ \A j \in Caller \ {i} : op'[j] = op[j]
    <2>1. CASE NotDelivered(i)
      BY <2>1, NotDeliveredOK
    <2>2. CASE ResumeWasm(i, AnswerValue(i, Head(toProxy[i])))
      <3> DEFINE v == AnswerValue(i, Head(toProxy[i]))
      <3>1. v \in Value
        BY <1>4, AnswerValueType
      <3>2. PICK k \in AnyKey, g \in Value : GuestOK(sc, wasm, k, g) /\ SessionOK
        BY <1>2 DEF TaInv
      <3> HIDE DEF v
      <3>3. ResumeWasm(i, v)
        BY <2>2 DEF v
      <3> DEFINE h == IF sc.runtime /\ sc.pending = GET_STATE_REQUEST THEN v ELSE g
      <3>4. /\ TaTypeOK' /\ SessionOK' /\ h \in Value
            /\ \A d \in Caller \ {i} : op'[d] = op[d]
            /\ AskedBy(op'[i], k) \in AnyKey
            /\ GuestOK(sc', wasm', AskedBy(op'[i], k), h)
        BY <1>2, <3>1, <3>2, <3>3, ResumeOK
      <3> HIDE DEF h
      <3>5. heapSize' = heapSize
        BY <3>3 DEF ResumeWasm
      <3>6. TaInv'
        BY <1>2, <3>4, <3>5 DEF TaInv
      <3> QED BY <3>4, <3>5, <3>6
    <2> QED BY <2>1, <2>2 DEF InvokeResume
  <1>7. owner' \in {{}} \union {{j} : j \in Caller}
    BY <1>1, <1>2 DEF SharedType
  <1> QED BY <1>1, <1>3, <1>5, <1>6, <1>7, CommandOK

-----------------------------------------------------------------------------
\* The session of ctx is closed.
LEMMA CloseSessionOK ==
    ASSUME IInv, NEW i \in Caller, CloseSession(i), UNCHANGED wrapperVars
    PROVE  IInv'
  <1>1. /\ hpc[i] = "close" /\ Goto(i, "finalize") /\ DropLocals({i})
        /\ sessOpen' = FALSE /\ late' = FALSE /\ owner' = {} /\ FreshSession
        /\ UNCHANGED <<up, ctxOpen, outBuf, faults, orphans, leaked, opening>>
        /\ UNCHANGED streamVars
    BY DEF CloseSession, NoSession
  <1>2. HandlerType /\ RepairInv /\ StreamType /\ SharedType
    BY DEF IInv, TypeInv
  <1>3. /\ op' \in [Caller -> Operation] /\ job' \in [Caller -> Request \union {ZeroReq}]
        /\ opBuf' \in [Caller -> {"none", "current", "other", "freed"}]
        /\ \A j \in Caller \ {i} : job'[j] = job[j] /\ op'[j] = op[j]
    BY <1>1, DropLocalsOK
  <1>4. TaTypeOK' /\ TaInv' /\ heapUsed' = 0 /\ sc'.runtime = FALSE
    BY <1>1, <1>3, FreshOK
  <1>5. RepairInv'
    <2>1. "finalize" \in ToSession /\ hpc[i] \in Executing \union Restarting
      BY <1>1 DEF Restarting, ToSession
    <2>2. ~(heapUsed' # 0 \/ sc'.runtime)
      BY <1>4
    <2> QED BY <1>1, <1>2, <2>1, <2>2, RepairStep
  <1>6. SharedType'
    BY <1>1, <1>2 DEF SharedType
  <1> QED BY <1>1, <1>2, <1>3, <1>4, <1>5, <1>6, RestartFrame DEF Restarting, streamVars, StreamType

\* The context is finalized, a context initialized or a session opened.
LEMMA ContextOK ==
    ASSUME IInv, NEW i \in Caller, UNCHANGED wrapperVars,
           FinalizeContext(i) \/ InitializeContext(i) \/ SessionOpened(i)
    PROVE  IInv'
  <1>1. PICK b \in {"free", "open", "configure"} :
            /\ Goto(i, b)
            /\ b = "free" => hpc[i] = "finalize" /\ ctxOpen' = FALSE /\ ~sessOpen'
            /\ b = "open" => hpc[i] = "initialize" /\ ctxOpen' = TRUE /\ ~sessOpen'
            /\ b = "configure" => hpc[i] = "opening" /\ ctxOpen' = ctxOpen /\ (sessOpen' \/ late')
            /\ owner' = {} /\ FreshSession
            /\ UNCHANGED <<up, outBuf, job, op, opBuf>> /\ UNCHANGED streamVars
    BY DEF FinalizeContext, InitializeContext, SessionOpened, NoSession
  <1>2. HandlerType /\ RepairInv /\ StreamType /\ SharedType /\ op \in [Caller -> Operation]
    BY DEF IInv, TypeInv, TaTypeOK
  <1>3. hpc[i] \in {"finalize", "initialize", "opening"} /\ b \in Restarting
    BY <1>1 DEF Restarting
  <1>4. TaTypeOK' /\ TaInv' /\ heapUsed' = 0 /\ sc'.runtime = FALSE
    BY <1>1, <1>2, FreshOK
  <1>5. RepairInv'
    <2>1. /\ outBuf' = "freed" => outBuf = "freed" /\ hpc[i] # "allocate"
          /\ ~ctxOpen' => \/ b \in {"free", "allocate", "initialize"}
                          \/ ~ctxOpen /\ hpc[i] \notin {"free", "allocate", "initialize"}
          /\ ~sessOpen' /\ ~late' => b \in ToSession
      BY <1>1, <1>3 DEF ToSession
    <2>2. hpc[i] \in Executing \union Restarting
      BY <1>3 DEF Restarting
    <2>3. ~(heapUsed' # 0 \/ sc'.runtime)
      BY <1>4
    <2> QED BY <1>1, <1>2, <2>1, <2>2, <2>3, RepairStep
  <1>6. orphans' \in Nat /\ leaked' \in Nat
    BY <1>2 DEF SharedType, FinalizeContext, InitializeContext, SessionOpened
  <1>7. /\ ctxOpen' \in BOOLEAN /\ sessOpen' \in BOOLEAN /\ late' \in BOOLEAN
    <2>1. CASE FinalizeContext(i) \/ InitializeContext(i)
      BY <2>1 DEF FinalizeContext, InitializeContext, NoSession
    <2>2. CASE SessionOpened(i)
      BY <1>2, <2>2 DEF SessionOpened, SharedType
    <2> QED BY <2>1, <2>2
  <1>8. faults' \subseteq {"double_free", "use_after_free", "double_close"}
    BY <1>2 DEF SharedType, FinalizeContext, InitializeContext, SessionOpened
  <1>9. opening' \in [Caller -> {"none", "current", "overwritten", "closed"}]
    BY <1>2 DEF SharedType, FinalizeContext, InitializeContext, SessionOpened, OpensIn
  <1>10. SharedType'
    BY <1>1, <1>2, <1>6, <1>7, <1>8, <1>9 DEF SharedType
  <1>11. /\ job' = job /\ op' = op /\ UNCHANGED <<toProxy, toWrapper, client>>
         /\ server' \in [Caller -> {"open", "gone"}]
         /\ job' \in [Caller -> Request \union {ZeroReq}]
         /\ opBuf' \in [Caller -> {"none", "current", "other", "freed"}]
    BY <1>1, <1>2 DEF HandlerType, streamVars, StreamType
  <1> QED BY <1>1, <1>3, <1>4, <1>5, <1>10, <1>11, RestartFrame

\* A session is asked for.
LEMMA OpenSessionOK ==
    ASSUME IInv, NEW i \in Caller, UNCHANGED wrapperVars, OpenSession(i)
    PROVE  IInv'
  <1>1. /\ hpc[i] = "open" /\ Goto(i, "opening")
        /\ opening' = [opening EXCEPT ![i] = "current"]
        /\ UNCHANGED <<up, ctxOpen, sessOpen, outBuf, job, opBuf, owner, faults, orphans, leaked, late>>
        /\ UNCHANGED taVars /\ UNCHANGED streamVars
    BY DEF OpenSession
  <1>2. HandlerType /\ RepairInv /\ StreamType /\ SharedType
    BY DEF IInv, TypeInv
  <1>3. TaTypeOK' /\ TaInv'
    BY <1>1 DEF IInv, TypeInv, taVars, TaTypeOK, TaInv, SessionOK, LargeHeap
  <1>4. RepairInv'
    <2>1. "opening" \in ToSession /\ hpc[i] \in Executing \union Restarting
      BY <1>1 DEF Restarting, ToSession
    <2>2. UNCHANGED <<sc, heapUsed>>
      BY <1>1 DEF taVars
    <2> QED BY <1>1, <1>2, <2>1, <2>2, RepairStep
  <1>5. SharedType'
    BY <1>1, <1>2 DEF SharedType
  <1>6. /\ job' = job /\ op' = op /\ UNCHANGED <<toProxy, toWrapper, client>>
        /\ server' \in [Caller -> {"open", "gone"}]
        /\ job' \in [Caller -> Request \union {ZeroReq}]
        /\ opBuf' \in [Caller -> {"none", "current", "other", "freed"}]
    BY <1>1, <1>2 DEF HandlerType, streamVars, StreamType, taVars
  <1> QED BY <1>1, <1>3, <1>4, <1>5, <1>6, RestartFrame DEF Restarting

\* The buffers are freed, freed a second time, or allocated.
LEMMA BuffersOK ==
    ASSUME IInv, NEW i \in Caller, UNCHANGED wrapperVars,
           FreeBuffers(i) \/ DoubleFree(i) \/ AllocateBuffers(i)
    PROVE  IInv'
  <1>1. PICK b \in {"allocate", "initialize"} :
            /\ Goto(i, b)
            /\ b = "allocate" => hpc[i] = "free" /\ outBuf' = "freed"
            /\ b = "initialize" => hpc[i] = "allocate" /\ outBuf' = "live"
            /\ UNCHANGED <<up, ctxOpen, sessOpen, job, owner, orphans, leaked, opening, late>>
            /\ UNCHANGED taVars /\ UNCHANGED streamVars
    BY DEF FreeBuffers, DoubleFree, AllocateBuffers
  <1>2. HandlerType /\ RepairInv /\ StreamType /\ SharedType
    BY DEF IInv, TypeInv
  <1>3. hpc[i] \in {"free", "allocate"} /\ b \in Restarting
    BY <1>1 DEF Restarting
  <1>4. TaTypeOK' /\ TaInv'
    BY <1>1 DEF IInv, TypeInv, taVars, TaTypeOK, TaInv, SessionOK, LargeHeap
  <1>5. RepairInv'
    <2>1. outBuf' = "freed" => b = "allocate"
      BY <1>1
    <2>2. UNCHANGED <<sc, heapSize, heapUsed>>
      BY <1>1 DEF taVars
    <2>3. b \in ToSession /\ hpc[i] \in Executing \union Restarting
      BY <1>3 DEF Restarting, ToSession
    <2> QED BY <1>1, <1>2, <2>1, <2>2, <2>3, RepairStep
  <1>6. faults' \subseteq {"double_free", "use_after_free", "double_close"}
    BY <1>2 DEF SharedType, FreeBuffers, DoubleFree, AllocateBuffers
  <1>7. SharedType'
    BY <1>1, <1>2, <1>6 DEF SharedType
  <1>8. opBuf' \in [Caller -> {"none", "current", "other", "freed"}]
    BY <1>2 DEF HandlerType, FreeBuffers, DoubleFree, AllocateBuffers
  <1>9. /\ job' = job /\ op' = op /\ UNCHANGED <<toProxy, toWrapper, client>>
        /\ server' \in [Caller -> {"open", "gone"}]
        /\ job' \in [Caller -> Request \union {ZeroReq}]
    BY <1>1, <1>2 DEF HandlerType, streamVars, StreamType, taVars
  <1> QED BY <1>1, <1>3, <1>4, <1>5, <1>7, <1>8, <1>9, RestartFrame

\* The heap is configured and the handler returns.
LEMMA ConfigureOK ==
    ASSUME IInv, NEW i \in Caller, ConfigureHeapSize(i), UNCHANGED wrapperVars
    PROVE  IInv'
  <1>1. /\ hpc[i] = "configure" /\ Goto(i, "done") /\ ServerEnds({i})
        /\ UNCHANGED <<up, ctxOpen, sessOpen, outBuf, job, opBuf, owner, faults, orphans, leaked, opening, late>>
        /\ UNCHANGED <<sc, wasm, heapUsed, op>>
        /\ heapSize' \in {heapSize, HeapSize}
    BY DEF ConfigureHeapSize, ConfigureHeap, taVars
  <1>2. HandlerType /\ RepairInv /\ StreamType /\ SharedType /\ TaTypeOK /\ TaInv
    BY DEF IInv, TypeInv
  <1>3. /\ TaTypeOK'
    BY <1>1, <1>2, SizeAssumption DEF TaTypeOK
  <1>4. SessionOK'
    <2>1. HeapSize # 0 /\ LargeHeap(HeapSize)
      BY SizeAssumption, OneRuntimeFits
    <2> QED BY <1>1, <1>2, <2>1 DEF TaInv, SessionOK, LargeHeap
  <1>5. TaInv'
    BY <1>1, <1>2, <1>4 DEF TaInv
  <1>6. RepairInv'
    <2>1. up /\ hpc[i] \in Restarting
      BY <1>1, <1>2 DEF RepairInv, At, Restarting
    <2>2. ASSUME NEW S, At(S), "configure" \notin S PROVE At(S)'
      BY <1>1, <1>2, <2>2, AtStep
    <2>3. /\ outBuf = "freed" => At({"allocate"})'
          /\ ~ctxOpen  => At({"free", "allocate", "initialize"})'
          /\ ~sessOpen /\ ~late => At(ToSession)'
          /\ heapUsed # 0 \/ sc.runtime => At({"dispatch", "read", "close"})'
      <3>1. "configure" \notin ToSession
        BY DEF ToSession
      <3> QED BY <1>2, <2>1, <2>2, <3>1 DEF RepairInv
    <2> QED BY <1>1, <2>1, <2>3 DEF RepairInv, ToSession
  <1>7. SharedType'
    BY <1>1, <1>2 DEF SharedType
  <1>8. /\ UNCHANGED <<toProxy, toWrapper, client>> /\ server' \in [Caller -> {"open", "gone"}]
        /\ job' \in [Caller -> Request \union {ZeroReq}]
        /\ opBuf' \in [Caller -> {"none", "current", "other", "freed"}]
    BY <1>1, <1>2 DEF ServerEnds, StreamType, HandlerType
  <1> QED BY <1>1, <1>3, <1>5, <1>6, <1>7, <1>8, RestartFrame

-----------------------------------------------------------------------------
\* The process ends, with all of its handlers and whatever it has open.
LEMMA ServerDiesOK ==
    ASSUME IInv, ServerDies, UNCHANGED wrapperVars,
           faults' \subseteq {"double_free", "use_after_free", "double_close"}
    PROVE  IInv'
  <1>1. /\ up' = FALSE /\ ctxOpen' = FALSE /\ sessOpen' = FALSE /\ owner' = {} /\ FreshSession
        /\ hpc' = [j \in Caller |-> IF client[j] # "none" /\ hpc[j] # "done" THEN "dead" ELSE hpc[j]]
        /\ UNCHANGED <<toProxy, toWrapper, client>>
        /\ DropLocals(Caller) /\ outBuf' = "freed" /\ orphans' = 0 /\ leaked' = 0
        /\ opening' = [j \in Caller |-> "none"] /\ late' = FALSE
    BY DEF ServerDies, NoSession, ServerEnds
  <1>2. HandlerType /\ StreamType /\ StreamInv /\ WrapperType
    BY DEF IInv, TypeInv
  <1>3. /\ op' \in [Caller -> Operation] /\ job' \in [Caller -> Request \union {ZeroReq}]
        /\ opBuf' \in [Caller -> {"none", "current", "other", "freed"}]
    BY <1>1, DropLocalsOK
  <1>4. TaTypeOK' /\ TaInv'
    BY <1>1, <1>3, FreshOK
  <1>5. SharedType'
    BY <1>1 DEF SharedType
  <1>6. HandlerType'
    BY <1>1, <1>2, <1>3 DEF HandlerType
  <1>7. StreamType'
    BY <1>1, <1>2 DEF ServerDies, ServerEnds, StreamType
  <1>8. wpc' = wpc /\ WrapperType'
    BY <1>2 DEF wrapperVars, WrapperType
  <1>9. ASSUME NEW j \in Caller
        PROVE  /\ hpc'[j] \in {"none", "done", "dead"} /\ (hpc'[j] = "none" <=> client[j] = "none")
               /\ ChannelOK(toProxy[j], toWrapper[j], hpc'[j], op'[j].type)
               /\ PartiesOK(wpc[j], client[j], toProxy[j], hpc'[j], job'[j], op'[j].type)
    <2>1. /\ ChannelOK(toProxy[j], toWrapper[j], hpc[j], op[j].type)
          /\ PartiesOK(wpc[j], client[j], toProxy[j], hpc[j], job[j], op[j].type)
      BY <1>2 DEF StreamInv
    <2>2. CASE client[j] = "none"
      <3>1. hpc'[j] = "none" /\ hpc[j] = "none"
        BY <1>1, <2>1, <2>2 DEF PartiesOK
      <3> QED BY <2>1, <2>2, <3>1 DEF ChannelOK, PartiesOK
    <2>3. CASE client[j] # "none"
      <3>1. hpc'[j] \in {"done", "dead"}
        BY <1>1, <2>3
      <3> QED BY <2>1, <2>3, <3>1, ChannelLeft DEF PartiesOK
    <2> QED BY <2>2, <2>3
  <1>10. StreamInv'
    BY <1>1, <1>8, <1>9 DEF StreamInv
  <1>11. RepairInv'
    BY <1>1, <1>9 DEF RepairInv, At, Executing, Restarting
  <1> QED BY <1>4, <1>5, <1>6, <1>7, <1>8, <1>10, <1>11 DEF IInv, TypeInv

\* Somebody starts the server again.
LEMMA StartServerOK ==
    ASSUME IInv, StartServer, UNCHANGED wrapperVars
    PROVE  IInv'
  <1>1. /\ up' = TRUE /\ ctxOpen' = TRUE /\ sessOpen' = TRUE /\ outBuf' = "live"
        /\ sc' = ZeroCtx /\ wasm' = NoInstance /\ heapUsed' = 0 /\ heapSize' \in {0, HeapSize}
        /\ UNCHANGED <<op, opBuf, hpc, job, orphans, leaked, opening, late, owner, faults>>
        /\ UNCHANGED <<toProxy, toWrapper, client, server>>
    BY DEF StartServer, streamVars
  <1>2. HandlerType /\ StreamType /\ StreamInv /\ WrapperType /\ SharedType /\ TaTypeOK
    BY DEF IInv, TypeInv
  <1>3. TaTypeOK'
    BY <1>1, <1>2, FreshValues, SizeAssumption DEF TaTypeOK
  <1>4. /\ sc' \in SessionCtx /\ sc'.pending = NONE /\ sc'.out = FALSE
        /\ sc'.hasResponse = FALSE /\ sc'.runtime = FALSE
    BY <1>1, FreshValues DEF ZeroCtx
  <1>5. EmptyKey \in AnyKey /\ Empty \in Value /\ GuestOK(sc', wasm', EmptyKey, Empty)
    BY <1>1, <1>4, FreshValues, FreshGuestOK DEF NoInstance
  <1>6. TaInv'
    BY <1>1, <1>4, <1>5, OneRuntimeFits DEF TaInv, SessionOK, LargeHeap
  <1>7. wpc' = wpc /\ WrapperType' /\ HandlerType' /\ StreamType' /\ SharedType'
    BY <1>1, <1>2 DEF wrapperVars, WrapperType, HandlerType, StreamType, SharedType
  <1>8. StreamInv'
    BY <1>1, <1>2, <1>7 DEF StreamInv
  <1>9. RepairInv'
    BY <1>1, <1>4 DEF RepairInv
  <1> QED BY <1>3, <1>6, <1>7, <1>8, <1>9 DEF IInv, TypeInv

-----------------------------------------------------------------------------
\* Nothing has happened yet.
LEMMA InitOK == Init => IInv
  <1> SUFFICES ASSUME Init PROVE IInv
    OBVIOUS
  <1> USE DEF Init, StreamInit, WrapperInit, ProxyInit
  <1>1. op \in [Caller -> Operation]
    BY ZeroBufType DEF ZeroOp, Operation, ResultCode, RequestType
  <1>2. TaTypeOK
    <2>1. sc = ZeroCtx /\ wasm = NoInstance /\ heapSize \in {0, HeapSize} /\ heapUsed = 0
      OBVIOUS
    <2> HIDE DEF Init, StreamInit, WrapperInit, ProxyInit
    <2>2. 0 \in 0 .. TaDataSize /\ heapSize \in Nat
      BY <2>1, SizeAssumption
    <2> QED BY <1>1, <2>1, <2>2, FreshValues DEF TaTypeOK
  <1>3. WrapperType
    <2>1. Say("") \in Response /\ Empty \in Value
      BY SayTypes, FreshValues DEF ResponseTag
    <2> QED BY <2>1 DEF WrapperType
  <1>4. StreamType /\ HandlerType /\ SharedType
    BY DEF StreamType, Queue, HandlerType, SharedType, NoJob, ZeroReq
  <1>5. StreamInv
    BY DEF StreamInv, ChannelOK, PartiesOK
  <1>6. /\ sc.pending = NONE /\ sc.out = FALSE /\ sc.hasResponse = FALSE /\ sc.runtime = FALSE
    BY DEF ZeroCtx
  <1>7. EmptyKey \in AnyKey /\ Empty \in Value /\ GuestOK(sc, wasm, EmptyKey, Empty)
    BY <1>2, <1>6, FreshValues, FreshGuestOK DEF NoInstance, TaTypeOK
  <1>8. TaInv
    BY <1>6, <1>7, OneRuntimeFits DEF TaInv, SessionOK
  <1>9. RepairInv
    BY <1>6 DEF RepairInv
  <1> QED BY <1>2, <1>3, <1>4, <1>5, <1>8, <1>9 DEF IInv, TypeInv

\* Every step of a handler keeps the invariant.
LEMMA HandlerOK ==
    ASSUME IInv, NEW i \in Caller, HandlerNext(i), UNCHANGED wrapperVars
    PROVE  IInv'
  <1>1. CASE LoadFile(i)
    BY <1>1, LoadFileOK
  <1>2. CASE LoadFileFails(i) \/ ForwardFails(i) \/ ReadAnswerFails(i)
    BY <1>2, GivesUpOK
  <1>3. CASE InvokeRun(i)
    BY <1>3, InvokeRunOK
  <1>4. CASE SendFinalResponse(i)
    BY <1>4, SendFinalOK
  <1>5. CASE ForwardRequest(i)
    BY <1>5, ForwardRequestOK
  <1>6. CASE InvokeResume(i)
    BY <1>6, InvokeResumeOK
  <1>7. CASE CloseSession(i)
    BY <1>7, CloseSessionOK
  <1>8. CASE FinalizeContext(i) \/ InitializeContext(i) \/ SessionOpened(i)
    BY <1>8, ContextOK
  <1>12. CASE OpenSession(i)
    BY <1>12, OpenSessionOK
  <1>9. CASE FreeBuffers(i) \/ DoubleFree(i) \/ AllocateBuffers(i)
    BY <1>9, BuffersOK
  <1>10. CASE ConfigureHeapSize(i)
    BY <1>10, ConfigureOK
  <1>11. CASE PrepareFails(i) \/ DoubleFreeAborts(i)
    <2>1. /\ ServerDies
          /\ faults' \subseteq {"double_free", "use_after_free", "double_close"}
      BY <1>11 DEF PrepareFails, DoubleFreeAborts, IInv, TypeInv, SharedType
    <2> QED BY <2>1, ServerDiesOK
  <1> QED BY <1>1, <1>2, <1>3, <1>4, <1>5, <1>6, <1>7, <1>8, <1>9, <1>10, <1>11, <1>12 DEF HandlerNext

\* Every step of a wrapper, and of Fabric, keeps it.
LEMMA OutsideOK ==
    ASSUME IInv, NEW i \in Caller, InvokeStep(i) \/ RecvStep(i) \/ OutsideStep(i)
    PROVE  IInv'
  <1>1. UNCHANGED taVars /\ UNCHANGED proxyVars
    BY DEF InvokeStep, RecvStep, OutsideStep
  <1>2. ASSUME NEW r \in Request, Invoke(i, r) PROVE IInv'
    BY <1>1, <1>2, InvokeOK
  <1>3. CASE InvokeFails(i) \/ StubFails(i) \/ RecvFails(i) \/ DeadlineExpires(i)
    BY <1>1, <1>3, WrapperFailsOK
  <1>4. CASE RecvInvocationResponse(i)
    BY <1>1, <1>4, RecvResponseOK
  <1>5. CASE RecvGetStateRequest(i)
    BY <1>1, <1>5, RecvGetOK
  <1>6. CASE RecvPutStateRequest(i)
    BY <1>1, <1>6, RecvPutOK
  <1>7. CASE Commit(i) \/ Invalidate(i)
    BY <1>1, <1>7, DecideOK
  <1> QED BY <1>2, <1>3, <1>4, <1>5, <1>6, <1>7 DEF InvokeStep, RecvStep, OutsideStep, RecvNext

\* The invariant is inductive.
LEMMA Inductive == IInv /\ [Next]_vars => IInv'
  <1> SUFFICES ASSUME IInv, [Next]_vars PROVE IInv'
    OBVIOUS
  <1>1. ASSUME NEW i \in Caller, InvokeStep(i) \/ RecvStep(i) \/ OutsideStep(i) PROVE IInv'
    BY <1>1, OutsideOK
  <1>2. ASSUME NEW i \in Caller, AcceptStep(i) PROVE IInv'
    BY <1>2, ReadInvocationOK, ReadInvocationFailsOK DEF AcceptStep
  <1>3. ASSUME NEW i \in Caller, HandlerStep(i) PROVE IInv'
    BY <1>3, HandlerOK DEF HandlerStep
  <1>4. CASE SigintStep
    <2>1. ServerDies /\ UNCHANGED wrapperVars /\ faults' = faults
      BY <1>4 DEF SigintStep, Cleanup
    <2> QED BY <2>1, ServerDiesOK DEF IInv, TypeInv, SharedType
  <1>5. CASE RestartStep
    BY <1>5, StartServerOK DEF RestartStep
  <1>6. CASE UNCHANGED vars
    <2>1. UNCHANGED taVars /\ UNCHANGED proxyVars /\ UNCHANGED wrapperVars /\ UNCHANGED streamVars
      BY <1>6 DEF vars, taVars, proxyVars, wrapperVars, streamVars
    <2>2. WrapperType' /\ StreamType' /\ StreamInv'
      BY <2>1 DEF IInv, TypeInv, WrapperType, StreamType, StreamInv, proxyVars, taVars,
                  wrapperVars, streamVars
    <2> QED BY <2>1, <2>2, WrapperFrame
  <1>7. CASE AllDone
    BY <1>6, <1>7 DEF AllDone
  <1> QED BY <1>1, <1>2, <1>3, <1>4, <1>5, <1>6, <1>7 DEF Next

\* The inductive invariant holds with any number of handlers at work.
THEOREM Invariance == Spec => []IInv
  BY InitOK, Inductive, PTL DEF Spec

(***************************************************************************)
(* The wrapper and the handler of an invocation take turns, and the proxy  *)
(* never reads a message it does not expect, although handlers end one     *)
(* another's sessions and the process may end at any time: see LockStep.   *)
(***************************************************************************)
THEOREM TurnsTaken == Spec => []LockStep
  <1>1. IInv => LockStep
    <2> SUFFICES ASSUME IInv, NEW i \in Caller
                 PROVE  /\ Len(toProxy[i]) + Len(toWrapper[i]) <= 1
                        /\ toProxy[i] # <<>> /\ hpc[i] \in Executing \union {"none"} =>
                               Head(toProxy[i]).type \in ExpectedType(i)
      BY DEF LockStep
    <2>1. /\ StreamType
          /\ ChannelOK(toProxy[i], toWrapper[i], hpc[i], op[i].type)
          /\ PartiesOK(wpc[i], client[i], toProxy[i], hpc[i], job[i], op[i].type)
      BY DEF IInv, TypeInv, StreamInv
    <2>2. /\ Len(toProxy[i]) \in 0 .. 1 /\ (Len(toProxy[i]) = 0 <=> toProxy[i] = <<>>)
          /\ Len(toWrapper[i]) \in 0 .. 1 /\ (Len(toWrapper[i]) = 0 <=> toWrapper[i] = <<>>)
      BY <2>1, QueueFacts DEF StreamType
    <2>3. Len(toProxy[i]) + Len(toWrapper[i]) <= 1
      <3>1. Len(toProxy[i]) = 0 \/ Len(toWrapper[i]) = 0
        BY <2>1, <2>2 DEF ChannelOK
      <3>2. \A m, n \in 0 .. 1 : m = 0 \/ n = 0 => m + n <= 1
        OBVIOUS
      <3> QED BY <2>2, <3>1, <3>2, Zenon
    <2>4. ASSUME toProxy[i] # <<>>, hpc[i] \in Executing \union {"none"}
          PROVE  Head(toProxy[i]).type \in ExpectedType(i)
      <3>1. hpc[i] \in {"none", "read"}
        BY <2>1, <2>4 DEF ChannelOK, Executing
      <3>2. CASE hpc[i] = "none"
        BY <2>1, <2>4, <3>2 DEF ChannelOK, ExpectedType
      <3>3. CASE hpc[i] = "read" /\ op[i].type = GET_STATE_REQUEST
        BY <2>1, <2>4, <3>3 DEF ChannelOK, ExpectedType
      <3>4. CASE hpc[i] = "read" /\ op[i].type = PUT_STATE_REQUEST
        BY <2>1, <2>4, <3>4 DEF ChannelOK, ExpectedType
      <3>5. hpc[i] = "read" => op[i].type \in {GET_STATE_REQUEST, PUT_STATE_REQUEST}
        BY <2>1 DEF PartiesOK
      <3> QED BY <3>1, <3>2, <3>3, <3>4, <3>5
    <2> QED BY <2>3, <2>4
  <1> QED BY <1>1, Invariance, PTL

\* Nothing is missing from tee_ctx when nobody is there to supply it.
LEMMA QuiescentIsReady == IInv => QuiescentReady
  <1> SUFFICES ASSUME IInv, up, Active = {}
               PROVE  /\ ctxOpen /\ outBuf = "live"
                      /\ heapUsed = 0 /\ ~sc.runtime
                      /\ sessOpen \/ late
    BY DEF QuiescentReady
  <1>1. ASSUME NEW S, S \subseteq Executing \union Restarting PROVE ~At(S)
    BY <1>1 DEF Active, At
  <1>2. /\ ~At({"allocate"}) /\ ~At({"free", "allocate", "initialize"})
        /\ ~At(ToSession) /\ ~At({"dispatch", "read", "close"})
    BY <1>1 DEF Executing, Restarting, ToSession
  <1>3. outBuf \in {"live", "freed"}
    BY DEF IInv, TypeInv, SharedType
  <1> QED BY <1>2, <1>3 DEF IInv, RepairInv

(***************************************************************************)
(* However the restarts interleave, and with any number of them, a server  *)
(* without a handler at work has its context, its buffers and all of the   *)
(* session's memory, and its session is open or its id came late: see      *)
(* QuiescentReady.                                                         *)
(***************************************************************************)
THEOREM RestartsConverge == Spec => []QuiescentReady
  BY QuiescentIsReady, Invariance, PTL

-----------------------------------------------------------------------------
(***************************************************************************)
(* The sessions that nothing names any more.  Every handler opens one, and *)
(* the first to close one closes the one the server has started with.      *)
(***************************************************************************)
Opened   == {i \in Caller : hpc[i] \in {"configure", "done"}}
Closed   == {i \in Caller : hpc[i] \in (Restarting \ {"close"}) \union {"done"}}
Held     == IF sessOpen THEN 1 ELSE 0
Sessions == orphans + leaked + Held

CountInv ==
    /\ Sessions <= Cardinality(Opened) + 1
    /\ Closed # {} => Sessions <= Cardinality(Opened)
    /\ ~up => Sessions = 0
    /\ orphans + leaked <= Cardinality(Opened)

\* There are finitely many handlers that have opened a session.
LEMMA OpenedFinite == IsFiniteSet(Opened) /\ Cardinality(Opened) \in Nat
                      /\ Cardinality(Opened) <= Cardinality(Caller)
  <1>1. Opened \in SUBSET Caller
    BY DEF Opened
  <1> QED BY <1>1, CallerAssumption, FS_Subset, FS_CardinalityType

\* How the number changes with a step of a handler.
LEMMA OpenedStep ==
    ASSUME HandlerType, NEW i \in Caller, NEW b, Goto(i, b),
           hpc[i] \notin {"configure", "done"}
    PROVE  /\ b \notin {"configure", "done"} => Cardinality(Opened') = Cardinality(Opened)
           /\ b \in {"configure", "done"} => Cardinality(Opened') = Cardinality(Opened) + 1
  <1>1. hpc'[i] = b /\ \A j \in Caller \ {i} : hpc'[j] = hpc[j]
    BY DEF Goto, HandlerType
  <1>2. CASE b \notin {"configure", "done"}
    <2>1. Opened' = Opened
      BY <1>1, <1>2 DEF Opened
    <2> QED BY <1>2, <2>1
  <1>3. CASE b \in {"configure", "done"}
    <2>1. Opened' = Opened \union {i} /\ i \notin Opened
      BY <1>1, <1>3 DEF Opened
    <2>2. Cardinality(Opened \union {i}) = Cardinality(Opened) + 1
      BY <2>1, OpenedFinite, FS_AddElement
    <2> QED BY <1>3, <2>1, <2>2
  <1> QED BY <1>2, <1>3

\* Steps that open and close nothing.
LEMMA CountQuiet ==
    ASSUME CountInv, SharedType, SharedType', UNCHANGED <<up, sessOpen, orphans, leaked>>,
           Cardinality(Opened') = Cardinality(Opened), Closed' # {} => Closed # {}
    PROVE  CountInv'
  BY DEF CountInv, Sessions, Held

\* What a step that opens or closes a session has to see to.
LEMMA CountReached ==
    ASSUME up' = TRUE, NEW o \in Nat, NEW l \in Nat, NEW h \in {0, 1}, NEW n \in Nat,
           orphans' = o, leaked' = l, Held' = h, Cardinality(Opened') = n, o + l + h <= n
    PROVE  CountInv'
  <1>1. Sessions' = o + l + h
    BY DEF Sessions
  <1>2. orphans' + leaked' = o + l
    OBVIOUS
  <1>3. o + l + h <= n + 1 /\ o + l <= n
    OBVIOUS
  <1> QED BY <1>1, <1>2, <1>3, Zenon DEF CountInv

\* The first steps of a handler, up to the restart, open and close nothing.
LEMMA CountExecutes ==
    ASSUME CountInv, IInv, IInv', NEW i \in Caller, NEW b, Goto(i, b),
           hpc[i] \in Executing \union {"none"}, b \in Executing \union {"close"},
           UNCHANGED <<up, sessOpen, orphans, leaked>>
    PROVE  CountInv'
  <1>1. HandlerType /\ SharedType /\ SharedType'
    BY DEF IInv, TypeInv
  <1>2. hpc'[i] = b /\ \A j \in Caller \ {i} : hpc'[j] = hpc[j]
    BY <1>1 DEF Goto, HandlerType
  <1>3. Cardinality(Opened') = Cardinality(Opened)
    BY <1>1, OpenedStep DEF Executing
  <1>4. Closed' = Closed
    BY <1>2 DEF Closed, Executing, Restarting
  <1> QED BY <1>1, <1>3, <1>4, CountQuiet

\* The steps of the restart, and of a call that is cancelled at once.
LEMMA CountRestarts ==
    ASSUME CountInv, IInv, IInv', NEW i \in Caller,
           \/ ReadInvocationFails(i) \/ CloseSession(i) \/ FinalizeContext(i)
           \/ FreeBuffers(i) \/ DoubleFree(i) \/ AllocateBuffers(i)
           \/ InitializeContext(i) \/ OpenSession(i) \/ SessionOpened(i)
    PROVE  CountInv'
  <1>1. HandlerType /\ SharedType /\ SharedType' /\ RepairInv
    BY DEF IInv, TypeInv
  <1>2. /\ orphans \in Nat /\ leaked \in Nat /\ orphans' \in Nat /\ leaked' \in Nat
        /\ sessOpen \in BOOLEAN /\ sessOpen' \in BOOLEAN
    BY <1>1 DEF SharedType
  <1>3. PICK b : Goto(i, b) /\ up' = up /\ up
                 /\ b \in (Restarting \ {"close"}) \union {"done"}
                 /\ (hpc[i] \notin {"none", "close"} => i \in Closed)
    <2>1. CASE ReadInvocationFails(i)
      BY <2>1 DEF ReadInvocationFails, Restarting
    <2>2. hpc[i] \in Executing \union Restarting => up
      BY <1>1 DEF RepairInv, At
    <2>3. CASE CloseSession(i)
      BY <2>2, <2>3 DEF CloseSession, Restarting
    <2>4. CASE FinalizeContext(i) \/ FreeBuffers(i) \/ DoubleFree(i)
      BY <2>2, <2>4 DEF FinalizeContext, FreeBuffers, DoubleFree, Restarting, Closed
    <2>5. CASE AllocateBuffers(i) \/ InitializeContext(i) \/ OpenSession(i) \/ SessionOpened(i)
      BY <2>2, <2>5 DEF AllocateBuffers, InitializeContext, OpenSession, SessionOpened,
                        Restarting, Closed
    <2> QED BY <2>1, <2>3, <2>4, <2>5
  <1>4. Cardinality(Opened) \in Nat
    BY OpenedFinite
  <1>5. hpc[i] \notin {"configure", "done"}
    BY DEF ReadInvocationFails, CloseSession, FinalizeContext, FreeBuffers, DoubleFree,
           AllocateBuffers, InitializeContext, OpenSession, SessionOpened
  <1>6. /\ b \notin {"configure", "done"} => Cardinality(Opened') = Cardinality(Opened)
        /\ b \in {"configure", "done"} => Cardinality(Opened') = Cardinality(Opened) + 1
    BY <1>1, <1>3, <1>5, OpenedStep
  <1>7. hpc'[i] = b
    BY <1>1, <1>3 DEF Goto, HandlerType
  <1> DEFINE n == Cardinality(Opened)
             m == Cardinality(Opened')
  <1>8. /\ Sessions <= n + 1 /\ orphans + leaked <= n
        /\ hpc[i] \notin {"none", "close"} => Sessions <= n
    BY <1>3 DEF CountInv
  <1>9. n \in Nat /\ (m = n \/ m = n + 1)
    BY <1>4, <1>6
  <1>10. PICK o \in Nat, l \in Nat, h \in {0, 1} :
             /\ orphans' = o /\ leaked' = l /\ Held' = h /\ h = IF sessOpen' THEN 1 ELSE 0
    BY <1>2 DEF Held
  <1>11. SUFFICES o + l + h <= m
    <2>1. m \in Nat
      BY <1>9
    <2> QED BY <1>3, <1>10, <1>11, <2>1, CountReached DEF SharedType
  <1> HIDE DEF n, m
  <1>12. CASE ReadInvocationFails(i)
    <2>1. hpc'[i] = "done" /\ UNCHANGED <<sessOpen, orphans, leaked>>
      BY <1>1, <1>12 DEF ReadInvocationFails, Goto, HandlerType
    <2>2. m = n + 1
      BY <1>6, <1>7, <2>1 DEF m, n
    <2> QED BY <1>2, <1>8, <1>9, <1>10, <2>1, <2>2 DEF Sessions, Held
  <1>13. CASE CloseSession(i) \/ FinalizeContext(i)
    <2>1. sessOpen' = FALSE /\ leaked' = leaked /\ (orphans' = orphans \/ orphans' = 0)
      BY <1>13 DEF CloseSession, FinalizeContext, NoSession
    <2> QED BY <1>2, <1>8, <1>9, <1>10, <2>1 DEF Sessions, Held
  <1>14. CASE FreeBuffers(i) \/ DoubleFree(i) \/ AllocateBuffers(i) \/ OpenSession(i)
    <2>1. UNCHANGED <<sessOpen, orphans, leaked>> /\ hpc[i] \in {"free", "allocate", "open"}
      BY <1>14 DEF FreeBuffers, DoubleFree, AllocateBuffers, OpenSession
    <2> QED BY <1>2, <1>8, <1>9, <1>10, <2>1 DEF Sessions, Held
  <1>15. CASE InitializeContext(i)
    <2>1. /\ sessOpen' = FALSE /\ leaked' = leaked + orphans + Held /\ orphans' = 0
          /\ hpc[i] = "initialize"
      BY <1>15 DEF InitializeContext, NoSession, Held
    <2> QED BY <1>2, <1>8, <1>9, <1>10, <2>1 DEF Sessions, Held
  <1>16. CASE SessionOpened(i)
    <2>1. /\ orphans' = orphans + Held
          /\ \/ sessOpen' = TRUE /\ leaked' = leaked
             \/ sessOpen' = FALSE /\ leaked' \in {leaked, leaked + 1}
          /\ hpc[i] = "opening" /\ hpc'[i] = "configure"
      <3>1. orphans' = orphans + Held
        BY <1>2, <1>16 DEF SessionOpened, Held
      <3>2. hpc[i] = "opening" /\ hpc'[i] = "configure"
        BY <1>1, <1>16 DEF SessionOpened, Goto, HandlerType
      <3>3. CASE opening[i] = "current"
        BY <1>16, <3>1, <3>2, <3>3 DEF SessionOpened
      <3>4. CASE opening[i] # "current"
        BY <1>2, <1>16, <3>1, <3>2, <3>4 DEF SessionOpened
      <3> QED BY <3>3, <3>4
    <2>2. m = n + 1
      BY <1>6, <1>7, <2>1 DEF m, n
    <2> QED BY <1>2, <1>8, <1>9, <1>10, <2>1, <2>2 DEF Sessions, Held
  <1> QED BY <1>12, <1>13, <1>14, <1>15, <1>16

\* The last step of the restart.
LEMMA CountConfigures ==
    ASSUME CountInv, IInv, IInv', NEW i \in Caller, ConfigureHeapSize(i)
    PROVE  CountInv'
  <1>1. HandlerType /\ SharedType /\ SharedType'
    BY DEF IInv, TypeInv
  <1>2. /\ hpc[i] = "configure" /\ hpc'[i] = "done" /\ \A j \in Caller \ {i} : hpc'[j] = hpc[j]
        /\ UNCHANGED <<up, sessOpen, orphans, leaked>>
    BY <1>1 DEF ConfigureHeapSize, Goto, HandlerType
  <1>3. Opened' = Opened /\ Closed' = Closed
    BY <1>2 DEF Opened, Closed, Restarting
  <1> QED BY <1>1, <1>2, <1>3, CountQuiet

\* The end of the process returns everything, and its start opens a session.
LEMMA CountProcess ==
    ASSUME CountInv, IInv, IInv', ServerDies \/ StartServer
    PROVE  CountInv'
  <1>1. RepairInv /\ SharedType
    BY DEF IInv, TypeInv
  <1>2. CASE ServerDies
    <2>1. up' = FALSE /\ sessOpen' = FALSE /\ orphans' = 0 /\ leaked' = 0
      BY <1>2 DEF ServerDies, NoSession
    <2>2. Cardinality(Opened') \in Nat
      <3>1. Opened' \in SUBSET Caller
        BY DEF Opened
      <3> QED BY <3>1, CallerAssumption, FS_Subset, FS_CardinalityType
    <2> QED BY <2>1, <2>2 DEF CountInv, Sessions, Held
  <1>3. CASE StartServer
    <2>1. ~up /\ up' = TRUE /\ sessOpen' = TRUE /\ UNCHANGED <<hpc, orphans, leaked>>
      BY <1>3 DEF StartServer
    <2>2. orphans = 0 /\ leaked = 0
      BY <1>1, <2>1 DEF CountInv, Sessions, Held, SharedType
    <2>3. Opened' = Opened /\ Closed' = Closed
      BY <2>1 DEF Opened, Closed
    <2>4. Closed # {} => Opened # {}
      BY <1>1, <2>1 DEF RepairInv, At, Closed, Opened, Restarting
    <2>5. Cardinality(Opened) \in Nat /\ (Opened # {} => Cardinality(Opened) # 0)
      BY OpenedFinite, FS_EmptySet
    <2>6. Sessions' = 1
      BY <2>1, <2>2 DEF Sessions, Held
    <2> QED BY <2>1, <2>2, <2>3, <2>4, <2>5, <2>6 DEF CountInv
  <1> QED BY <1>2, <1>3

\* Every step keeps the count.
LEMMA CountStep == IInv /\ IInv' /\ CountInv /\ [Next]_vars => CountInv'
  <1> SUFFICES ASSUME IInv, IInv', CountInv, [Next]_vars PROVE CountInv'
    OBVIOUS
  <1>1. CASE hpc' = hpc /\ UNCHANGED <<up, sessOpen, orphans, leaked>>
    BY <1>1 DEF CountInv, Sessions, Held, Opened, Closed
  <1>2. ASSUME NEW i \in Caller, InvokeStep(i) \/ RecvStep(i) \/ OutsideStep(i) PROVE CountInv'
    BY <1>1, <1>2 DEF InvokeStep, RecvStep, OutsideStep, proxyVars
  <1>3. ASSUME NEW i \in Caller, AcceptStep(i) PROVE CountInv'
    <2>1. CASE ReadInvocation(i)
      BY <2>1, CountExecutes DEF ReadInvocation, Executing
    <2>2. CASE ReadInvocationFails(i)
      BY <2>2, CountRestarts
    <2> QED BY <1>3, <2>1, <2>2 DEF AcceptStep
  <1>4. ASSUME NEW i \in Caller, HandlerNext(i) PROVE CountInv'
    <2>1. CASE LoadFile(i) \/ LoadFileFails(i) \/ ForwardRequest(i) \/ ForwardFails(i)
               \/ SendFinalResponse(i) \/ ReadAnswerFails(i)
      <3>1. PICK b \in {"run", "close", "read"} :
                /\ Goto(i, b) /\ hpc[i] \in {"load", "dispatch", "read"}
                /\ UNCHANGED <<up, sessOpen, orphans, leaked>>
        BY <2>1 DEF LoadFile, LoadFileFails, ForwardRequest, ForwardFails, SendFinalResponse,
                    ReadAnswerFails
      <3> QED BY <3>1, CountExecutes DEF Executing
    <2>2. CASE InvokeRun(i) \/ InvokeResume(i)
      <3>1. PICK b \in {"dispatch", "close"} :
                /\ Goto(i, b) /\ hpc[i] \in {"run", "read"}
                /\ UNCHANGED <<up, sessOpen, orphans, leaked>>
        BY <2>2 DEF InvokeRun, InvokeResume, AfterCommand
      <3> QED BY <3>1, CountExecutes DEF Executing
    <2>3. CASE CloseSession(i) \/ FinalizeContext(i) \/ FreeBuffers(i) \/ DoubleFree(i)
               \/ AllocateBuffers(i) \/ InitializeContext(i) \/ OpenSession(i) \/ SessionOpened(i)
      BY <2>3, CountRestarts
    <2>4. CASE ConfigureHeapSize(i)
      BY <2>4, CountConfigures
    <2>5. CASE PrepareFails(i) \/ DoubleFreeAborts(i)
      BY <2>5, CountProcess DEF PrepareFails, DoubleFreeAborts
    <2> QED BY <1>4, <2>1, <2>2, <2>3, <2>4, <2>5 DEF HandlerNext
  <1>5. CASE SigintStep \/ RestartStep
    BY <1>5, CountProcess DEF SigintStep, RestartStep, Cleanup
  <1>6. CASE AllDone \/ UNCHANGED vars
    BY <1>1, <1>6 DEF AllDone, vars
  <1> QED BY <1>2, <1>3, <1>4, <1>5, <1>6 DEF Next, HandlerStep

LEMMA CountInit == Init => CountInv
  <1> SUFFICES ASSUME Init PROVE CountInv
    OBVIOUS
  <1>1. up = TRUE /\ sessOpen = TRUE /\ orphans = 0 /\ leaked = 0 /\ \A i \in Caller : hpc[i] = "none"
    BY DEF Init, ProxyInit
  <1>2. Closed = {}
    BY <1>1 DEF Closed, Restarting
  <1>3. Cardinality(Opened) \in Nat
    BY OpenedFinite
  <1> QED BY <1>1, <1>2, <1>3 DEF CountInv, Sessions, Held

(***************************************************************************)
(* The state of the wrappers, of the proxy and of the streams keeps its    *)
(* type; in particular a server that lives loses at most one session per   *)
(* invocation it has handled, however its handlers interleave.             *)
(***************************************************************************)
THEOREM TypeCorrect == Spec => []TypeOK
  <1>1. IInv /\ CountInv => TypeOK
    <2> SUFFICES ASSUME IInv, CountInv PROVE TypeOK
      OBVIOUS
    <2>1. TaTypeOK /\ WrapperType /\ StreamType /\ HandlerType /\ SharedType
      BY DEF IInv, TypeInv
    <2>2. owner \subseteq Caller /\ Cardinality(owner) <= 1
      <3>1. CASE owner = {}
        BY <3>1, FS_EmptySet
      <3>2. CASE \E i \in Caller : owner = {i}
        BY <3>2, FS_Singleton
      <3> QED BY <2>1, <3>1, <3>2 DEF SharedType
    <2>3. orphans \in 0 .. Cardinality(Caller) /\ leaked \in 0 .. Cardinality(Caller)
      <3>1. /\ orphans \in Nat /\ leaked \in Nat /\ Cardinality(Opened) \in Nat
            /\ Cardinality(Opened) <= Cardinality(Caller) /\ Cardinality(Caller) \in Nat
            /\ orphans + leaked <= Cardinality(Opened)
        BY <2>1, OpenedFinite, CallerAssumption, FS_CardinalityType DEF SharedType, CountInv
      <3> QED BY <3>1
    <2>4. {up, ctxOpen, sessOpen, late} \subseteq BOOLEAN /\ heapSize \in {0, HeapSize}
      BY <2>1 DEF SharedType, IInv, TaInv
    <2> QED BY <2>1, <2>2, <2>3, <2>4 DEF TypeOK, WrapperType, StreamType, HandlerType, SharedType
  <1>2. Spec => []CountInv
    BY CountInit, CountStep, Invariance, PTL DEF Spec
  <1> QED BY <1>1, <1>2, Invariance, PTL
=============================================================================
