-------------------------- MODULE TaSessionProofs --------------------------
(***************************************************************************)
(* Proofs about TaSession, for any keys, word size, callers and arguments, *)
(* and a host that may configure heaps of any size.                        *)
(***************************************************************************)
EXTENDS TaSession, WrapperTAProofs

USE DEF NONE, GET_STATE_REQUEST, PUT_STATE_REQUEST, INVOCATION_RESPONSE

(***************************************************************************)
(* The inductive invariant: as long as the session was given large heaps   *)
(* only, it is idle or has its runtime, and the guest knows the key it     *)
(* asked for last and the answer.                                          *)
(***************************************************************************)
Sound == SessionOK /\ GuestOK(sc, wasm, asked, got)
IInv  == TypeOK /\ (~small => Sound)

\* The invariant holds in a TA instance whose session has just been opened.
LEMMA InitOK == Init => IInv
  <1> SUFFICES ASSUME Init PROVE IInv
    OBVIOUS
  <1>1. op \in [Caller -> Operation]
    BY ZeroBufType DEF Init, TaInit, ZeroOp, Operation, ResultCode, RequestType
  <1>2. TypeOK
    <2>1. 0 \in 0 .. TaDataSize /\ FALSE \in BOOLEAN
      BY SizeAssumption
    <2> QED BY <1>1, <2>1, FreshValues DEF Init, TaInit, TypeOK, TaTypeOK
  <1>3. sc.pending = NONE /\ sc.out = FALSE /\ sc.hasResponse = FALSE /\ sc.runtime = FALSE
    BY DEF Init, TaInit, ZeroCtx
  <1>4. GuestOK(sc, wasm, asked, got)
    BY <1>2, <1>3, FreshGuestOK DEF Init, TaInit, NoInstance, TypeOK, TaTypeOK
  <1> QED BY <1>2, <1>3, <1>4 DEF IInv, Sound, SessionOK, Init, TaInit

\* Opening a session establishes the invariant anew.
LEMMA OpensOK == IInv /\ HostOpens => IInv'
  <1> SUFFICES ASSUME IInv, HostOpens PROVE IInv'
    OBVIOUS
  <1>1. sc' = ZeroCtx /\ wasm' = NoInstance /\ heapSize' = 0 /\ heapUsed' = 0
        /\ op' = op /\ asked' = EmptyKey /\ got' = Empty /\ small' = FALSE
    BY DEF HostOpens, FreshSession
  <1>2. TypeOK'
    <2>1. 0 \in 0 .. TaDataSize /\ FALSE \in BOOLEAN
      BY SizeAssumption
    <2>2. op \in [Caller -> Operation]
      BY DEF IInv, TypeOK, TaTypeOK
    <2> QED BY <1>1, <2>1, <2>2, FreshValues DEF TypeOK, TaTypeOK
  <1>3. sc'.pending = NONE /\ sc'.out = FALSE /\ sc'.hasResponse = FALSE /\ sc'.runtime = FALSE
    BY <1>1 DEF ZeroCtx
  <1>4. GuestOK(sc', wasm', asked', got')
    BY <1>1, <1>3, FreshValues, FreshGuestOK DEF NoInstance
  <1> QED BY <1>1, <1>2, <1>3, <1>4 DEF IInv, Sound, SessionOK

\* COMMAND_CONFIGURE_HEAP preserves the invariant: a heap that is not large
\* makes the session a small one.
LEMMA ConfiguresOK ==
    ASSUME IInv, NEW size \in HostHeap, HostConfigures(size) PROVE IInv'
  <1>1. /\ heapSize' = size /\ sc' = sc /\ wasm' = wasm /\ heapUsed' = heapUsed /\ op' = op
        /\ asked' = asked /\ got' = got /\ small' = (small \/ ~LargeHeap(size))
    BY DEF HostConfigures, ConfigureHeap
  <1>2. TypeOK'
    BY <1>1, HostHeapAssumption DEF IInv, TypeOK, TaTypeOK
  <1>3. ASSUME ~small' PROVE Sound'
    <2>1. ~small /\ LargeHeap(size)
      BY <1>1, <1>3
    <2>3. size # 0
      BY <2>1, SizeAssumption DEF LargeHeap
    <2>2. GuestOK(sc, wasm, asked, got)'
      BY <1>1, <2>1 DEF IInv, Sound
    <2> QED BY <1>1, <2>1, <2>2, <2>3 DEF IInv, Sound, SessionOK, LargeHeap
  <1> QED BY <1>2, <1>3 DEF IInv

\* The key the TA asks for is a key, in any session.
LEMMA AskedType ==
    ASSUME NEW o \in Operation, NEW k \in AnyKey PROVE AskedBy(o, k) \in AnyKey
  BY DEF AskedBy, Operation, Buffer

\* So does COMMAND_RUN_WASM, which leaves a session with a runtime alone.
LEMMA RunsOK ==
    ASSUME IInv, NEW c \in Caller, NEW img \in Image, NEW a \in HostArgs, HostRuns(c, img, a)
    PROVE  /\ IInv'
           /\ \A d \in Caller \ {c} : op'[d] = op[d]
           /\ ~small => /\ AnswerOK(op'[c].buf.resp, sc', wasm', asked', got')
                        /\ sc.runtime => wasm' = wasm /\ sc' = [sc EXCEPT !.args = a]
  <1>1. TaTypeOK /\ asked \in AnyKey /\ got \in Value /\ small \in BOOLEAN /\ a \in Args
    BY HostArgsAssumption DEF IInv, TypeOK
  <1>2. /\ RunWasm(c, img, a) /\ got' = got /\ asked' = AskedBy(op'[c], asked)
        /\ small' = small
    BY DEF HostRuns, RecordRequest, AskedBy
  <1>3. TaTypeOK' /\ (\A d \in Caller \ {c} : op'[d] = op[d]) /\ op'[c] \in Operation
    BY <1>1, <1>2, RunTypes
  <1>4. TypeOK'
    BY <1>1, <1>2, <1>3, AskedType DEF TypeOK
  <1>5. ASSUME ~small
        PROVE  /\ Sound' /\ AnswerOK(op'[c].buf.resp, sc', wasm', asked', got')
               /\ sc.runtime => wasm' = wasm /\ sc' = [sc EXCEPT !.args = a]
    <2>1. SessionOK /\ GuestOK(sc, wasm, asked, got)
      BY <1>5 DEF IInv, Sound
    <2>2. /\ SessionOK'
          /\ GuestOK(sc', wasm', AskedBy(op'[c], asked), got)
          /\ AnswerOK(op'[c].buf.resp, sc', wasm', AskedBy(op'[c], asked), got)
          /\ sc.runtime => wasm' = wasm /\ sc' = [sc EXCEPT !.args = a]
      BY <1>1, <1>2, <2>1, RunOK
    <2> QED BY <1>2, <2>2 DEF Sound
  <1> QED BY <1>2, <1>3, <1>4, <1>5 DEF IInv

\* COMMAND_RESUME_WASM preserves it, and leaves the arguments alone.
LEMMA ResumesOK ==
    ASSUME IInv, NEW c \in Caller, NEW v \in Value, HostResumes(c, v)
    PROVE  /\ IInv'
           /\ \A d \in Caller \ {c} : op'[d] = op[d]
           /\ ~small => AnswerOK(op'[c].buf.resp, sc', wasm', asked', got')
           /\ sc'.args = sc.args
  <1>1. TaTypeOK /\ asked \in AnyKey /\ got \in Value /\ small \in BOOLEAN
    BY DEF IInv, TypeOK
  <1>2. /\ ResumeWasm(c, v) /\ asked' = AskedBy(op'[c], asked) /\ small' = small
        /\ got' = IF sc.runtime /\ sc.pending = GET_STATE_REQUEST THEN v ELSE got
    BY DEF HostResumes, RecordRequest, AskedBy
  <1>3. /\ TaTypeOK' /\ (\A d \in Caller \ {c} : op'[d] = op[d]) /\ op'[c] \in Operation
        /\ sc'.args = sc.args
    BY <1>1, <1>2, ResumeTypes
  <1>4. TypeOK'
    BY <1>1, <1>2, <1>3, AskedType DEF TypeOK
  <1>5. ASSUME ~small
        PROVE  Sound' /\ AnswerOK(op'[c].buf.resp, sc', wasm', asked', got')
    <2>1. SessionOK /\ GuestOK(sc, wasm, asked, got)
      BY <1>5 DEF IInv, Sound
    <2>2. /\ SessionOK'
          /\ GuestOK(sc', wasm', AskedBy(op'[c], asked), got')
          /\ AnswerOK(op'[c].buf.resp, sc', wasm', AskedBy(op'[c], asked), got')
      BY <1>1, <1>2, <2>1, ResumeOK
    <2> QED BY <1>2, <2>2 DEF Sound
  <1> QED BY <1>2, <1>3, <1>4, <1>5 DEF IInv

-----------------------------------------------------------------------------
\* The invariant is inductive.
LEMMA Inductive == IInv /\ [Next]_vars => IInv'
  <1> SUFFICES ASSUME IInv, [Next]_vars PROVE IInv'
    OBVIOUS
  <1>1. CASE HostOpens
    BY <1>1, OpensOK
  <1>2. ASSUME NEW size \in HostHeap, HostConfigures(size) PROVE IInv'
    BY <1>2, ConfiguresOK
  <1>3. ASSUME NEW c \in Caller, NEW img \in Image, NEW a \in HostArgs, HostRuns(c, img, a)
        PROVE  IInv'
    BY <1>3, RunsOK
  <1>4. ASSUME NEW c \in Caller, NEW v \in Value, HostResumes(c, v)
        PROVE  IInv'
    BY <1>4, ResumesOK
  <1>5. CASE UNCHANGED vars
    BY <1>5 DEF vars, IInv, TypeOK, TaTypeOK, Sound, SessionOK, LargeHeap
  <1> QED BY <1>1, <1>2, <1>3, <1>4, <1>5 DEF Next

\* The inductive invariant holds in every state the TA can be driven to.
THEOREM Invariance == Spec => []IInv
  BY InitOK, Inductive, PTL DEF Spec

\* The session context, the guest's statics and the callers' operations keep
\* their types, whatever the host does.
THEOREM TypeCorrect == Spec => []TypeOK
  <1>1. IInv => TypeOK
    BY DEF IInv
  <1> QED BY <1>1, Invariance, PTL

\* A session with a runtime has a module instance, until the host configures
\* a heap of at most half of the TA's memory: see RuntimeHasInstance.
THEOREM RuntimeSafe == Spec => []RuntimeHasInstance
  <1>1. IInv => RuntimeHasInstance
    BY DEF IInv, Sound, SessionOK, RuntimeHasInstance
  <1> QED BY <1>1, Invariance, PTL

\* pending_type, the out buffer, current_op and fsm_state agree, in a session
\* that was given large heaps only.
THEOREM ContinuationHolds == Spec => []Continuation
  <1>1. IInv => Continuation
    BY DEF IInv, Sound, GuestOK, StuckAt, Continuation, StuckCreate
  <1> QED BY <1>1, Invariance, PTL

\* A pending write is for the key that was read last and follows from the
\* answer to that read, in such a session.
THEOREM WritesFollowReads == Spec => []PutFollowsGet
  <1>1. IInv => PutFollowsGet
    <2> SUFFICES ASSUME IInv, ~small PROVE PutFollowsGet
      BY DEF PutFollowsGet
    <2>1. wasm.op \in {"NONE", "CREATE", "ADD", "QUERY"}
      BY DEF IInv, TypeOK, TaTypeOK, Instance, Op
    <2>2. GuestOK(sc, wasm, asked, got)
      BY DEF IInv, Sound
    <2> QED BY <2>1, <2>2 DEF GuestOK, StuckAt, PutFollowsGet
  <1> QED BY <1>1, Invariance, PTL

(***************************************************************************)
(* A session keeps its module: a second COMMAND_RUN_WASM finds no memory,  *)
(* as long as the host has configured large heaps only.                    *)
(***************************************************************************)
THEOREM RuntimeKept == Spec => RunKeepsRuntime
  <1>1. ASSUME IInv, [Next]_vars, ~small, sc.runtime, IsRun
        PROVE  wasm' = wasm /\ sc' = [sc EXCEPT !.args = sc'.args]
    <2>1. sc \in SessionCtx /\ heapUsed \in 0 .. TaDataSize
      BY <1>1 DEF IInv, TypeOK, TaTypeOK
    <2>2. CASE HostOpens
      <3>1. sc'.runtime = FALSE /\ heapUsed' = 0
        BY <2>2 DEF HostOpens, FreshSession, ZeroCtx
      <3> QED BY <1>1, <2>1, <3>1, SizeAssumption DEF IsRun
    <2>3. CASE \E size \in HostHeap : HostConfigures(size)
      <3>1. sc' = sc /\ heapUsed' = heapUsed
        BY <2>3 DEF HostConfigures, ConfigureHeap
      <3> QED BY <1>1, <2>1, <3>1, SizeAssumption DEF IsRun
    <2>4. ASSUME NEW c \in Caller, NEW img \in Image, NEW a \in HostArgs, HostRuns(c, img, a)
          PROVE  wasm' = wasm /\ sc' = [sc EXCEPT !.args = sc'.args]
      <3>1. wasm' = wasm /\ sc' = [sc EXCEPT !.args = a]
        BY <1>1, <2>4, RunsOK
      <3>2. sc'.args = a
        BY <2>1, <3>1 DEF SessionCtx
      <3> QED BY <3>1, <3>2
    <2>5. ASSUME NEW c \in Caller, NEW v \in Value, HostResumes(c, v)
          PROVE  FALSE
      <3>1. heapUsed' = heapUsed
        BY <2>5 DEF HostResumes, ResumeWasm
      <3>2. sc'.args = sc.args
        BY <1>1, <2>5, ResumesOK
      <3> QED BY <1>1, <2>1, <3>1, <3>2, SizeAssumption DEF IsRun
    <2>6. CASE UNCHANGED vars
      BY <1>1, <2>1, <2>6, SizeAssumption DEF vars, IsRun
    <2> QED BY <1>1, <2>2, <2>3, <2>4, <2>5, <2>6 DEF Next
  <1> QED BY <1>1, Invariance, PTL DEF Spec, RunKeepsRuntime

(***************************************************************************)
(* What a caller is told follows from the answer to the read before, even  *)
(* though the response is never reset and steps may fail or be repeated.   *)
(* Again for sessions that were given large heaps only.                    *)
(***************************************************************************)
THEOREM AnswersRight == Spec => AnswersFollowReads
  <1> DEFINE Told(c) == LET r == op'[c].buf.resp
                        IN  ~small /\ op'[c] # op[c] /\ ~StuckCreate' =>
                                /\ r.tag = "VALUE" => r.val = got' /\ sc'.key = asked'
                                /\ r.tag \in {"NOTFOUND", "EMPTY"} => got' = Empty
                                /\ r.tag = "EXIST" => got' # Empty
                                /\ r.tag = "OK" => (got' = Empty <=> wasm'.fn = "create")
  <1>1. ASSUME NEW c \in Caller, AnswerOK(op'[c].buf.resp, sc', wasm', asked', got')
        PROVE  Told(c)
    BY <1>1 DEF AnswerOK, StuckAt, StuckCreate
  <1>2. ASSUME IInv, [Next]_vars, NEW d \in Caller
        PROVE  Told(d)
    <2>1. CASE HostOpens \/ (\E size \in HostHeap : HostConfigures(size)) \/ UNCHANGED vars
      <3>1. op' = op
        BY <2>1 DEF HostOpens, HostConfigures, ConfigureHeap, vars
      <3> QED BY <3>1
    <2>2. ASSUME NEW c \in Caller, NEW img \in Image, NEW a \in HostArgs, HostRuns(c, img, a)
          PROVE  Told(d)
      <3>1. CASE d = c
        BY <1>1, <1>2, <2>2, <3>1, RunsOK
      <3>2. CASE d # c
        BY <1>2, <2>2, <3>2, RunsOK
      <3> QED BY <3>1, <3>2
    <2>3. ASSUME NEW c \in Caller, NEW v \in Value, HostResumes(c, v)
          PROVE  Told(d)
      <3>1. CASE d = c
        BY <1>1, <1>2, <2>3, <3>1, ResumesOK
      <3>2. CASE d # c
        BY <1>2, <2>3, <3>2, ResumesOK
      <3> QED BY <3>1, <3>2
    <2> QED BY <1>2, <2>1, <2>2, <2>3 DEF Next
  <1>3. IInv /\ [Next]_vars => \A c \in Caller : Told(c)
    BY <1>2
  <1> QED BY <1>3, Invariance, PTL DEF Spec, AnswersFollowReads
=============================================================================
