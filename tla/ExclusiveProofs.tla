--------------------------- MODULE ExclusiveProofs ---------------------------
(***************************************************************************)
(* Proofs about the behaviours in which no two handlers are ever at work   *)
(* at the same time, whatever MaxHandlers is: what clients that leave the  *)
(* server time to restart its session may rely on, for any number of       *)
(* invocations, deadlines, cancellations, failing commands, ends and       *)
(* starts of the server.  A lock around TransactionInvocation would make   *)
(* every behaviour such a one (LockMeansAlone).                            *)
(***************************************************************************)
EXTENDS InvocationSystemProofs

-----------------------------------------------------------------------------
\* No two handlers are at work.
Alone == \A i, j \in Active : i = j

(***************************************************************************)
(* What the handler that is alone at work may rely on, step by step.       *)
(***************************************************************************)
SoleOK(h, i) ==
    /\ h \in {"load", "run"} => Clean
    /\ h \in {"load", "run", "dispatch", "read", "close", "finalize", "free"} => outBuf = "live"
    /\ h \in {"run", "dispatch", "read"} => opBuf[i] = "current"
    /\ h \in {"dispatch", "read"} => sessOpen /\ sc.runtime /\ owner = {i}
    /\ h \in {"dispatch", "read", "close", "finalize"} => ctxOpen
    /\ h \in ToSession => ~sessOpen
    /\ h = "opening" => opening[i] = "current"

EInv ==
    /\ Alone
    /\ \A i \in Caller : SoleOK(hpc[i], i)
    /\ orphans = 0 /\ leaked = 0 /\ faults = {} /\ late = FALSE

-----------------------------------------------------------------------------
\* Nobody is at work if fewer than one are.
LEMMA NobodyActive ==
    ASSUME Cardinality(Active) < 1
    PROVE  Active = {}
  <1>1. Active \in SUBSET Caller
    BY DEF Active
  <1>2. IsFiniteSet(Active) /\ Cardinality(Active) \in Nat
    BY <1>1, CallerAssumption, FS_Subset, FS_CardinalityType
  <1>3. Cardinality(Active) = 0
    BY <1>2
  <1> QED BY <1>2, <1>3, FS_EmptySet

\* A step of the handler that is alone, or of the first one, concerns no other.
LEMMA SoleStep ==
    ASSUME IInv, EInv, NEW i \in Caller, i \in Active \/ Active = {}, NEW b, Goto(i, b),
           SoleOK(b, i)', orphans' = 0, leaked' = 0, faults' = {}, late' = FALSE
    PROVE  EInv'
  <1>1. hpc'[i] = b /\ \A j \in Caller \ {i} : hpc'[j] = hpc[j]
    BY DEF IInv, TypeInv, HandlerType, Goto
  <1>2. ASSUME NEW j \in Caller, j # i
        PROVE  hpc'[j] \notin Executing \union Restarting
    BY <1>1, <1>2 DEF EInv, Alone, Active
  <1>3. Alone'
    BY <1>2 DEF Alone, Active
  <1>4. ASSUME NEW j \in Caller PROVE SoleOK(hpc[j], j)'
    <2>1. CASE j = i
      BY <1>1, <2>1 DEF SoleOK
    <2>2. CASE j # i
      BY <1>2, <2>2 DEF SoleOK, ToSession, Executing, Restarting
    <2> QED BY <2>1, <2>2
  <1> QED BY <1>3, <1>4 DEF EInv

\* Steps that leave the handlers and what they share as they are.
LEMMA SoleQuiet ==
    ASSUME EInv, UNCHANGED taVars, UNCHANGED proxyVars
    PROVE  EInv'
  BY DEF EInv, Alone, Active, SoleOK, Clean, taVars, proxyVars

\* The end of the process, and its start, find no handler at work afterwards.
LEMMA SoleProcess ==
    ASSUME IInv', hpc' \in [Caller -> {"none", "done", "dead"}],
           orphans' = 0, leaked' = 0, faults' = {}, late' = FALSE
    PROVE  EInv'
  <1>1. \A i \in Caller : hpc'[i] \in {"none", "done", "dead"}
    OBVIOUS
  <1>2. Active' = {}
    BY <1>1 DEF Active, Executing, Restarting
  <1>3. Alone'
    BY <1>2 DEF Alone
  <1>4. \A i \in Caller : SoleOK(hpc[i], i)'
    BY <1>1 DEF SoleOK, ToSession
  <1> QED BY <1>3, <1>4 DEF EInv

\* A call that is taken up is the only one, and finds tee_ctx clean.
LEMMA TakenAlone ==
    ASSUME IInv, Alone', NEW i \in Caller, ReadInvocation(i)
    PROVE  Active = {}
  <1>1. hpc[i] = "none" /\ hpc'[i] = "load" /\ \A j \in Caller \ {i} : hpc'[j] = hpc[j]
    BY DEF ReadInvocation, Goto, IInv, TypeInv, HandlerType
  <1>2. ASSUME NEW j \in Active PROVE FALSE
    <2>1. j # i /\ j \in Caller
      BY <1>1, <1>2 DEF Active, Executing, Restarting
    <2>2. i \in Active' /\ j \in Active'
      BY <1>1, <1>2, <2>1 DEF Active, Executing
    <2> QED BY <2>1, <2>2 DEF Alone
  <1> QED BY <1>2

LEMMA SoleAccepts ==
    ASSUME IInv, EInv, Alone', NEW i \in Caller, AcceptStep(i)
    PROVE  EInv'
  <1>1. CASE ReadInvocation(i)
    <2>1. Active = {}
      BY <1>1, TakenAlone
    <2>2. /\ up /\ Goto(i, "load") /\ UNCHANGED taVars
          /\ UNCHANGED <<ctxOpen, sessOpen, outBuf, opBuf, owner, faults, orphans, leaked, late>>
      BY <1>1 DEF ReadInvocation
    <2>3. Clean /\ outBuf = "live"
      BY <2>1, <2>2, QuiescentIsReady DEF QuiescentReady, EInv, Clean
    <2>4. SoleOK("load", i)'
      BY <2>2, <2>3 DEF SoleOK, ToSession, Clean, taVars
    <2> QED BY <2>1, <2>2, <2>4, SoleStep DEF EInv
  <1>2. CASE ReadInvocationFails(i)
    <2>1. /\ hpc[i] = "none" /\ Goto(i, "done") /\ UNCHANGED taVars
          /\ UNCHANGED <<ctxOpen, sessOpen, outBuf, opBuf, owner, faults, orphans, leaked,
                        opening, late>>
      BY <1>2 DEF ReadInvocationFails
    <2>2. hpc'[i] = "done" /\ \A j \in Caller \ {i} : hpc'[j] = hpc[j]
      BY <2>1 DEF Goto, IInv, TypeInv, HandlerType
    <2>3. Active' = Active
      BY <2>1, <2>2 DEF Active, Executing, Restarting
    <2>4. ASSUME NEW j \in Caller PROVE SoleOK(hpc[j], j)'
      <3>1. CASE j = i
        BY <2>2, <3>1 DEF SoleOK, ToSession
      <3>2. CASE j # i
        BY <2>1, <2>2, <3>2 DEF EInv, SoleOK, Clean, taVars
      <3> QED BY <3>1, <3>2
    <2> QED BY <2>1, <2>3, <2>4 DEF EInv, Alone
  <1> QED BY <1>1, <1>2 DEF AcceptStep

\* Steps of the handler that leave the TA and tee_ctx alone.
LEMMA SoleMoves ==
    ASSUME IInv, EInv, NEW i \in Caller,
           \/ LoadFile(i) \/ LoadFileFails(i) \/ SendFinalResponse(i)
           \/ ForwardRequest(i) \/ ForwardFails(i) \/ ReadAnswerFails(i)
    PROVE  EInv'
  <1>1. PICK b \in {"run", "read", "close"} :
            /\ Goto(i, b) /\ hpc[i] \in {"load", "dispatch", "read"}
            /\ b = "run" => hpc[i] = "load" /\ LoadFile(i)
            /\ b = "read" => hpc[i] = "dispatch"
            /\ b # "run" => opBuf' = opBuf
            /\ UNCHANGED <<ctxOpen, sessOpen, outBuf, owner, faults, orphans, leaked, late>>
            /\ UNCHANGED taVars
    BY DEF LoadFile, LoadFileFails, SendFinalResponse, ForwardRequest, ForwardFails,
           ReadAnswerFails
  <1>2. i \in Active /\ SoleOK(hpc[i], i)
    BY <1>1 DEF Active, Executing, EInv
  <1>3. outBuf = "live" /\ ctxOpen
    BY <1>1, <1>2 DEF SoleOK, Clean
  <1>4. b = "run" => opBuf'[i] = "current"
    BY <1>1, <1>3 DEF LoadFile, IInv, TypeInv, HandlerType
  <1>5. SoleOK(b, i)'
    BY <1>1, <1>2, <1>3, <1>4 DEF SoleOK, ToSession, Clean, taVars
  <1> QED BY <1>1, <1>2, <1>5, SoleStep DEF EInv

\* A command that is not delivered or fails leads to the restart.
LEMMA SoleFails ==
    ASSUME IInv, EInv, NEW i \in Caller, hpc[i] \in {"run", "read"}, AfterCommand(i),
           op'[i].res # SUCCESS, TouchesOutputBuffer(i),
           UNCHANGED <<ctxOpen, outBuf, orphans, leaked, late>>
    PROVE  EInv'
  <1>1. Goto(i, "close")
    BY DEF AfterCommand
  <1>2. /\ i \in Active /\ SoleOK(hpc[i], i)
        /\ faults = {} /\ orphans = 0 /\ leaked = 0 /\ late = FALSE
    BY DEF Active, Executing, EInv
  <1>3. ctxOpen /\ outBuf = "live" /\ opBuf[i] = "current"
    BY <1>2 DEF SoleOK, Clean
  <1>4. faults' = {}
    BY <1>2, <1>3 DEF TouchesOutputBuffer
  <1>5. SoleOK("close", i)'
    BY <1>3 DEF SoleOK, ToSession
  <1> QED BY <1>1, <1>2, <1>4, <1>5, SoleStep

\* RUN_WASM finds the memory free and makes the handler the owner.
LEMMA SoleRuns ==
    ASSUME IInv, EInv, NEW i \in Caller, InvokeRun(i)
    PROVE  EInv'
  <1>1. /\ hpc[i] = "run" /\ TouchesOutputBuffer(i) /\ AfterCommand(i)
        /\ UNCHANGED <<ctxOpen, sessOpen, outBuf, opBuf, orphans, leaked, late>>
    BY DEF InvokeRun
  <1>2. CASE op'[i].res # SUCCESS
    BY <1>1, <1>2, SoleFails
  <1>3. CASE op'[i].res = SUCCESS
    <2>1. /\ i \in Active /\ SoleOK("run", i)
          /\ faults = {} /\ orphans = 0 /\ leaked = 0 /\ late = FALSE
      BY <1>1 DEF Active, Executing, EInv
    <2>2. sessOpen /\ ctxOpen /\ outBuf = "live" /\ opBuf[i] = "current"
      BY <2>1 DEF SoleOK, Clean
    <2>3. /\ RunWasm(i, job[i].image, job[i].args)
          /\ owner' = IF sc'.runtime /\ ~sc.runtime THEN {i} ELSE owner
      BY <1>3, NotDeliveredOK DEF InvokeRun
    <2>4. PICK k \in AnyKey, g \in Value : GuestOK(sc, wasm, k, g) /\ SessionOK /\ TaTypeOK
      BY DEF IInv, TypeInv, TaInv
    <2>5. job[i].image \in Image /\ job[i].args \in Args
      <3>1. job[i] \in Request /\ job[i].image # "missing"
        BY <1>1 DEF IInv, StreamInv, PartiesOK
      <3> QED BY <3>1, RequestAssumption
    <2>6. ~sc.runtime /\ sc'.runtime
      BY <1>3, <2>3, <2>4, <2>5, RunOK
    <2>7. faults' = {}
      BY <1>1, <2>1, <2>2 DEF TouchesOutputBuffer
    <2>8. Goto(i, "dispatch") /\ owner' = {i}
      BY <1>1, <1>3, <2>3, <2>6 DEF AfterCommand
    <2>9. SoleOK("dispatch", i)'
      BY <1>1, <2>2, <2>6, <2>8 DEF SoleOK, ToSession
    <2> QED BY <1>1, <2>1, <2>7, <2>8, <2>9, SoleStep
  <1> QED BY <1>2, <1>3

\* RESUME_WASM finds the runtime.
LEMMA SoleResumes ==
    ASSUME IInv, EInv, NEW i \in Caller, InvokeResume(i)
    PROVE  EInv'
  <1>1. /\ hpc[i] = "read" /\ toProxy[i] # <<>> /\ TouchesOutputBuffer(i) /\ AfterCommand(i)
        /\ UNCHANGED <<ctxOpen, sessOpen, outBuf, opBuf, owner, orphans, leaked, late>>
    BY DEF InvokeResume
  <1>2. CASE op'[i].res # SUCCESS
    BY <1>1, <1>2, SoleFails
  <1>3. CASE op'[i].res = SUCCESS
    <2>1. /\ i \in Active /\ SoleOK("read", i)
          /\ faults = {} /\ orphans = 0 /\ leaked = 0 /\ late = FALSE
      BY <1>1 DEF Active, Executing, EInv
    <2>2. /\ sessOpen /\ ctxOpen /\ outBuf = "live" /\ opBuf[i] = "current"
          /\ sc.runtime /\ owner = {i}
      BY <2>1 DEF SoleOK
    <2> DEFINE v == AnswerValue(i, Head(toProxy[i]))
    <2>3. ResumeWasm(i, v)
      BY <1>3, NotDeliveredOK DEF InvokeResume
    <2>4. PICK k \in AnyKey, g \in Value : GuestOK(sc, wasm, k, g) /\ SessionOK /\ TaTypeOK
      BY DEF IInv, TypeInv, TaInv
    <2>5. v \in Value
      <3>1. Head(toProxy[i]) \in ToProxyMsg
        BY <1>1, QueueFacts DEF IInv, TypeInv, StreamType
      <3> QED BY <3>1, AnswerValueType
    <2> HIDE DEF v
    <2>6. sc'.runtime = sc.runtime
      BY <2>3, <2>4, <2>5, ResumeOK
    <2>7. faults' = {}
      BY <1>1, <2>1, <2>2 DEF TouchesOutputBuffer
    <2>8. Goto(i, "dispatch")
      BY <1>1, <1>3 DEF AfterCommand
    <2>9. SoleOK("dispatch", i)'
      BY <1>1, <2>2, <2>6 DEF SoleOK, ToSession
    <2> QED BY <1>1, <2>1, <2>7, <2>8, <2>9, SoleStep
  <1> QED BY <1>2, <1>3

\* Each call of restart_session finds what the one before it has left.
LEMMA SoleRestarts ==
    ASSUME IInv, EInv, NEW i \in Caller,
           \/ CloseSession(i) \/ FinalizeContext(i) \/ FreeBuffers(i) \/ DoubleFree(i)
           \/ AllocateBuffers(i) \/ InitializeContext(i) \/ OpenSession(i)
           \/ SessionOpened(i) \/ ConfigureHeapSize(i)
    PROVE  EInv'
  <1>1. hpc[i] \in Restarting
    BY DEF CloseSession, FinalizeContext, FreeBuffers, DoubleFree, AllocateBuffers,
           InitializeContext, OpenSession, SessionOpened, ConfigureHeapSize, Restarting
  <1>2. /\ i \in Active /\ SoleOK(hpc[i], i)
        /\ faults = {} /\ orphans = 0 /\ leaked = 0 /\ late = FALSE
    BY <1>1 DEF Active, EInv
  <1> USE DEF ToSession
  <1>3. CASE CloseSession(i)
    <2>1. /\ hpc[i] = "close" /\ Goto(i, "finalize") /\ sessOpen' = FALSE /\ late' = FALSE
          /\ UNCHANGED <<ctxOpen, outBuf, faults, orphans, leaked>>
      BY <1>3 DEF CloseSession, NoSession
    <2>2. SoleOK("finalize", i)'
      BY <1>2, <2>1 DEF SoleOK
    <2> QED BY <1>2, <2>1, <2>2, SoleStep
  <1>4. CASE FinalizeContext(i)
    <2>1. /\ hpc[i] = "finalize" /\ Goto(i, "free") /\ sessOpen' = FALSE /\ late' = FALSE
          /\ UNCHANGED <<outBuf, leaked>> /\ orphans' = 0
      BY <1>4 DEF FinalizeContext, NoSession
    <2>2. faults' = {}
      BY <1>2, <1>4, <2>1 DEF FinalizeContext, SoleOK
    <2>3. SoleOK("free", i)'
      BY <1>2, <2>1 DEF SoleOK
    <2> QED BY <1>2, <2>1, <2>2, <2>3, SoleStep
  <1>5. CASE FreeBuffers(i)
    <2>1. /\ hpc[i] = "free" /\ Goto(i, "allocate")
          /\ UNCHANGED <<sessOpen, faults, orphans, leaked, late>>
      BY <1>5 DEF FreeBuffers
    <2>2. SoleOK("allocate", i)'
      BY <1>2, <2>1 DEF SoleOK
    <2> QED BY <1>2, <2>1, <2>2, SoleStep
  <1>6. CASE DoubleFree(i)
    BY <1>2, <1>6 DEF DoubleFree, SoleOK
  <1>7. CASE AllocateBuffers(i)
    <2>1. /\ hpc[i] = "allocate" /\ Goto(i, "initialize")
          /\ UNCHANGED <<sessOpen, faults, orphans, leaked, late>>
      BY <1>7 DEF AllocateBuffers
    <2>2. SoleOK("initialize", i)'
      BY <1>2, <2>1 DEF SoleOK
    <2> QED BY <1>2, <2>1, <2>2, SoleStep
  <1>8. CASE InitializeContext(i)
    <2>1. /\ hpc[i] = "initialize" /\ Goto(i, "open") /\ sessOpen' = FALSE /\ late' = FALSE
          /\ UNCHANGED faults /\ orphans' = 0
      BY <1>8 DEF InitializeContext, NoSession
    <2>2. leaked' = 0
      BY <1>2, <1>8, <2>1 DEF InitializeContext, SoleOK
    <2>3. SoleOK("open", i)'
      BY <1>2, <2>1 DEF SoleOK
    <2> QED BY <1>2, <2>1, <2>2, <2>3, SoleStep
  <1>9. CASE OpenSession(i)
    <2>1. /\ hpc[i] = "open" /\ Goto(i, "opening")
          /\ UNCHANGED <<sessOpen, faults, orphans, leaked, late>>
      BY <1>9 DEF OpenSession
    <2>2. opening'[i] = "current"
      BY <1>9 DEF OpenSession, IInv, TypeInv, SharedType
    <2>3. SoleOK("opening", i)'
      BY <1>2, <2>1, <2>2 DEF SoleOK
    <2> QED BY <1>2, <2>1, <2>3, SoleStep
  <1>10. CASE SessionOpened(i)
    <2>1. hpc[i] = "opening" /\ Goto(i, "configure") /\ UNCHANGED faults
      BY <1>10 DEF SessionOpened
    <2>2. ~sessOpen /\ opening[i] = "current"
      BY <1>2, <2>1 DEF SoleOK
    <2>3. orphans' = 0 /\ leaked' = 0 /\ late' = FALSE
      BY <1>2, <1>10, <2>2 DEF SessionOpened
    <2>4. SoleOK("configure", i)'
      BY DEF SoleOK
    <2> QED BY <1>2, <2>1, <2>3, <2>4, SoleStep
  <1>11. CASE ConfigureHeapSize(i)
    <2>1. Goto(i, "done") /\ UNCHANGED <<faults, orphans, leaked, late>>
      BY <1>11 DEF ConfigureHeapSize
    <2>2. SoleOK("done", i)'
      BY DEF SoleOK
    <2> QED BY <1>2, <2>1, <2>2, SoleStep
  <1> QED BY <1>3, <1>4, <1>5, <1>6, <1>7, <1>8, <1>9, <1>10, <1>11

\* The end and the start of the process.
LEMMA SoleDies ==
    ASSUME IInv, IInv', EInv, ServerDies, faults' = {}
    PROVE  EInv'
  <1>1. ~up' /\ orphans' = 0 /\ leaked' = 0 /\ late' = FALSE
    BY DEF ServerDies, NoSession
  <1>2. hpc' \in [Caller -> Executing \union Restarting \union {"none", "done", "dead"}]
    BY DEF IInv, TypeInv, HandlerType
  <1>3. \A i \in Caller : hpc'[i] \notin Executing \union Restarting
    BY <1>1 DEF IInv, RepairInv, At
  <1>4. hpc' \in [Caller -> {"none", "done", "dead"}]
    BY <1>2, <1>3
  <1> QED BY <1>1, <1>4, SoleProcess

LEMMA SoleStarts ==
    ASSUME IInv, IInv', EInv, StartServer
    PROVE  EInv'
  <1>1. ~up /\ UNCHANGED <<hpc, orphans, leaked, late, faults>>
    BY DEF StartServer
  <1>2. hpc \in [Caller -> Executing \union Restarting \union {"none", "done", "dead"}]
    BY DEF IInv, TypeInv, HandlerType
  <1>3. \A i \in Caller : hpc[i] \notin Executing \union Restarting
    BY <1>1 DEF IInv, RepairInv, At
  <1>4. hpc' \in [Caller -> {"none", "done", "dead"}]
    BY <1>1, <1>2, <1>3
  <1> QED BY <1>1, <1>4, SoleProcess DEF EInv

-----------------------------------------------------------------------------
LEMMA SoleInit == Init => EInv
  <1> SUFFICES ASSUME Init PROVE EInv
    OBVIOUS
  <1>1. /\ \A i \in Caller : hpc[i] = "none"
        /\ orphans = 0 /\ leaked = 0 /\ faults = {} /\ late = FALSE
    BY DEF Init, ProxyInit
  <1>2. Active = {}
    BY <1>1 DEF Active, Executing, Restarting
  <1> QED BY <1>1, <1>2 DEF EInv, Alone, SoleOK, ToSession

\* A step after which no two handlers are at work keeps what the one relies on.
LEMMA SoleNext == IInv /\ IInv' /\ EInv /\ Alone' /\ [Next]_vars => EInv'
  <1> SUFFICES ASSUME IInv, IInv', EInv, Alone', [Next]_vars PROVE EInv'
    OBVIOUS
  <1>1. ASSUME NEW i \in Caller, InvokeStep(i) \/ RecvStep(i) \/ OutsideStep(i) PROVE EInv'
    BY <1>1, SoleQuiet DEF InvokeStep, RecvStep, OutsideStep
  <1>2. ASSUME NEW i \in Caller, AcceptStep(i) PROVE EInv'
    BY <1>2, SoleAccepts
  <1>3. ASSUME NEW i \in Caller, HandlerNext(i) PROVE EInv'
    <2>1. CASE LoadFile(i) \/ LoadFileFails(i) \/ SendFinalResponse(i)
               \/ ForwardRequest(i) \/ ForwardFails(i) \/ ReadAnswerFails(i)
      BY <2>1, SoleMoves
    <2>2. CASE InvokeRun(i)
      BY <2>2, SoleRuns
    <2>3. CASE InvokeResume(i)
      BY <2>3, SoleResumes
    <2>4. CASE CloseSession(i) \/ FinalizeContext(i) \/ FreeBuffers(i) \/ DoubleFree(i)
               \/ AllocateBuffers(i) \/ InitializeContext(i) \/ OpenSession(i)
               \/ SessionOpened(i) \/ ConfigureHeapSize(i)
      BY <2>4, SoleRestarts
    <2>5. CASE PrepareFails(i)
      BY <2>5, SoleDies DEF PrepareFails, EInv
    <2>6. CASE DoubleFreeAborts(i)
      BY <2>6 DEF DoubleFreeAborts, EInv, SoleOK
    <2> QED BY <1>3, <2>1, <2>2, <2>3, <2>4, <2>5, <2>6 DEF HandlerNext
  <1>4. CASE SigintStep
    BY <1>4, SoleDies DEF SigintStep, Cleanup, EInv
  <1>5. CASE RestartStep
    BY <1>5, SoleStarts DEF RestartStep
  <1>6. CASE AllDone \/ UNCHANGED vars
    BY <1>6, SoleQuiet DEF AllDone, vars, taVars, proxyVars
  <1> QED BY <1>1, <1>2, <1>3, <1>4, <1>5, <1>6 DEF Next, HandlerStep

(***************************************************************************)
(* A lock around TransactionInvocation keeps the handlers apart: the only  *)
(* step that adds one is the reading of a request.                         *)
(***************************************************************************)
LEMMA LockStepAlone ==
    ASSUME MaxHandlers = 1
    PROVE  IInv /\ IInv' /\ Alone /\ [Next]_vars => Alone'
  <1> SUFFICES ASSUME IInv, IInv', Alone, [Next]_vars PROVE Alone'
    OBVIOUS
  <1>1. ASSUME Active' \subseteq Active PROVE Alone'
    BY <1>1 DEF Alone
  <1>2. CASE hpc' = hpc
    BY <1>1, <1>2 DEF Active
  <1>3. ASSUME NEW i \in Caller, i \in Active, NEW b, Goto(i, b) PROVE Alone'
    <2>1. \A j \in Caller \ {i} : hpc'[j] = hpc[j]
      BY <1>3 DEF Goto, IInv, TypeInv, HandlerType
    <2>2. Active' \subseteq Active
      BY <1>3, <2>1 DEF Active
    <2> QED BY <1>1, <2>2
  <1>4. CASE ServerDies
    <2>1. up' = FALSE
      BY <1>4 DEF ServerDies
    <2>2. Active' = {}
      BY <2>1 DEF Active, IInv, RepairInv, At
    <2> QED BY <1>1, <2>2
  <1>5. ASSUME NEW i \in Caller, InvokeStep(i) \/ RecvStep(i) \/ OutsideStep(i) PROVE Alone'
    BY <1>2, <1>5 DEF InvokeStep, RecvStep, OutsideStep, proxyVars
  <1>6. ASSUME NEW i \in Caller, AcceptStep(i) PROVE Alone'
    <2>1. PICK b \in {"load", "done"} : /\ Goto(i, b)
                                        /\ b = "load" => Cardinality(Active) < MaxHandlers
      BY <1>6 DEF AcceptStep, ReadInvocation, ReadInvocationFails
    <2>2. hpc'[i] = b /\ \A j \in Caller \ {i} : hpc'[j] = hpc[j]
      BY <2>1 DEF Goto, IInv, TypeInv, HandlerType
    <2>3. CASE b = "load"
      <3>1. Active = {}
        BY <2>1, <2>3, NobodyActive
      <3>2. Active' \subseteq {i}
        BY <2>2, <3>1 DEF Active
      <3> QED BY <3>2 DEF Alone
    <2>4. CASE b = "done"
      <3>1. Active' \subseteq Active
        BY <2>2, <2>4 DEF Active, Executing, Restarting
      <3> QED BY <1>1, <3>1
    <2> QED BY <2>3, <2>4
  <1>7. ASSUME NEW i \in Caller, HandlerNext(i) PROVE Alone'
    <2>1. CASE PrepareFails(i) \/ DoubleFreeAborts(i)
      BY <1>4, <2>1 DEF PrepareFails, DoubleFreeAborts
    <2>2. CASE InvokeRun(i) \/ InvokeResume(i)
      <3>1. hpc[i] \in {"run", "read"} /\ \E b : Goto(i, b)
        BY <2>2 DEF InvokeRun, InvokeResume, AfterCommand
      <3> QED BY <1>3, <3>1 DEF Active, Executing
    <2>3. CASE LoadFile(i) \/ LoadFileFails(i) \/ SendFinalResponse(i)
               \/ ForwardRequest(i) \/ ForwardFails(i) \/ ReadAnswerFails(i)
      <3>1. hpc[i] \in {"load", "dispatch", "read"} /\ \E b : Goto(i, b)
        BY <2>3 DEF LoadFile, LoadFileFails, SendFinalResponse, ForwardRequest, ForwardFails,
                    ReadAnswerFails
      <3> QED BY <1>3, <3>1 DEF Active, Executing
    <2>4. CASE CloseSession(i) \/ FinalizeContext(i) \/ FreeBuffers(i) \/ DoubleFree(i)
               \/ AllocateBuffers(i) \/ InitializeContext(i) \/ OpenSession(i)
               \/ SessionOpened(i) \/ ConfigureHeapSize(i)
      <3>1. hpc[i] \in Restarting /\ \E b : Goto(i, b)
        BY <2>4 DEF CloseSession, FinalizeContext, FreeBuffers, DoubleFree, AllocateBuffers,
                    InitializeContext, OpenSession, SessionOpened, ConfigureHeapSize, Restarting
      <3> QED BY <1>3, <3>1 DEF Active
    <2> QED BY <1>7, <2>1, <2>2, <2>3, <2>4 DEF HandlerNext
  <1>8. CASE SigintStep
    BY <1>4, <1>8 DEF SigintStep, Cleanup
  <1>9. CASE RestartStep \/ AllDone \/ UNCHANGED vars
    BY <1>2, <1>9 DEF RestartStep, StartServer, AllDone, vars
  <1> QED BY <1>5, <1>6, <1>7, <1>8, <1>9 DEF Next, HandlerStep

\* With MaxHandlers = 1 no two executions of TransactionInvocation overlap.
THEOREM LockMeansAlone ==
    ASSUME MaxHandlers = 1
    PROVE  Spec => []Alone
  <1>1. Init => Alone
    BY SoleInit DEF EInv
  <1> QED BY <1>1, LockStepAlone, Invariance, PTL DEF Spec

\* While no two handlers are at work: the invariant of the one that is.
THEOREM AloneInvariance == Spec /\ []Alone => []EInv
  BY SoleInit, SoleNext, Invariance, PTL DEF Spec

(***************************************************************************)
(* "owned while invocation in progress": while handlers never overlap,     *)
(* from the RUN_WASM that succeeded to the final response the session is   *)
(* open and its runtime is the handler's own: see RuntimeOwned.            *)
(***************************************************************************)
THEOREM RuntimeIsOwned == Spec /\ []Alone => []RuntimeOwned
  <1>1. EInv => RuntimeOwned
    BY DEF EInv, SoleOK, RuntimeOwned
  <1> QED BY <1>1, AloneInvariance, PTL

(***************************************************************************)
(* While handlers never overlap, restart_session leaves the next RUN_WASM  *)
(* an open session with all its memory free, however the invocation before *)
(* has ended and although COMMAND_CONFIGURE_HEAP may have failed: see      *)
(* MemoryCleaned.                                                          *)
(***************************************************************************)
THEOREM MemoryIsCleaned == Spec /\ []Alone => []MemoryCleaned
  <1>1. EInv => MemoryCleaned
    BY DEF EInv, SoleOK, MemoryCleaned
  <1> QED BY <1>1, AloneInvariance, PTL

\* Nor is a session lost: see SessionsReturned.
THEOREM NoSessionLost == Spec /\ []Alone => []SessionsReturned
  <1>1. EInv => SessionsReturned
    BY DEF EInv, SessionsReturned
  <1> QED BY <1>1, AloneInvariance, PTL

(***************************************************************************)
(* A freed buffer or a closed context is used only after two handlers have *)
(* been at work at once: the restarts of one after the other, however they *)
(* were reached, are sound (see NoStaleResource), so the overlap that the  *)
(* run stale_resource exhibits is the only cause.                          *)
(***************************************************************************)
THEOREM NoStaleUse == Spec /\ []Alone => []NoStaleResource
  <1>1. EInv => NoStaleResource
    BY DEF EInv, NoStaleResource
  <1> QED BY <1>1, AloneInvariance, PTL
=============================================================================
