----------------------------- MODULE FixedProxy -----------------------------
(***************************************************************************)
(* The proxy of fixed-proxy/main.cpp: a gRPC server that runs the handler  *)
(* TransactionInvocation in a thread of its own for every call, and the    *)
(* part of the OP-TEE client library it uses.                              *)
(*                                                                         *)
(* All handlers share the one InvocationImpl and its tee_ctx: the TEE      *)
(* context, the session and the output buffers.  No lock protects it, and  *)
(* every handler closes and reopens it at its end (restart_session).       *)
(*                                                                         *)
(*   up         the server process runs                                    *)
(*   ctxOpen    ctx.ctx is an open TEE context                             *)
(*   sessOpen   ctx.sess is a session of that context                      *)
(*   outBuf     whether ctx.output_buffer is "live" or "freed"             *)
(*   hpc        for each handler, its next step                            *)
(*   job        the request it has read                                    *)
(*   opBuf      the block params[3] of its operation points to: "none",    *)
(*              "current" (the block of ctx.output_buffer), "other" (one   *)
(*              that ctx no longer points to) or "freed"                   *)
(*   opening    where a handler's TEEC_OpenSession is at work: "none", in  *)
(*              the "current" context, in one that is "overwritten" or     *)
(*              "closed" meanwhile                                         *)
(*   late       ctx.sess is the id of a session of a context that ctx.ctx  *)
(*              did not name any more when the id was stored               *)
(*   orphans    sessions of the context that ctx.sess no longer names      *)
(*   leaked     sessions of contexts that ctx.ctx no longer names          *)
(*   owner      history: the handler that started the session's runtime    *)
(*   faults     history: uses of freed memory or of a closed context       *)
(***************************************************************************)
EXTENDS WrapperTA, GrpcStream, FiniteSets

VARIABLES up, ctxOpen, sessOpen, outBuf, hpc, job, opBuf, orphans, leaked, opening, late,
          owner, faults

proxyVars == <<up, ctxOpen, sessOpen, outBuf, hpc, job, opBuf, orphans, leaked, opening, late,
               owner, faults>>

Restarting == {"close", "finalize", "free", "allocate", "initialize", "open",
               "opening", "configure"}
Executing  == {"load", "run", "dispatch", "read"}
Active     == {i \in Caller : hpc[i] \in Executing \union Restarting}

NoJob == [image |-> "none", args |-> ZeroArgs]

\* The server after run_server has constructed its InvocationImpl: the TA
\* session is open and its heap configured, unless that command failed.
ProxyInit ==
    /\ up = TRUE /\ ctxOpen = TRUE /\ sessOpen = TRUE /\ outBuf = "live"
    /\ hpc   = [i \in Caller |-> "none"]
    /\ job   = [i \in Caller |-> NoJob]
    /\ opBuf = [i \in Caller |-> "none"]
    /\ orphans = 0 /\ leaked = 0
    /\ opening = [i \in Caller |-> "none"] /\ late = FALSE
    /\ owner = {} /\ faults = {}
    /\ sc = ZeroCtx /\ wasm = NoInstance
    /\ heapSize \in {0, HeapSize} /\ heapUsed = 0
    /\ op = [c \in Caller |-> ZeroOp]

Goto(i, step) == hpc' = [hpc EXCEPT ![i] = step]

-----------------------------------------------------------------------------
(***************************************************************************)
(* TransactionInvocation: read the request.  A call that is cancelled      *)
(* before the request is read returns at once, without a restart.          *)
(***************************************************************************)
ReadInvocation(i) ==
    /\ up /\ hpc[i] = "none" /\ toProxy[i] # <<>>
    /\ ServerReads(i)
    /\ job' = [job EXCEPT ![i] = [image |-> Head(toProxy[i]).image, args |-> Head(toProxy[i]).args]]
    /\ Goto(i, "load")
    /\ UNCHANGED <<up, ctxOpen, sessOpen, outBuf, opBuf, owner, faults, orphans, leaked, opening, late>>
    /\ UNCHANGED taVars

ReadInvocationFails(i) ==
    /\ up /\ hpc[i] = "none" /\ client[i] = "gone"
    /\ ServerEnds({i})
    /\ Goto(i, "done")
    /\ UNCHANGED <<up, ctxOpen, sessOpen, outBuf, job, opBuf, owner, faults, orphans, leaked, opening, late>>
    /\ UNCHANGED taVars

(***************************************************************************)
(* execute_wasm_with_grpc_proxy: load the file, set up the operation.      *)
(***************************************************************************)
LoadFile(i) ==
    /\ hpc[i] = "load" /\ job[i].image # "missing"
    /\ opBuf' = [opBuf EXCEPT ![i] = IF outBuf = "live" THEN "current" ELSE "freed"]
    /\ Goto(i, "run")
    /\ UNCHANGED <<up, ctxOpen, sessOpen, outBuf, job, owner, faults, orphans, leaked, opening, late>>
    /\ UNCHANGED taVars /\ UNCHANGED streamVars

\* There is no such file, or the host has no memory for the shared buffer.
LoadFileFails(i) ==
    /\ hpc[i] = "load"
    /\ Goto(i, "close")
    /\ UNCHANGED <<up, ctxOpen, sessOpen, outBuf, job, opBuf, owner, faults, orphans, leaked, opening, late>>
    /\ UNCHANGED taVars /\ UNCHANGED streamVars

(***************************************************************************)
(* TEEC_InvokeCommand on ctx.sess with the operation of handler i.  The    *)
(* library copies the buffer of params[3], freed or not.  The command may  *)
(* fail in the client library or the driver, and always does so without an *)
(* open session; it takes effect when it is issued.                        *)
(***************************************************************************)
TouchesOutputBuffer(i) ==
    faults' = IF opBuf[i] = "freed" THEN faults \union {"use_after_free"} ELSE faults

NotDelivered(i) ==
    /\ Return(i, COMMUNICATION, op[i].type, ZeroBuf)
    /\ UNCHANGED <<sc, wasm, heapSize, heapUsed>>

\* Mutant: the result of TEEC_InvokeCommand is not tested.
AfterAnyCommand(i) == Goto(i, "dispatch")

\* A failed command leads to restart_session, a successful one to the loop.
AfterCommand(i) == Goto(i, IF op'[i].res = SUCCESS THEN "dispatch" ELSE "close")

InvokeRun(i) ==
    /\ hpc[i] = "run"
    /\ \/ NotDelivered(i) /\ UNCHANGED owner
       \/ /\ sessOpen
          /\ RunWasm(i, job[i].image, job[i].args)
          /\ owner' = IF sc'.runtime /\ ~sc.runtime THEN {i} ELSE owner
    /\ TouchesOutputBuffer(i)
    /\ AfterCommand(i)
    /\ UNCHANGED <<up, ctxOpen, sessOpen, outBuf, job, opBuf, orphans, leaked, opening, late>>
    /\ UNCHANGED streamVars

(***************************************************************************)
(* The proxy loop: forward what the TA asks for, or its final response.    *)
(* A write fails once the call is cancelled.                               *)
(***************************************************************************)
\* Mutant: the next session is prepared without cleanup_session.
SendAndInitialize(i) ==
    /\ hpc[i] = "dispatch" /\ op[i].type = INVOCATION_RESPONSE
    /\ \/ client[i] = "open" /\ ServerWrites(i, InvocationResponse(op[i].buf.resp))
       \/ client[i] = "gone" /\ UNCHANGED streamVars
    /\ Goto(i, "allocate")
    /\ UNCHANGED <<up, ctxOpen, sessOpen, outBuf, job, opBuf, owner, faults, orphans, leaked, opening, late>>
    /\ UNCHANGED taVars

SendFinalResponse(i) ==
    /\ hpc[i] = "dispatch" /\ op[i].type = INVOCATION_RESPONSE
    /\ \/ client[i] = "open" /\ ServerWrites(i, InvocationResponse(op[i].buf.resp))
       \/ client[i] = "gone" /\ UNCHANGED streamVars
    /\ Goto(i, "close")
    /\ UNCHANGED <<up, ctxOpen, sessOpen, outBuf, job, opBuf, owner, faults, orphans, leaked, opening, late>>
    /\ UNCHANGED taVars

\* Mutant: the loop goes on without waiting for the answer.
ForwardWithoutWaiting(i) ==
    /\ hpc[i] = "dispatch" /\ client[i] = "open"
    /\ op[i].type = GET_STATE_REQUEST
    /\ ServerWrites(i, GetStateRequest(op[i].buf.key))
    /\ Goto(i, "dispatch")
    /\ UNCHANGED <<up, ctxOpen, sessOpen, outBuf, job, opBuf, owner, faults, orphans, leaked, opening, late>>
    /\ UNCHANGED taVars

ForwardRequest(i) ==
    /\ hpc[i] = "dispatch" /\ client[i] = "open"
    /\ \/ /\ op[i].type = GET_STATE_REQUEST
          /\ ServerWrites(i, GetStateRequest(op[i].buf.key))
       \/ /\ op[i].type = PUT_STATE_REQUEST
          /\ ServerWrites(i, PutStateRequest(op[i].buf.key, op[i].buf.value))
    /\ Goto(i, "read")
    /\ UNCHANGED <<up, ctxOpen, sessOpen, outBuf, job, opBuf, owner, faults, orphans, leaked, opening, late>>
    /\ UNCHANGED taVars

ForwardFails(i) ==
    /\ hpc[i] = "dispatch" /\ client[i] = "gone" /\ op[i].type # INVOCATION_RESPONSE
    /\ Goto(i, "close")
    /\ UNCHANGED <<up, ctxOpen, sessOpen, outBuf, job, opBuf, owner, faults, orphans, leaked, opening, late>>
    /\ UNCHANGED taVars /\ UNCHANGED streamVars

(***************************************************************************)
(* Read the answer, write it into the shared buffer and resume.  Whatever  *)
(* message arrives, the field the request calls for is read from it: the   *)
(* value after a GET (the empty string if the message has none), and after *)
(* a PUT the acknowledgement, which leaves the value field zero.           *)
(***************************************************************************)
AnswerValue(i, m) ==
    IF op[i].type = GET_STATE_REQUEST /\ m.type = "GetStateResponse" THEN m.value ELSE Empty

InvokeResume(i) ==
    /\ hpc[i] = "read" /\ toProxy[i] # <<>>
    /\ ServerReads(i)
    /\ \/ NotDelivered(i)
       \/ sessOpen /\ ResumeWasm(i, AnswerValue(i, Head(toProxy[i])))
    /\ TouchesOutputBuffer(i)
    /\ AfterCommand(i)
    /\ UNCHANGED <<up, ctxOpen, sessOpen, outBuf, job, opBuf, owner, orphans, leaked, opening, late>>

\* Mutant: a cancelled call returns without restart_session.
ReadAnswerFailsEarly(i) ==
    /\ hpc[i] = "read" /\ client[i] = "gone"
    /\ Goto(i, "done")
    /\ ServerEnds({i})
    /\ UNCHANGED <<up, ctxOpen, sessOpen, outBuf, job, opBuf, owner, faults, orphans, leaked, opening, late>>
    /\ UNCHANGED taVars

\* Mutant: a failed read is tried again.
ReadAnswerRetries(i) ==
    /\ hpc[i] = "read" /\ client[i] = "gone"
    /\ Goto(i, "read")
    /\ UNCHANGED <<up, ctxOpen, sessOpen, outBuf, job, opBuf, owner, faults, orphans, leaked, opening, late>>
    /\ UNCHANGED taVars /\ UNCHANGED streamVars

ReadAnswerFails(i) ==
    /\ hpc[i] = "read" /\ client[i] = "gone"
    /\ Goto(i, "close")
    /\ UNCHANGED <<up, ctxOpen, sessOpen, outBuf, job, opBuf, owner, faults, orphans, leaked, opening, late>>
    /\ UNCHANGED taVars /\ UNCHANGED streamVars

-----------------------------------------------------------------------------
(***************************************************************************)
(* restart_session, one call after the other: close the session, finalize  *)
(* the context, free the buffers, allocate them, initialize a context,     *)
(* open a session, configure its heap.  Every call works on the shared     *)
(* tee_ctx as it finds it.                                                 *)
(***************************************************************************)
\* ctx.sess names no session any more; the TA instance of the last one goes.
NoSession == sessOpen' = FALSE /\ late' = FALSE /\ owner' = {} /\ FreshSession

\* What becomes of the calls of TEEC_OpenSession under way in the context.
OpensIn(where) == [j \in Caller |-> IF opening[j] = "current" THEN where ELSE opening[j]]

\* The operation and the request were locals of the call that has returned.
DropLocals(H) ==
    /\ op'    = [j \in Caller |-> IF j \in H THEN ZeroOp ELSE op[j]]
    /\ opBuf' = [j \in Caller |-> IF j \in H THEN "none" ELSE opBuf[j]]
    /\ job'   = [j \in Caller |-> IF j \in H THEN NoJob ELSE job[j]]

CloseSession(i) ==
    /\ hpc[i] = "close"
    /\ NoSession
    /\ DropLocals({i})
    /\ Goto(i, "finalize")
    /\ UNCHANGED <<up, ctxOpen, outBuf, faults, orphans, leaked, opening>>
    /\ UNCHANGED streamVars

\* Closes the file of the context, and with it every session in it.  A
\* second close of the number may hit another file of the process.
FinalizeContext(i) ==
    /\ hpc[i] = "finalize"
    /\ ctxOpen' = FALSE /\ NoSession
    /\ orphans' = 0 /\ opening' = OpensIn("closed")
    /\ faults' = IF ctxOpen THEN faults ELSE faults \union {"double_close"}
    /\ Goto(i, "free")
    /\ UNCHANGED <<up, outBuf, job, op, opBuf, leaked>>
    /\ UNCHANGED streamVars

FreeBuffers(i) ==
    /\ hpc[i] = "free" /\ outBuf = "live"
    /\ outBuf' = "freed"
    /\ opBuf'  = [j \in Caller |-> IF opBuf[j] = "current" THEN "freed" ELSE opBuf[j]]
    /\ Goto(i, "allocate")
    /\ UNCHANGED <<up, ctxOpen, sessOpen, job, owner, faults, orphans, leaked, opening, late>>
    /\ UNCHANGED taVars /\ UNCHANGED streamVars

\* free_buffers leaves the pointers behind.  A second free of them goes
\* undetected, or the allocator aborts the process (DoubleFreeAborts).
DoubleFree(i) ==
    /\ hpc[i] = "free" /\ outBuf = "freed"
    /\ faults' = faults \union {"double_free"}
    /\ Goto(i, "allocate")
    /\ UNCHANGED <<up, ctxOpen, sessOpen, outBuf, job, opBuf, owner, orphans, leaked, opening, late>>
    /\ UNCHANGED taVars /\ UNCHANGED streamVars

\* Mutant: restart_session reuses the freed buffers.
KeepBuffers(i) ==
    /\ hpc[i] = "allocate"
    /\ Goto(i, "initialize")
    /\ UNCHANGED <<up, ctxOpen, sessOpen, outBuf, job, opBuf, owner, faults, orphans, leaked, opening, late>>
    /\ UNCHANGED taVars /\ UNCHANGED streamVars

AllocateBuffers(i) ==
    /\ hpc[i] = "allocate"
    /\ outBuf' = "live"
    /\ opBuf'  = [j \in Caller |-> IF opBuf[j] = "current" THEN "other" ELSE opBuf[j]]
    /\ Goto(i, "initialize")
    /\ UNCHANGED <<up, ctxOpen, sessOpen, job, owner, faults, orphans, leaked, opening, late>>
    /\ UNCHANGED taVars /\ UNCHANGED streamVars

\* A new file for the context: ctx.sess is no session of it.  A context that
\* was open stays open, with its sessions, and nothing names it any more.
InitializeContext(i) ==
    /\ hpc[i] = "initialize"
    /\ ctxOpen' = TRUE /\ NoSession
    /\ leaked'  = leaked + orphans + (IF sessOpen THEN 1 ELSE 0)
    /\ orphans' = 0 /\ opening' = OpensIn("overwritten")
    /\ Goto(i, "open")
    /\ UNCHANGED <<up, outBuf, job, op, opBuf, faults>>
    /\ UNCHANGED streamVars

(***************************************************************************)
(* TEEC_OpenSession reads ctx.ctx, waits for the TA to be loaded and fills *)
(* ctx.sess in when it returns, whatever has become of ctx meanwhile.  The *)
(* file of a context that was closed goes when the call has left it, and   *)
(* the new session with it; one that was overwritten stays.                *)
(***************************************************************************)
OpenSession(i) ==
    /\ hpc[i] = "open" /\ ctxOpen
    /\ opening' = [opening EXCEPT ![i] = "current"]
    /\ Goto(i, "opening")
    /\ UNCHANGED <<up, ctxOpen, sessOpen, outBuf, job, opBuf, owner, faults, orphans, leaked, late>>
    /\ UNCHANGED taVars /\ UNCHANGED streamVars

SessionOpened(i) ==
    /\ hpc[i] = "opening"
    /\ sessOpen' = (opening[i] = "current") /\ late' = (opening[i] # "current")
    /\ orphans'  = IF sessOpen THEN orphans + 1 ELSE orphans
    /\ leaked'   = IF opening[i] = "overwritten" THEN leaked + 1 ELSE leaked
    /\ opening'  = [opening EXCEPT ![i] = "none"]
    /\ owner' = {} /\ FreshSession
    /\ Goto(i, "configure")
    /\ UNCHANGED <<up, ctxOpen, outBuf, job, op, opBuf, faults>>
    /\ UNCHANGED streamVars

\* A failure to configure the heap, for whatever reason, is printed and
\* ignored.  The handler returns its status.
ConfigureHeapSize(i) ==
    /\ hpc[i] = "configure"
    /\ \/ sessOpen /\ ConfigureHeap(HeapSize)
       \/ UNCHANGED taVars
    /\ Goto(i, "done")
    /\ ServerEnds({i})
    /\ UNCHANGED <<up, ctxOpen, sessOpen, outBuf, job, opBuf, owner, faults, orphans, leaked, opening, late>>

-----------------------------------------------------------------------------
(***************************************************************************)
(* The end of the process: exit(1) when no context or session can be had,  *)
(* abort of the allocator, exit(0) on SIGINT.  All handlers die with it,   *)
(* their calls are cut, and the driver closes what the process had open.   *)
(***************************************************************************)
ServerDies ==
    /\ up' = FALSE
    /\ ctxOpen' = FALSE /\ NoSession
    /\ hpc' = [j \in Caller |-> IF client[j] # "none" /\ hpc[j] # "done" THEN "dead" ELSE hpc[j]]
    /\ ServerEnds({j \in Caller : client[j] # "none"})
    /\ DropLocals(Caller)
    /\ outBuf' = "freed"
    /\ orphans' = 0 /\ leaked' = 0
    /\ opening' = [j \in Caller |-> "none"]

\* Mutant: prepare_tee_session reports the error and returns.
PrepareReturns(i) ==
    /\ hpc[i] \in {"initialize", "open", "opening"}
    /\ Goto(i, "done")
    /\ ServerEnds({i})
    /\ UNCHANGED <<up, ctxOpen, sessOpen, outBuf, job, opBuf, owner, faults, orphans, leaked, opening, late>>
    /\ UNCHANGED taVars

PrepareFails(i) ==
    /\ hpc[i] \in {"initialize", "open", "opening"}
    /\ ServerDies
    /\ UNCHANGED faults

DoubleFreeAborts(i) ==
    /\ hpc[i] = "free" /\ outBuf = "freed"
    /\ ServerDies
    /\ faults' = faults \union {"double_free"}

Cleanup == up /\ ServerDies /\ UNCHANGED faults

\* main, run_server and the constructor of InvocationImpl.
StartServer ==
    /\ ~up
    /\ up' = TRUE /\ ctxOpen' = TRUE /\ sessOpen' = TRUE /\ outBuf' = "live"
    /\ sc' = ZeroCtx /\ wasm' = NoInstance /\ heapUsed' = 0 /\ heapSize' \in {0, HeapSize}
    /\ UNCHANGED <<op, opBuf, hpc, job, orphans, leaked, opening, late, owner, faults>>
    /\ UNCHANGED streamVars

\* What a handler does once it has its request.
HandlerNext(i) ==
    \/ LoadFile(i) \/ LoadFileFails(i) \/ InvokeRun(i)
    \/ SendFinalResponse(i) \/ ForwardRequest(i) \/ ForwardFails(i)
    \/ InvokeResume(i) \/ ReadAnswerFails(i)
    \/ CloseSession(i) \/ FinalizeContext(i)
    \/ FreeBuffers(i) \/ DoubleFree(i) \/ DoubleFreeAborts(i)
    \/ AllocateBuffers(i)
    \/ InitializeContext(i) \/ OpenSession(i) \/ SessionOpened(i) \/ PrepareFails(i)
    \/ ConfigureHeapSize(i)
=============================================================================
