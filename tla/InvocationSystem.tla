-------------------------- MODULE InvocationSystem --------------------------
(***************************************************************************)
(* The whole system: chaincode wrappers in the peer, the gRPC streams, the *)
(* proxy and its handler threads, the TA session with its guest.           *)
(*                                                                         *)
(* MaxCalls bounds how many invocations the clients have under way at once *)
(* and MaxHandlers how many handlers the proxy runs at once.  The program  *)
(* bounds neither: the wrapper opens a connection per transaction, and the *)
(* synchronous gRPC server runs every call in a thread of its pool.        *)
(* MaxCalls = 1 is a client that waits for each answer before it asks      *)
(* again; MaxHandlers = 1 is what a lock around TransactionInvocation      *)
(* would give.                                                             *)
(***************************************************************************)
EXTENDS ChaincodeWrapper, FixedProxy

CONSTANTS MaxCalls, MaxHandlers,
          MaxSigints    \* how often somebody ends the server

ASSUME CallerAssumption == IsFiniteSet(Caller)

ASSUME BoundsAssumption ==
    MaxCalls \in Nat \ {0} /\ MaxHandlers \in Nat \ {0} /\ MaxSigints \in Nat

ASSUME RequestAssumption == Request \subseteq [image : Image \union {"missing"}, args : Args]

VARIABLE sigints

vars == <<toProxy, toWrapper, client, server,
          wpc, req, result, ledger, rset, wset, stale, fate,
          sc, wasm, heapSize, heapUsed, op,
          up, ctxOpen, sessOpen, outBuf, hpc, job, opBuf, orphans, leaked, opening, late,
          owner, faults, sigints>>

Init == StreamInit /\ WrapperInit /\ ProxyInit /\ sigints = 0

Waiting == {i \in Caller : wpc[i] = "recv"}

\* The peer calls the wrapper.
InvokeStep(i) ==
    /\ \/ /\ up /\ Cardinality(Waiting) < MaxCalls
          /\ \E r \in Request : Invoke(i, r)
       \/ InvokeFails(i)
    /\ UNCHANGED taVars /\ UNCHANGED proxyVars /\ UNCHANGED sigints

\* The wrapper goes on with what it receives.
RecvStep(i) ==
    /\ RecvNext(i)
    /\ UNCHANGED taVars /\ UNCHANGED proxyVars /\ UNCHANGED sigints

\* The wrapper's deadline expires, or Fabric decides on the transaction.
OutsideStep(i) ==
    /\ DeadlineExpires(i) \/ Commit(i) \/ Invalidate(i)
    /\ UNCHANGED taVars /\ UNCHANGED proxyVars /\ UNCHANGED sigints

\* The server takes up the call of invocation i.
AcceptStep(i) ==
    /\ \/ Cardinality(Active) < MaxHandlers /\ ReadInvocation(i)
       \/ ReadInvocationFails(i)
    /\ UNCHANGED wrapperVars /\ UNCHANGED sigints

HandlerStep(i) == HandlerNext(i) /\ UNCHANGED wrapperVars /\ UNCHANGED sigints

SigintStep  == sigints < MaxSigints /\ sigints' = sigints + 1 /\ Cleanup /\ UNCHANGED wrapperVars
RestartStep == StartServer /\ UNCHANGED wrapperVars /\ UNCHANGED sigints

\* Every invocation has been answered and decided, and its handler is gone.
AllDone ==
    /\ up
    /\ \A i \in Caller : /\ wpc[i] = "error" \/ fate[i] # "open"
                         /\ hpc[i] \in {"done", "dead"}
    /\ UNCHANGED vars

Next ==
    \/ \E i \in Caller : \/ InvokeStep(i) \/ RecvStep(i) \/ OutsideStep(i)
                         \/ AcceptStep(i) \/ HandlerStep(i)
    \/ SigintStep
    \/ RestartStep
    \/ AllDone

Spec == Init /\ [][Next]_vars

(***************************************************************************)
(* Fairness.  The threads of the server and the goroutine of the wrapper   *)
(* are scheduled, and gRPC delivers.  Nothing is assumed about deadlines,  *)
(* about Fabric's decision, about SIGINT or about somebody restarting the  *)
(* server.                                                                 *)
(***************************************************************************)
Fairness ==
    \A i \in Caller : /\ WF_vars(RecvStep(i))
                      /\ WF_vars(AcceptStep(i))
                      /\ WF_vars(HandlerStep(i))

FairSpec == Spec /\ Fairness

-----------------------------------------------------------------------------
(***************************************************************************)
(* Type correctness of the wrapper's, the proxy's and the streams' state.  *)
(***************************************************************************)
TypeOK ==
    /\ TaTypeOK /\ heapSize \in {0, HeapSize}
    /\ wpc    \in [Caller -> {"idle", "recv", "success", "error"}]
    /\ req    \in [Caller -> Request \union {ZeroReq}]
    /\ job    \in [Caller -> Request \union {ZeroReq}]
    /\ result \in [Caller -> Response]
    /\ ledger \in [Key -> Value]
    /\ rset   \in [Caller -> SUBSET Key]
    /\ wset   \in [Caller -> [Key -> Value \union {NoWrite}]]
    /\ stale  \in [Caller -> BOOLEAN]
    /\ fate   \in [Caller -> {"open", "committed", "invalid"}]
    /\ client \in [Caller -> {"none", "open", "gone"}]
    /\ server \in [Caller -> {"open", "gone"}]
    /\ hpc    \in [Caller -> Executing \union Restarting \union {"none", "done", "dead"}]
    /\ opBuf  \in [Caller -> {"none", "current", "other", "freed"}]
    /\ {up, ctxOpen, sessOpen, late} \subseteq BOOLEAN
    /\ opening \in [Caller -> {"none", "current", "overwritten", "closed"}]
    /\ outBuf \in {"live", "freed"}
    /\ owner \subseteq Caller /\ Cardinality(owner) <= 1
    /\ {orphans, leaked} \subseteq 0 .. Cardinality(Caller)
    /\ faults \subseteq {"double_free", "use_after_free", "double_close"}

\* What may wait for the handler of invocation i at its next Read.
ExpectedType(i) ==
    CASE hpc[i] = "none" -> {"InvocationRequest"}
      [] hpc[i] = "read" /\ op[i].type = GET_STATE_REQUEST -> {"GetStateResponse"}
      [] hpc[i] = "read" /\ op[i].type = PUT_STATE_REQUEST -> {"PutStateResponse"}
      [] OTHER -> {}

(***************************************************************************)
(* The wrapper and the handler of an invocation take turns: at most one    *)
(* message is in transit, and the message a handler reads is the one its   *)
(* protocol expects there (the proxy never looks at the type of an         *)
(* answer).  Holds however the handlers disturb one another.               *)
(***************************************************************************)
LockStep ==
    \A i \in Caller :
        /\ Len(toProxy[i]) + Len(toWrapper[i]) <= 1
        /\ toProxy[i] # <<>> /\ hpc[i] \in Executing \union {"none"} =>
               Head(toProxy[i]).type \in ExpectedType(i)

(***************************************************************************)
(* "owned while invocation in progress" (session.h:20): from the RUN_WASM  *)
(* that succeeded until the final response is sent, the session is open    *)
(* and its runtime is the one this invocation has started.                 *)
(***************************************************************************)
RuntimeOwned ==
    \A i \in Caller :
        hpc[i] \in {"dispatch", "read"} => sessOpen /\ sc.runtime /\ owner = {i}

\* The session is open, runs nothing and has all of its memory free.
Clean == ctxOpen /\ sessOpen /\ heapUsed = 0 /\ ~sc.runtime

(***************************************************************************)
(* restart_session leaves a clean TA for the next invocation ("memory      *)
(* clean-up", main.cpp:422): whoever is about to send RUN_WASM finds the   *)
(* session open, no runtime in it and all of the TA's memory free.  (That  *)
(* the heap is configured is not promised: COMMAND_CONFIGURE_HEAP may fail *)
(* unnoticed.)                                                             *)
(***************************************************************************)
MemoryCleaned == \A i \in Caller : hpc[i] = "run" => Clean

(***************************************************************************)
(* The same for clients that take turns: if every other invocation has not *)
(* been made yet or has had its answer (no deadline expired and no call    *)
(* failed), a handler about to send RUN_WASM finds the session clean.      *)
(***************************************************************************)
AnsweredMeansCleaned ==
    \A i \in Caller :
        /\ hpc[i] = "run"
        /\ \A j \in Caller \ {i} : wpc[j] \in {"idle", "success"}
        => Clean

(***************************************************************************)
(* However the restarts of several handlers interleave, what they leave    *)
(* behind when no handler is at work (and the process has not ended) is a  *)
(* server that the next invocation repairs: the context is open, the       *)
(* buffers are allocated, and no memory of the session is in use.  The     *)
(* session is open too, unless the last id stored in ctx.sess came from a  *)
(* TEEC_OpenSession that another restart had overtaken.                    *)
(***************************************************************************)
QuiescentReady ==
    up /\ Active = {} =>
        /\ ctxOpen /\ outBuf = "live"
        /\ heapUsed = 0 /\ ~sc.runtime
        /\ sessOpen \/ late

(***************************************************************************)
(* Every session ends with its invocation: restart_session gives the TEE   *)
(* its memory back ("memory clean-up", main.cpp:380).  When no handler is  *)
(* at work, the only session the process holds is the one ctx.sess names;  *)
(* any other keeps its TA's 10 MB until the process ends.                  *)
(***************************************************************************)
SessionsReturned == up /\ Active = {} => orphans = 0 /\ leaked = 0

(***************************************************************************)
(* No handler uses or frees a buffer that free_buffers has freed, or       *)
(* closes a context that terminate_tee_session has closed.                 *)
(***************************************************************************)
NoStaleResource == faults = {}

(***************************************************************************)
(* The isolation that README.md promises: a transaction that succeeds has  *)
(* read and written no key but its own.                                    *)
(***************************************************************************)
CompleteIsolation ==
    \A i \in Caller :
        wpc[i] = "success" => rset[i] \union Written(i) \subseteq {req[i].args.key}

\* The refinement mapping: a transaction takes effect when it is committed.
Outcome(i) ==
    CASE fate[i] = "committed" -> result[i]
      [] fate[i] = "invalid" \/ wpc[i] = "error" -> Say("ABORTED")
      [] OTHER -> Say("")

Promise == INSTANCE CoffeeLedger WITH outcome <- [i \in Caller |-> Outcome(i)]

(***************************************************************************)
(* What the system implements: every transaction that Fabric commits has   *)
(* taken effect at its commit, in one step and with the answer the client  *)
(* got, although its reads and writes crossed four processes before.       *)
(***************************************************************************)
ImplementsCoffeeLedger == Promise!Spec

(***************************************************************************)
(* Every call of the wrapper's invoke returns, without the help of its     *)
(* deadline, even if the handlers take the TA session from one another or  *)
(* the server ends.                                                        *)
(***************************************************************************)
InvokeReturns == \A i \in Caller : wpc[i] = "recv" ~> wpc[i] \in {"success", "error"}

\* Every TransactionInvocation that has read its request ends; no thread of
\* the server waits for good for an answer the wrapper will not send.
HandlerEnds == \A i \in Caller : hpc[i] = "load" ~> hpc[i] \in {"done", "dead"}
=============================================================================
