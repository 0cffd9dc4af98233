----------------------------- MODULE GrpcStream -----------------------------
(***************************************************************************)
(* The bidirectional gRPC stream of TransactionInvocation, one per         *)
(* invocation.  gRPC is not part of the repository; this is the contract   *)
(* its two ends use it under: messages arrive in order and exactly once;   *)
(* when the client ends the call (it returns, or its deadline expires),    *)
(* reads and writes of the server fail; when the handler returns or the    *)
(* server dies, the client receives what is left and then an error.        *)
(*                                                                         *)
(*   toProxy     ChaincodeWrapperMessages on their way to the proxy        *)
(*   toWrapper   ChaincodeProxyMessages on their way to the wrapper        *)
(*   client      "none" before the call, then "open", then "gone"          *)
(*   server      "open" until the handler has returned, then "gone"        *)
(***************************************************************************)
EXTENDS ChaincodeTypes, Sequences

VARIABLES toProxy, toWrapper, client, server

streamVars == <<toProxy, toWrapper, client, server>>

(***************************************************************************)
(* The oneof messages of invocation.proto.                                 *)
(***************************************************************************)
InvocationRequest(image, args) == [type |-> "InvocationRequest", image |-> image, args |-> args]
GetStateResponse(v)            == [type |-> "GetStateResponse", value |-> v]
PutStateResponse               == [type |-> "PutStateResponse"]

InvocationResponse(r) == [type |-> INVOCATION_RESPONSE, resp |-> r]
GetStateRequest(k)    == [type |-> GET_STATE_REQUEST, key |-> k]
PutStateRequest(k, v) == [type |-> PUT_STATE_REQUEST, key |-> k, value |-> v]

StreamInit ==
    /\ toProxy   = [i \in Caller |-> <<>>]
    /\ toWrapper = [i \in Caller |-> <<>>]
    /\ client    = [i \in Caller |-> "none"]
    /\ server    = [i \in Caller |-> "open"]

\* The client starts the call with its first message.
ClientCalls(i, m) ==
    /\ client'  = [client EXCEPT ![i] = "open"]
    /\ toProxy' = [toProxy EXCEPT ![i] = Append(@, m)]
    /\ UNCHANGED <<toWrapper, server>>

\* The client receives the next message and answers it with m.
ClientAnswers(i, m) ==
    /\ toWrapper' = [toWrapper EXCEPT ![i] = Tail(@)]
    /\ toProxy'   = [toProxy EXCEPT ![i] = Append(@, m)]
    /\ UNCHANGED <<client, server>>

\* The client returns: the deferred cancel and Close end the call.
ClientEnds(i) ==
    /\ client' = [client EXCEPT ![i] = "gone"]
    /\ UNCHANGED <<toProxy, toWrapper, server>>

ServerReads(i) ==
    /\ toProxy' = [toProxy EXCEPT ![i] = Tail(@)]
    /\ UNCHANGED <<toWrapper, client, server>>

ServerWrites(i, m) ==
    /\ toWrapper' = [toWrapper EXCEPT ![i] = Append(@, m)]
    /\ UNCHANGED <<toProxy, client, server>>

\* The handlers of the set H have returned or died.
ServerEnds(H) ==
    /\ server' = [i \in Caller |-> IF i \in H THEN "gone" ELSE server[i]]
    /\ UNCHANGED <<toProxy, toWrapper, client>>
=============================================================================
