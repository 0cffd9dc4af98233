-------------------------- MODULE ChaincodeWrapper --------------------------
(***************************************************************************)
(* The normal-world chaincode of chaincode.go, and the part of Fabric that *)
(* its stub stands for.  Each invocation is one call of Invoke by a peer,  *)
(* on a connection of its own.                                             *)
(*                                                                         *)
(*   wpc       "idle", "recv" (in the loop of invoke), "success", "error"  *)
(*   req       the module file and arguments of the transaction            *)
(*   result    the payload of shim.Success                                 *)
(*                                                                         *)
(* Fabric (external).  A call simulates the transaction: GetState reads    *)
(* the committed ledger and never the transaction's own writes, PutState   *)
(* only collects them.  A transaction whose call succeeded is committed    *)
(* later if nothing it has read was overwritten meanwhile (MVCC), else it  *)
(* is invalidated; one whose call failed leaves no trace.                  *)
(*                                                                         *)
(*   ledger    the committed value of each key, Empty if absent            *)
(*   rset      the keys the simulation has read                            *)
(*   wset      the value it writes to each key, or NoWrite                 *)
(*   stale     whether a key of rset was overwritten since it was read     *)
(*   fate      "open", "committed", "invalid"                              *)
(***************************************************************************)
EXTENDS GrpcStream

CONSTANT Request        \* the transactions clients submit

NoWrite == -3

VARIABLES wpc, req, result, ledger, rset, wset, stale, fate

fabricVars  == <<ledger, rset, wset, stale, fate>>
wrapperVars == <<wpc, req, result, ledger, rset, wset, stale, fate>>

ZeroReq == [image |-> "none", args |-> ZeroArgs]

WrapperInit ==
    /\ wpc    = [i \in Caller |-> "idle"]
    /\ req    = [i \in Caller |-> ZeroReq]
    /\ result = [i \in Caller |-> Say("")]
    /\ ledger = [k \in Key |-> Empty]
    /\ rset   = [i \in Caller |-> {}]
    /\ wset   = [i \in Caller |-> [k \in Key |-> NoWrite]]
    /\ stale  = [i \in Caller |-> FALSE]
    /\ fate   = [i \in Caller |-> "open"]

-----------------------------------------------------------------------------
(***************************************************************************)
(* invoke: dial, open the stream, send the InvocationRequest.              *)
(***************************************************************************)
Invoke(i, r) ==
    /\ wpc[i] = "idle"
    /\ wpc' = [wpc EXCEPT ![i] = "recv"]
    /\ req' = [req EXCEPT ![i] = r]
    /\ ClientCalls(i, InvocationRequest(r.image, r.args))
    /\ UNCHANGED <<result, ledger, rset, wset, stale, fate>>

\* shim.Error: the call ends, and with it the stream.
ReturnError(i) ==
    /\ wpc' = [wpc EXCEPT ![i] = "error"]
    /\ ClientEnds(i)
    /\ UNCHANGED <<req, result>>

\* Too few arguments, or the call cannot be started.
InvokeFails(i) ==
    /\ wpc[i] = "idle"
    /\ ReturnError(i)
    /\ UNCHANGED fabricVars

Receives(i, type) ==
    /\ wpc[i] = "recv" /\ toWrapper[i] # <<>>
    /\ Head(toWrapper[i]).type = type

RecvInvocationResponse(i) ==
    /\ Receives(i, INVOCATION_RESPONSE)
    /\ wpc'    = [wpc EXCEPT ![i] = "success"]
    /\ result' = [result EXCEPT ![i] = Head(toWrapper[i]).resp]
    /\ ClientEnds(i)
    /\ UNCHANGED <<req, ledger, rset, wset, stale, fate>>

\* A nil value is sent as the empty string.
StubGetState(k) == IF k \in Key THEN ledger[k] ELSE Empty

RecvGetStateRequest(i) ==
    LET k == Head(toWrapper[i]).key
    IN  /\ Receives(i, GET_STATE_REQUEST)
        /\ rset' = [rset EXCEPT ![i] = @ \union ({k} \intersect Key)]
        /\ ClientAnswers(i, GetStateResponse(StubGetState(k)))
        /\ UNCHANGED <<wpc, req, result, ledger, wset, stale, fate>>

\* Mutant: the acknowledgement is wrapped in the other oneof case.
AcknowledgeAsGet(i) ==
    LET m == Head(toWrapper[i])
    IN  /\ Receives(i, PUT_STATE_REQUEST)
        /\ m.key \in Key
        /\ wset' = [wset EXCEPT ![i][m.key] = m.value]
        /\ ClientAnswers(i, GetStateResponse(m.value))
        /\ UNCHANGED <<wpc, req, result, ledger, rset, stale, fate>>

\* Mutant: the write is not acknowledged.
PutWithoutAnswer(i) ==
    LET m == Head(toWrapper[i])
    IN  /\ Receives(i, PUT_STATE_REQUEST)
        /\ m.key \in Key
        /\ wset' = [wset EXCEPT ![i][m.key] = m.value]
        /\ toWrapper' = [toWrapper EXCEPT ![i] = Tail(@)]
        /\ UNCHANGED <<wpc, req, result, ledger, rset, stale, fate, toProxy, client, server>>

\* Fabric's PutState refuses the empty key.
RecvPutStateRequest(i) ==
    LET m == Head(toWrapper[i])
    IN  /\ Receives(i, PUT_STATE_REQUEST)
        /\ m.key \in Key
        /\ wset' = [wset EXCEPT ![i][m.key] = m.value]
        /\ ClientAnswers(i, PutStateResponse)
        /\ UNCHANGED <<wpc, req, result, ledger, rset, stale, fate>>

\* GetState or PutState returns an error.
StubFails(i) ==
    /\ Receives(i, GET_STATE_REQUEST) \/ Receives(i, PUT_STATE_REQUEST)
    /\ ReturnError(i)
    /\ UNCHANGED fabricVars

\* Recv fails: the handler has returned, or the connection is lost.
RecvFails(i) ==
    /\ wpc[i] = "recv" /\ toWrapper[i] = <<>> /\ server[i] = "gone"
    /\ ReturnError(i)
    /\ UNCHANGED fabricVars

\* The ten minutes of the context are over: Recv or Send fails.
DeadlineExpires(i) ==
    /\ wpc[i] = "recv"
    /\ ReturnError(i)
    /\ UNCHANGED fabricVars

-----------------------------------------------------------------------------
(***************************************************************************)
(* Fabric orders and validates the endorsed transactions one by one.       *)
(***************************************************************************)
Written(i) == {k \in Key : wset[i][k] # NoWrite}

Commit(i) ==
    /\ wpc[i] = "success" /\ fate[i] = "open" /\ ~stale[i]
    /\ fate'   = [fate EXCEPT ![i] = "committed"]
    /\ ledger' = [k \in Key |-> IF k \in Written(i) THEN wset[i][k] ELSE ledger[k]]
    /\ stale'  = [j \in Caller |-> stale[j] \/ (j # i /\ rset[j] \intersect Written(i) # {})]
    /\ UNCHANGED <<wpc, req, result, rset, wset>>
    /\ UNCHANGED streamVars

Invalidate(i) ==
    /\ wpc[i] = "success" /\ fate[i] = "open" /\ stale[i]
    /\ fate' = [fate EXCEPT ![i] = "invalid"]
    /\ UNCHANGED <<wpc, req, result, ledger, rset, wset, stale>>
    /\ UNCHANGED streamVars

\* The loop of invoke.
RecvNext(i) ==
    \/ RecvInvocationResponse(i)
    \/ RecvGetStateRequest(i)
    \/ RecvPutStateRequest(i)
    \/ StubFails(i)
    \/ RecvFails(i)
=============================================================================
