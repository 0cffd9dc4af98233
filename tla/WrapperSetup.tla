---------------------------- MODULE WrapperSetup ----------------------------
(***************************************************************************)
(* The stored Uuid of the ChaincodeWrapper (chaincode.go): Init, the       *)
(* dispatch of Invoke, setup, and the part of invoke that has to do with   *)
(* the Uuid.  The rest of invoke is ChaincodeWrapper's.  What is sent goes *)
(* no further: the proxy opens its sessions for TA_WAMR_UUID and does not  *)
(* read chaincode_uuid (set_uuid, main.cpp:147, has no caller).            *)
(*                                                                         *)
(* The shim runs every transaction in a goroutine of its own, all on the   *)
(* same ChaincodeWrapper t.  t.Uuid is a slice, a pointer and a length,    *)
(* which setup assigns without a lock; the order in which the two words    *)
(* reach the other goroutines is open.  It lives in memory only.           *)
(*                                                                         *)
(*   uuid       t.Uuid: the array ptr (named by the setup argument it was  *)
(*              decoded from) and the length                               *)
(*   call       for each goroutine, what it does: in is the argument of    *)
(*              its setup, sent the slice in the request of its invoke     *)
(*   todo       the words of the slice its setup has still to write        *)
(*   accepted   history: the arguments setup has decoded without an error  *)
(*   since      history: the arguments of the setups begun since the       *)
(*              process was started                                        *)
(*   stored     history: one of these setups has returned                  *)
(***************************************************************************)
EXTENDS Integers, FiniteSets

CONSTANTS
    Caller,         \* the goroutines
    Input,          \* the arguments of setup: hexadecimal texts
    Decoded,        \* how many bytes of an argument can be decoded
    Valid,          \* those that decode without an error
    MaxCalls        \* how many transactions the peer runs at once

None == "none"

ASSUME InputAssumption == None \notin Input /\ \A in \in Input : Decoded[in] \in Nat

Nil  == [ptr |-> None, len |-> 0]

Slice(in) == [ptr |-> in, len |-> Decoded[in]]

VARIABLES uuid, call, todo, accepted, since, stored

vars == <<uuid, call, todo, accepted, since, stored>>

Idle == [pc |-> "idle", in |-> None, sent |-> Nil]

Busy == {i \in Caller : call[i].pc # "idle"}

\* A length without an array: reading such a slice is a panic.
Torn(u) == u.len > 0 /\ u.ptr = None

\* Init of the chaincode stores nothing.
Init ==
    /\ uuid = Nil
    /\ call = [i \in Caller |-> Idle]
    /\ todo = [i \in Caller |-> {}]
    /\ accepted = {} /\ since = {} /\ stored = FALSE

-----------------------------------------------------------------------------
\* setup with another number of arguments than one: an error, at once.
SetupRefuses(i) ==
    /\ call[i] = Idle /\ Cardinality(Busy) < MaxCalls
    /\ UNCHANGED vars

\* setup decodes its argument.  From here on the slice is being replaced,
\* whether or not the decoder has reported an error.
Setup(i, in) ==
    /\ call[i] = Idle /\ Cardinality(Busy) < MaxCalls
    /\ call' = [call EXCEPT ![i] = [Idle EXCEPT !.pc = "setup", !.in = in]]
    /\ todo' = [todo EXCEPT ![i] = {"ptr", "len"}]
    /\ accepted' = IF in \in Valid THEN accepted \union {in} ELSE accepted
    /\ since' = since \union {in}
    /\ UNCHANGED <<uuid, stored>>

\* Mutant: setup sets t.Uuid to nil when the argument does not decode.
StoreNilOnError(i, word) ==
    /\ word \in todo[i]
    /\ uuid' = [uuid EXCEPT ![word] = IF call[i].in \in Valid THEN Slice(call[i].in)[word]
                                                             ELSE Nil[word]]
    /\ todo' = [todo EXCEPT ![i] = @ \ {word}]
    /\ UNCHANGED <<call, accepted, since, stored>>

Store(i, word) ==
    /\ word \in todo[i]
    /\ uuid' = [uuid EXCEPT ![word] = Slice(call[i].in)[word]]
    /\ todo' = [todo EXCEPT ![i] = @ \ {word}]
    /\ UNCHANGED <<call, accepted, since, stored>>

\* setup returns shim.Success, or shim.Error with the bytes left in place.
SetupReturns(i) ==
    /\ call[i].pc = "setup" /\ todo[i] = {}
    /\ call' = [call EXCEPT ![i] = Idle]
    /\ stored' = TRUE
    /\ UNCHANGED <<uuid, todo, accepted, since>>

\* invoke reads t.Uuid and sends the bytes in the InvocationRequest.
InvokeSends(i) ==
    /\ call[i] = Idle /\ Cardinality(Busy) < MaxCalls
    /\ ~Torn(uuid)
    /\ call' = [call EXCEPT ![i] = [Idle EXCEPT !.pc = "sent",
                                                !.sent = IF uuid.len = 0 THEN Nil ELSE uuid]]
    /\ UNCHANGED <<uuid, todo, accepted, since, stored>>

\* invoke returns, with the response or an error.
InvokeReturns(i) ==
    /\ call[i].pc = "sent"
    /\ call' = [call EXCEPT ![i] = Idle]
    /\ UNCHANGED <<uuid, todo, accepted, since, stored>>

\* The process of the chaincode ends and is started again by the peer.
Restart ==
    /\ uuid' = Nil
    /\ call' = [i \in Caller |-> Idle]
    /\ todo' = [i \in Caller |-> {}]
    /\ since' = {} /\ stored' = FALSE
    /\ UNCHANGED accepted

\* The panic ends the process.
InvokePanics(i) ==
    /\ call[i] = Idle /\ Cardinality(Busy) < MaxCalls
    /\ Torn(uuid)
    /\ Restart

Next ==
    \/ \E i \in Caller :
           \/ SetupRefuses(i) \/ SetupReturns(i)
           \/ InvokeSends(i) \/ InvokePanics(i) \/ InvokeReturns(i)
           \/ \E in \in Input : Setup(i, in)
           \/ \E word \in {"ptr", "len"} : Store(i, word)
    \/ Restart

Spec == Init /\ [][Next]_vars

-----------------------------------------------------------------------------
SameLength == \A in1, in2 \in since : Decoded[in1] = Decoded[in2]

(***************************************************************************)
(* What the word by word assignment of t.Uuid can do to an invocation.     *)
(* Once some setup has returned since the process was started, no order of *)
(* the writes of any setups, refused ones included, makes invoke panic on  *)
(* a length without an array.  And if all of these setups decode to the    *)
(* same number of bytes, as uuids do, a slice that is half one setup's and *)
(* half another's is harmless: it is all of one argument.                  *)
(***************************************************************************)
SliceUsable ==
    stored => /\ ~Torn(uuid)
              /\ SameLength => uuid \in {Slice(in) : in \in since}

(***************************************************************************)
(* "stores uuid used by chaincode_proxy" (chaincode.go:28): what an        *)
(* invocation sends is a uuid that setup has accepted, all of it, or       *)
(* nothing if there was none since the process was started.                *)
(***************************************************************************)
SentWasAccepted ==
    \A i \in Caller : call[i].sent \in {Nil} \union {Slice(in) : in \in accepted}
=============================================================================
