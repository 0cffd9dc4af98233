---------------------------- MODULE CoffeeLedger ----------------------------
(***************************************************************************)
(* What the system promises its clients: transactions on a ledger of       *)
(* numbers, each of which takes effect in one step, with the answer that   *)
(* belongs to it, or not at all.                                           *)
(*                                                                         *)
(*   ledger    the value of each key, Empty if it has none                 *)
(*   req       what invocation i asks for (image "none": nothing yet)      *)
(*   outcome   its answer once it has taken effect, Aborted if it never    *)
(*             will, Open before                                           *)
(***************************************************************************)
EXTENDS ChaincodeTypes

CONSTANT Request

VARIABLES ledger, req, outcome

vars == <<ledger, req, outcome>>

Open    == Say("")
Aborted == Say("ABORTED")
NoReq   == [image |-> "none", args |-> ZeroArgs]

Init ==
    /\ ledger  = [k \in Key |-> Empty]
    /\ req     = [i \in Caller |-> NoReq]
    /\ outcome = [i \in Caller |-> Open]

Submit(i, r) ==
    /\ req[i] = NoReq /\ outcome[i] = Open
    /\ req' = [req EXCEPT ![i] = r]
    /\ UNCHANGED <<ledger, outcome>>

Abort(i) ==
    /\ outcome[i] = Open
    /\ outcome' = [outcome EXCEPT ![i] = Aborted]
    /\ UNCHANGED <<ledger, req>>

-----------------------------------------------------------------------------
(***************************************************************************)
(* The operations: the answer and the ledger afterwards.  Every one of     *)
(* them may answer RUNTIME_ERROR instead, and then it is open whether it   *)
(* has taken effect: the TA reports a guest that fails after its write in  *)
(* the same way as one that fails before.                                  *)
(***************************************************************************)
Number(v) == IF v >= 0 THEN v ELSE 0

Balance(a)   == IF a.key \in Key THEN ledger[a.key] ELSE Empty
Becomes(a,v) == ledger' = [ledger EXCEPT ![a.key] = v]
Same         == ledger' = ledger

Answers(i, resp) ==
    /\ outcome[i] = Open
    /\ \E said \in {resp, Say("RUNTIME_ERROR")} : outcome' = [outcome EXCEPT ![i] = said]
    /\ UNCHANGED req

Create(i) ==
    LET a == req[i].args
    IN  /\ a.fn = "create"
        /\ \/ a.key \in Key /\ Balance(a) = Empty /\ Answers(i, Say("OK")) /\ Becomes(a, a.val)
           \/ a.key \in Key /\ Balance(a) # Empty /\ Answers(i, Say("EXIST")) /\ Same
           \/ a.key = EmptyKey /\ Answers(i, Say("NO_RESPONSE")) /\ Same

Add(i) ==
    LET a == req[i].args
    IN  /\ a.fn = "add"
        /\ \/ /\ Balance(a) # Empty
              /\ Answers(i, Say("OK"))
              /\ Becomes(a, (Number(Balance(a)) + Number(a.val)) % Modulus)
           \/ Balance(a) = Empty /\ Answers(i, Say("EMPTY")) /\ Same

Query(i) ==
    LET a == req[i].args
    IN  /\ a.fn = "query"
        /\ Answers(i, IF Balance(a) = Empty THEN Say("NOTFOUND") ELSE SayValue(Balance(a)))
        /\ Same

Unknown(i) ==
    req[i].args.fn \in {"other", ""} /\ Answers(i, Say("ERROR")) /\ Same

\* The guest failed before it wrote.
Fails(i) == req[i].image = "coffee" /\ Answers(i, Say("RUNTIME_ERROR")) /\ Same

\* Modules other than the coffee chaincode.
Foreign(i) ==
    \/ req[i].image = "blank" /\ Answers(i, Say("EMPTY_RESPONSE")) /\ Same
    \/ req[i].image = "oob"   /\ Answers(i, Say("NO_RESPONSE")) /\ Same

Next ==
    \E i \in Caller :
        \/ \E r \in Request : Submit(i, r)
        \/ Abort(i)
        \/ req[i].image = "coffee" /\ (Create(i) \/ Add(i) \/ Query(i) \/ Unknown(i))
        \/ Fails(i)
        \/ Foreign(i)

Spec == Init /\ [][Next]_vars
=============================================================================
