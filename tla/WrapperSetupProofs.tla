------------------------- MODULE WrapperSetupProofs -------------------------
(***************************************************************************)
(* The proof that the unlocked assignment of t.Uuid does no harm to the    *)
(* invocations once a setup has returned, for any number of goroutines and *)
(* any arguments of setup.                                                 *)
(***************************************************************************)
EXTENDS WrapperSetup, TLAPS

Half == {"ptr", "len"}

AnySlice == [ptr : Input \union {None}, len : Nat]

Call == [pc : {"idle", "setup", "sent"}, in : Input \union {None}, sent : AnySlice]

TypeInv ==
    /\ uuid \in AnySlice
    /\ call \in [Caller -> Call]
    /\ todo \in [Caller -> SUBSET Half]
    /\ since \subseteq Input /\ stored \in BOOLEAN

\* Only a setup begun since the start has words left to write.
SetupInv ==
    \A i \in Caller : /\ todo[i] # {} => call[i].pc = "setup"
                      /\ call[i].pc = "setup" => call[i].in \in since

\* The word of the slice was written since the start.
Fresh(word) ==
    IF word = "ptr" THEN uuid.ptr \in since
                    ELSE \E in \in since : uuid.len = Decoded[in]

\* A word that some setup has written stays written, if not by that setup.
StoredInv ==
    /\ \A i \in Caller : call[i].pc = "setup" => \A word \in Half \ todo[i] : Fresh(word)
    /\ stored => \A word \in Half : Fresh(word)

IInv == TypeInv /\ SetupInv /\ StoredInv

-----------------------------------------------------------------------------
\* What is decoded from an argument is a slice.
LEMMA SliceType ==
    ASSUME NEW in \in Input
    PROVE  /\ Slice(in) \in AnySlice
           /\ Slice(in)["ptr"] = in /\ Slice(in)["len"] = Decoded[in]
  BY InputAssumption DEF Slice, AnySlice

\* A goroutine that does nothing, and the slice that holds nothing.
LEMMA IdleType == Idle \in Call /\ Idle.pc = "idle" /\ Nil \in AnySlice
  BY DEF Idle, Call, Nil, AnySlice

\* Before the first setup nothing is stored and nothing is under way.
LEMMA InitOK == Init => IInv
  <1> SUFFICES ASSUME Init PROVE IInv
    OBVIOUS
  <1>1. \A i \in Caller : call[i].pc = "idle" /\ todo[i] = {}
    BY IdleType DEF Init
  <1>2. TypeInv
    BY IdleType DEF Init, TypeInv
  <1> QED BY <1>1, <1>2 DEF Init, IInv, SetupInv, StoredInv

\* A setup that begins has everything to write, and no word gets stale.
LEMMA SetupOK ==
    ASSUME IInv, NEW i \in Caller, NEW in \in Input, Setup(i, in)
    PROVE  IInv'
  <1>1. /\ uuid' = uuid /\ stored' = stored /\ since' = since \union {in}
        /\ call' = [call EXCEPT ![i] = [Idle EXCEPT !.pc = "setup", !.in = in]]
        /\ todo' = [todo EXCEPT ![i] = Half]
    BY DEF Setup, Half
  <1>2. TypeInv'
    BY <1>1 DEF IInv, TypeInv, Call, AnySlice, Idle, Nil
  <1>3. /\ call'[i].pc = "setup" /\ call'[i].in = in /\ todo'[i] = Half
        /\ \A j \in Caller \ {i} : call'[j] = call[j] /\ todo'[j] = todo[j]
    BY <1>1 DEF IInv, TypeInv, Idle
  <1>4. SetupInv'
    BY <1>1, <1>3 DEF IInv, SetupInv
  <1>5. \A word \in Half : Fresh(word) => Fresh(word)'
    BY <1>1 DEF Fresh
  <1>6. StoredInv'
    BY <1>1, <1>3, <1>5 DEF IInv, StoredInv
  <1> QED BY <1>2, <1>4, <1>6 DEF IInv

\* A write makes its own word fresh and leaves the other alone.
LEMMA StoreOK ==
    ASSUME IInv, NEW i \in Caller, NEW word \in Half, Store(i, word)
    PROVE  IInv'
  <1>1. /\ call' = call /\ since' = since /\ stored' = stored /\ word \in todo[i]
        /\ uuid' = [uuid EXCEPT ![word] = Slice(call[i].in)[word]]
        /\ todo' = [todo EXCEPT ![i] = @ \ {word}]
    BY DEF Store
  <1>2. call[i].pc = "setup" /\ call[i].in \in since /\ call[i].in \in Input
    BY <1>1 DEF IInv, SetupInv, TypeInv
  <1>3. Slice(call[i].in)["ptr"] = call[i].in /\ Slice(call[i].in)["len"] = Decoded[call[i].in]
    BY <1>2, SliceType
  <1>4. /\ uuid' \in AnySlice
        /\ word = "ptr" => uuid'.ptr = call[i].in /\ uuid'.len = uuid.len
        /\ word = "len" => uuid'.ptr = uuid.ptr /\ uuid'.len = Decoded[call[i].in]
    BY <1>1, <1>2, <1>3, InputAssumption DEF IInv, TypeInv, AnySlice, Half
  <1>5. TypeInv'
    BY <1>1, <1>4 DEF IInv, TypeInv
  <1>6. SetupInv'
    BY <1>1 DEF IInv, SetupInv, TypeInv
  <1>7. Fresh(word)' /\ \A w \in Half : Fresh(w) => Fresh(w)'
    BY <1>1, <1>2, <1>4 DEF Fresh, Half
  <1>8. StoredInv'
    BY <1>1, <1>7 DEF IInv, TypeInv, StoredInv
  <1> QED BY <1>5, <1>6, <1>8 DEF IInv

\* A setup that returns has written both words.
LEMMA ReturnsOK ==
    ASSUME IInv, NEW i \in Caller, SetupReturns(i)
    PROVE  IInv'
  <1>1. /\ call' = [call EXCEPT ![i] = Idle] /\ call[i].pc = "setup" /\ todo[i] = {}
        /\ stored' = TRUE /\ UNCHANGED <<uuid, todo, since>>
    BY DEF SetupReturns
  <1>2. \A word \in Half : Fresh(word)
    BY <1>1 DEF IInv, StoredInv
  <1>3. Idle \in Call /\ Idle.pc = "idle"
    BY IdleType
  <1>4. TypeInv' /\ SetupInv'
    BY <1>1, <1>3 DEF IInv, TypeInv, SetupInv
  <1>5. StoredInv'
    BY <1>1, <1>2 DEF StoredInv, Fresh
  <1> QED BY <1>4, <1>5 DEF IInv

\* An invocation changes nothing but its own call.
LEMMA InvokeOK ==
    ASSUME IInv, NEW i \in Caller, InvokeSends(i) \/ InvokeReturns(i)
    PROVE  IInv'
  <1>1. PICK c \in Call : call' = [call EXCEPT ![i] = c] /\ c.pc # "setup"
    <2>1. CASE InvokeSends(i)
      <3> DEFINE s == IF uuid.len = 0 THEN Nil ELSE uuid
                 c == [Idle EXCEPT !.pc = "sent", !.sent = s]
      <3>1. s \in AnySlice
        BY IdleType DEF IInv, TypeInv
      <3>2. call' = [call EXCEPT ![i] = c]
        BY <2>1 DEF InvokeSends
      <3> HIDE DEF s
      <3>3. c \in Call /\ c.pc # "setup"
        BY <3>1 DEF Call, Idle
      <3> QED BY <3>2, <3>3
    <2>2. CASE InvokeReturns(i)
      BY <2>2, IdleType DEF InvokeReturns
    <2> QED BY <2>1, <2>2
  <1>2. UNCHANGED <<uuid, todo, since, stored>> /\ call[i].pc # "setup"
    BY DEF InvokeSends, InvokeReturns, Idle
  <1>3. todo[i] = {}
    BY <1>2 DEF IInv, SetupInv
  <1>4. TypeInv' /\ SetupInv'
    BY <1>1, <1>2, <1>3 DEF IInv, TypeInv, SetupInv
  <1>5. StoredInv'
    BY <1>1, <1>2 DEF IInv, TypeInv, StoredInv, Fresh
  <1> QED BY <1>4, <1>5 DEF IInv

\* A restart, or a panic, begins anew.
LEMMA RestartOK == IInv /\ Restart => IInv'
  <1> SUFFICES ASSUME IInv, Restart PROVE IInv'
    OBVIOUS
  <1>1. \A i \in Caller : call'[i].pc = "idle" /\ todo'[i] = {}
    BY IdleType DEF Restart
  <1>2. TypeInv'
    BY IdleType DEF Restart, TypeInv
  <1> QED BY <1>1, <1>2 DEF Restart, IInv, SetupInv, StoredInv

\* Every step keeps the inductive invariant.
LEMMA Inductive == IInv /\ [Next]_vars => IInv'
  <1> SUFFICES ASSUME IInv, [Next]_vars PROVE IInv'
    OBVIOUS
  <1>1. ASSUME NEW i \in Caller, NEW in \in Input, Setup(i, in) PROVE IInv'
    BY <1>1, SetupOK
  <1>2. ASSUME NEW i \in Caller, NEW word \in {"ptr", "len"}, Store(i, word) PROVE IInv'
    BY <1>2, StoreOK DEF Half
  <1>3. ASSUME NEW i \in Caller, SetupReturns(i) PROVE IInv'
    BY <1>3, ReturnsOK
  <1>4. ASSUME NEW i \in Caller, InvokeSends(i) \/ InvokeReturns(i) PROVE IInv'
    BY <1>4, InvokeOK
  <1>5. ASSUME NEW i \in Caller, InvokePanics(i) \/ Restart PROVE IInv'
    BY <1>5, RestartOK DEF InvokePanics
  <1>6. CASE Restart
    BY <1>6, RestartOK
  <1>7. ASSUME UNCHANGED vars PROVE IInv'
    BY <1>7 DEF vars, IInv, TypeInv, SetupInv, StoredInv, Fresh
  <1> QED BY <1>1, <1>2, <1>3, <1>4, <1>5, <1>6, <1>7 DEF Next, SetupRefuses

(***************************************************************************)
(* Once a setup has returned, no interleaving of setups, invocations and   *)
(* restarts makes an invocation panic, and setups of equal length leave    *)
(* one of their arguments whole: see SliceUsable.                          *)
(***************************************************************************)
THEOREM SliceStaysUsable == Spec => []SliceUsable
  <1>1. IInv => SliceUsable
    <2> SUFFICES ASSUME IInv, stored
                 PROVE  ~Torn(uuid) /\ (SameLength => uuid \in {Slice(in) : in \in since})
      BY DEF SliceUsable
    <2>1. uuid.ptr \in since /\ \E in \in since : uuid.len = Decoded[in]
      <3>1. Fresh("ptr") /\ Fresh("len")
        BY DEF IInv, StoredInv, Half
      <3> QED BY <3>1 DEF Fresh
    <2>2. ~Torn(uuid)
      BY <2>1, InputAssumption DEF IInv, TypeInv, Torn
    <2>3. ASSUME SameLength PROVE uuid = Slice(uuid.ptr)
      <3>1. uuid.len = Decoded[uuid.ptr]
        BY <2>1, <2>3 DEF SameLength
      <3> QED BY <3>1 DEF IInv, TypeInv, AnySlice, Slice
    <2> QED BY <2>1, <2>2, <2>3
  <1> QED BY <1>1, InitOK, Inductive, PTL DEF Spec
=============================================================================
